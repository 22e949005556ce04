----------------------------- MODULE NodesProofs -----------------------------
(***************************************************************************)
(* Proofs about the calls of the node packs, for any tables that satisfy   *)
(* TableAssumption, any number of items, pages and crashes: what NodeCall  *)
(* promises about a call follows from how its operation is written down,   *)
(* whatever the service answers and wherever the server crashes.           *)
(* Then the list and the file nodes: which items they keep, for any list,  *)
(* and which tables survive being written and read back.                   *)
(***************************************************************************)
EXTENDS Nodes, Selection, Induction, FiniteSetTheorems, SequenceTheorems, TLAPS

(* Nothing but local work and requests.                                    *)
LEMMA Kinds == Local \cap Sends = {} /\ Writes \subseteq Sends /\ "none" \notin Local \cup Sends
  BY DEF Local, Sends, Writes

LEMMA TriesRange == ASSUME NEW via PROVE Tries(via) \in 1 .. 4
  BY DEF Tries

(* A plan is a sequence of steps, at least one, and its loop begins at one *)
(* of them.                                                                *)
LEMMA PlanFacts ==
    ASSUME NEW p \in Plans
    PROVE  /\ Len(p.steps) \in Nat \ {0} /\ DOMAIN p.steps = 1 .. Len(p.steps)
           /\ p.loop \in 0 .. Len(p.steps)
           /\ \A s \in DOMAIN p.steps : p.steps[s].do \in Local \cup Sends
                                        /\ p.steps[s].body \in BOOLEAN
  <1>1. p.steps \in Seq(StepRecord) /\ p.steps # <<>> /\ p.loop \in 0 .. Len(p.steps)
    BY NodeCallAssumption
  <1>2. Len(p.steps) \in Nat \ {0} /\ DOMAIN p.steps = 1 .. Len(p.steps)
    BY <1>1
  <1>3. \A s \in DOMAIN p.steps : p.steps[s] \in StepRecord
    BY <1>1
  <1> QED
    BY <1>1, <1>2, <1>3 DEF StepRecord

-----------------------------------------------------------------------------
(* Types, and where in its plan a call is.  A second item is only begun in *)
(* a loop; an attempt beyond the last one is not made.                     *)
Placed ==
    /\ plan \in Plans
    /\ plan.loop = 0 => items = 1
    /\ item > 1 => plan.loop \in 1 .. pc
    /\ try < Tries(Via) /\ sent <= try + 1
    /\ outcome \in {"running", "hung"} => sent <= try

Typed == TypeOK /\ Placed

LEMMA TypedInit == Init => Typed
  <1> SUFFICES ASSUME Init PROVE Typed
    OBVIOUS
  <1>1. plan \in Plans /\ pc = 1 /\ item = 1 /\ page = 1 /\ try = 0 /\ sent = 0
    BY DEF Init
  <1>2. /\ Len(Steps) \in Nat \ {0} /\ DOMAIN Steps = 1 .. Len(Steps)
        /\ plan.loop \in 0 .. Len(Steps)
    BY <1>1, PlanFacts DEF Steps
  <1>3. items \in 1 .. MaxItems /\ (plan.loop = 0 => items = 1)
    BY NodeCallAssumption DEF Init
  <1>4. Placed
    BY <1>1, <1>2, <1>3, TriesRange DEF Placed, Init
  <1>5. count \in [DOMAIN Steps -> Nat]
    BY DEF Init
  <1>6. filled \in BOOLEAN /\ spent \in BOOLEAN /\ wrote \in BOOLEAN /\ whole \in BOOLEAN
    BY DEF Init
  <1>7. unsure \in Nat /\ crashes \in 0 .. MaxCrashes /\ page \in 1 .. MaxPages
    BY <1>1, NodeCallAssumption DEF Init
  <1>8. outcome = "running" /\ why = "none" /\ strayed = {}
    BY DEF Init
  <1> QED
    BY <1>1, <1>2, <1>3, <1>4, <1>5, <1>6, <1>7, <1>8 DEF Typed, TypeOK

(* What a step of the plan that is taken changes: the place in the plan,   *)
(* or the outcome at its end.                                              *)
LEMMA AdvanceMoves ==
    ASSUME Typed, outcome = "running", Advance
    PROVE  /\ UNCHANGED <<plan, filled, items, why, crashes>>
           /\ page' = 1 /\ try' = 0 /\ sent' = 0 /\ spent' = FALSE
           /\ pc' \in DOMAIN Steps /\ item' \in 1 .. items /\ outcome' \in {"running", "ok"}
           /\ \/ pc' = pc + 1 /\ item' = item /\ outcome' = "running"
              \/ /\ pc = Len(Steps) /\ item < items
                 /\ pc' = plan.loop /\ item' = item + 1 /\ outcome' = "running"
              \/ pc = Len(Steps) /\ item = items /\ pc' = pc /\ item' = item /\ outcome' = "ok"
  <1>1. /\ Len(Steps) \in Nat \ {0} /\ DOMAIN Steps = 1 .. Len(Steps)
        /\ plan.loop \in 0 .. Len(Steps)
    BY PlanFacts DEF Steps, Typed, Placed
  <1>2. items \in Nat /\ item \in 1 .. items /\ pc \in 1 .. Len(Steps) /\ (plan.loop = 0 => items = 1)
    BY <1>1 DEF Typed, TypeOK, Placed
  <1>3. /\ UNCHANGED <<plan, filled, items, why, crashes>>
        /\ page' = 1 /\ try' = 0 /\ sent' = 0 /\ spent' = FALSE
    BY DEF Advance, givenVars
  <1>4. CASE pc < Len(Steps) /\ pc' = pc + 1 /\ item' = item /\ outcome' = outcome
    <2>1. pc' \in DOMAIN Steps /\ item' \in 1 .. items /\ outcome' = "running"
      BY <1>1, <1>2, <1>4
    <2> QED
      BY <1>3, <1>4, <2>1
  <1>5. CASE pc = Len(Steps) /\ item < items /\ pc' = plan.loop /\ item' = item + 1
             /\ outcome' = outcome
    <2>1. pc' \in DOMAIN Steps /\ item' \in 1 .. items /\ outcome' = "running"
      BY <1>1, <1>2, <1>5
    <2> QED
      BY <1>3, <1>5, <2>1
  <1>6. CASE pc = Len(Steps) /\ item = items /\ outcome' = "ok" /\ pc' = pc /\ item' = item
    <2>1. pc' \in DOMAIN Steps /\ item' \in 1 .. items
      BY <1>1, <1>2, <1>6
    <2> QED
      BY <1>3, <1>6, <2>1
  <1> QED
    BY <1>4, <1>5, <1>6 DEF Advance

(* Advance keeps the types of what it writes.                              *)
LEMMA AdvanceTyped ==
    ASSUME Typed, outcome = "running", Advance,
           wrote' \in BOOLEAN, whole' \in BOOLEAN, count' \in [DOMAIN Steps -> Nat],
           unsure' \in Nat, strayed' \subseteq Sends
    PROVE  Typed'
  <1>1. /\ UNCHANGED <<plan, filled, items, why, crashes>>
        /\ page' = 1 /\ try' = 0 /\ sent' = 0 /\ spent' = FALSE
        /\ pc' \in DOMAIN Steps /\ item' \in 1 .. items /\ outcome' \in {"running", "ok"}
    BY AdvanceMoves
  <1>2. TypeOK'
    <2>1. Steps' = Steps /\ 0 \in 0 .. 3 /\ 0 \in 0 .. 4 /\ 1 \in 1 .. MaxPages
      BY <1>1, NodeCallAssumption DEF Steps
    <2> QED
      BY <1>1, <2>1 DEF Typed, TypeOK
  <1>3. item' > 1 => plan.loop \in 1 .. pc'
    <2>1. pc \in Nat /\ item \in Nat /\ plan.loop \in 0 .. Len(Steps) /\ Len(Steps) \in Nat
          /\ DOMAIN Steps = 1 .. Len(Steps) /\ items \in Nat /\ pc \in 1 .. Len(Steps)
          /\ (plan.loop = 0 => items = 1)
      BY PlanFacts DEF Typed, TypeOK, Placed, Steps
    <2>2. item > 1 => plan.loop \in 1 .. pc
      BY DEF Typed, Placed
    <2>3. CASE pc' = pc + 1 /\ item' = item
      BY <2>1, <2>2, <2>3
    <2>4. CASE item < items /\ pc' = plan.loop
      BY <1>1, <2>1, <2>4
    <2>5. CASE pc' = pc /\ item' = item
      BY <1>1, <2>2, <2>5
    <2> QED
      BY <2>3, <2>4, <2>5, AdvanceMoves
  <1>4. 0 < Tries(Via)
    BY TriesRange
  <1> QED
    BY <1>1, <1>2, <1>3, <1>4 DEF Typed, Placed, Via

(* What the service and the history keep of an attempt has its type.       *)
LEMMA NoteTyped ==
    ASSUME Typed, Here.do \in Sends, NEW a, Note(a)
    PROVE  count' \in [DOMAIN Steps -> Nat] /\ unsure' \in Nat /\ strayed' \subseteq Sends
  <1>1. count \in [DOMAIN Steps -> Nat] /\ unsure \in Nat /\ strayed \subseteq Sends
    BY DEF Typed, TypeOK
  <1>2. count' = count \/ count' = [count EXCEPT ![pc] = @ + 1]
    BY DEF Note
  <1>3. unsure' = unsure \/ unsure' = unsure + 1
    BY DEF Note
  <1>4. strayed' = strayed \/ strayed' = strayed \cup {Here.do}
    BY DEF Note
  <1> QED
    BY <1>1, <1>2, <1>3, <1>4

(* The plan is never exchanged, and a step is always of a known kind.      *)
LEMMA HereFacts ==
    ASSUME Typed
    PROVE  /\ Len(Steps) \in Nat \ {0} /\ DOMAIN Steps = 1 .. Len(Steps) /\ pc \in 1 .. Len(Steps)
           /\ plan.loop \in 0 .. Len(Steps)
           /\ Here = Steps[pc] /\ Here.do \in Local \cup Sends /\ Here.body \in BOOLEAN
           /\ items \in Nat /\ item \in 1 .. items /\ (plan.loop = 0 => items = 1)
           /\ try \in Nat /\ sent \in Nat
  BY PlanFacts DEF Typed, TypeOK, Placed, Steps, Here

LEMMA NeedTyped == ASSUME Typed, Need PROVE Typed'
  <1>1. outcome = "running" /\ UNCHANGED <<wrote, count, unsure, whole, strayed>>
    BY DEF Need
  <1>2. wrote \in BOOLEAN /\ whole \in BOOLEAN /\ count \in [DOMAIN Steps -> Nat] /\ unsure \in Nat
        /\ strayed \subseteq Sends
    BY DEF Typed, TypeOK
  <1>3. CASE Advance
    BY <1>1, <1>2, <1>3, AdvanceTyped
  <1>4. CASE Fail
    BY <1>1, <1>2, <1>4, HereFacts
       DEF Fail, givenVars, requestVars, Typed, TypeOK, Placed, Steps, Via
  <1> QED
    BY <1>3, <1>4 DEF Need

LEMMA LocalTyped == ASSUME Typed, LocalStep PROVE Typed'
  <1>1. outcome = "running" /\ UNCHANGED <<wrote, count, unsure, whole, strayed>>
    BY DEF LocalStep
  <1>2. wrote \in BOOLEAN /\ whole \in BOOLEAN /\ count \in [DOMAIN Steps -> Nat] /\ unsure \in Nat
        /\ strayed \subseteq Sends
    BY DEF Typed, TypeOK
  <1>3. CASE Advance
    BY <1>1, <1>2, <1>3, AdvanceTyped
  <1>4. CASE Fail
    BY <1>1, <1>2, <1>4, HereFacts
       DEF Fail, givenVars, requestVars, Typed, TypeOK, Placed, Steps, Via
  <1> QED
    BY <1>3, <1>4 DEF LocalStep

LEMMA AttemptTyped == ASSUME Typed, NEW a, Attempt(a) PROVE Typed'
  <1> USE DEF givenVars, requestVars
  <1>1. /\ outcome = "running" /\ Here.do \in Sends
        /\ count' \in [DOMAIN Steps -> Nat] /\ unsure' \in Nat /\ strayed' \subseteq Sends
    BY NoteTyped DEF Attempt
  <1>2. wrote \in BOOLEAN /\ whole \in BOOLEAN
    BY DEF Typed, TypeOK
  <1>3. CASE MorePages(a)
    <2>1. page' \in 1 .. MaxPages /\ 0 \in 0 .. 3 /\ 0 \in 0 .. 4
      BY <1>3, NodeCallAssumption DEF MorePages, Typed, TypeOK
    <2>2. 0 < Tries(Via)
      BY TriesRange
    <2>3. UNCHANGED <<plan, filled, items, pc, item, whole, wrote, outcome, why, crashes>>
          /\ try' = 0 /\ spent' = FALSE /\ sent' = 0 /\ Steps' = Steps /\ Via' = Via
      BY <1>3 DEF MorePages, Steps, Via
    <2>4. TypeOK'
      BY <1>1, <2>1, <2>3 DEF Typed, TypeOK
    <2> QED
      BY <1>1, <2>2, <2>3, <2>4 DEF Typed, Placed
  <1>4. CASE Accept(a)
    <2>1. wrote' \in BOOLEAN
      BY <1>2, <1>4, Zenon DEF Accept
    <2>2. whole' \in BOOLEAN
      BY <1>2, <1>4, Zenon DEF Accept
    <2>3. Advance
      BY <1>4 DEF Accept
    <2> QED
      BY <1>1, <2>1, <2>2, <2>3, AdvanceTyped
  <1>5. CASE Resend(a)
    <2>1. try' = try + 1 /\ try' < Tries(Via) /\ (sent' = sent \/ sent' = sent + 1)
      BY <1>5 DEF Resend, Retried
    <2>2. try' \in 0 .. 3 /\ sent' \in 0 .. 4 /\ sent' <= try'
      <3>1. sent <= try /\ Tries(Via) \in 1 .. 4 /\ try \in Nat /\ sent \in Nat
        BY <1>1, HereFacts, TriesRange DEF Typed, Placed
      <3> QED
        BY <2>1, <3>1
    <2>3. spent' \in BOOLEAN
      BY <1>5 DEF Resend, Typed, TypeOK
    <2> QED
      BY <1>1, <1>5, <2>1, <2>2, <2>3, HereFacts DEF Resend, Typed, TypeOK, Placed, Steps, Via
  <1>6. CASE GiveUp(a)
    <2>1. try' = try /\ (sent' = sent \/ sent' = sent + 1)
      BY <1>6 DEF GiveUp
    <2>2. sent' \in 0 .. 4 /\ sent' <= try' + 1
      <3>1. sent <= try /\ try < Tries(Via) /\ Tries(Via) \in 1 .. 4 /\ try \in Nat /\ sent \in Nat
        BY <1>1, HereFacts, TriesRange DEF Typed, Placed
      <3> QED
        BY <2>1, <3>1
    <2>3. outcome' \in {"ok", "error"} /\ (why' = why \/ why' = Here.do)
      BY <1>6 DEF GiveUp
    <2> QED
      BY <1>1, <1>6, <2>2, <2>3, HereFacts DEF GiveUp, Typed, TypeOK, Placed, Steps, Via
  <1>7. CASE Hang(a)
    BY <1>1, <1>7 DEF Hang, Typed, TypeOK, Placed, Steps, Via
  <1> QED
    BY <1>3, <1>4, <1>5, <1>6, <1>7 DEF Attempt

LEMMA CrashTyped == ASSUME Typed, Crash PROVE Typed'
  <1>1. UNCHANGED <<plan, filled, items, count, unsure, why, strayed>>
    BY DEF Crash, givenVars
  <1>2. /\ pc' = 1 /\ item' = 1 /\ page' = 1 /\ try' = 0 /\ spent' = FALSE /\ sent' = 0
        /\ wrote' = FALSE /\ whole' = TRUE /\ outcome' = "running"
        /\ crashes' = crashes + 1 /\ crashes < MaxCrashes
    BY DEF Crash
  <1>3. /\ 1 \in DOMAIN Steps /\ 1 \in 1 .. items /\ 1 \in 1 .. MaxPages /\ 0 < Tries(Via)
        /\ crashes' \in 0 .. MaxCrashes
    BY <1>2, HereFacts, TriesRange, NodeCallAssumption DEF Typed, TypeOK
  <1>4. Steps' = Steps /\ Via' = Via
    BY <1>1 DEF Steps, Via
  <1>5. TypeOK'
    <2>1. pc' \in DOMAIN Steps' /\ item' \in 1 .. items' /\ page' \in 1 .. MaxPages
      BY <1>1, <1>2, <1>3, <1>4
    <2>3. try' \in 0 .. 3 /\ sent' \in 0 .. 4
      BY <1>2
    <2>4. spent' \in BOOLEAN 
      BY <1>2
    <2>2. wrote' \in BOOLEAN /\ whole' \in BOOLEAN /\ outcome' \in {"running", "ok", "error", "hung"}
      BY <1>2
    <2> QED
      BY <1>1, <1>3, <1>4, <2>1, <2>2, <2>3, <2>4 DEF Typed, TypeOK
  <1> QED
    BY <1>1, <1>2, <1>3, <1>4, <1>5 DEF Typed, Placed

LEMMA TypedNext == ASSUME Typed, [Next]_vars PROVE Typed'
  <1>1. CASE Need
    BY <1>1, NeedTyped
  <1>2. CASE LocalStep
    BY <1>2, LocalTyped
  <1>3. CASE Send
    BY <1>3, AttemptTyped DEF Send
  <1>4. CASE Crash
    BY <1>4, CrashTyped
  <1>5. CASE UNCHANGED vars
    BY <1>5 DEF vars, Typed, TypeOK, Placed, Steps, Via
  <1> QED
    BY <1>1, <1>2, <1>3, <1>4, <1>5 DEF Next, Work

-----------------------------------------------------------------------------
(* How often this execution has taken step s.                              *)
Done(s) == (IF InLoop(plan, s) THEN item - 1 ELSE 0) + (IF pc > s THEN 1 ELSE 0)

(* Each write that was passed has been applied, if the operation looks at  *)
(* its failures.                                                           *)
AppliedSoFar ==
    ~In(Careless) => \A s \in DOMAIN Steps : IsWrite(plan, s) =>
        /\ outcome = "running" => count[s] >= Done(s)
        /\ outcome = "ok" => count[s] >= Rounds(s)

(* A write was applied for every time this execution took it, once a round *)
(* before each crash, and for the attempts whose fate is not known.        *)
RepeatedSoFar ==
    \A s \in DOMAIN Steps : IsWrite(plan, s) =>
        count[s] <= crashes * Rounds(s) + unsure
                      + (IF outcome \in {"running", "hung"} THEN Done(s) ELSE Rounds(s))

(* Behind a write that was accepted.                                       *)
Behind ==
    \E t \in DOMAIN Steps : IsWrite(plan, t) /\ (t < pc \/ (InLoop(plan, t) /\ item > 1))

CheckedFirst == (outcome = "running" /\ wrote => Behind) /\ ChecksComeFirst

(* What the steps so far have asked for is known to be there.              *)
AskedSoFar ==
    outcome = "running" =>
        \A t \in 1 .. (pc - 1) : Steps[t].do = "need" => Steps[t].of \subseteq asked

AsksFirst == FormFitsCode /\ AskedSoFar /\ ChangesNameTheirTarget

(* Every attempt carries the request whose body can be read again.         *)
CarriedSoFar ==
    /\ outcome = "running" /\ Rewinds => sent = try
    /\ outcome = "error" /\ why \in Sends /\ Rewinds => sent = try + 1

(* The answers taken so far were whole.                                    *)
WholeSoFar == In(Strict) /\ outcome \in {"running", "ok"} => whole

(* Only a call without a deadline waits for ever.                          *)
HangsOnlyEndless == outcome = "hung" => In(Endless)

CallInv ==
    /\ Typed /\ AppliedSoFar /\ RepeatedSoFar /\ CheckedFirst /\ AsksFirst /\ CarriedSoFar
    /\ WholeSoFar /\ HangsOnlyEndless

-----------------------------------------------------------------------------
(* What the tables say about this operation.                               *)
LEMMA TableFacts ==
    ASSUME Typed
    PROVE  /\ ~In(Careless) => Careful(plan)
           /\ ~In(LateCheck) => ChecksEarly(plan)
           /\ ~In(Unusable) => FormComplete(plan)
           /\ ~In(Unaimed) => Aimed(plan)
           /\ In(Strict) => Exact(plan)
           /\ ~In(Endless) => Deadlined(plan)
  BY TableAssumption DEF Typed, Placed, In

(* What an attempt adds to the history: the write here, when the service   *)
(* applied it, and a doubt, when the code cannot know.                     *)
LEMMA NoteCounts ==
    ASSUME Typed, NEW a, Note(a), NEW s \in DOMAIN Steps, IsWrite(plan, s)
    PROVE  /\ count[s] \in Nat /\ count'[s] \in Nat /\ unsure \in Nat /\ unsure' \in Nat
           /\ count'[s] >= count[s] /\ unsure' >= unsure
           /\ s # pc => count'[s] = count[s]
           /\ a \notin Applying => count'[s] = count[s]
           /\ s = pc /\ a \in Applying => count'[s] = count[s] + 1
           /\ s = pc /\ a \in Unknown => unsure' = unsure + 1
  <1>1. count \in [DOMAIN Steps -> Nat] /\ unsure \in Nat /\ pc \in DOMAIN Steps /\ Here = Steps[pc]
    BY DEF Typed, TypeOK, Here
  <1>2. count[s] \in Nat
    BY <1>1
  <1>3. unsure' \in Nat /\ unsure' >= unsure
    BY <1>1 DEF Note
  <1>4. s = pc => Here.do \in Writes
    BY <1>1 DEF IsWrite, Steps
  <1>5. count' = IF a \in Applying /\ Here.do \in Writes THEN [count EXCEPT ![pc] = @ + 1] ELSE count
    BY DEF Note
  <1>6. s = pc /\ a \in Unknown => unsure' = unsure + 1
    BY <1>4 DEF Note
  <1>7. CASE s = pc /\ a \in Applying
    <2>1. count'[s] = count[s] + 1
      BY <1>1, <1>4, <1>5, <1>7
    <2> QED
      BY <1>1, <1>2, <1>3, <1>6, <1>7, <2>1
  <1>8. CASE ~(s = pc /\ a \in Applying)
    <2>1. count'[s] = count[s]
      BY <1>1, <1>5, <1>8
    <2> QED
      BY <1>1, <1>2, <1>3, <1>6, <1>8, <2>1
  <1> QED
    BY <1>7, <1>8

LEMMA DoneRange ==
    ASSUME Typed, NEW s \in DOMAIN Steps
    PROVE  /\ Done(s) \in Nat /\ Rounds(s) \in Nat \ {0} /\ Done(s) <= Rounds(s)
  <1>1. /\ items \in Nat /\ item \in 1 .. items /\ pc \in Nat
        /\ s \in Nat /\ plan.loop \in Nat /\ item > 1 => plan.loop \in 1 .. pc
    BY HereFacts DEF Typed, TypeOK, Placed
  <1>2. CASE plan.loop \in 1 .. s
    BY <1>1, <1>2 DEF Done, Rounds, InLoop
  <1>3. CASE plan.loop \notin 1 .. s
    BY <1>1, <1>3 DEF Done, Rounds, InLoop
  <1> QED
    BY <1>2, <1>3

(* Going on takes the step that was here, and no other.                    *)
LEMMA AdvanceDone ==
    ASSUME Typed, outcome = "running", Advance, NEW s \in DOMAIN Steps
    PROVE  /\ outcome' = "running" => Done(s)' = Done(s) + (IF s = pc THEN 1 ELSE 0)
           /\ outcome' = "ok" => Rounds(s) = Done(s) + (IF s = pc THEN 1 ELSE 0)
           /\ Rounds(s)' = Rounds(s)
  <1>1. /\ items \in Nat /\ item \in 1 .. items /\ pc \in 1 .. Len(Steps) /\ Len(Steps) \in Nat \ {0}
        /\ s \in 1 .. Len(Steps) /\ plan.loop \in 0 .. Len(Steps)
        /\ (plan.loop = 0 => items = 1)
    BY HereFacts
  <1>2. UNCHANGED <<plan, items>>
    BY AdvanceMoves
  <1>3. Rounds(s)' = Rounds(s)
    BY <1>2 DEF Rounds
  <1>4. CASE pc' = pc + 1 /\ item' = item /\ outcome' = "running"
    <2>1. InLoop(plan, s)' = InLoop(plan, s)
      BY <1>2 DEF InLoop
    <2>2. Done(s)' = Done(s) + (IF s = pc THEN 1 ELSE 0)
      <3>1. CASE InLoop(plan, s)
        BY <1>1, <1>4, <2>1, <3>1 DEF Done
      <3>2. CASE ~InLoop(plan, s)
        BY <1>1, <1>4, <2>1, <3>2 DEF Done
      <3> QED
        BY <3>1, <3>2
    <2> QED
      BY <1>3, <1>4, <2>2
  <1>5. CASE pc = Len(Steps) /\ item < items /\ pc' = plan.loop /\ item' = item + 1
             /\ outcome' = "running"
    <2>1. plan.loop \in 1 .. Len(Steps)
      BY <1>1, <1>5
    <2>2. CASE plan.loop \in 1 .. s
      BY <1>1, <1>2, <1>3, <1>5, <2>1, <2>2 DEF Done, InLoop
    <2>3. CASE plan.loop \notin 1 .. s
      BY <1>1, <1>2, <1>3, <1>5, <2>1, <2>3 DEF Done, InLoop
    <2> QED
      BY <2>2, <2>3
  <1>6. CASE pc = Len(Steps) /\ item = items /\ outcome' = "ok"
    <2>1. CASE plan.loop \in 1 .. s
      BY <1>1, <1>3, <1>6, <2>1 DEF Done, Rounds, InLoop
    <2>2. CASE plan.loop \notin 1 .. s
      <3>1. items = 1 \/ s < Len(Steps)
        BY <1>1, <2>2
      <3> QED
        BY <1>1, <1>3, <1>6, <2>2, <3>1 DEF Done, Rounds, InLoop
    <2> QED
      BY <2>1, <2>2
  <1> QED
    BY <1>4, <1>5, <1>6, AdvanceMoves

(* Where the place does not change, nothing has been taken.                *)
LEMMA SameDone ==
    ASSUME Typed, UNCHANGED <<plan, items, pc, item>>, NEW s \in DOMAIN Steps
    PROVE  Done(s)' = Done(s) /\ Rounds(s)' = Rounds(s)
  BY DEF Done, Rounds, InLoop

(* After a crash nothing has.                                              *)
LEMMA CrashDone ==
    ASSUME Typed, Crash, NEW s \in DOMAIN Steps
    PROVE  Done(s)' = 0 /\ Rounds(s)' = Rounds(s)
  <1>1. s \in Nat /\ s >= 1 /\ pc' = 1 /\ item' = 1 /\ UNCHANGED <<plan, items>>
    BY HereFacts DEF Crash, givenVars
  <1> QED
    BY <1>1 DEF Done, Rounds, InLoop

(* Neither a check nor local work applies a write.                         *)
LEMMA LocalCounts ==
    ASSUME Typed, Need \/ LocalStep
    PROVE  /\ outcome = "running" /\ Here.do \in Local /\ UNCHANGED <<count, unsure, wrote, whole>>
           /\ Advance \/ Fail
           /\ \A s \in DOMAIN Steps : IsWrite(plan, s) => s # pc
  <1>1. Here.do \in Local
    BY DEF Need, LocalStep, Local
  <1>2. \A s \in DOMAIN Steps : IsWrite(plan, s) => s # pc
    BY <1>1, Kinds DEF IsWrite, Here, Steps
  <1> QED
    BY <1>1, <1>2 DEF Need, LocalStep

LEMMA SamePlan == ASSUME UNCHANGED plan PROVE Steps' = Steps /\ Via' = Via
  BY DEF Steps, Via

LEMMA PlanStays == ASSUME Typed, Next PROVE UNCHANGED <<plan, filled, items>>
  BY AdvanceMoves DEF Next, Work, Need, LocalStep, Send, Attempt, Crash, Fail, MorePages, Accept,
     Resend, GiveUp, Hang, givenVars

(* A success has taken every write, and each of them was applied.          *)
LEMMA AppliedNext == ASSUME Typed, AppliedSoFar, [Next]_vars PROVE AppliedSoFar'
  <1>1. CASE UNCHANGED vars
    BY <1>1 DEF vars, AppliedSoFar, In, Named, IsWrite, Done, Rounds, InLoop, Steps
  <1>2. SUFFICES ASSUME Next, ~In(Careless), NEW s \in DOMAIN Steps, IsWrite(plan, s)
                 PROVE  /\ outcome' = "running" => count'[s] >= Done(s)'
                        /\ outcome' = "ok" => count'[s] >= Rounds(s)'
    <2>1. CASE Next
      BY <1>2, <2>1, PlanStays, SamePlan DEF AppliedSoFar, In, IsWrite
    <2> QED
      BY <1>1, <2>1
  <1>3. /\ outcome = "running" => count[s] >= Done(s)
        /\ Done(s) \in Nat /\ Rounds(s) \in Nat /\ count[s] \in Nat
    BY <1>2, DoneRange DEF AppliedSoFar, Typed, TypeOK
  <1>4. Careful(plan)
    BY <1>2, TableFacts
  <1>5. CASE Need \/ LocalStep
    <2>1. /\ outcome = "running" /\ count' = count /\ s # pc /\ (Advance \/ Fail)
      BY <1>2, <1>5, LocalCounts
    <2>2. CASE Advance
      BY <1>2, <1>3, <2>1, <2>2, AdvanceDone
    <2>3. CASE Fail
      BY <2>3 DEF Fail
    <2> QED
      BY <2>1, <2>2, <2>3
  <1>6. ASSUME NEW a, Attempt(a)
        PROVE  /\ outcome' = "running" => count'[s] >= Done(s)'
               /\ outcome' = "ok" => count'[s] >= Rounds(s)'
    <2>1. outcome = "running" /\ Note(a) /\ Here.do \in Sends
      BY <1>6 DEF Attempt
    <2>2. count'[s] \in Nat /\ count'[s] >= count[s]
          /\ (s = pc /\ a \in Applying => count'[s] = count[s] + 1)
      BY <1>2, <2>1, NoteCounts
    <2>3. CASE MorePages(a) \/ Resend(a)
      <3>1. UNCHANGED <<plan, items, pc, item, outcome>>
        BY <2>3 DEF MorePages, Resend, givenVars
      <3> QED
        BY <1>2, <1>3, <2>1, <2>2, <3>1, SameDone
    <2>4. CASE Accept(a)
      <3>1. Advance /\ Taken(a)
        BY <2>4 DEF Accept
      <3>2. s = pc => a \in Applying
        <4>1. CASE s = pc
          <5>1. Here.lax \cap {"status", "error"} = {}
            BY <1>2, <1>4, <4>1 DEF Careful, Here, Steps
          <5> QED
            BY <3>1, <5>1 DEF Taken, Applying
        <4> QED
          BY <4>1
      <3> QED
        BY <1>2, <1>3, <2>1, <2>2, <3>1, <3>2, AdvanceDone, AdvanceMoves
    <2>5. CASE GiveUp(a)
      <3>1. "quits" \notin Here.lax
        BY <1>2, <1>4, HereFacts DEF Careful, Steps
      <3> QED
        BY <2>5, <3>1 DEF GiveUp
    <2>6. CASE Hang(a)
      BY <2>6 DEF Hang
    <2> QED
      BY <1>6, <2>3, <2>4, <2>5, <2>6 DEF Attempt
  <1>7. CASE Crash
    <2>1. outcome' = "running" /\ count' = count
      BY <1>7 DEF Crash
    <2>2. Done(s)' = 0
      BY <1>2, <1>7, CrashDone
    <2> QED
      BY <1>3, <2>1, <2>2
  <1> QED
    BY <1>2, <1>5, <1>6, <1>7 DEF Next, Work, Send

(* One round of writes for this execution, one for each crash before it.   *)
LEMMA RepeatedNext == ASSUME Typed, RepeatedSoFar, [Next]_vars PROVE RepeatedSoFar'
  <1> DEFINE Share(s) == IF outcome \in {"running", "hung"} THEN Done(s) ELSE Rounds(s)
  <1>1. CASE UNCHANGED vars
    BY <1>1 DEF vars, RepeatedSoFar, IsWrite, Done, Rounds, InLoop, Steps
  <1>2. SUFFICES ASSUME Next, NEW s \in DOMAIN Steps, IsWrite(plan, s)
                 PROVE  count'[s] <= crashes' * Rounds(s)' + unsure' + Share(s)'
    <2>1. CASE Next
      BY <1>2, <2>1, PlanStays, SamePlan DEF RepeatedSoFar, IsWrite
    <2> QED
      BY <1>1, <2>1
  <1> DEFINE c == crashes * Rounds(s)
  <1>3. /\ count[s] <= c + unsure + Share(s) /\ c \in Nat
        /\ Done(s) \in Nat /\ Rounds(s) \in Nat /\ Done(s) <= Rounds(s)
        /\ count[s] \in Nat /\ unsure \in Nat /\ crashes \in Nat
    <2>1. /\ Done(s) \in Nat /\ Rounds(s) \in Nat /\ Done(s) <= Rounds(s)
          /\ count[s] \in Nat /\ unsure \in Nat /\ crashes \in Nat
      BY <1>2, DoneRange DEF Typed, TypeOK
    <2>2. count[s] <= c + unsure + Share(s)
      BY <1>2 DEF RepeatedSoFar
    <2>3. c \in Nat
      BY <2>1
    <2> QED
      BY <2>1, <2>2, <2>3
  <1>4. CASE /\ crashes' = crashes /\ Rounds(s)' = Rounds(s)
             /\ count'[s] \in Nat /\ unsure' \in Nat /\ Share(s)' \in Nat
             /\ count'[s] - unsure' - Share(s)' <= count[s] - unsure - Share(s)
    <2>1. crashes' * Rounds(s)' = c
      BY <1>4
    <2>2. Share(s) \in Nat
      BY <1>3
    <2> HIDE DEF c, Share
    <2> QED
      BY <1>3, <1>4, <2>1, <2>2
  <1>5. CASE Need \/ LocalStep
    <2>1. /\ outcome = "running" /\ count' = count /\ unsure' = unsure /\ s # pc
          /\ (Advance \/ Fail)
      BY <1>2, <1>5, LocalCounts
    <2>2. CASE Advance
      <3>1. outcome' \in {"running", "ok"} /\ crashes' = crashes
        BY <2>1, <2>2, AdvanceMoves
      <3>2. Rounds(s)' = Rounds(s) /\ Share(s)' = Share(s)
        BY <1>2, <1>3, <2>1, <2>2, <3>1, AdvanceDone
      <3> QED
        BY <1>3, <1>4, <2>1, <3>1, <3>2
    <2>3. CASE Fail
      <3>1. outcome' = "error" /\ UNCHANGED <<plan, items, pc, item, crashes>>
        BY <2>3 DEF Fail, givenVars
      <3>2. Rounds(s)' = Rounds(s)
        BY <1>2, <3>1, SameDone
      <3> QED
        BY <1>3, <1>4, <2>1, <3>1, <3>2
    <2> QED
      BY <2>1, <2>2, <2>3
  <1>6. ASSUME NEW a, Attempt(a)
        PROVE  count'[s] <= crashes' * Rounds(s)' + unsure' + Share(s)'
    <2>1. outcome = "running" /\ Note(a) /\ Here.do \in Sends
      BY <1>6 DEF Attempt
    <2>2. /\ count'[s] \in Nat /\ unsure' \in Nat /\ unsure' >= unsure
          /\ s # pc => count'[s] = count[s]
          /\ a \notin Applying => count'[s] = count[s]
          /\ s = pc /\ a \in Applying => count'[s] = count[s] + 1
          /\ s = pc /\ a \in Unknown => unsure' = unsure + 1
      BY <1>2, <2>1, NoteCounts
    <2>3. s = pc => Here.do \in Writes /\ Here.do # "pages"
      BY <1>2 DEF IsWrite, Here, Steps, Writes
    <2>4. count'[s] <= count[s] + (IF s = pc THEN 1 ELSE 0)
      BY <1>3, <2>2
    <2>5. CASE MorePages(a)
      <3>1. s # pc /\ UNCHANGED <<plan, items, pc, item, outcome, crashes>>
        BY <2>3, <2>5 DEF MorePages, givenVars
      <3>2. Rounds(s)' = Rounds(s) /\ Done(s)' = Done(s)
        BY <1>2, <3>1, SameDone
      <3> QED
        BY <1>3, <1>4, <2>1, <2>2, <3>1, <3>2
    <2>6. CASE Resend(a)
      <3>1. UNCHANGED <<plan, items, pc, item, outcome, crashes>> /\ a \in Passing
        BY <2>6 DEF Resend, givenVars, Retried
      <3>2. Rounds(s)' = Rounds(s) /\ Done(s)' = Done(s)
        BY <1>2, <3>1, SameDone
      <3>3. a \in Unknown \/ a \notin Applying
        BY <3>1 DEF Passing, Applying, Unknown
      <3>4. count'[s] - unsure' <= count[s] - unsure
        BY <1>3, <2>2, <3>3
      <3> QED
        BY <1>3, <1>4, <2>1, <2>2, <3>1, <3>2, <3>4
    <2>7. CASE Accept(a)
      <3>1. Advance
        BY <2>7 DEF Accept
      <3>2. outcome' \in {"running", "ok"} /\ crashes' = crashes
        BY <2>1, <3>1, AdvanceMoves
      <3>3. Rounds(s)' = Rounds(s) /\ Share(s)' = Share(s) + (IF s = pc THEN 1 ELSE 0)
        BY <1>2, <1>3, <2>1, <3>1, <3>2, AdvanceDone
      <3> QED
        BY <1>3, <1>4, <2>1, <2>2, <2>4, <3>2, <3>3
    <2>8. CASE GiveUp(a)
      <3>1. outcome' \in {"ok", "error"} /\ UNCHANGED <<plan, items, pc, item, crashes>>
        BY <2>8 DEF GiveUp, givenVars
      <3>2. Rounds(s)' = Rounds(s)
        BY <1>2, <3>1, SameDone
      <3>3. s = pc => Done(s) + 1 <= Rounds(s)
        <4>1. items \in Nat /\ item \in 1 .. items /\ plan.loop \in Nat
              /\ (item > 1 => plan.loop \in 1 .. pc) /\ pc \in Nat
          BY HereFacts DEF Typed, Placed
        <4> QED
          BY <4>1 DEF Done, Rounds, InLoop
      <3> QED
        BY <1>3, <1>4, <2>1, <2>2, <2>4, <3>1, <3>2, <3>3
    <2>9. CASE Hang(a)
      <3>1. outcome' = "hung" /\ a \notin Applying /\ UNCHANGED <<plan, items, pc, item, crashes>>
        BY <2>9 DEF Hang, givenVars, Applying
      <3>2. Rounds(s)' = Rounds(s) /\ Done(s)' = Done(s)
        BY <1>2, <3>1, SameDone
      <3> QED
        BY <1>3, <1>4, <2>1, <2>2, <3>1, <3>2
    <2> QED
      BY <1>6, <2>5, <2>6, <2>7, <2>8, <2>9 DEF Attempt
  <1>7. CASE Crash
    <2>1. /\ Done(s)' = 0 /\ Rounds(s)' = Rounds(s) /\ outcome \in {"running", "hung"}
          /\ outcome' = "running" /\ crashes' = crashes + 1 /\ UNCHANGED <<count, unsure>>
      BY <1>2, <1>7, CrashDone DEF Crash
    <2>2. crashes' * Rounds(s)' = c + Rounds(s)
      BY <1>3, <2>1
    <2> HIDE DEF c
    <2> QED
      BY <1>3, <2>1, <2>2
  <1> QED
    BY <1>2, <1>5, <1>6, <1>7 DEF Next, Work, Send

-----------------------------------------------------------------------------
(* Going on leaves behind what was behind, and the step that was here.     *)
LEMMA AdvanceBehind ==
    ASSUME Typed, outcome = "running", Advance, outcome' = "running",
           Behind \/ IsWrite(plan, pc)
    PROVE  Behind'
  <1>1. /\ Len(Steps) \in Nat \ {0} /\ DOMAIN Steps = 1 .. Len(Steps) /\ pc \in 1 .. Len(Steps)
        /\ plan.loop \in 0 .. Len(Steps) /\ items \in Nat /\ item \in 1 .. items
        /\ (plan.loop = 0 => items = 1)
    BY HereFacts
  <1>2. PICK t \in DOMAIN Steps :
            IsWrite(plan, t) /\ (t <= pc \/ (InLoop(plan, t) /\ item > 1))
    BY <1>1 DEF Behind
  <1>3. t < pc' \/ (InLoop(plan, t) /\ item' > 1)
    <2>1. CASE pc' = pc + 1 /\ item' = item
      BY <1>1, <1>2, <2>1
    <2>2. CASE item < items /\ pc' = plan.loop /\ item' = item + 1
      BY <1>1, <1>2, <2>2 DEF InLoop
    <2> QED
      BY <2>1, <2>2, AdvanceMoves
  <1>4. plan' = plan /\ Steps' = Steps
    BY AdvanceMoves DEF Steps
  <1> QED
    BY <1>2, <1>3, <1>4 DEF Behind, IsWrite, InLoop

LEMMA CheckedNext == ASSUME Typed, CheckedFirst, [Next]_vars PROVE CheckedFirst'
  <1> USE DEF CheckedFirst, ChecksComeFirst
  <1>1. CASE UNCHANGED vars
    BY <1>1 DEF vars, In, Named, Behind, IsWrite, InLoop, Steps
  <1>2. CASE Need \/ LocalStep
    <2>1. outcome = "running" /\ wrote' = wrote /\ (Advance \/ Fail)
      BY <1>2, LocalCounts
    <2>2. CASE Advance
      <3>1. outcome' \in {"running", "ok"}
        BY <2>1, <2>2, AdvanceMoves
      <3> QED
        BY <2>1, <2>2, <3>1, AdvanceBehind
    <2>3. CASE Fail
      <3>1. outcome' = "error" /\ plan' = plan
        BY <2>3 DEF Fail, givenVars
      <3>2. ASSUME ~In(LateCheck), wrote PROVE Here.do \notin {"need", "cred", "parse"}
        <4>1. PICK t \in DOMAIN Steps :
                  IsWrite(plan, t) /\ (t < pc \/ (InLoop(plan, t) /\ item > 1))
          BY <2>1, <3>2 DEF Behind
        <4>2. pc \in DOMAIN plan.steps /\ t \in DOMAIN plan.steps /\ pc \in Nat /\ t \in Nat
              /\ (item > 1 => InLoop(plan, pc)) /\ Here = plan.steps[pc]
          BY HereFacts DEF Typed, Placed, InLoop, Steps
        <4>3. ChecksEarly(plan)
          BY <3>2, TableFacts
        <4>4. SUFFICES ASSUME plan.steps[pc].do \in {"need", "cred", "parse"} PROVE FALSE
          BY <4>2
        <4>5. pc < t /\ ~(InLoop(plan, pc) /\ InLoop(plan, t))
          BY <4>1, <4>2, <4>3, <4>4 DEF ChecksEarly
        <4> QED
          BY <4>1, <4>2, <4>5
      <3>3. Here.do \in {"need", "cred", "parse"} \/ (LocalStep /\ Advance)
        BY <1>2 DEF Need, LocalStep
      <3>4. CASE LocalStep /\ Advance
        BY <2>1, <3>1, <3>4, AdvanceMoves
      <3> QED
        BY <2>1, <3>1, <3>2, <3>3, <3>4 DEF In, Named
    <2> QED
      BY <2>1, <2>2, <2>3
  <1>3. ASSUME NEW a, Attempt(a) PROVE CheckedFirst'
    <2>1. outcome = "running" /\ Here.do \in Sends
      BY <1>3 DEF Attempt
    <2>2. CASE MorePages(a) \/ Resend(a)
      <3>1. outcome' = "running" /\ UNCHANGED <<plan, pc, item, wrote>>
        BY <2>1, <2>2 DEF MorePages, Resend, givenVars
      <3> QED
        BY <2>1, <3>1 DEF Behind, IsWrite, InLoop, Steps
    <2>3. CASE Accept(a)
      <3>1. Advance /\ (wrote' => wrote \/ Here.do \in Writes)
        BY <2>3 DEF Accept
      <3>2. outcome' \in {"running", "ok"}
        BY <2>1, <3>1, AdvanceMoves
      <3>3. Here.do \in Writes => IsWrite(plan, pc)
        BY DEF Here, Steps, IsWrite
      <3> QED
        BY <2>1, <3>1, <3>2, <3>3, AdvanceBehind
    <2>4. CASE GiveUp(a)
      <3>1. outcome' = "ok" \/ (outcome' = "error" /\ why' = Here.do)
        BY <2>4 DEF GiveUp
      <3> QED
        BY <2>1, <3>1, Kinds
    <2>5. CASE Hang(a)
      BY <2>5 DEF Hang
    <2> QED
      BY <1>3, <2>2, <2>3, <2>4, <2>5 DEF Attempt
  <1>4. CASE Crash
    BY <1>4 DEF Crash
  <1> QED
    BY <1>1, <1>2, <1>3, <1>4 DEF Next, Work, Send

-----------------------------------------------------------------------------
LEMMA Earlier ==
    \A p, q \in Nat : p <= q + 1 => \A t \in 1 .. (p - 1) : t \in 1 .. (q - 1) \/ t = q
  OBVIOUS

(* Going on keeps what has been asked for, if the parameters of the step   *)
(* that was here are among it.                                             *)
LEMMA AdvanceAsked ==
    ASSUME Typed, AskedSoFar, outcome = "running", Advance, asked \subseteq asked',
           Here.do = "need" => Here.of \subseteq asked'
    PROVE  AskedSoFar'
  <1>1. /\ Len(Steps) \in Nat \ {0} /\ pc \in 1 .. Len(Steps) /\ plan.loop \in 0 .. Len(Steps)
        /\ Here = Steps[pc]
    BY HereFacts
  <1>2. Steps' = Steps
    BY AdvanceMoves DEF Steps
  <1>3. pc' \in Nat /\ pc' <= pc + 1
    BY <1>1, AdvanceMoves
  <1>4. pc \in Nat
    BY <1>1
  <1>5. \A t \in 1 .. (pc' - 1) : t \in 1 .. (pc - 1) \/ t = pc
    BY <1>3, <1>4, Earlier
  <1>6. \A t \in 1 .. (pc - 1) : Steps[t].do = "need" => Steps[t].of \subseteq asked'
    BY DEF AskedSoFar
  <1> QED
    BY <1>1, <1>2, <1>5, <1>6 DEF AskedSoFar

(* A filled form leaves no hole in an address, and neither does a set or   *)
(* remove of an operation that asks for its target.                        *)
LEMMA NoHole ==
    ASSUME Typed, AskedSoFar, outcome = "running", Here.do \in Sends, NEW a, Note(a)
    PROVE  /\ filled /\ ~In(Unusable) => strayed' = strayed
           /\ ~In(Unaimed) => strayed' \cap {"set", "remove"} = strayed \cap {"set", "remove"}
  <1>1. pc \in DOMAIN plan.steps /\ Here = plan.steps[pc]
        /\ (strayed' = strayed \/ strayed' = strayed \cup {Here.do})
    BY HereFacts DEF Steps, Note
  <1>2. Here.of \subseteq asked => strayed' = strayed
    BY DEF Note, Holes
  <1>3. ASSUME filled, ~In(Unusable) PROVE strayed' = strayed
    <2>1. Here.of \subseteq plan.form
      BY <1>1, <1>3, TableFacts DEF FormComplete
    <2>2. Holes = {FALSE}
      BY <1>3, <2>1, Zenon DEF Holes
    <2> QED
      BY <2>2 DEF Note
  <1>4. ASSUME ~In(Unaimed), Here.do \in {"set", "remove"} PROVE strayed' = strayed
    <2>1. ASSUME NEW name \in Here.of PROVE name \in asked
      <3>1. PICK t \in 1 .. (pc - 1) : plan.steps[t].do = "need" /\ name \in plan.steps[t].of
        BY <1>1, <1>4, <2>1, TableFacts DEF Aimed
      <3> QED
        BY <3>1 DEF AskedSoFar, Steps
    <2> QED
      BY <1>2, <2>1
  <1>5. ASSUME ~In(Unaimed)
        PROVE  strayed' \cap {"set", "remove"} = strayed \cap {"set", "remove"}
    <2>1. CASE Here.do \in {"set", "remove"}
      BY <1>4, <1>5, <2>1
    <2>2. CASE Here.do \notin {"set", "remove"}
      BY <1>1, <2>2
    <2> QED
      BY <2>1, <2>2
  <1> QED
    BY <1>3, <1>5

LEMMA AsksNext == ASSUME Typed, AsksFirst, [Next]_vars PROVE AsksFirst'
  <1> USE DEF AsksFirst
  <1>1. CASE UNCHANGED vars
    BY <1>1 DEF vars, FormFitsCode, AskedSoFar, ChangesNameTheirTarget, In, Named, Steps
  <1>2. SUFFICES ASSUME Next PROVE AsksFirst'
    BY <1>1
  <1>3. UNCHANGED <<plan, filled>> /\ Steps' = Steps
        /\ \A list : In(list)' = In(list)
    BY <1>2, PlanStays DEF Steps, In, Named
  <1>4. CASE Need
    <2>1. outcome = "running" /\ Here.do = "need" /\ UNCHANGED strayed
      BY <1>4 DEF Need
    <2>2. CASE asked' = asked \cup Here.of /\ Advance
      <3>1. AskedSoFar' /\ why' = why
        BY <2>1, <2>2, AdvanceAsked, AdvanceMoves
      <3> QED
        BY <1>3, <2>1, <3>1 DEF FormFitsCode, ChangesNameTheirTarget, In
    <2>3. CASE ~(Here.of \subseteq plan.form /\ filled) /\ Fail
      <3>1. outcome' = "error"
        BY <2>3 DEF Fail
      <3>2. ~(filled /\ ~In(Unusable))
        <4>1. pc \in DOMAIN plan.steps /\ Here = plan.steps[pc]
          BY HereFacts DEF Steps
        <4> QED
          BY <2>1, <2>3, <4>1, TableFacts DEF FormComplete
      <3> QED
        BY <1>3, <2>1, <3>1, <3>2 DEF FormFitsCode, ChangesNameTheirTarget, AskedSoFar, In
    <2> QED
      BY <1>4, <2>2, <2>3 DEF Need
  <1>5. CASE LocalStep
    <2>1. outcome = "running" /\ Here.do # "need" /\ UNCHANGED <<strayed, asked>>
          /\ (Advance \/ Fail)
      BY <1>5 DEF LocalStep
    <2>2. CASE Advance
      <3>1. AskedSoFar' /\ why' = why
        BY <2>1, <2>2, AdvanceAsked, AdvanceMoves
      <3> QED
        BY <1>3, <2>1, <3>1 DEF FormFitsCode, ChangesNameTheirTarget, In
    <2>3. CASE Fail
      <3>1. outcome' = "error" /\ why' # "need"
        BY <2>1, <2>3 DEF Fail
      <3> QED
        BY <1>3, <2>1, <3>1 DEF FormFitsCode, ChangesNameTheirTarget, AskedSoFar, In
    <2> QED
      BY <2>1, <2>2, <2>3
  <1>6. ASSUME NEW a, Attempt(a) PROVE AsksFirst'
    <2>1. outcome = "running" /\ Here.do \in Sends /\ Note(a) /\ UNCHANGED asked
      BY <1>6 DEF Attempt
    <2>2. Here.do # "need"
      BY <2>1 DEF Sends, Writes
    <2>3. (filled /\ ~In(Unusable) => strayed' = strayed)
          /\ (~In(Unaimed) => strayed' \cap {"set", "remove"} = strayed \cap {"set", "remove"})
      BY <2>1, NoHole
    <2>4. ASSUME why' = why \/ why' = Here.do PROVE FormFitsCode' /\ ChangesNameTheirTarget'
      BY <1>3, <2>2, <2>3, <2>4 DEF FormFitsCode, ChangesNameTheirTarget, In
    <2>5. CASE MorePages(a) \/ Resend(a)
      <3>1. why' = why /\ UNCHANGED <<pc, outcome>>
        BY <2>5 DEF MorePages, Resend
      <3> QED
        BY <1>3, <2>1, <2>4, <3>1 DEF AskedSoFar
    <2>6. CASE Accept(a)
      <3>1. Advance
        BY <2>6 DEF Accept
      <3>2. AskedSoFar' /\ why' = why
        BY <2>1, <2>2, <3>1, AdvanceAsked, AdvanceMoves
      <3> QED
        BY <2>4, <3>2
    <2>7. CASE GiveUp(a) \/ Hang(a)
      <3>1. outcome' # "running" /\ (why' = why \/ why' = Here.do)
        BY <2>7 DEF GiveUp, Hang
      <3> QED
        BY <2>4, <3>1 DEF AskedSoFar
    <2> QED
      BY <1>6, <2>5, <2>6, <2>7 DEF Attempt
  <1>7. CASE Crash
    <2>1. pc' = 1 /\ UNCHANGED <<why, strayed>>
      BY <1>7 DEF Crash
    <2>2. AskedSoFar'
      BY <2>1 DEF AskedSoFar
    <2> QED
      BY <1>3, <2>1, <2>2 DEF FormFitsCode, ChangesNameTheirTarget, In
  <1> QED
    BY <1>2, <1>4, <1>5, <1>6, <1>7 DEF Next, Work, Send

-----------------------------------------------------------------------------
LEMMA CarriedNext == ASSUME Typed, CarriedSoFar, [Next]_vars PROVE CarriedSoFar'
  <1> USE DEF CarriedSoFar
  <1>1. CASE UNCHANGED vars
    BY <1>1 DEF vars, Rewinds, Via, Here, Steps
  <1>2. CASE Need \/ LocalStep
    <2>1. outcome = "running" /\ Here.do \in Local /\ (Advance \/ Fail)
      BY <1>2, LocalCounts
    <2>2. CASE Advance
      BY <2>1, <2>2, AdvanceMoves
    <2>3. CASE Fail
      BY <2>1, <2>3, Kinds DEF Fail
    <2> QED
      BY <2>1, <2>2, <2>3
  <1>3. ASSUME NEW a, Attempt(a) PROVE CarriedSoFar'
    <2>1. outcome = "running" /\ Here.do \in Sends
      BY <1>3 DEF Attempt
    <2>2. CASE MorePages(a)
      BY <2>1, <2>2 DEF MorePages
    <2>3. CASE Accept(a)
      BY <2>1, <2>3, AdvanceMoves DEF Accept
    <2>4. CASE Resend(a) \/ GiveUp(a)
      <3>1. Rewinds' = Rewinds /\ (Rewinds => sent' = sent + 1)
        <4>1. UNCHANGED <<plan, pc>> /\ (Carried => sent' = sent + 1)
          BY <2>4 DEF Resend, GiveUp, givenVars
        <4> QED
          BY <4>1 DEF Rewinds, Via, Here, Steps, Carried
      <3>2. \/ try' = try + 1 /\ outcome' = "running"
            \/ try' = try /\ outcome' # "running"
        BY <2>1, <2>4 DEF Resend, GiveUp
      <3> QED
        BY <2>1, <3>1, <3>2
    <2>5. CASE Hang(a)
      BY <2>5 DEF Hang
    <2> QED
      BY <1>3, <2>2, <2>3, <2>4, <2>5 DEF Attempt
  <1>4. CASE Crash
    BY <1>4 DEF Crash
  <1> QED
    BY <1>1, <1>2, <1>3, <1>4 DEF Next, Work, Send

LEMMA WholeNext == ASSUME Typed, WholeSoFar, [Next]_vars PROVE WholeSoFar'
  <1> USE DEF WholeSoFar
  <1>1. CASE UNCHANGED vars
    BY <1>1 DEF vars, In, Named
  <1>2. SUFFICES ASSUME Next, In(Strict), outcome' \in {"running", "ok"} PROVE whole'
    <2>1. CASE Next
      BY <1>2, <2>1, PlanStays DEF In
    <2> QED
      BY <1>1, <2>1
  <1>3. CASE Need \/ LocalStep
    BY <1>2, <1>3, LocalCounts
  <1>4. ASSUME NEW a, Attempt(a) PROVE whole'
    <2>1. outcome = "running" /\ Here.do \in Sends
      BY <1>4 DEF Attempt
    <2>2. whole
      BY <1>2, <2>1
    <2>3. Here.do # "pages" /\ Here.lax \cap {"body", "status", "error"} = {}
      BY <1>2, <2>1, TableFacts, HereFacts DEF Exact, Steps
    <2>4. CASE Accept(a)
      <3>1. a = "done"
        BY <2>3, <2>4 DEF Accept, Taken
      <3>2. PICK rest \in {FALSE} : whole' = (whole /\ a = "done" /\ ~rest)
        BY <2>3, <2>4 DEF Accept
      <3> QED
        BY <2>2, <3>1, <3>2
    <2>5. CASE MorePages(a) \/ Resend(a) \/ GiveUp(a) \/ Hang(a)
      BY <2>2, <2>5 DEF MorePages, Resend, GiveUp, Hang
    <2> QED
      BY <1>4, <2>4, <2>5 DEF Attempt
  <1>5. CASE Crash
    BY <1>5 DEF Crash
  <1> QED
    BY <1>2, <1>3, <1>4, <1>5 DEF Next, Work, Send

LEMMA HangNext == ASSUME Typed, HangsOnlyEndless, [Next]_vars PROVE HangsOnlyEndless'
  <1> USE DEF HangsOnlyEndless
  <1>1. CASE UNCHANGED vars
    BY <1>1 DEF vars, In, Named
  <1>2. SUFFICES ASSUME Next, outcome' = "hung" PROVE In(Endless)
    <2>1. CASE Next
      BY <1>2, <2>1, PlanStays DEF In
    <2> QED
      BY <1>1, <2>1
  <1>3. CASE Need \/ LocalStep
    BY <1>2, <1>3, LocalCounts, AdvanceMoves DEF Fail
  <1>4. ASSUME NEW a, Attempt(a) PROVE In(Endless)
    <2>1. outcome = "running" /\ a \in Answers
      BY <1>4 DEF Attempt
    <2>2. CASE Accept(a)
      BY <1>2, <2>1, <2>2, AdvanceMoves DEF Accept
    <2>3. CASE MorePages(a) \/ Resend(a) \/ GiveUp(a)
      BY <1>2, <2>1, <2>3 DEF MorePages, Resend, GiveUp
    <2>4. CASE Hang(a)
      <3>1. "endless" \in Here.lax
        BY <2>1, <2>4 DEF Hang, Answers, Silence, Unknown
      <3> QED
        BY <3>1, TableFacts, HereFacts DEF Deadlined, Steps
    <2> QED
      BY <1>4, <2>2, <2>3, <2>4 DEF Attempt
  <1>5. CASE Crash
    BY <1>2, <1>5 DEF Crash
  <1> QED
    BY <1>2, <1>3, <1>4, <1>5 DEF Next, Work, Send

-----------------------------------------------------------------------------
LEMMA CallInit == Init => CallInv
  <1> SUFFICES ASSUME Init PROVE CallInv
    OBVIOUS
  <1>1. Typed
    BY TypedInit
  <1>2. /\ pc = 1 /\ item = 1 /\ try = 0 /\ sent = 0 /\ wrote = FALSE /\ whole = TRUE
        /\ unsure = 0 /\ crashes = 0 /\ outcome = "running" /\ why = "none" /\ strayed = {}
        /\ count = [s \in DOMAIN Steps |-> 0]
    BY DEF Init
  <1>3. ASSUME NEW s \in DOMAIN Steps
        PROVE  count[s] = 0 /\ Done(s) = 0 /\ Rounds(s) \in Nat
    <2>1. s \in Nat /\ s >= 1
      BY <1>1, HereFacts
    <2> QED
      BY <1>1, <1>2, <2>1, DoneRange DEF Done
  <1>4. AppliedSoFar
    BY <1>2, <1>3 DEF AppliedSoFar
  <1>5. RepeatedSoFar
    BY <1>2, <1>3 DEF RepeatedSoFar
  <1>6. CheckedFirst /\ CarriedSoFar /\ WholeSoFar /\ HangsOnlyEndless
    BY <1>2 DEF CheckedFirst, ChecksComeFirst, CarriedSoFar, WholeSoFar, HangsOnlyEndless
  <1>7. AsksFirst
    BY <1>2 DEF AsksFirst, FormFitsCode, AskedSoFar, ChangesNameTheirTarget
  <1> QED
    BY <1>1, <1>4, <1>5, <1>6, <1>7 DEF CallInv

LEMMA CallNext == CallInv /\ [Next]_vars => CallInv'
  BY TypedNext, AppliedNext, RepeatedNext, CheckedNext, AsksNext, CarriedNext, WholeNext,
     HangNext
     DEF CallInv

(* The invariant at the end of a call says what NodeCall promises.         *)
LEMMA CallPromises ==
    ASSUME CallInv
    PROVE  /\ SuccessIsApplied /\ StrictAnswersAreWhole
           /\ RepeatsHaveACause /\ ChecksComeFirst
           /\ FormFitsCode /\ ChangesNameTheirTarget /\ RetriesCarryTheRequest
  <1> USE DEF CallInv
  <1>1. SuccessIsApplied
    <2>1. SUFFICES ASSUME outcome = "ok", ~In(Careless), NEW s \in DOMAIN Steps,
                          Steps[s].do \in Writes \cup {"claim"}
                   PROVE  count[s] >= Rounds(s)
      BY DEF SuccessIsApplied
    <2>2. IsWrite(plan, s)
      BY <2>1, TableFacts DEF Careful, IsWrite, Steps
    <2> QED
      BY <2>1, <2>2 DEF AppliedSoFar
  <1>2. RepeatsHaveACause
    <2>1. SUFFICES ASSUME NEW s \in DOMAIN Steps, IsWrite(plan, s)
                   PROVE  count[s] <= (crashes + 1) * Rounds(s) + unsure
      BY DEF RepeatsHaveACause, IsWrite, Steps
    <2>2. Done(s) \in Nat /\ Rounds(s) \in Nat /\ Done(s) <= Rounds(s)
          /\ crashes \in Nat /\ unsure \in Nat /\ count[s] \in Nat
      BY <2>1, DoneRange DEF Typed, TypeOK
    <2>3. (crashes + 1) * Rounds(s) = crashes * Rounds(s) + Rounds(s)
          /\ crashes * Rounds(s) \in Nat
      BY <2>2
    <2>4. count[s] <= crashes * Rounds(s) + unsure
                        + (IF outcome \in {"running", "hung"} THEN Done(s) ELSE Rounds(s))
      BY <2>1 DEF RepeatedSoFar
    <2> DEFINE before == crashes * Rounds(s)
    <2> HIDE DEF before
    <2>5. before \in Nat /\ (crashes + 1) * Rounds(s) = before + Rounds(s)
          /\ count[s] <= before + unsure
                           + (IF outcome \in {"running", "hung"} THEN Done(s) ELSE Rounds(s))
      BY <2>3, <2>4 DEF before
    <2> QED
      BY <2>2, <2>5
  <1>3. RetriesCarryTheRequest
    <2>1. SUFFICES ASSUME outcome = "error", why \in Sends, try + 1 = Tries(Via),
                          ~(Via \in Unrepeatable /\ Here.body)
                   PROVE  sent = Tries(Via)
      BY DEF RetriesCarryTheRequest
    <2>2. Rewinds
      BY <2>1, TableAssumption DEF Rewinds
    <2> QED
      BY <2>1, <2>2 DEF CarriedSoFar
  <1> QED
    BY <1>1, <1>2, <1>3 DEF CheckedFirst, AsksFirst, WholeSoFar, StrictAnswersAreWhole

-----------------------------------------------------------------------------
(* A behaviour of the packs that is a call is one of NodeCall's.           *)
THEOREM CallInvariant == PacksSpec => [](part = "call" => CallInv)
  <1>1. PacksInit => (part = "call" => CallInv)
    BY CallInit DEF PacksInit
  <1>2. (part = "call" => CallInv) /\ [PacksNext]_packVars => (part = "call" => CallInv)'
    <2> SUFFICES ASSUME part = "call" => CallInv, [PacksNext]_packVars, part' = "call"
                 PROVE  CallInv'
      OBVIOUS
    <2>1. part = "call" /\ [Next]_vars
      BY DEF PacksNext, CallNode, CrashNode, ListNode, SheetNode, packVars, Next
    <2> QED
      BY <2>1, CallNext
  <1> QED
    BY <1>1, <1>2, PTL DEF PacksSpec

(* Whatever the service answers and wherever the server crashes, a call    *)
(* keeps to its plan: its place, its attempts and what it has counted stay *)
(* in their ranges.                                                        *)
THEOREM CallsAreTyped == PacksSpec => []CallTypeOK
  <1>1. (part = "call" => CallInv) => CallTypeOK
    BY DEF CallInv, Typed, CallTypeOK
  <1> QED
    BY <1>1, CallInvariant, PTL

(* An operation that looks at the failures of its writes reports success   *)
(* only after the service has applied each of them for every item, and one *)
(* that checks its answers only when all of them were whole.               *)
THEOREM SuccessesAreTrue == PacksSpec => []SuccessIsTrue
  <1>1. (part = "call" => CallInv) => SuccessIsTrue
    BY CallPromises DEF SuccessIsTrue
  <1> QED
    BY <1>1, CallInvariant, PTL

(* The service applies a write at most once per execution and item, plus   *)
(* the attempts it left the code in doubt about; and an operation that     *)
(* checks first rejects its input before it has written anything.          *)
THEOREM WritesAreCaused == PacksSpec => []WritesHaveACause
  <1>1. (part = "call" => CallInv) => WritesHaveACause
    BY CallPromises DEF WritesHaveACause
  <1> QED
    BY <1>1, CallInvariant, PTL

(* A complete form neither fails for a parameter nor leaves a hole in an   *)
(* address, an operation that asks for its target never changes another,   *)
(* and all attempts of a request that can be rewound carry all of it.      *)
THEOREM RequestsGoOutWhole == PacksSpec => []RequestsAreWhole
  <1>1. (part = "call" => CallInv) => RequestsAreWhole
    BY CallPromises DEF RequestsAreWhole
  <1> QED
    BY <1>1, CallInvariant, PTL

-----------------------------------------------------------------------------
(* Towards CallEnds: what a call does next ends it, or brings it forward   *)
(* on the finite way its plan, its items, its pages and its attempts are.  *)
Forward ==
    \/ outcome' # "running"
    \/ item' > item
    \/ item' = item /\ pc' > pc
    \/ item' = item /\ pc' = pc /\ page' > page
    \/ item' = item /\ pc' = pc /\ page' = page /\ try' > try

LEMMA WorkForward == ASSUME Typed, Work PROVE Forward
  <1>1. pc \in Nat /\ item \in Nat /\ page \in Nat /\ try \in Nat
    BY HereFacts DEF Typed, TypeOK
  <1>2. ASSUME outcome = "running", Advance PROVE Forward
    BY <1>1, <1>2, AdvanceMoves DEF Forward
  <1>3. CASE Need \/ LocalStep
    BY <1>2, <1>3, LocalCounts DEF Fail, Forward
  <1>4. ASSUME NEW a, Attempt(a) PROVE Forward
    <2>1. outcome = "running"
      BY <1>4 DEF Attempt
    <2>2. CASE MorePages(a)
      BY <1>1, <2>2 DEF MorePages, Forward
    <2>3. CASE Accept(a)
      BY <1>2, <2>1, <2>3 DEF Accept
    <2>4. CASE Resend(a)
      BY <1>1, <2>4 DEF Resend, Forward
    <2>5. CASE GiveUp(a) \/ Hang(a)
      BY <2>5 DEF GiveUp, Hang, Forward
    <2> QED
      BY <1>4, <2>2, <2>3, <2>4, <2>5 DEF Attempt
  <1> QED
    BY <1>3, <1>4 DEF Work, Send

(* No retry, page or item brings a call back to where it has been, and     *)
(* none without the license to do so waits for ever: what is left of       *)
(* CallEnds is that the steps are taken.                                   *)
THEOREM CallsGoForward ==
    PacksSpec => /\ [][CallNode => Forward]_packVars
                 /\ [](part = "call" /\ outcome = "hung" => In(Endless))
  <1>1. (part = "call" => CallInv) /\ [PacksNext]_packVars => [CallNode => Forward]_packVars
    BY WorkForward DEF CallNode, CallInv
  <1>2. (part = "call" => CallInv) => (part = "call" /\ outcome = "hung" => In(Endless))
    BY DEF CallInv, HangsOnlyEndless
  <1> QED
    BY <1>1, <1>2, CallInvariant, PTL DEF PacksSpec

-----------------------------------------------------------------------------
(* The items of a list node: each remembers its place.                     *)
Item == [ix : Nat, json : ListRows]
InPlace(in) == in \in Seq(Item) /\ Len(in) <= ListLength /\ \A i \in 1 .. Len(in) : in[i].ix = i

(* The items a node is given are typed and know their places.              *)
LEMMA InputsOfPlaced ==
    ASSUME NEW R \in SUBSET ListRows, NEW in \in Lists!InputsOf(R)
    PROVE  InPlace(in) /\ InPlace(Lists!itemsOrEmpty(in)) /\ Lists!itemsOrEmpty(in) # <<>>
  <1>0. PICK n \in 0 .. ListLength :
           in \in {[i \in 1 .. n |-> [ix |-> i, json |-> r[i]]] : r \in [1 .. n -> R]}
    BY DEF Lists!InputsOf
  <1>1. PICK r \in [1 .. n -> R] : in = [i \in 1 .. n |-> [ix |-> i, json |-> r[i]]]
    BY <1>0
  <1>2. n \in Nat /\ n <= ListLength
    BY ListsHold DEF ListAssumption
  <1>3. \A i \in 1 .. n : in[i] \in Item /\ in[i].ix = i
    BY <1>1 DEF Item
  <1>4. in \in Seq(Item) /\ Len(in) = n
    BY <1>1, <1>2, <1>3
  <1>5. InPlace(in)
    BY <1>2, <1>3, <1>4 DEF InPlace
  <1>6. InPlace(<<[ix |-> 1, json |-> <<>>]>>)
    BY ListsHold DEF InPlace, Item, ListAssumption
  <1> QED
    BY <1>5, <1>6 DEF Lists!itemsOrEmpty

LEMMA InputsPlaced ==
    ASSUME NEW n, NEW in \in Lists!Inputs(n)
    PROVE  InPlace(in)
  <1>1. CASE n \in {"limit", "sort"}
    BY <1>1, InputsOfPlaced DEF Lists!Inputs
  <1>2. CASE n \in {"if", "filter", "switch"}
    <2> DEFINE R == {CHOOSE r \in ListRows : TRUE}
    <2>1. R \subseteq ListRows
      BY ListsHold DEF ListAssumption
    <2>2. in \in {Lists!itemsOrEmpty(x) : x \in Lists!InputsOf(R)}
      BY <1>2 DEF Lists!Inputs
    <2> HIDE DEF R
    <2> QED
      BY <2>1, <2>2, InputsOfPlaced
  <1>3. CASE n = "renameKeys"
    BY <1>3, InputsOfPlaced DEF Lists!Inputs
  <1>4. CASE n \notin {"limit", "sort", "if", "filter", "switch", "renameKeys"}
    <2>1. in \in {Lists!itemsOrEmpty(x) : x \in Lists!InputsOf(ListRows)}
      BY <1>4 DEF Lists!Inputs
    <2> QED
      BY <2>1, InputsOfPlaced
  <1> QED
    BY <1>1, <1>2, <1>3, <1>4

(* The same operator seen through the instance.                            *)
LEMMA ListsSelected == ASSUME NEW s, NEW places PROVE Lists!Selected(s, places) = Selected(s, places)
  BY DEF Lists!Selected, Selected

LEMMA ListsCardinality == ASSUME NEW S PROVE Lists!Cardinality(S) = Cardinality(S)
  BY DEF Lists!Cardinality, Cardinality

(* Items that go each to one port, in order.                               *)
Routes(in, ports, to) ==
    /\ DOMAIN to = DOMAIN ports
    /\ \A p \in DOMAIN ports : to[p] \subseteq 1 .. Len(in) /\ ports[p] = Selected(in, to[p])

(* The items of one port are those of its places, each once, in order.     *)
LEMMA PortPicks ==
    ASSUME NEW in, InPlace(in), NEW places, places \subseteq 1 .. Len(in), NEW out, out = Selected(in, places)
    PROVE  /\ out \in Seq(Item) /\ Len(out) <= ListLength
           /\ Lists!InOrder(out)
           /\ \A k \in 1 .. Len(out) : out[k].ix \in places
           /\ \A i \in places : \E k \in 1 .. Len(out) : out[k].ix = i
  <1>1. in \in Seq(Item) /\ Len(in) <= ListLength /\ \A i \in 1 .. Len(in) : in[i].ix = i
    BY DEF InPlace
  <1>2. out \in Seq(Item) /\ Len(out) <= Len(in) /\ PicksOut(out, in, places)
    BY <1>1, SelectedPicks
  <1>3. PICK at : Picks(out, in, places, at)
    BY <1>2 DEF PicksOut
  <1>4. \A k \in 1 .. Len(out) : at[k] \in places /\ out[k].ix = at[k]
    <2> SUFFICES ASSUME NEW k \in 1 .. Len(out) PROVE at[k] \in places /\ out[k].ix = at[k]
      OBVIOUS
    <2>1. at[k] \in places /\ out[k] = in[at[k]]
      BY <1>3 DEF Picks
    <2> QED
      BY <1>1, <2>1
  <1>5. Lists!InOrder(out)
    BY <1>2, <1>3, <1>4 DEF Picks, Lists!InOrder
  <1>6. Len(out) <= ListLength
    BY <1>1, <1>2, ListsHold DEF ListAssumption
  <1>7. \A i \in places : \E k \in 1 .. Len(out) : out[k].ix = i
    BY <1>3, <1>4 DEF Picks
  <1> QED
    BY <1>2, <1>4, <1>5, <1>6, <1>7

(* An item that goes to one port only is found at one place.               *)
LEMMA RoutedByOne ==
    ASSUME NEW in, InPlace(in), NEW to, Routes(in, output.ports, to),
           NEW i \in 1 .. Len(in), NEW p \in DOMAIN to, i \in to[p],
           \A q \in DOMAIN to : i \in to[q] => q = p
    PROVE  Cardinality(Lists!Places(i)) = 1
  <1> DEFINE ports == output.ports
             out == ports[p]
  <1>1. /\ DOMAIN ports = DOMAIN to
        /\ \A q \in DOMAIN ports : to[q] \subseteq 1 .. Len(in) /\ ports[q] = Selected(in, to[q])
    BY DEF Routes
  <1>2. \A q \in DOMAIN ports :
           /\ ports[q] \in Seq(Item) /\ Len(ports[q]) <= ListLength
           /\ Lists!InOrder(ports[q])
           /\ \A k \in 1 .. Len(ports[q]) : ports[q][k].ix \in to[q]
           /\ \A j \in to[q] : \E k \in 1 .. Len(ports[q]) : ports[q][k].ix = j
    BY <1>1, PortPicks
  <1> HIDE DEF ports
  <1>3. PICK k \in 1 .. Len(out) : out[k].ix = i
    BY <1>1, <1>2
  <1>4. out \in Seq(Item) /\ Len(out) <= ListLength /\ Len(out) \in Nat /\ DOMAIN out = 1 .. Len(out)
    BY <1>1, <1>2
  <1>5. k \in 1 .. ListLength
    BY <1>4, ListsHold DEF ListAssumption
  <1>6. ASSUME NEW l \in DOMAIN out, out[l].ix = i PROVE l = k
    <2>1. l \in 1 .. Len(out) /\ k \in DOMAIN out
      BY <1>4
    <2>2. \A x \in 1 .. Len(out) : out[x].ix \in Nat
      <3>1. \A x \in 1 .. Len(out) : out[x] \in Item
        BY <1>4
      <3> HIDE DEF out
      <3> QED
        BY <3>1 DEF Item
    <2>3. ~(l < k) /\ ~(k < l)
      BY <1>1, <1>2, <1>3, <1>6, <2>1, <2>2 DEF Lists!InOrder
    <2> QED
      BY <1>4, <2>1, <2>3
  <1>7. Lists!Places(i) = {<<p, k>>}
    <2>1. ASSUME NEW x \in Lists!Places(i) PROVE x = <<p, k>>
      <3>1. /\ x = <<x[1], x[2]>> /\ x[1] \in DOMAIN ports
            /\ x[2] \in DOMAIN ports[x[1]] /\ ports[x[1]][x[2]].ix = i
        BY DEF Lists!Places, ports
      <3>2. x[2] \in 1 .. Len(ports[x[1]])
        BY <1>2, <3>1
      <3>3. i \in to[x[1]]
        BY <1>2, <3>1, <3>2
      <3>4. x[1] = p
        BY <1>1, <3>1, <3>3
      <3> QED
        BY <1>6, <3>1, <3>4
    <2>2. <<p, k>> \in Lists!Places(i)
      BY <1>1, <1>3, <1>4, <1>5 DEF Lists!Places, ports
    <2> QED
      BY <2>1, <2>2
  <1> QED
    BY <1>7, FS_Singleton

(* Every item of I leaves by exactly one port, and no port reorders.       *)
RoutesEach(I, to) ==
    \A i \in I : \E p \in DOMAIN to : i \in to[p] /\ \A q \in DOMAIN to : i \in to[q] => q = p

Routed(I) ==
    /\ \A i \in I : Cardinality(Lists!Places(i)) = 1
    /\ \A p \in DOMAIN output.ports : Lists!InOrder(output.ports[p])

(* Ports that divide the items among them route each of them once.         *)
LEMMA RoutesRoute ==
    ASSUME NEW in, InPlace(in), NEW to, Routes(in, output.ports, to),
           NEW I \in SUBSET (1 .. Len(in)), RoutesEach(I, to)
    PROVE  Routed(I)
  <1>1. ASSUME NEW i \in I PROVE Cardinality(Lists!Places(i)) = 1
    <2>1. PICK p \in DOMAIN to : i \in to[p] /\ \A q \in DOMAIN to : i \in to[q] => q = p
      BY DEF RoutesEach
    <2> QED
      BY <2>1, RoutedByOne
  <1>2. ASSUME NEW p \in DOMAIN output.ports PROVE Lists!InOrder(output.ports[p])
    BY PortPicks DEF Routes
  <1> QED
    BY <1>1, <1>2 DEF Routed

(* If: the true and the false items (nodes/core/flow.go).                  *)
LEMMA IfRoutes ==
    ASSUME NEW in, InPlace(in), NEW verdict \in [DOMAIN in -> Lists!Verdicts],
           output = Lists!If(in, verdict), output.ports # <<>>
    PROVE  Routed(DOMAIN in)
  <1> DEFINE To(v) == {i \in DOMAIN in : verdict[i] = v}
             to == [p \in {"true", "false"} |-> To(p)]
  <1>1. DOMAIN in = 1 .. Len(in)
    BY DEF InPlace
  <1>2. ~ \E i \in DOMAIN in : verdict[i] = "error"
    BY DEF Lists!If, Lists!Failed
  <1>3. output.ports = [true |-> Selected(in, To("true")), false |-> Selected(in, To("false"))]
    BY <1>2, ListsSelected DEF Lists!If, Lists!Ports, Lists!Chosen
  <1>4. /\ DOMAIN to = {"true", "false"} /\ to["true"] = To("true") /\ to["false"] = To("false")
        /\ To("true") \subseteq 1 .. Len(in) /\ To("false") \subseteq 1 .. Len(in)
    BY <1>1
  <1>5. /\ DOMAIN output.ports = {"true", "false"}
        /\ output.ports["true"] = Selected(in, To("true"))
        /\ output.ports["false"] = Selected(in, To("false"))
    BY <1>3
  <1>6. ASSUME NEW i \in DOMAIN in
        PROVE  \E p \in {"true", "false"} : i \in to[p] /\ \A q \in {"true", "false"} : i \in to[q] => q = p
    <2>1. verdict[i] \in {"true", "false"}
      BY <1>2 DEF Lists!Verdicts
    <2> QED
      BY <1>4, <2>1
  <1> HIDE DEF to
  <1>7. RoutesEach(DOMAIN in, to)
    BY <1>4, <1>6 DEF RoutesEach
  <1> HIDE DEF To
  <1>8. Routes(in, output.ports, to)
    BY <1>4, <1>5 DEF Routes
  <1> QED
    BY <1>1, <1>7, <1>8, RoutesRoute

(* Switch: the ports of the rules and the fallback.                        *)
LEMMA SwitchRoutes ==
    ASSUME NEW in, InPlace(in), NEW rules \in [DOMAIN in -> Lists!Rules],
           output = Lists!Switch(in, rules), output.ports # <<>>
    PROVE  Routed(DOMAIN in)
  <1> DEFINE P == {"p0", "p1", "p2", "p3", "default"}
             To(p) == {i \in DOMAIN in : Lists!SwitchPort(rules[i]) = p}
             to == [p \in P |-> To(p)]
  <1>1. DOMAIN in = 1 .. Len(in)
    BY DEF InPlace
  <1>2. ~ \E i \in DOMAIN in : Lists!SwitchPort(rules[i]) = "error"
    BY DEF Lists!Switch, Lists!Failed
  <1>3. output.ports = [p0 |-> Selected(in, To("p0")), p1 |-> Selected(in, To("p1")),
                        p2 |-> Selected(in, To("p2")), p3 |-> Selected(in, To("p3")),
                        default |-> Selected(in, To("default"))]
    BY <1>2, ListsSelected DEF Lists!Switch, Lists!Ports
  <1>4. DOMAIN to = P /\ \A p \in P : to[p] = To(p) /\ To(p) \subseteq 1 .. Len(in)
    BY <1>1
  <1>5. DOMAIN output.ports = P /\ \A p \in P : output.ports[p] = Selected(in, To(p))
    <2> HIDE DEF To
    <2> QED
      BY <1>3
  <1>6. ASSUME NEW i \in DOMAIN in
        PROVE  \E p \in P : i \in to[p] /\ \A q \in P : i \in to[q] => q = p
    <2>1. Lists!SwitchPort(rules[i]) \in P
      BY <1>2 DEF Lists!SwitchPort
    <2> QED
      BY <1>4, <2>1
  <1> HIDE DEF to, P
  <1>7. RoutesEach(DOMAIN in, to)
    BY <1>4, <1>6 DEF RoutesEach
  <1> HIDE DEF To
  <1>8. Routes(in, output.ports, to)
    BY <1>4, <1>5 DEF Routes
  <1> QED
    BY <1>1, <1>7, <1>8, RoutesRoute

(* Compare Datasets: the four outcomes of an item of side a.               *)
LEMMA CompareRoutes ==
    ASSUME NEW in, InPlace(in), NEW side, NEW key, NEW fields,
           output = Lists!CompareDatasets(in, side, key, fields)
    PROVE  Routed({i \in DOMAIN in : side[i] = "a"})
  <1> DEFINE P == {"inAOnly", "same", "different", "inBOnly"}
             A == {i \in DOMAIN in : side[i] = "a"}
             B == {i \in DOMAIN in : side[i] = "b"}
             K(i) == Lists!Value(in[i], key).rank
             matches(i) == {j \in B : K(j) = K(i)}
             last(i) == in[CHOOSE j \in matches(i) : \A k \in matches(i) : k <= j]
             InB(i) == matches(i) # {}
             Same(i) == InB(i) /\ Lists!SameFields(in[i], last(i), fields)
             To(p) == CASE p = "inAOnly" -> {i \in A : ~InB(i)}
                        [] p = "same" -> {i \in A : Same(i)}
                        [] p = "different" -> {i \in A : InB(i) /\ ~Same(i)}
                        [] p = "inBOnly" -> {j \in B : \A i \in A : K(i) # K(j)}
             to == [p \in P |-> To(p)]
  <1>1. DOMAIN in = 1 .. Len(in)
    BY DEF InPlace
  <1>2. output.ports = [inAOnly |-> Selected(in, {i \in A : ~InB(i)}),
                        same |-> Selected(in, {i \in A : Same(i)}),
                        different |-> Selected(in, {i \in A : InB(i) /\ ~Same(i)}),
                        inBOnly |-> Selected(in, {j \in B : \A i \in A : K(i) # K(j)})]
    BY ListsSelected DEF Lists!CompareDatasets, Lists!Ports
  <1>3. A \subseteq 1 .. Len(in) /\ B \subseteq 1 .. Len(in) /\ A \cap B = {}
    BY <1>1
  <1> HIDE DEF Same, InB, K, A, B
  <1>4. /\ to["inAOnly"] = {i \in A : ~InB(i)}
        /\ to["same"] = {i \in A : Same(i)}
        /\ to["different"] = {i \in A : InB(i) /\ ~Same(i)}
        /\ to["inBOnly"] = {j \in B : \A i \in A : K(i) # K(j)}
        /\ DOMAIN to = P
    OBVIOUS
  <1> HIDE DEF to
  <1>5. \A p \in P : to[p] \subseteq 1 .. Len(in)
    BY <1>3, <1>4
  <1>6. DOMAIN output.ports = P /\ \A p \in P : output.ports[p] = Selected(in, to[p])
    <2>1. output.ports = [inAOnly |-> Selected(in, to["inAOnly"]), same |-> Selected(in, to["same"]),
                          different |-> Selected(in, to["different"]), inBOnly |-> Selected(in, to["inBOnly"])]
      BY <1>2, <1>4
    <2> QED
      BY <2>1
  <1>7. ASSUME NEW i \in A
        PROVE  \E p \in P : i \in to[p] /\ \A q \in P : i \in to[q] => q = p
    <2>1. i \notin to["inBOnly"]
      BY <1>3, <1>4
    <2>2. Same(i) => InB(i)
      BY DEF Same
    <2>3. CASE ~InB(i)
      BY <1>4, <2>1, <2>2, <2>3
    <2>4. CASE Same(i)
      BY <1>4, <2>1, <2>2, <2>4
    <2>5. CASE InB(i) /\ ~Same(i)
      BY <1>4, <2>1, <2>5
    <2> QED
      BY <2>3, <2>4, <2>5
  <1> HIDE DEF P
  <1>8. RoutesEach(A, to)
    BY <1>4, <1>7 DEF RoutesEach
  <1>9. Routes(in, output.ports, to)
    BY <1>4, <1>5, <1>6 DEF Routes
  <1>10. Routed(A)
    BY <1>3, <1>8, <1>9, RoutesRoute
  <1> QED
    BY <1>10 DEF A

-----------------------------------------------------------------------------
(* What the concatenation of lists has gathered once it has passed the     *)
(* n-th of them.                                                           *)
Gathered(n, f, seqs) == f[n] = IF n = 1 THEN seqs[1] ELSE f[n - 1] \o seqs[n]

(* Concatenating is a loop, too.                                           *)
LEMMA FlattenIsComputed ==
    ASSUME NEW V, NEW seqs \in Seq(Seq(V)), seqs # <<>>
    PROVE  \E f \in [1 .. Len(seqs) -> Seq(V)] :
              (\A n \in 1 .. Len(seqs) : Gathered(n, f, seqs)) /\ Lists!FlattenSeq(seqs) = f[Len(seqs)]
  <1> DEFINE N == Len(seqs)
             next(n, prev) == IF n = 1 THEN seqs[n] ELSE prev \o seqs[n]
             step == [x \in (1 .. N) \X Seq(V) |-> next(x[1], x[2])]
             Eq(f) == f = [i \in 1 .. N |-> IF i = 1 THEN seqs[i] ELSE f[i - 1] \o seqs[i]]
             g == CHOOSE f : Eq(f)
  <1>1. N \in Nat /\ N # 0 /\ <<>> \in Seq(V) /\ \A n \in 1 .. N : seqs[n] \in Seq(V)
    OBVIOUS
  <1>2. step \in [(1 .. N) \X Seq(V) -> Seq(V)]
    BY <1>1
  <1>3. \E f : Eq(f) /\ f \in [1 .. N -> Seq(V)]
    <2>1. PICK h \in [0 .. N -> Seq(V)] : Recursive(N, h, <<>>, step)
      <3> HIDE DEF step, N
      <3> QED
        BY <1>1, <1>2, Recursion
    <2> DEFINE f == [i \in 1 .. N |-> h[i]]
    <2> USE DEF Recursive
    <2>2. ASSUME NEW n \in 1 .. N PROVE h[n] = next(n, h[n - 1])
      <3>1. n \in 0 .. N /\ n # 0 /\ n - 1 \in 0 .. N
        OBVIOUS
      <3>2. h[n] = step[<<n, h[n - 1]>>]
        BY <2>1, <3>1
      <3>3. h[n - 1] \in Seq(V)
        BY <3>1
      <3> QED
        BY <3>2, <3>3
    <2>3. ASSUME NEW n \in 1 .. N PROVE f[n] = IF n = 1 THEN seqs[n] ELSE f[n - 1] \o seqs[n]
      <3>1. n # 1 => n - 1 \in 1 .. N
        OBVIOUS
      <3> QED
        BY <2>2, <3>1
    <2>4. f \in [1 .. N -> Seq(V)]
      <3>1. \A i \in 1 .. N : i \in 0 .. N
        OBVIOUS
      <3> QED
        BY <3>1
    <2>5. f = [i \in 1 .. N |-> f[i]]
      OBVIOUS
    <2> HIDE DEF f
    <2>6. Eq(f)
      BY <2>3, <2>5
    <2> QED
      BY <2>4, <2>6
  <1>4. Eq(g) /\ Lists!FlattenSeq(seqs) = g[N]
    BY <1>1, <1>3 DEF Lists!FlattenSeq
  <1> HIDE DEF g
  <1>5. \A n \in 1 .. N : Gathered(n, g, seqs)
    BY <1>4 DEF Gathered
  <1>6. \A n \in 1 .. N : g[n] \in Seq(V)
    <2> DEFINE S == {n \in Nat : n + 1 <= N => g[n + 1] \in Seq(V)}
    <2>1. 0 \in S
      <3>1. 1 \in 1 .. N
        BY <1>1
      <3>2. g[1] = seqs[1]
        BY <1>5, <3>1 DEF Gathered
      <3> QED
        BY <1>1, <3>1, <3>2
    <2>2. ASSUME NEW n \in Nat, n \in S PROVE n + 1 \in S
      <3> SUFFICES ASSUME (n + 1) + 1 <= N PROVE g[(n + 1) + 1] \in Seq(V)
        OBVIOUS
      <3>1. (n + 1) + 1 \in 1 .. N /\ ((n + 1) + 1) - 1 = n + 1 /\ (n + 1) + 1 # 1 /\ n + 1 <= N
        OBVIOUS
      <3>2. g[n + 1] \in Seq(V) /\ seqs[(n + 1) + 1] \in Seq(V)
        BY <2>2, <3>1, <1>1
      <3>3. g[(n + 1) + 1] = g[n + 1] \o seqs[(n + 1) + 1]
        BY <1>5, <3>1 DEF Gathered
      <3> QED
        BY <3>2, <3>3
    <2> HIDE DEF S
    <2>3. Nat \subseteq S
      BY <2>1, <2>2, SetInduction
    <2>4. ASSUME NEW n \in 1 .. N PROVE g[n] \in Seq(V)
      <3>1. n - 1 \in S /\ (n - 1) + 1 = n /\ n <= N
        BY <2>3
      <3> QED
        BY <3>1 DEF S
    <2> QED
      BY <2>4
  <1>7. g \in [1 .. N -> Seq(V)]
    BY <1>4, <1>6
  <1> QED
    BY <1>4, <1>5, <1>7

LEMMA TimesMonotonic ==
    ASSUME NEW a \in Nat, NEW b \in Nat, NEW n \in Nat, a <= b
    PROVE  a * n \in Nat /\ b * n \in Nat /\ a * n <= b * n
  OBVIOUS

(* The batches cut the list into runs of n, the last one perhaps shorter.  *)
LEMMA BatchCount ==
    ASSUME NEW L \in Nat, NEW n \in Nat \ {0}
    PROVE  LET total == (L + n - 1) \div n
           IN  /\ total \in Nat /\ total * n >= L
               /\ \A b \in 1 .. total : (b - 1) * n \in Nat /\ (b - 1) * n < L /\ b * n = (b - 1) * n + n
               /\ L # 0 => total # 0
  <1> DEFINE total == (L + n - 1) \div n
  <1>1. total \in Nat /\ total * n <= L + n - 1 /\ L + n - 1 < total * n + n
    OBVIOUS
  <1> HIDE DEF total
  <1>2. total * n \in Nat /\ (total + 1) * n = total * n + n
    BY <1>1
  <1>3. ASSUME NEW b \in 1 .. total
        PROVE  (b - 1) * n \in Nat /\ (b - 1) * n < L /\ b * n = (b - 1) * n + n
    <2>1. b - 1 \in Nat /\ b \in Nat /\ b <= total
      BY <1>1
    <2>2. b * n <= total * n /\ b * n \in Nat /\ (b - 1) * n \in Nat
      BY <1>1, <2>1, TimesMonotonic
    <2>3. b * n = (b - 1) * n + n
      BY <2>1
    <2> QED
      BY <1>1, <1>2, <2>2, <2>3
  <1> QED
    BY <1>1, <1>2, <1>3 DEF total

(* Split In Batches: the batches one after the other are the items.        *)
LEMMA BatchesHandOn ==
    ASSUME NEW V, NEW in \in Seq(V), NEW size \in Nat, NEW ports, Lists!Batches(in, size).ports = ports
    PROVE  /\ Lists!FlattenSeq(ports.main) = in
           /\ \A b \in DOMAIN ports.main : Len(ports.main[b]) \in 1 .. (IF size < 1 THEN 1 ELSE size)
  <1>1. PICK n \in Nat \ {0} : n = IF size < 1 THEN 1 ELSE size
    OBVIOUS
  <1>2. PICK L \in Nat : L = Len(in)
    OBVIOUS
  <1>3. PICK total \in Nat :
           /\ total = (L + n - 1) \div n /\ total * n >= L
           /\ \A b \in 1 .. total : (b - 1) * n \in Nat /\ (b - 1) * n < L /\ b * n = (b - 1) * n + n
           /\ L # 0 => total # 0
    BY BatchCount
  <1> DEFINE end(b) == IF b * n > L THEN L ELSE b * n
             main == [b \in 1 .. total |-> SubSeq(in, (b - 1) * n + 1, end(b))]
  <1>4. ports.main = main
    BY <1>1, <1>2, <1>3 DEF Lists!Batches, Lists!Main, Lists!Ports
  <1>5. ASSUME NEW b \in 1 .. total
        PROVE  /\ (b - 1) * n \in Nat /\ (b - 1) * n < L /\ b * n \in Nat
               /\ end(b) \in Nat /\ (b - 1) * n < end(b) /\ end(b) <= L /\ end(b) <= (b - 1) * n + n
    BY <1>3
  <1>6. ASSUME NEW b \in 1 .. total PROVE main[b] \in Seq(V) /\ Len(main[b]) \in 1 .. n
    <2>1. PICK x \in Nat, y \in Nat : x = (b - 1) * n + 1 /\ y = end(b)
      BY <1>5
    <2> HIDE DEF end
    <2>2. 1 <= x /\ x <= y /\ y <= L /\ y - x + 1 \in 1 .. n
      BY <1>5, <2>1
    <2>3. main[b] = SubSeq(in, x, y)
      BY <2>1
    <2> HIDE DEF main
    <2>4. \A i \in x .. y : in[i] \in V
      BY <1>2, <2>2
    <2> QED
      BY <2>2, <2>3, <2>4, SubSeqProperties
  <1>7. main \in Seq(Seq(V)) /\ Len(main) = total
    <2>0. DOMAIN main = 1 .. total /\ main = [b \in 1 .. total |-> main[b]]
      OBVIOUS
    <2> HIDE DEF main
    <2>1. Len(main) = total /\ DOMAIN main = 1 .. total /\ main = [b \in 1 .. total |-> main[b]]
      BY <2>0
    <2>2. main \in [1 .. total -> Seq(V)]
      BY <1>6, <2>1
    <2>3. main \in Seq(Seq(V))
      BY <2>2
    <2> QED
      BY <2>1, <2>3
  <1>8. ASSUME total # 0 PROVE Lists!FlattenSeq(main) = in
    <2>1. main # <<>>
      BY <1>7, <1>8
    <2>2. PICK f \in [1 .. Len(main) -> Seq(V)] :
             (\A b \in 1 .. Len(main) : Gathered(b, f, main)) /\ Lists!FlattenSeq(main) = f[Len(main)]
      BY <1>7, <2>1, FlattenIsComputed
    <2> DEFINE S == {m \in Nat : m + 1 <= total => f[m + 1] = SubSeq(in, 1, end(m + 1))}
    <2>3. 0 \in S
      <3>1. 1 \in 1 .. total /\ f[1] = main[1] /\ (1 - 1) * n + 1 = 1
        <4>1. 1 \in 1 .. total /\ (1 - 1) * n + 1 = 1
          BY <1>8
        <4> HIDE DEF main
        <4> QED
          BY <1>7, <2>2, <4>1 DEF Gathered
      <3> QED
        BY <3>1
    <2>4. ASSUME NEW m \in Nat, m \in S PROVE m + 1 \in S
      <3> SUFFICES ASSUME (m + 1) + 1 <= total PROVE f[(m + 1) + 1] = SubSeq(in, 1, end((m + 1) + 1))
        OBVIOUS
      <3>1. PICK b \in 1 .. total, c \in 1 .. total : b = m + 1 /\ c = (m + 1) + 1 /\ c - 1 = b /\ c # 1
        OBVIOUS
      <3>2. f[c] = f[b] \o main[c]
        BY <1>7, <2>2, <3>1 DEF Gathered
      <3>3. f[b] = SubSeq(in, 1, end(b))
        BY <2>4, <3>1
      <3>4. end(b) = b * n /\ b * n \in Nat /\ b * n < L
        <4>1. (c - 1) * n \in Nat /\ (c - 1) * n < L
          BY <1>5
        <4>2. PICK x \in Nat : x = b * n /\ x < L
          BY <3>1, <4>1
        <4>3. end(b) = IF x > L THEN L ELSE x
          BY <4>2 DEF end
        <4> QED
          BY <4>2, <4>3
      <3>5. main[c] = SubSeq(in, b * n + 1, end(c))
        BY <3>1
      <3>6. end(c) \in Nat /\ b * n < end(c) /\ end(c) <= L
        BY <1>5, <3>1
      <3>7. PICK one \in Nat, x \in Nat, y \in Nat : one = 1 /\ x = b * n /\ y = end(c)
        BY <3>4, <3>6
      <3> HIDE DEF main, S, end
      <3>8. one \in 1 .. Len(in) + 1 /\ x \in one - 1 .. Len(in) /\ y \in x .. Len(in)
        BY <1>2, <3>4, <3>6, <3>7
      <3>9. SubSeq(in, one, x) \o SubSeq(in, x + 1, y) = SubSeq(in, one, y)
        BY <3>8, ConcatAdjacentSubSeq
      <3>10. f[c] = SubSeq(in, 1, end(c))
        BY <3>2, <3>3, <3>4, <3>5, <3>7, <3>9
      <3> QED
        BY <3>1, <3>10
    <2> HIDE DEF S
    <2>5. Nat \subseteq S
      BY <2>3, <2>4, SetInduction
    <2>6. end(total) = L
      BY <1>3, <1>5, <1>8
    <2>7. f[total] = SubSeq(in, 1, end(total))
      <3>1. total - 1 \in S /\ (total - 1) + 1 = total
        BY <1>8, <2>5
      <3> HIDE DEF end
      <3> QED
        BY <3>1 DEF S
    <2> QED
      BY <1>2, <1>7, <2>2, <2>6, <2>7, SubSeqFull
  <1>9. ASSUME total = 0 PROVE Lists!FlattenSeq(main) = in
    <2>1. L = 0 /\ in = <<>>
      BY <1>2, <1>3, <1>9
    <2>2. main = <<>>
      BY <1>7, <1>9
    <2> QED
      BY <2>1, <2>2 DEF Lists!FlattenSeq
  <1> HIDE DEF main
  <1>10. DOMAIN main = 1 .. total
    BY <1>7
  <1> QED
    BY <1>1, <1>4, <1>6, <1>8, <1>9, <1>10

InsertedAt(u, t, at, v, L, V) ==
    /\ u \in Seq(V) /\ Len(u) = L + 1 /\ u[at + 1] = v
    /\ \A k \in 1 .. at : u[k] = t[k]
    /\ \A k \in at + 2 .. L + 1 : u[k] = t[k - 1]

(* A sequence with an element put in at a place.                           *)
LEMMA InsertAtFacts ==
    ASSUME NEW V, NEW t \in Seq(V), NEW v \in V, NEW L \in Nat, L = Len(t), NEW at \in 0 .. L
    PROVE  InsertedAt(Lists!InsertAt(t, at + 1, v), t, at, v, L, V)
  <1> DEFINE a == SubSeq(t, 1, at)
             b == SubSeq(t, at + 1, L)
             u == Lists!InsertAt(t, at + 1, v)
  <1>1. a \in Seq(V) /\ Len(a) = at /\ \A k \in 1 .. at : a[k] = t[k]
    OBVIOUS
  <1>2. b \in Seq(V) /\ Len(b) = L - at /\ \A k \in 1 .. (L - at) : b[k] = t[at + k]
    OBVIOUS
  <1>3. u = a \o <<v>> \o b
    <2>1. (at + 1) - 1 = at
      OBVIOUS
    <2> QED
      BY <2>1 DEF Lists!InsertAt
  <1> HIDE DEF a, b, u
  <1> DEFINE c == a \o <<v>>
  <1>4. c \in Seq(V) /\ Len(c) = at + 1 /\ c[at + 1] = v /\ \A k \in 1 .. at : c[k] = t[k]
    BY <1>1
  <1>5. u = c \o b
    BY <1>3
  <1> HIDE DEF c
  <1>6. u \in Seq(V) /\ Len(u) = L + 1
    <2>1. u \in Seq(V) /\ Len(u) = Len(c) + Len(b)
      <3>1. c \in Seq(V) /\ b \in Seq(V)
        BY <1>2, <1>4
      <3> QED
        BY <1>5, <3>1, ConcatProperties
    <2> QED
      BY <1>2, <1>4, <2>1
  <1>7. \A k \in 1 .. at + 1 : u[k] = c[k]
    BY <1>2, <1>4, <1>5
  <1>8. ASSUME NEW k \in at + 2 .. L + 1 PROVE u[k] = t[k - 1]
    <2>1. u[k] = b[k - (at + 1)]
      BY <1>2, <1>4, <1>5
    <2>2. k - (at + 1) \in 1 .. (L - at) /\ at + (k - (at + 1)) = k - 1
      OBVIOUS
    <2> QED
      BY <1>2, <2>1, <2>2
  <1>9. \A k \in 1 .. at : u[k] = t[k]
    BY <1>4, <1>7
  <1>10. u[at + 1] = v
    BY <1>4, <1>7
  <1> QED
    BY <1>6, <1>8, <1>9, <1>10 DEF u, InsertedAt

(* Where two items belong in a column that holds one kind of value.        *)
Key(x, field) == LET c == Lists!Value(x, field) IN IF c.isNum THEN c.num ELSE c.rank
Goes(x, y, field, desc) ==
    IF Key(x, field) = Key(y, field) THEN x.ix < y.ix ELSE desc <=> Key(x, field) > Key(y, field)
SameKind(x, y, field) == Lists!Value(x, field).isNum = Lists!Value(y, field).isNum

(* The cell by which an item is sorted.                                    *)
LEMMA Cells ==
    ASSUME NEW x \in Item, NEW field
    PROVE  Lists!Value(x, field) \in ListCell /\ Key(x, field) \in Int /\ x.ix \in Nat
  <1>1. Lists!Value(x, field) \in ListCell
    <2>1. x.json \in ListRows
      BY DEF Item
    <2> QED
      BY <2>1, ListsHold DEF Lists!Value, ListAssumption
  <1>2. Key(x, field) \in Int
    BY <1>1 DEF Key, ListCell
  <1> QED
    BY <1>1, <1>2 DEF Item

(* The less function of Sort compares two items by their cells.            *)
LEMMA BeforeIsByKey ==
    ASSUME NEW x \in Item, NEW y \in Item, NEW field, NEW desc \in BOOLEAN, SameKind(x, y, field)
    PROVE  Lists!Before(Lists!Value(x, field), Lists!Value(y, field), desc)
             <=> IF desc THEN Key(x, field) > Key(y, field) ELSE Key(x, field) < Key(y, field)
  <1>1. PICK c \in ListCell, d \in ListCell : c = Lists!Value(x, field) /\ d = Lists!Value(y, field)
    BY Cells
  <1>2. Lists!compareValues(c, d) = Key(x, field) - Key(y, field)
    BY <1>1 DEF Lists!compareValues, Key, SameKind, ListCell
  <1>3. Key(x, field) \in Int /\ Key(y, field) \in Int
    BY Cells
  <1> QED
    BY <1>1, <1>2, <1>3 DEF Lists!Before

(* The list t after the first n items, which have been put in order.       *)
SortedUpto(n, t, in, field, desc) ==
    /\ t \in Seq(Item) /\ Len(t) = n
    /\ {t[k] : k \in 1 .. n} = {in[i] : i \in 1 .. n}
    /\ (\A i, j \in 1 .. Len(in) : SameKind(in[i], in[j], field))
          => \A k, l \in 1 .. n : k < l => Goes(t[k], t[l], field, desc)

(* An item is inserted behind the last one that it does not go before.     *)
InsertsAt(at, t, v, field, desc) ==
    /\ Lists!InsertBy(t, v, field, desc) = Lists!InsertAt(t, at + 1, v)
    /\ at # 0 => ~Lists!Before(Lists!Value(v, field), Lists!Value(t[at], field), desc)
    /\ \A k \in 1 .. Len(t) : k > at => Lists!Before(Lists!Value(v, field), Lists!Value(t[k], field), desc)

(* An insertion puts the item before the items it precedes.                *)
LEMMA WhereInserted ==
    ASSUME NEW V, NEW t \in Seq(V), NEW v, NEW field, NEW desc
    PROVE  \E at \in 0 .. Len(t) : InsertsAt(at, t, v, field, desc)
  <1> DEFINE Ahead(k) == Lists!Before(Lists!Value(v, field), Lists!Value(t[k], field), desc)
             stays == {k \in DOMAIN t : ~Ahead(k)}
             at == IF stays = {} THEN 0 ELSE CHOOSE k \in stays : \A j \in stays : j <= k
  <1>1. PICK n \in Nat : n = Len(t) /\ DOMAIN t = 1 .. n
    OBVIOUS
  <1>2. Lists!InsertBy(t, v, field, desc) = Lists!InsertAt(t, at + 1, v)
    BY DEF Lists!InsertBy
  <1>3. at \in 0 .. n /\ (at # 0 => ~Ahead(at)) /\ \A k \in 1 .. n : k > at => Ahead(k)
    <2>1. CASE stays = {}
      <3>1. at = 0 /\ \A k \in 1 .. n : Ahead(k)
        BY <1>1, <2>1
      <3> HIDE DEF at, Ahead, stays
      <3> QED
        BY <3>1
    <2>2. CASE stays # {}
      <3>1. stays \subseteq 0 .. n /\ stays \subseteq 1 .. n
        BY <1>1
      <3>2. \A k \in stays : ~Ahead(k)
        OBVIOUS
      <3>3. \A k \in 1 .. n : k \notin stays => Ahead(k)
        BY <1>1
      <3> HIDE DEF Ahead, stays
      <3>4. \E k \in stays : \A j \in stays : j <= k
        BY <2>2, <3>1, GreatestNumber
      <3>5. at \in stays /\ \A j \in stays : j <= at
        BY <2>2, <3>4
      <3> HIDE DEF at
      <3>6. \A k \in 1 .. n : k > at => k \notin stays
        BY <3>1, <3>5
      <3> QED
        BY <3>1, <3>2, <3>3, <3>5, <3>6
    <2> QED
      BY <2>1, <2>2
  <1> HIDE DEF at, stays
  <1> QED
    BY <1>1, <1>2, <1>3 DEF InsertsAt

LEMMA InsertByTyped ==
    ASSUME NEW t \in Seq(Item), NEW v \in Item, NEW field, NEW desc
    PROVE  Lists!InsertBy(t, v, field, desc) \in Seq(Item)
  <1>1. PICK at \in 0 .. Len(t) : InsertsAt(at, t, v, field, desc)
    BY WhereInserted
  <1>2. PICK L \in Nat : L = Len(t)
    OBVIOUS
  <1>3. InsertedAt(Lists!InsertAt(t, at + 1, v), t, at, v, L, Item)
    BY <1>2, InsertAtFacts
  <1> QED
    BY <1>1, <1>3 DEF InsertsAt, InsertedAt

(* Inserting into a sorted list gives a sorted list.                       *)
LEMMA InsertBySorts ==
    ASSUME NEW in, InPlace(in), NEW field, NEW desc \in BOOLEAN, NEW n \in Nat, n + 1 <= Len(in),
           NEW t, SortedUpto(n, t, in, field, desc)
    PROVE  SortedUpto(n + 1, Lists!InsertBy(t, in[n + 1], field, desc), in, field, desc)
  <1>1. in \in Seq(Item) /\ n + 1 \in 1 .. Len(in) /\ \A i \in 1 .. Len(in) : in[i].ix = i /\ in[i] \in Item
    BY DEF InPlace
  <1>2. PICK v \in Item : v = in[n + 1]
    BY <1>1
  <1>3. t \in Seq(Item) /\ Len(t) = n /\ DOMAIN t = 1 .. n /\ {t[k] : k \in 1 .. n} = {in[i] : i \in 1 .. n}
        /\ \A k \in 1 .. n : t[k] \in Item
    <2>1. t \in Seq(Item) /\ Len(t) = n /\ {t[k] : k \in 1 .. n} = {in[i] : i \in 1 .. n}
      BY DEF SortedUpto
    <2>2. DOMAIN t = 1 .. n /\ \A k \in 1 .. n : t[k] \in Item
      BY <2>1
    <2> QED
      BY <2>1, <2>2
  <1> DEFINE Ahead(k) == Lists!Before(Lists!Value(v, field), Lists!Value(t[k], field), desc)
  <1>4. PICK at \in 0 .. n : InsertsAt(at, t, v, field, desc)
    BY <1>3, WhereInserted
  <1> DEFINE u == Lists!InsertAt(t, at + 1, v)
  <1>5. /\ Lists!InsertBy(t, v, field, desc) = u
        /\ (at # 0 => ~Ahead(at)) /\ \A k \in 1 .. n : k > at => Ahead(k)
    BY <1>3, <1>4 DEF InsertsAt
  <1> HIDE DEF Ahead
  <1>6. /\ u \in Seq(Item) /\ Len(u) = n + 1 /\ u[at + 1] = v
        /\ \A k \in 1 .. at : u[k] = t[k]
        /\ \A k \in at + 2 .. n + 1 : u[k] = t[k - 1]
    <2>1. InsertedAt(Lists!InsertAt(t, at + 1, v), t, at, v, n, Item)
      BY <1>3, <1>5, InsertAtFacts
    <2> QED
      BY <2>1 DEF InsertedAt
  <1> HIDE DEF u
  <1>7. \A k \in 1 .. n + 1 : k \in 1 .. at \/ k = at + 1 \/ (k \in at + 2 .. n + 1 /\ k - 1 \in 1 .. n /\ k - 1 > at)
    BY <1>5
  <1>8. {u[k] : k \in 1 .. n + 1} = {in[i] : i \in 1 .. n + 1}
    <2>1. {u[k] : k \in 1 .. n + 1} = {t[k] : k \in 1 .. n} \cup {v}
      <3>1. ASSUME NEW k \in 1 .. n + 1 PROVE u[k] \in {t[j] : j \in 1 .. n} \cup {v}
        BY <1>5, <1>6, <1>7
      <3>2. ASSUME NEW k \in 1 .. n PROVE \E j \in 1 .. n + 1 : u[j] = t[k]
        <4>1. CASE k <= at
          BY <1>5, <1>6, <4>1
        <4>2. CASE k > at
          <5>1. k + 1 \in at + 2 .. n + 1 /\ (k + 1) - 1 = k /\ k + 1 \in 1 .. n + 1
            BY <1>5, <4>2
          <5>2. u[k + 1] = t[k]
            BY <1>6, <5>1
          <5> QED
            BY <5>1, <5>2
        <4> QED
          BY <1>5, <4>1, <4>2
      <3>3. at + 1 \in 1 .. n + 1
        BY <1>5
      <3>4. \A x \in {t[k] : k \in 1 .. n} \cup {v} : \E j \in 1 .. n + 1 : u[j] = x
        <4>1. u[at + 1] = v
          BY <1>6
        <4> QED
          BY <3>2, <3>3, <4>1
      <3> QED
        BY <3>1, <3>4
    <2>2. 1 .. n + 1 = (1 .. n) \cup {n + 1}
      OBVIOUS
    <2>3. {in[i] : i \in 1 .. n + 1} = {in[i] : i \in 1 .. n} \cup {v}
      BY <1>2, <2>2
    <2> QED
      BY <1>3, <2>1, <2>3
  <1>9. ASSUME \A i, j \in 1 .. Len(in) : SameKind(in[i], in[j], field),
               NEW k \in 1 .. n + 1, NEW l \in 1 .. n + 1, k < l
        PROVE  Goes(u[k], u[l], field, desc)
    <2>1. \A j \in 1 .. n : \E i \in 1 .. n : t[j] = in[i]
      BY <1>3
    <2>2. \A j \in 1 .. n : t[j].ix \in Nat /\ t[j].ix <= n /\ SameKind(v, t[j], field)
      <3> SUFFICES ASSUME NEW j \in 1 .. n
                   PROVE  t[j].ix \in Nat /\ t[j].ix <= n /\ SameKind(v, t[j], field)
        OBVIOUS
      <3>1. PICK i \in 1 .. n : t[j] = in[i]
        BY <2>1
      <3>2. i \in 1 .. Len(in) /\ n + 1 \in 1 .. Len(in)
        BY <1>1
      <3>3. in[i].ix = i /\ SameKind(in[n + 1], in[i], field)
        BY <1>1, <1>9, <3>2
      <3> QED
        BY <1>2, <3>1, <3>3
    <2>3. \A x, y \in 1 .. n : x < y => Goes(t[x], t[y], field, desc)
      BY <1>9 DEF SortedUpto
    <2>4. v.ix = n + 1
      BY <1>1, <1>2
    <2>5. \A j \in 1 .. n : Ahead(j) <=> IF desc THEN Key(v, field) > Key(t[j], field)
                                                 ELSE Key(v, field) < Key(t[j], field)
      BY <1>3, <2>2, BeforeIsByKey DEF Ahead
    <2>6. Key(v, field) \in Int /\ \A j \in 1 .. n : Key(t[j], field) \in Int
      BY <1>3, Cells
    <2>7. ASSUME NEW j \in 1 .. n, j > at PROVE Goes(v, t[j], field, desc)
      BY <1>5, <2>5, <2>6, <2>7 DEF Goes
    <2>8. ASSUME NEW j \in 1 .. at PROVE Goes(t[j], v, field, desc)
      <3>1. at \in 1 .. n /\ j \in 1 .. n /\ (j = at \/ j < at) /\ ~Ahead(at)
        BY <1>5
      <3>2. Key(t[j], field) = Key(t[at], field) \/ (desc <=> Key(t[j], field) > Key(t[at], field))
        BY <2>3, <3>1 DEF Goes
      <3> QED
        BY <2>2, <2>4, <2>5, <2>6, <3>1, <3>2 DEF Goes
    <2>9. CASE l \in 1 .. at
      <3>1. k \in 1 .. at /\ k \in 1 .. n /\ l \in 1 .. n
        BY <1>5, <2>9, <1>9
      <3> QED
        BY <1>6, <1>9, <2>3, <2>9, <3>1
    <2>10. CASE l = at + 1
      <3>1. k \in 1 .. at
        BY <1>5, <2>10, <1>9
      <3> QED
        BY <1>6, <2>8, <2>10, <3>1
    <2>11. CASE l \in at + 2 .. n + 1 /\ l - 1 \in 1 .. n /\ l - 1 > at
      <3>1. CASE k \in 1 .. at
        <4>1. k \in 1 .. n /\ k < l - 1
          BY <1>5, <2>11, <3>1
        <4> QED
          BY <1>6, <2>3, <2>11, <3>1, <4>1
      <3>2. CASE k = at + 1
        BY <1>6, <2>7, <2>11, <3>2
      <3>3. CASE k \in at + 2 .. n + 1 /\ k - 1 \in 1 .. n /\ k - 1 > at
        <4>1. k - 1 < l - 1
          BY <1>9, <1>5
        <4> QED
          BY <1>6, <2>3, <2>11, <3>3, <4>1
      <3> QED
        BY <1>7, <3>1, <3>2, <3>3
    <2> QED
      BY <1>7, <2>9, <2>10, <2>11
  <1>10. SortedUpto(n + 1, u, in, field, desc)
    BY <1>6, <1>8, <1>9 DEF SortedUpto
  <1> QED
    BY <1>2, <1>5, <1>10

(* Sorting is a loop of insertions.                                        *)
LEMMA SortByIsComputed ==
    ASSUME NEW in \in Seq(Item), NEW field, NEW desc
    PROVE  \E f \in [0 .. Len(in) -> Seq(Item)] :
              /\ f[0] = <<>>
              /\ \A n \in 1 .. Len(in) : f[n] = Lists!InsertBy(f[n - 1], in[n], field, desc)
              /\ Lists!SortBy(in, field, desc) = Lists!Main(f[Len(in)])
  <1> DEFINE N == Len(in)
             next(n, prev) == Lists!InsertBy(prev, in[n], field, desc)
             step == [x \in (1 .. N) \X Seq(Item) |-> next(x[1], x[2])]
             Eq(f) == f = [n \in 0 .. N |-> IF n = 0 THEN <<>>
                                            ELSE Lists!InsertBy(f[n - 1], in[n], field, desc)]
             g == CHOOSE f : Eq(f)
  <1>1. N \in Nat /\ <<>> \in Seq(Item) /\ \A n \in 1 .. N : in[n] \in Item
    OBVIOUS
  <1>2. step \in [(1 .. N) \X Seq(Item) -> Seq(Item)]
    <2>1. \A n \in 1 .. N, prev \in Seq(Item) : next(n, prev) \in Seq(Item)
      BY <1>1, InsertByTyped
    <2> HIDE DEF next, N
    <2> QED
      BY <2>1
  <1>3. \E f : Eq(f) /\ f \in [0 .. N -> Seq(Item)]
    <2>1. PICK f \in [0 .. N -> Seq(Item)] : Recursive(N, f, <<>>, step)
      <3> HIDE DEF step, N
      <3> QED
        BY <1>1, <1>2, Recursion
    <2> USE DEF Recursive
    <2>2. ASSUME NEW n \in 0 .. N PROVE f[n] = IF n = 0 THEN <<>> ELSE next(n, f[n - 1])
      <3>1. CASE n = 0
        BY <2>1, <3>1
      <3>2. CASE n # 0
        <4>1. n \in 1 .. N /\ f[n - 1] \in Seq(Item)
          BY <3>2
        <4>2. f[n] = step[<<n, f[n - 1]>>]
          BY <2>1, <3>2
        <4> HIDE DEF next
        <4> QED
          BY <3>2, <4>1, <4>2
      <3> QED
        BY <3>1, <3>2
    <2> HIDE DEF Recursive
    <2>3. Eq(f)
      BY <2>2
    <2> QED
      BY <2>3
  <1>4. Eq(g) /\ Lists!SortBy(in, field, desc) = Lists!Main(g[N])
    BY <1>3 DEF Lists!SortBy
  <1>5. g \in [0 .. N -> Seq(Item)]
    <2> DEFINE S == {n \in Nat : n <= N => g[n] \in Seq(Item)}
    <2>0. /\ DOMAIN g = 0 .. N
          /\ \A n \in 0 .. N : g[n] = IF n = 0 THEN <<>> ELSE Lists!InsertBy(g[n - 1], in[n], field, desc)
          /\ g = [n \in 0 .. N |-> g[n]]
      BY <1>4
    <2> HIDE DEF g
    <2>1. 0 \in S
      BY <1>1, <2>0
    <2>2. ASSUME NEW n \in Nat, n \in S PROVE n + 1 \in S
      <3> SUFFICES ASSUME n + 1 <= N PROVE g[n + 1] \in Seq(Item)
        OBVIOUS
      <3>1. n + 1 \in 1 .. N /\ n + 1 \in 0 .. N /\ (n + 1) - 1 = n /\ n + 1 # 0 /\ n <= N
        OBVIOUS
      <3>2. g[n] \in Seq(Item) /\ in[n + 1] \in Item
        BY <2>2, <3>1, <1>1
      <3>3. g[n + 1] = Lists!InsertBy(g[n], in[n + 1], field, desc)
        BY <2>0, <3>1
      <3> QED
        BY <3>2, <3>3, InsertByTyped
    <2> HIDE DEF S
    <2>3. Nat \subseteq S
      BY <2>1, <2>2, SetInduction
    <2>4. \A n \in 0 .. N : g[n] \in Seq(Item)
      BY <2>3 DEF S
    <2> QED
      BY <2>0, <2>4
  <1>6. g[0] = <<>> /\ \A n \in 1 .. N : g[n] = Lists!InsertBy(g[n - 1], in[n], field, desc)
    <2>1. \A n \in 0 .. N : g[n] = IF n = 0 THEN <<>> ELSE Lists!InsertBy(g[n - 1], in[n], field, desc)
      BY <1>4
    <2> HIDE DEF g
    <2>2. 0 \in 0 .. N /\ \A n \in 1 .. N : n \in 0 .. N /\ n # 0
      BY <1>1
    <2> QED
      BY <2>1, <2>2
  <1> HIDE DEF g
  <1> QED
    BY <1>4, <1>5, <1>6

(* The result of the loop is sorted and holds every item once.             *)
LEMMA SortBySorts ==
    ASSUME NEW in, InPlace(in), NEW field, NEW desc \in BOOLEAN, NEW out,
           out = Lists!SortBy(in, field, desc).ports.main
    PROVE  SortedUpto(Len(in), out, in, field, desc)
  <1>1. in \in Seq(Item)
    BY DEF InPlace
  <1>2. PICK N \in Nat : N = Len(in)
    BY <1>1
  <1>3. PICK f \in [0 .. N -> Seq(Item)] :
              /\ f[0] = <<>>
              /\ \A n \in 1 .. N : f[n] = Lists!InsertBy(f[n - 1], in[n], field, desc)
              /\ Lists!SortBy(in, field, desc) = Lists!Main(f[N])
    BY <1>1, <1>2, SortByIsComputed
  <1>4. out = f[N]
    BY <1>3 DEF Lists!Main, Lists!Ports
  <1> DEFINE S == {n \in Nat : n <= N => SortedUpto(n, f[n], in, field, desc)}
  <1>5. 0 \in S
    <2>1. f[0] \in Seq(Item) /\ Len(f[0]) = 0 /\ 1 .. 0 = {}
      BY <1>3
    <2>2. SortedUpto(0, f[0], in, field, desc)
      BY <2>1 DEF SortedUpto
    <2> QED
      BY <2>2
  <1>6. ASSUME NEW n \in Nat, n \in S PROVE n + 1 \in S
    <2> SUFFICES ASSUME n + 1 <= N PROVE SortedUpto(n + 1, f[n + 1], in, field, desc)
      OBVIOUS
    <2>1. n + 1 \in 1 .. N /\ (n + 1) - 1 = n /\ n <= N /\ n + 1 <= Len(in)
      BY <1>2
    <2>2. f[n + 1] = Lists!InsertBy(f[n], in[n + 1], field, desc)
      BY <1>3, <2>1
    <2>3. SortedUpto(n, f[n], in, field, desc)
      BY <1>6, <2>1
    <2> HIDE DEF S
    <2> QED
      BY <2>1, <2>2, <2>3, InsertBySorts
  <1> HIDE DEF S
  <1>7. Nat \subseteq S
    BY <1>5, <1>6, SetInduction
  <1>8. SortedUpto(N, f[N], in, field, desc)
    <2>1. N \in S
      BY <1>7
    <2> QED
      BY <2>1 DEF S
  <1> QED
    BY <1>2, <1>4, <1>8

-----------------------------------------------------------------------------
(* Renaming.                                                               *)

Json == UNION {[D -> ListCell] : D \in SUBSET ListFields}
Renamings == UNION {[D -> ListFields \cup {""}] : D \in SUBSET ListFields}

(* One renaming gives an item of the declared fields.                      *)
LEMMA RenameOneTyped ==
    ASSUME NEW j \in Json, NEW old, NEW new \in ListFields \cup {""}
    PROVE  Lists!RenameOne(j, old, new) \in Json
  <1>1. PICK D \in SUBSET ListFields : j \in [D -> ListCell]
    BY DEF Json
  <1>2. CASE new = "" \/ old \notin DOMAIN j
    BY <1>2 DEF Lists!RenameOne
  <1>3. CASE ~(new = "" \/ old \notin DOMAIN j)
    <2> DEFINE set == [f \in DOMAIN j \cup {new} |-> IF f = new THEN j[old] ELSE j[f]]
               E == (D \cup {new}) \ {old}
    <2>1. set \in [D \cup {new} -> ListCell]
      BY <1>1, <1>3
    <2>2. Lists!RenameOne(j, old, new) = [f \in DOMAIN set \ {old} |-> set[f]]
      BY <1>3 DEF Lists!RenameOne
    <2> HIDE DEF set
    <2>3. Lists!RenameOne(j, old, new) \in [E -> ListCell]
      BY <2>1, <2>2
    <2>4. E \in SUBSET ListFields
      BY <1>3
    <2> HIDE DEF E
    <2> QED
      BY <2>3, <2>4 DEF Json
  <1> QED
    BY <1>2, <1>3

(* An order of the entries of a map names each of them once.               *)
LEMMA OrderIsComplete ==
    ASSUME NEW D \in SUBSET ListFields, NEW order \in Lists!SetToSeqs(D)
    PROVE  \E N \in Nat : /\ order \in [1 .. N -> D] /\ Len(order) = N
                          /\ \A i, j \in 1 .. N : i # j => order[i] # order[j]
                          /\ \A d \in D : \E i \in 1 .. N : order[i] = d
  <1>1. IsFiniteSet(D)
    BY ListsHold, FS_Subset DEF ListAssumption
  <1>2. PICK N \in Nat : N = Cardinality(D)
    BY <1>1, FS_CardinalityType
  <1>3. order \in [1 .. N -> D] /\ \A i, j \in 1 .. N : i # j => order[i] # order[j]
    BY <1>2, ListsCardinality DEF Lists!SetToSeqs
  <1>4. Len(order) = N
    BY <1>3
  <1>5. IsFiniteSet(1 .. N) /\ Cardinality(1 .. N) = N
    <2>1. PICK one \in Int, n \in Int : one = 1 /\ n = N
      OBVIOUS
    <2> QED
      BY <2>1, FS_Interval
  <1>6. order \in Injection(1 .. N, D)
    BY <1>3 DEF Injection, IsInjective
  <1>7. order \in Surjection(1 .. N, D)
    BY <1>1, <1>2, <1>5, <1>6, FS_Injection
  <1>8. \A d \in D : \E i \in 1 .. N : order[i] = d
    BY <1>7 DEF Surjection
  <1> QED
    BY <1>3, <1>4, <1>8

(* f[n] is the item after the n-th entry of the order.                     *)
Renaming(N, f, order, json, renames) ==
    /\ f[0] = json
    /\ \A n \in 1 .. N : f[n] = Lists!RenameOne(f[n - 1], order[n], renames[order[n]])
    /\ Lists!RenameIn(order, json, renames) = f[N]

(* The renamings of an item are a loop over their order.                   *)
LEMMA RenameInIsComputed ==
    ASSUME NEW order, NEW N \in Nat, Len(order) = N, NEW renames \in Renamings, NEW json \in Json,
           \A n \in 1 .. N : order[n] \in DOMAIN renames
    PROVE  \E f \in [0 .. N -> Json] : Renaming(N, f, order, json, renames)
  <1> DEFINE next(n, prev) == Lists!RenameOne(prev, order[n], renames[order[n]])
             step == [x \in (1 .. N) \X Json |-> next(x[1], x[2])]
             Eq(f) == f = [n \in 0 .. Len(order) |-> IF n = 0 THEN json
                              ELSE Lists!RenameOne(f[n - 1], order[n], renames[order[n]])]
             g == CHOOSE f : Eq(f)
  <1>1. \A n \in 1 .. N : renames[order[n]] \in ListFields \cup {""}
    <2>1. PICK D \in SUBSET ListFields : renames \in [D -> ListFields \cup {""}]
      BY DEF Renamings
    <2>2. DOMAIN renames = D
      BY <2>1
    <2>3. \A d \in D : renames[d] \in ListFields \cup {""}
      BY <2>1
    <2> QED
      BY <2>2, <2>3
  <1>2. step \in [(1 .. N) \X Json -> Json]
    <2>1. \A n \in 1 .. N, prev \in Json : next(n, prev) \in Json
      BY <1>1, RenameOneTyped
    <2> HIDE DEF next
    <2> QED
      BY <2>1
  <1>3. \E f : Eq(f)
    <2>1. PICK f \in [0 .. N -> Json] : Recursive(N, f, json, step)
      <3> HIDE DEF step
      <3> QED
        BY <1>2, Recursion
    <2> USE DEF Recursive
    <2>2. ASSUME NEW n \in 0 .. N PROVE f[n] = IF n = 0 THEN json ELSE next(n, f[n - 1])
      <3>1. CASE n = 0
        BY <2>1, <3>1
      <3>2. CASE n # 0
        <4>1. n \in 1 .. N /\ f[n - 1] \in Json
          BY <3>2
        <4>2. f[n] = step[<<n, f[n - 1]>>]
          BY <2>1, <3>2
        <4> HIDE DEF next
        <4> QED
          BY <3>2, <4>1, <4>2
      <3> QED
        BY <3>1, <3>2
    <2> HIDE DEF Recursive
    <2>3. Eq(f)
      BY <2>2
    <2> QED
      BY <2>3
  <1>4. Eq(g) /\ Lists!RenameIn(order, json, renames) = g[N]
    BY <1>3 DEF Lists!RenameIn
  <1>5. g[0] = json /\ \A n \in 1 .. N : g[n] = next(n, g[n - 1])
    <2>1. \A n \in 0 .. N : g[n] = IF n = 0 THEN json ELSE next(n, g[n - 1])
      BY <1>4
    <2> HIDE DEF g, next
    <2>2. 0 \in 0 .. N /\ \A n \in 1 .. N : n \in 0 .. N /\ n # 0
      OBVIOUS
    <2> QED
      BY <2>1, <2>2
  <1>6. DOMAIN g = 0 .. N /\ g = [n \in 0 .. N |-> g[n]]
    BY <1>4
  <1> HIDE DEF g
  <1>7. g \in [0 .. N -> Json]
    <2> DEFINE S == {n \in Nat : n <= N => g[n] \in Json}
    <2>1. 0 \in S
      BY <1>5
    <2>2. ASSUME NEW n \in Nat, n \in S PROVE n + 1 \in S
      <3> SUFFICES ASSUME n + 1 <= N PROVE g[n + 1] \in Json
        OBVIOUS
      <3>1. n + 1 \in 1 .. N /\ (n + 1) - 1 = n /\ n <= N
        OBVIOUS
      <3>2. g[n] \in Json /\ g[n + 1] = next(n + 1, g[n])
        BY <1>5, <2>2, <3>1
      <3> QED
        BY <1>1, <3>1, <3>2, RenameOneTyped
    <2> HIDE DEF S
    <2>3. Nat \subseteq S
      BY <2>1, <2>2, SetInduction
    <2>4. \A n \in 0 .. N : g[n] \in Json
      BY <2>3 DEF S
    <2> QED
      BY <1>6, <2>4
  <1> QED
    BY <1>4, <1>5, <1>7 DEF Renaming

(* The name of field f when the entries in `done` have been applied.       *)
NameOf(f, done, renames) == IF f \in done /\ renames[f] # "" THEN renames[f] ELSE f

Renamed(done, j, json, renames) ==
    /\ DOMAIN j = {NameOf(f, done, renames) : f \in DOMAIN json}
    /\ \A f \in DOMAIN json : j[NameOf(f, done, renames)] = json[f]

(* The new names are new to the item and different from each other.        *)
Fresh(json, renames) ==
    /\ ({renames[f] : f \in DOMAIN renames} \ {""}) \cap (DOMAIN json \cup DOMAIN renames) = {}
    /\ \A f, g \in DOMAIN renames : renames[f] = renames[g] => f = g \/ renames[f] = ""

(* One renaming to a name the item does not have keeps its values.         *)
LEMMA RenameOneKeeps ==
    ASSUME NEW json, NEW renames, Fresh(json, renames), NEW done \in SUBSET DOMAIN renames,
           NEW old \in DOMAIN renames, old \notin done, NEW j, Renamed(done, j, json, renames)
    PROVE  Renamed(done \cup {old}, Lists!RenameOne(j, old, renames[old]), json, renames)
  <1> DEFINE new == renames[old]
             more == done \cup {old}
             Was(f) == NameOf(f, done, renames)
             Is(f) == NameOf(f, more, renames)
             r == Lists!RenameOne(j, old, new)
  <1>1. \A f : f # old => Is(f) = Was(f)
    BY DEF NameOf
  <1>2. Was(old) = old /\ Is(old) = IF new # "" THEN new ELSE old
    BY DEF NameOf
  <1>3. \A f : Was(f) = f \/ (f \in DOMAIN renames /\ renames[f] # "" /\ Was(f) = renames[f])
    BY DEF NameOf
  <1>4. DOMAIN j = {Was(f) : f \in DOMAIN json} /\ \A f \in DOMAIN json : j[Was(f)] = json[f]
    BY DEF Renamed
  <1>5. \A g \in DOMAIN renames : renames[g] # "" => renames[g] \notin DOMAIN json /\ renames[g] \notin DOMAIN renames
    BY DEF Fresh
  <1>6. \A f, g \in DOMAIN renames : renames[f] = renames[g] => f = g \/ renames[f] = ""
    BY DEF Fresh
  <1>7. ASSUME NEW f, Was(f) = old PROVE f = old
    BY <1>3, <1>5, <1>7
  <1>8. old \in DOMAIN j <=> old \in DOMAIN json
    BY <1>2, <1>4, <1>7
  <1> HIDE DEF Was, Is, more
  <1>9. CASE new = "" \/ old \notin DOMAIN j
    <2>1. r = j
      BY <1>9 DEF Lists!RenameOne
    <2>2. \A f \in DOMAIN json : Is(f) = Was(f)
      BY <1>1, <1>2, <1>8, <1>9
    <2>3. DOMAIN r = {Is(f) : f \in DOMAIN json} /\ \A f \in DOMAIN json : r[Is(f)] = json[f]
      BY <1>4, <2>1, <2>2
    <2> QED
      BY <2>3 DEF Renamed, Is, more
  <1>10. CASE new # "" /\ old \in DOMAIN j
    <2> DEFINE set == [f \in DOMAIN j \cup {new} |-> IF f = new THEN j[old] ELSE j[f]]
    <2>1. r = [f \in DOMAIN set \ {old} |-> set[f]]
      BY <1>10 DEF Lists!RenameOne
    <2>2. DOMAIN set = DOMAIN j \cup {new} /\ set[new] = j[old] /\ \A f \in DOMAIN j : f # new => set[f] = j[f]
      OBVIOUS
    <2> HIDE DEF set, r
    <2>3. old \in DOMAIN json /\ new # old /\ new \notin DOMAIN json
      BY <1>5, <1>8, <1>10
    <2>4. ASSUME NEW f \in DOMAIN json, f # old PROVE Was(f) # new /\ Was(f) # old
      <3>1. Was(f) # old
        BY <1>7, <2>4
      <3>2. CASE Was(f) = f
        BY <2>3, <3>1, <3>2
      <3>3. CASE f \in DOMAIN renames /\ renames[f] # "" /\ Was(f) = renames[f]
        BY <1>6, <2>4, <3>1, <3>3
      <3> QED
        BY <1>3, <3>2, <3>3
    <2>5. r[new] = json[old]
      <3>1. r[new] = j[old]
        BY <2>1, <2>2, <2>3
      <3> QED
        BY <1>2, <1>4, <2>3, <3>1
    <2>6. ASSUME NEW f \in DOMAIN json, f # old PROVE r[Was(f)] = json[f]
      <3>1. Was(f) \in DOMAIN j
        BY <1>4
      <3>2. r[Was(f)] = j[Was(f)]
        BY <2>1, <2>2, <2>4, <2>6, <3>1
      <3> QED
        BY <1>4, <3>2
    <2>7. ASSUME NEW f \in DOMAIN json PROVE r[Is(f)] = json[f]
      <3>1. CASE f = old
        BY <1>2, <1>10, <2>5, <3>1
      <3>2. CASE f # old
        BY <1>1, <2>6, <3>2
      <3> QED
        BY <3>1, <3>2
    <2>8. DOMAIN r = (DOMAIN j \cup {new}) \ {old}
      BY <2>1, <2>2
    <2>9. ASSUME NEW f \in DOMAIN json PROVE Is(f) \in DOMAIN r
      <3>1. CASE f = old
        BY <1>2, <1>10, <2>3, <2>8, <3>1
      <3>2. CASE f # old
        BY <1>1, <1>4, <2>4, <2>8, <3>2
      <3> QED
        BY <3>1, <3>2
    <2>10. ASSUME NEW x \in DOMAIN r PROVE \E f \in DOMAIN json : x = Is(f)
      <3>1. CASE x = new
        BY <1>2, <1>10, <2>3, <3>1
      <3>2. CASE x \in DOMAIN j /\ x # old
        <4>1. PICK f \in DOMAIN json : x = Was(f)
          BY <1>4, <3>2
        <4>2. f # old
          BY <1>2, <3>2, <4>1
        <4> QED
          BY <1>1, <4>1, <4>2
      <3> QED
        BY <2>8, <3>1, <3>2
    <2>11. DOMAIN r = {Is(f) : f \in DOMAIN json}
      BY <2>9, <2>10
    <2>12. DOMAIN r = {NameOf(f, more, renames) : f \in DOMAIN json}
      BY <2>11 DEF Is
    <2>13. \A f \in DOMAIN json : r[NameOf(f, more, renames)] = json[f]
      BY <2>7 DEF Is
    <2> QED
      BY <2>12, <2>13 DEF Renamed, more, r
  <1> QED
    BY <1>9, <1>10

(* So do all of them, as long as the new names are fresh.                  *)
LEMMA RenameInKeeps ==
    ASSUME NEW json \in Json, NEW renames \in Renamings, Fresh(json, renames),
           NEW order \in Lists!SetToSeqs(DOMAIN renames)
    PROVE  Renamed(DOMAIN renames, Lists!RenameIn(order, json, renames), json, renames)
  <1> DEFINE D == DOMAIN renames
  <1>1. D \in SUBSET ListFields
    BY DEF Renamings
  <1>2. PICK N \in Nat : /\ order \in [1 .. N -> D] /\ Len(order) = N
                         /\ \A i, j \in 1 .. N : i # j => order[i] # order[j]
                         /\ \A d \in D : \E i \in 1 .. N : order[i] = d
    BY <1>1, OrderIsComplete
  <1>3. PICK f \in [0 .. N -> Json] :
              /\ f[0] = json
              /\ \A n \in 1 .. N : f[n] = Lists!RenameOne(f[n - 1], order[n], renames[order[n]])
              /\ Lists!RenameIn(order, json, renames) = f[N]
    <2>1. \A n \in 1 .. N : order[n] \in DOMAIN renames
      BY <1>2
    <2>2. N \in Nat /\ Len(order) = N
      BY <1>2
    <2> HIDE DEF D
    <2>3. PICK f \in [0 .. N -> Json] : Renaming(N, f, order, json, renames)
      BY <2>1, <2>2, RenameInIsComputed
    <2> QED
      BY <2>3 DEF Renaming
  <1> DEFINE done(n) == {order[i] : i \in 1 .. n}
             S == {n \in Nat : n <= N => Renamed(done(n), f[n], json, renames)}
  <1>4. 0 \in S
    <2>1. done(0) = {}
      OBVIOUS
    <2>2. Renamed({}, json, json, renames)
      BY DEF Renamed, NameOf
    <2> QED
      BY <1>3, <2>1, <2>2
  <1>5. ASSUME NEW n \in Nat, n \in S PROVE n + 1 \in S
    <2> SUFFICES ASSUME n + 1 <= N PROVE Renamed(done(n + 1), f[n + 1], json, renames)
      OBVIOUS
    <2>1. n + 1 \in 1 .. N /\ (n + 1) - 1 = n /\ n <= N /\ \A i \in 1 .. n : i \in 1 .. N /\ i # n + 1
      OBVIOUS
    <2>2. Renamed(done(n), f[n], json, renames)
      BY <1>5, <2>1
    <2> HIDE DEF S
    <2>3. f[n + 1] = Lists!RenameOne(f[n], order[n + 1], renames[order[n + 1]])
      BY <1>3, <2>1
    <2>4. order[n + 1] \in D /\ done(n) \subseteq D /\ order[n + 1] \notin done(n)
      BY <1>2, <2>1
    <2>5. done(n + 1) = done(n) \cup {order[n + 1]}
      <3>1. 1 .. n + 1 = (1 .. n) \cup {n + 1}
        OBVIOUS
      <3> QED
        BY <3>1
    <2> HIDE DEF done
    <2> QED
      BY <2>2, <2>3, <2>4, <2>5, RenameOneKeeps
  <1> HIDE DEF S
  <1>6. Nat \subseteq S
    BY <1>4, <1>5, SetInduction
  <1>7. Renamed(done(N), f[N], json, renames)
    <2>1. N \in S
      BY <1>6
    <2> QED
      BY <2>1 DEF S
  <1>8. done(N) = D
    <2>1. \A x \in done(N) : x \in D
      BY <1>2
    <2>2. \A d \in D : d \in done(N)
      BY <1>2
    <2> HIDE DEF done, D
    <2> QED
      BY <2>1, <2>2
  <1> QED
    BY <1>3, <1>7, <1>8

-----------------------------------------------------------------------------
(* A list node is executed once, on items and parameters it may have.      *)
ListInv ==
    part = "list" =>
        /\ node \in Lists!Nodes /\ input \in Lists!Inputs(node) /\ arg \in Lists!Args(node, input)
        /\ output = Lists!NotRun \/ output \in Lists!Results

(* The invariant of a list node is inductive.                              *)
LEMMA ListInvInit == PacksInit => ListInv
  BY DEF PacksInit, ListInv, Lists!ListInit

LEMMA ListInvStep == ListInv /\ [PacksNext]_packVars => ListInv'
  <1> SUFFICES ASSUME ListInv, [PacksNext]_packVars, part' = "list" PROVE ListInv'
    BY DEF ListInv
  <1>1. CASE UNCHANGED <<part, node, input, arg, output>>
    BY <1>1 DEF ListInv, Lists!Results
  <1>2. CASE ListNode
    BY <1>2 DEF ListNode, ListInv, Lists!ListExecute, Lists!Results
  <1>3. CASE ~ListNode
    <2>1. UNCHANGED <<part, node, input, arg, output>>
      BY <1>3 DEF PacksNext, CallNode, CrashNode, SheetNode, packVars, listVars
    <2> QED
      BY <1>1, <2>1
  <1> QED
    BY <1>2, <1>3

LEMMA RenamesAre == Lists!Renames = Renamings
  BY DEF Lists!Renames, Renamings

(* The four parts of ItemsKept follow from it.                             *)
LEMMA RoutedOnceHolds == ListInv /\ part = "list" => Lists!RoutedOnce
  <1> SUFFICES ASSUME ListInv, part = "list", NEW n \in {"if", "switch", "compareDatasets"}, Lists!Returned(n)
               PROVE  /\ \A i \in DOMAIN input :
                            (n = "compareDatasets" => arg.side[i] = "a") => Cardinality(Lists!Places(i)) = 1
                      /\ \A p \in DOMAIN output.ports : Lists!InOrder(output.ports[p])
    BY ListsCardinality DEF Lists!RoutedOnce
  <1>1. node = n /\ output.ports # <<>> /\ output \in Lists!Results
    BY DEF Lists!Returned, ListInv, Lists!NotRun
  <1>2. InPlace(input) /\ arg \in Lists!Args(node, input)
    BY InputsPlaced DEF ListInv
  <1>3. CASE n = "if"
    <2>1. arg \in [DOMAIN input -> Lists!Verdicts] /\ output = Lists!If(input, arg)
      BY <1>1, <1>2, <1>3 DEF Lists!Args, Lists!Results
    <2> QED
      BY <1>1, <1>2, <1>3, <2>1, IfRoutes DEF Routed
  <1>4. CASE n = "switch"
    <2>1. arg \in [DOMAIN input -> Lists!Rules] /\ output = Lists!Switch(input, arg)
      BY <1>1, <1>2, <1>4 DEF Lists!Args, Lists!Results
    <2> QED
      BY <1>1, <1>2, <1>4, <2>1, SwitchRoutes DEF Routed
  <1>5. CASE n = "compareDatasets"
    <2>1. output = Lists!CompareDatasets(input, arg.side, arg.key, arg.fields)
      BY <1>1, <1>5 DEF Lists!Results
    <2>2. Routed({i \in DOMAIN input : arg.side[i] = "a"})
      BY <1>2, <2>1, CompareRoutes
    <2> QED
      BY <1>5, <2>2 DEF Routed
  <1> QED
    BY <1>3, <1>4, <1>5

LEMMA BatchesCoverHolds == ListInv /\ part = "list" => Lists!BatchesCover
  <1> SUFFICES ASSUME ListInv, part = "list", Lists!Returned("loop")
               PROVE  /\ Lists!FlattenSeq(output.ports.main) = input
                      /\ \A b \in DOMAIN output.ports.main :
                            Len(output.ports.main[b]) \in 1 .. (IF arg < 1 THEN 1 ELSE arg)
    BY DEF Lists!BatchesCover
  <1>1. node = "loop" /\ output \in Lists!Results
    BY DEF Lists!Returned, ListInv, Lists!NotRun
  <1>2. InPlace(input) /\ arg \in Lists!Args(node, input)
    BY InputsPlaced DEF ListInv
  <1>3. arg \in Nat /\ output = Lists!Batches(input, arg) /\ input \in Seq(Item)
    BY <1>1, <1>2, ListsHold DEF Lists!Args, Lists!Results, InPlace, ListAssumption
  <1> QED
    BY <1>3, BatchesHandOn

LEMMA SortOrdersHolds == ListInv /\ part = "list" => Lists!SortOrders
  <1> SUFFICES ASSUME ListInv, part = "list", Lists!Returned("sort") PROVE Lists!SortOrders
    BY DEF Lists!SortOrders
  <1>1. node = "sort" /\ output \in Lists!Results
    BY DEF Lists!Returned, ListInv, Lists!NotRun
  <1>2. InPlace(input) /\ arg \in Lists!Args(node, input)
    BY InputsPlaced DEF ListInv
  <1>3. arg.desc \in BOOLEAN /\ output = Lists!SortBy(input, arg.field, arg.desc)
    BY <1>1, <1>2 DEF Lists!Args, Lists!Results
  <1>4. PICK out : out = output.ports.main
    OBVIOUS
  <1>5. PICK n \in Nat : n = Len(input) /\ DOMAIN input = 1 .. n
    BY <1>2 DEF InPlace
  <1>6. SortedUpto(n, out, input, arg.field, arg.desc)
    BY <1>2, <1>3, <1>4, <1>5, SortBySorts
  <1>7. /\ out \in Seq(Item) /\ Len(out) = n /\ DOMAIN out = 1 .. n
        /\ {out[k] : k \in 1 .. n} = {input[i] : i \in 1 .. n}
    <2>1. out \in Seq(Item) /\ Len(out) = n /\ {out[k] : k \in 1 .. n} = {input[i] : i \in 1 .. n}
      BY <1>6 DEF SortedUpto
    <2>2. DOMAIN out = 1 .. n
      BY <2>1
    <2> QED
      BY <2>1, <2>2
  <1> DEFINE key(i) == IF Lists!Value(out[i], arg.field).isNum THEN Lists!Value(out[i], arg.field).num
                       ELSE Lists!Value(out[i], arg.field).rank
  <1>8. ASSUME \A i, j \in DOMAIN out : Lists!Value(out[i], arg.field).isNum = Lists!Value(out[j], arg.field).isNum
        PROVE  \A i, j \in DOMAIN out : i < j =>
                  IF key(i) = key(j) THEN out[i].ix < out[j].ix ELSE arg.desc <=> key(i) > key(j)
    <2>1. \A i \in 1 .. n : \E k \in 1 .. n : input[i] = out[k]
      BY <1>7
    <2>2. \A i, j \in 1 .. Len(input) : SameKind(input[i], input[j], arg.field)
      <3> SUFFICES ASSUME NEW i \in 1 .. n, NEW j \in 1 .. n
                   PROVE  SameKind(input[i], input[j], arg.field)
        BY <1>5
      <3>1. PICK k \in 1 .. n, l \in 1 .. n : input[i] = out[k] /\ input[j] = out[l]
        BY <2>1
      <3> QED
        BY <1>7, <1>8, <3>1 DEF SameKind
    <2>3. \A k, l \in 1 .. n : k < l => Goes(out[k], out[l], arg.field, arg.desc)
      BY <1>6, <2>2 DEF SortedUpto
    <2>4. \A i : key(i) = Key(out[i], arg.field)
      BY DEF Key
    <2> HIDE DEF key
    <2> QED
      BY <1>7, <2>3, <2>4 DEF Goes
  <1> HIDE DEF key
  <1>9. {out[i] : i \in DOMAIN out} = {input[i] : i \in DOMAIN input} /\ Len(out) = Len(input)
    BY <1>5, <1>7
  <1> DEFINE unmixed == \A i, j \in DOMAIN out :
                           Lists!Value(out[i], arg.field).isNum = Lists!Value(out[j], arg.field).isNum
             ordered == \A i, j \in DOMAIN out : i < j =>
                           IF key(i) = key(j) THEN out[i].ix < out[j].ix ELSE arg.desc <=> key(i) > key(j)
  <1>10. unmixed => ordered
    BY <1>8
  <1>11. Lists!SortOrders <=> /\ {out[i] : i \in DOMAIN out} = {input[i] : i \in DOMAIN input}
                             /\ Len(out) = Len(input) /\ (unmixed => ordered)
    BY <1>4 DEF Lists!SortOrders, key
  <1> HIDE DEF unmixed, ordered
  <1> QED
    BY <1>9, <1>10, <1>11

LEMMA RenameKeepsHolds == ListInv /\ part = "list" => Lists!RenameKeeps
  <1> SUFFICES ASSUME ListInv, part = "list", Lists!Returned("renameKeys") PROVE Lists!RenameKeeps
    BY DEF Lists!RenameKeeps
  <1>1. node = "renameKeys" /\ output \in Lists!Results
    BY DEF Lists!Returned, ListInv, Lists!NotRun
  <1>2. InPlace(input) /\ arg \in Lists!Args(node, input)
    BY InputsPlaced DEF ListInv
  <1>3. arg \in Renamings /\ output \in Lists!RenameKeys(input, arg)
    BY <1>1, <1>2, RenamesAre DEF Lists!Args, Lists!Results
  <1>4. PICK order \in [DOMAIN input -> Lists!SetToSeqs(DOMAIN arg)] :
           output = Lists!Main([i \in DOMAIN input |->
                       [input[i] EXCEPT !.json = Lists!RenameIn(order[i], input[i].json, arg)]])
    BY <1>3 DEF Lists!RenameKeys
  <1>5. ASSUME NEW i \in DOMAIN input, Fresh(input[i].json, arg)
        PROVE  Renamed(DOMAIN arg, output.ports.main[i].json, input[i].json, arg)
    <2>1. input[i] \in Item
      BY <1>2 DEF InPlace
    <2>2. input[i].json \in Json
      <3>1. input[i].json \in ListRows
        BY <2>1 DEF Item
      <3> QED
        BY <3>1, ListsHold DEF ListAssumption, Json
    <2>3. output.ports.main[i].json = Lists!RenameIn(order[i], input[i].json, arg)
      BY <1>4, <2>1 DEF Lists!Main, Lists!Ports, Item
    <2>4. order[i] \in Lists!SetToSeqs(DOMAIN arg)
      BY <1>4
    <2> QED
      BY <1>3, <1>5, <2>2, <2>3, <2>4, RenameInKeeps
  <1> DEFINE To(f) == IF f \in DOMAIN arg /\ arg[f] # "" THEN arg[f] ELSE f
             Clean(i) == LET news == {arg[f] : f \in DOMAIN arg} \ {""}
                         IN  /\ news \cap (DOMAIN input[i].json \cup DOMAIN arg) = {}
                             /\ \A f, g \in DOMAIN arg : arg[f] = arg[g] => f = g \/ arg[f] = ""
             Kept(i) == /\ DOMAIN output.ports.main[i].json = {To(f) : f \in DOMAIN input[i].json}
                        /\ \A f \in DOMAIN input[i].json : output.ports.main[i].json[To(f)] = input[i].json[f]
  <1>6. ASSUME NEW i \in DOMAIN input, Clean(i) PROVE Kept(i)
    <2>1. Fresh(input[i].json, arg)
      BY <1>6 DEF Fresh
    <2>2. Renamed(DOMAIN arg, output.ports.main[i].json, input[i].json, arg)
      BY <1>5, <2>1
    <2> QED
      BY <2>2 DEF Renamed, NameOf
  <1>7. Lists!RenameKeeps <=> \A i \in DOMAIN input : Clean(i) => Kept(i)
    BY DEF Lists!RenameKeeps
  <1> HIDE DEF Clean, Kept
  <1> QED
    BY <1>6, <1>7

(* The list nodes keep their items, for every set of fields and rows and   *)
(* any number of items: If, Switch and Compare Datasets route each once    *)
(* and in order, Split In Batches hands all of them on, Sort orders them,  *)
(* and renaming keeps their values (nodes/core/flow.go, items.go). Sorting *)
(* is the insertion sort that sort.SliceStable uses for up to 20 items.    *)
THEOREM ItemsAlwaysKept == PacksSpec => []ItemsKept
  <1>1. ListInv => ItemsKept
    BY RoutedOnceHolds, BatchesCoverHolds, SortOrdersHolds, RenameKeepsHolds DEF ItemsKept
  <1> QED
    BY <1>1, ListInvInit, ListInvStep, PTL DEF PacksSpec

-----------------------------------------------------------------------------
(* Files.                                                                  *)

(* The same operators seen through the instance.                           *)
LEMMA SheetsSelected == ASSUME NEW s, NEW places PROVE Sheets!Selected(s, places) = Selected(s, places)
  BY DEF Sheets!Selected, Selected

LEMMA SheetsFlattenSeq == ASSUME NEW s PROVE Sheets!FlattenSeq(s) = Lists!FlattenSeq(s)
  BY DEF Sheets!FlattenSeq, Lists!FlattenSeq

(* The names and the texts of a table.                                     *)
Col == STRING \ {""}
Txt == Texts \cup Col \cup {"", "<nil>"}
Table(table, n) == table \in [1 .. n -> Sheets!Items]

(* The header of a table names every column that some item sets.           *)
HeadersOf(headers, table, n) ==
    /\ headers \in Seq(Col)
    /\ \A i \in 1 .. n : \A c \in DOMAIN table[i] : \E k \in 1 .. Len(headers) : headers[k] = c

(* The columns of a table are names, and every column that an item sets is *)
(* one of them.                                                            *)
LEMMA UnionKeysTyped == ASSUME NEW table PROVE Sheets!unionKeys(table) \in Seq(Col)
  <1> DEFINE places == {k \in DOMAIN Columns : \E i \in DOMAIN table : ~Sheets!Missing(table[i], Columns[k])}
  <1>1. Columns \in Seq(Col) /\ places \subseteq 1 .. Len(Columns)
    <2>1. Columns \in Seq(Col)
      BY SheetsHold DEF SheetAssumption, Col
    <2> QED
      BY <2>1
  <1>2. Sheets!unionKeys(table) = Selected(Columns, places)
    BY SheetsSelected DEF Sheets!unionKeys
  <1> HIDE DEF places
  <1> QED
    BY <1>1, <1>2, SelectedPicks

LEMMA UnionKeysCover ==
    ASSUME NEW n \in Nat, NEW table, Table(table, n)
    PROVE  HeadersOf(Sheets!unionKeys(table), table, n)
  <1> DEFINE places == {k \in DOMAIN Columns : \E i \in DOMAIN table : ~Sheets!Missing(table[i], Columns[k])}
             headers == Sheets!unionKeys(table)
  <1>1. Columns \in Seq(Col) /\ places \subseteq 1 .. Len(Columns)
    <2>1. Columns \in Seq(Col)
      BY SheetsHold DEF SheetAssumption, Col
    <2> QED
      BY <2>1
  <1>2. headers = Selected(Columns, places)
    BY SheetsSelected DEF Sheets!unionKeys
  <1>3. ASSUME NEW i \in 1 .. n, NEW c \in DOMAIN table[i] PROVE \E k \in places : Columns[k] = c
    <2>1. table[i] \in Sheets!Items /\ DOMAIN table = 1 .. n
      BY DEF Table
    <2>2. c \in Sheets!Names
      BY <2>1 DEF Sheets!Items
    <2>3. PICK k \in DOMAIN Columns : Columns[k] = c
      BY <2>2 DEF Sheets!Names
    <2> QED
      BY <2>1, <2>3 DEF Sheets!Missing
  <1> HIDE DEF places, headers
  <1>4. PicksOut(headers, Columns, places) /\ headers \in Seq(Col)
    BY <1>1, <1>2, SelectedPicks
  <1>5. PICK at : Picks(headers, Columns, places, at)
    BY <1>4 DEF PicksOut
  <1>6. ASSUME NEW p \in places PROVE \E k \in 1 .. Len(headers) : headers[k] = Columns[p]
    BY <1>5 DEF Picks
  <1>7. \A i \in 1 .. n : \A c \in DOMAIN table[i] : \E k \in 1 .. Len(headers) : headers[k] = c
    BY <1>3, <1>6
  <1> QED
    BY <1>4, <1>7 DEF HeadersOf, headers

(* The rows of a file: the header, then one row for each item, which holds *)
(* what the item sets.                                                     *)
RowsOf(rows, headers, table, n) ==
    /\ rows \in Seq(Seq(Txt)) /\ Len(rows) = n + 1 /\ rows[1] = headers
    /\ \A i \in 1 .. n :
         /\ Len(rows[i + 1]) = Len(headers)
         /\ \A k \in 1 .. Len(headers) :
              headers[k] \in DOMAIN table[i] => rows[i + 1][k] = table[i][headers[k]]

RecordsOf(records, headers, table, n) ==
    /\ records \in [1 .. n -> Seq(Txt)]
    /\ \A i \in 1 .. n :
         /\ Len(records[i]) = Len(headers)
         /\ \A k \in 1 .. Len(headers) :
              headers[k] \in DOMAIN table[i] => records[i][k] = table[i][headers[k]]

RowsBehind(rows, records, n) == \A i \in 1 .. n : rows[i + 1] = records[i]

(* A header with its records behind it.                                    *)
LEMMA HeaderAndRows ==
    ASSUME NEW headers \in Seq(Col), NEW n \in Nat, NEW table,
           NEW records, RecordsOf(records, headers, table, n), NEW rows, rows = <<headers>> \o records
    PROVE  RowsOf(rows, headers, table, n) /\ RowsBehind(rows, records, n)
  <1>1. headers \in Seq(Txt)
    <2>1. Col \subseteq Txt
      BY DEF Txt
    <2> QED
      BY <2>1
  <1>2. <<headers>> \in Seq(Seq(Txt)) /\ Len(<<headers>>) = 1 /\ records \in Seq(Seq(Txt)) /\ Len(records) = n
    <2>1. records \in [1 .. n -> Seq(Txt)]
      BY DEF RecordsOf
    <2> QED
      BY <1>1, <2>1
  <1>4. PICK h \in Seq(Seq(Txt)) : h = <<headers>> /\ Len(h) = 1 /\ h[1] = headers
    BY <1>2
  <1>5. /\ rows \in Seq(Seq(Txt)) /\ Len(rows) = n + 1
        /\ \A i \in 1 .. n + 1 : rows[i] = IF i <= 1 THEN h[i] ELSE records[i - 1]
    <2>1. rows = h \o records
      BY <1>4
    <2> QED
      BY <1>2, <1>4, <2>1, ConcatProperties
  <1>6. rows[1] = headers
    BY <1>4, <1>5
  <1>7. ASSUME NEW i \in 1 .. n PROVE rows[i + 1] = records[i]
    <2>1. i + 1 \in 1 .. n + 1 /\ ~(i + 1 <= 1) /\ (i + 1) - 1 = i
      OBVIOUS
    <2> QED
      BY <1>5, <2>1
  <1>8. RowsOf(rows, headers, table, n)
    BY <1>5, <1>6, <1>7 DEF RowsOf, RecordsOf
  <1> QED
    BY <1>7, <1>8 DEF RowsBehind

(* Rows that are named by their header give back what the items set.       *)
GivesBack(read, table, n) ==
    /\ Len(read) = n /\ DOMAIN read = 1 .. n
    /\ \A i \in 1 .. n : \A c \in DOMAIN table[i] : c \in DOMAIN read[i] /\ read[i][c] = table[i][c]

LEMMA RowsReadBack ==
    ASSUME NEW n \in Nat, NEW table, NEW headers, HeadersOf(headers, table, n),
           NEW rows, RowsOf(rows, headers, table, n)
    PROVE  GivesBack(Sheets!RowItems(rows, TRUE), table, n)
  <1> DEFINE Both(row) == (DOMAIN headers) \cap (DOMAIN row)
             NamedRow(row) == [h \in {headers[i] : i \in Both(row)} |->
                              row[CHOOSE i \in Both(row) : headers[i] = h]]
             read == Sheets!RowItems(rows, TRUE)
  <1>1. rows \in Seq(Seq(Txt)) /\ Len(rows) = n + 1 /\ rows[1] = headers /\ rows # <<>>
    <2>1. rows \in Seq(Seq(Txt)) /\ Len(rows) = n + 1 /\ rows[1] = headers
      BY DEF RowsOf
    <2> QED
      BY <2>1
  <1>2. read = [i \in 1 .. (Len(rows) - 1) |-> NamedRow(rows[i + 1])]
    BY <1>1 DEF Sheets!RowItems
  <1> HIDE DEF read, NamedRow
  <1>3. Len(rows) - 1 = n
    BY <1>1
  <1>4. DOMAIN read = 1 .. n /\ Len(read) = n /\ \A i \in 1 .. n : read[i] = NamedRow(rows[i + 1])
    BY <1>2, <1>3
  <1>5. ASSUME NEW i \in 1 .. n, NEW c \in DOMAIN table[i]
        PROVE  c \in DOMAIN read[i] /\ read[i][c] = table[i][c]
    <2>1. PICK row : row = rows[i + 1]
      OBVIOUS
    <2>2. row \in Seq(Txt) /\ Len(row) = Len(headers) /\ headers \in Seq(Col)
      <3>1. i + 1 \in 1 .. Len(rows)
        BY <1>1
      <3> QED
        BY <1>1, <2>1, <3>1 DEF RowsOf, HeadersOf
    <2>3. DOMAIN row = 1 .. Len(headers) /\ DOMAIN headers = 1 .. Len(headers) /\ Both(row) = 1 .. Len(headers)
      BY <2>2
    <2> HIDE DEF Both
    <2>4. \E k \in 1 .. Len(headers) : headers[k] = c
      BY DEF HeadersOf
    <2> DEFINE k == CHOOSE j \in Both(row) : headers[j] = c
    <2>5. k \in 1 .. Len(headers) /\ headers[k] = c
      BY <2>3, <2>4
    <2>6. c \in DOMAIN NamedRow(row) /\ NamedRow(row)[c] = row[k]
      BY <2>3, <2>4 DEF NamedRow
    <2> HIDE DEF k
    <2>7. row[k] = table[i][c]
      BY <2>1, <2>5 DEF RowsOf
    <2> QED
      BY <1>4, <2>1, <2>6, <2>7
  <1> QED
    BY <1>4, <1>5 DEF GivesBack, read

Filled(table, n) == \A i \in 1 .. n : DOMAIN table[i] # {} /\ \A c \in DOMAIN table[i] : table[i][c] # ""

(* A table holds texts.                                                    *)
LEMMA CellFacts ==
    ASSUME NEW n \in Nat, NEW table, Table(table, n)
    PROVE  /\ DOMAIN table = 1 .. n /\ (n # 0 => Sheets!itemsOrEmpty(table) = table)
           /\ \A i \in 1 .. n : \A c \in DOMAIN table[i] : table[i][c] \in Texts
  <1>1. DOMAIN table = 1 .. n /\ \A i \in 1 .. n : table[i] \in Sheets!Items
    BY DEF Table
  <1>2. n # 0 => table # <<>>
    BY <1>1
  <1>3. \A i \in 1 .. n : \A c \in DOMAIN table[i] : table[i][c] \in Texts
    BY <1>1 DEF Sheets!Items
  <1> QED
    BY <1>1, <1>2, <1>3 DEF Sheets!itemsOrEmpty

(* One record of a CSV.                                                    *)
LEMMA RecordTyped ==
    ASSUME NEW headers \in Seq(Col), NEW entry, \A c \in DOMAIN entry : entry[c] \in Texts
    PROVE  /\ Sheets!Record(entry, headers) \in Seq(Txt) /\ Len(Sheets!Record(entry, headers)) = Len(headers)
           /\ \A k \in 1 .. Len(headers) :
                 headers[k] \in DOMAIN entry => Sheets!Record(entry, headers)[k] = entry[headers[k]]
  <1>1. PICK N \in Nat : N = Len(headers) /\ DOMAIN headers = 1 .. N
    OBVIOUS
  <1> DEFINE r == Sheets!Record(entry, headers)
  <1>2. r = [k \in 1 .. N |-> IF Sheets!Missing(entry, headers[k]) THEN "" ELSE entry[headers[k]]]
    BY <1>1 DEF Sheets!Record
  <1> HIDE DEF r
  <1>3. \A k \in 1 .. N : r[k] \in Txt
    BY <1>2 DEF Sheets!Missing, Txt
  <1>4. \A k \in 1 .. N : headers[k] \in DOMAIN entry => r[k] = entry[headers[k]]
    BY <1>2 DEF Sheets!Missing
  <1>5. DOMAIN r = 1 .. N /\ r = [k \in 1 .. N |-> r[k]]
    BY <1>2
  <1>6. r \in Seq(Txt) /\ Len(r) = N
    BY <1>3, <1>5
  <1> QED
    BY <1>1, <1>4, <1>6 DEF r

(* What WriteCSV makes of a table.                                         *)
LEMMA WriteCSVRows ==
    ASSUME NEW n \in Nat, NEW table, Table(table, n), NEW headers, headers = Sheets!unionKeys(table)
    PROVE  /\ HeadersOf(headers, table, n)
           /\ RowsOf(Sheets!WriteCSV(table), headers, table, n)
           /\ \A i \in 1 .. n : Sheets!WriteCSV(table)[i + 1] = Sheets!Record(table[i], headers)
  <1> DEFINE records == [i \in 1 .. n |-> Sheets!Record(table[i], headers)]
  <1>1. HeadersOf(headers, table, n) /\ headers \in Seq(Col)
    BY UnionKeysCover DEF HeadersOf
  <1>2. Sheets!WriteCSV(table) = <<headers>> \o records
    BY CellFacts DEF Sheets!WriteCSV
  <1>3. \A i \in 1 .. n : /\ records[i] = Sheets!Record(table[i], headers) /\ records[i] \in Seq(Txt)
                          /\ Len(records[i]) = Len(headers)
                          /\ \A k \in 1 .. Len(headers) :
                               headers[k] \in DOMAIN table[i] => records[i][k] = table[i][headers[k]]
    BY <1>1, CellFacts, RecordTyped
  <1>4. records \in [1 .. n -> Seq(Txt)]
    BY <1>3
  <1> HIDE DEF records
  <1>5. RecordsOf(records, headers, table, n)
    BY <1>3, <1>4 DEF RecordsOf
  <1>6. PICK rows : rows = Sheets!WriteCSV(table)
    OBVIOUS
  <1>7. RowsOf(rows, headers, table, n) /\ RowsBehind(rows, records, n)
    BY <1>1, <1>2, <1>5, <1>6, HeaderAndRows
  <1> QED
    BY <1>1, <1>3, <1>6, <1>7 DEF RowsBehind

(* A CSV gives back the table it was written from.                         *)
LEMMA CsvReadsBack ==
    ASSUME NEW n \in Nat, n # 0, NEW table, Table(table, n), Filled(table, n)
    PROVE  GivesBack(Sheets!readSpreadsheet("csv", Sheets!writeSpreadsheet("csv", table), TRUE), table, n)
  <1>1. PICK headers, rows : headers = Sheets!unionKeys(table) /\ rows = Sheets!WriteCSV(table)
    OBVIOUS
  <1>2. Sheets!writeSpreadsheet("csv", table) = rows
    BY <1>1, CellFacts DEF Sheets!writeSpreadsheet
  <1>3. HeadersOf(headers, table, n) /\ RowsOf(rows, headers, table, n)
        /\ \A i \in 1 .. n : rows[i + 1] = Sheets!Record(table[i], headers)
    BY <1>1, WriteCSVRows
  <1>4. headers \in Seq(Col) /\ rows \in Seq(Seq(Txt)) /\ Len(rows) = n + 1 /\ rows[1] = headers
    BY <1>3 DEF HeadersOf, RowsOf
  <1>5. ASSUME NEW i \in 1 .. n
        PROVE  \E k \in 1 .. Len(headers) : headers[k] \in DOMAIN table[i] /\ rows[i + 1][k] # "" /\ headers[k] # ""
    <2>1. PICK c \in DOMAIN table[i] : table[i][c] # ""
      BY DEF Filled
    <2>2. PICK k \in 1 .. Len(headers) : headers[k] = c
      BY <1>3 DEF HeadersOf
    <2>3. rows[i + 1][k] = table[i][c]
      BY <1>3, <2>2 DEF RowsOf
    <2>4. headers[k] \in Col
      BY <1>4
    <2> QED
      BY <2>1, <2>2, <2>3, <2>4 DEF Col
  <1>6. ASSUME NEW r \in Seq(Txt), NEW k \in 1 .. Len(r), r[k] # "" PROVE ~Sheets!Blank(r)
    <2>1. r # <<>>
      OBVIOUS
    <2>2. ASSUME r = <<"">> PROVE FALSE
      <3>1. Len(r) = 1 /\ r[1] = ""
        BY <2>2
      <3>2. k = 1
        <4>1. PICK L \in Nat : L = Len(r) /\ L = 1
          BY <3>1
        <4>2. k \in 1 .. L
          BY <4>1
        <4> QED
          BY <4>1, <4>2
      <3> QED
        BY <1>6, <3>1, <3>2
    <2> QED
      BY <2>1, <2>2 DEF Sheets!Blank
  <1>7. ASSUME NEW m \in 1 .. Len(rows) PROVE ~Sheets!Blank(rows[m])
    <2>1. rows[m] \in Seq(Txt)
      BY <1>4
    <2>2. CASE m = 1
      <3>1. PICK one \in 1 .. n : one = 1
        OBVIOUS
      <3>2. PICK k \in 1 .. Len(headers) : headers[k] # ""
        BY <1>5, <3>1
      <3> QED
        BY <1>4, <1>6, <2>1, <2>2, <3>2
    <2>3. CASE m # 1
      <3>1. m - 1 \in 1 .. n /\ (m - 1) + 1 = m
        BY <1>4, <2>3
      <3>2. PICK i \in 1 .. n : i = m - 1 /\ i + 1 = m
        BY <3>1
      <3>3. PICK k \in 1 .. Len(headers) : rows[m][k] # ""
        BY <1>5, <3>2
      <3>4. Len(rows[m]) = Len(headers)
        BY <1>3, <3>2 DEF RowsOf
      <3> QED
        BY <1>6, <2>1, <3>3, <3>4
    <2> QED
      BY <2>2, <2>3
  <1>8. Sheets!ReadRecords(rows) = rows
    <2>1. \A m \in 1 .. Len(rows) : m \in {x \in DOMAIN rows : ~Sheets!Blank(rows[x])}
      BY <1>4, <1>7
    <2> QED
      BY <1>4, <2>1, SelectedAll, SheetsSelected DEF Sheets!ReadRecords
  <1>9. Sheets!readSpreadsheet("csv", rows, TRUE) = Sheets!RowItems(rows, TRUE)
    BY <1>8 DEF Sheets!readSpreadsheet
  <1> QED
    BY <1>2, <1>3, <1>9, RowsReadBack

(* The concatenation of lists holds what they hold.                        *)
SameTexts(flat, seqs) ==
    /\ \A i \in 1 .. Len(seqs) : \A k \in 1 .. Len(seqs[i]) : \E m \in 1 .. Len(flat) : flat[m] = seqs[i][k]
    /\ \A m \in 1 .. Len(flat) : \E i \in 1 .. Len(seqs) : \E k \in 1 .. Len(seqs[i]) : flat[m] = seqs[i][k]

(* The flattened rows hold the texts of the rows.                          *)
LEMMA FlattenKeeps ==
    ASSUME NEW V, NEW seqs \in Seq(Seq(V)), seqs # <<>>, NEW flat, flat = Sheets!FlattenSeq(seqs)
    PROVE  flat \in Seq(V) /\ SameTexts(flat, seqs)
  <1>1. PICK N \in Nat \ {0} : N = Len(seqs)
    OBVIOUS
  <1>2. PICK f \in [1 .. N -> Seq(V)] : (\A n \in 1 .. N : Gathered(n, f, seqs)) /\ flat = f[N]
    BY <1>1, FlattenIsComputed, SheetsFlattenSeq
  <1> DEFINE upto(n) == UNION {ElementsOf(seqs[i]) : i \in 1 .. n}
             S == {n \in Nat : n + 1 <= N => ElementsOf(f[n + 1]) = upto(n + 1)}
  <1>3. 0 \in S
    <2>1. 1 \in 1 .. N /\ f[1] = seqs[1]
      <3>1. 1 \in 1 .. N
        BY <1>1
      <3> QED
        BY <1>2, <3>1 DEF Gathered
    <2>2. upto(1) = ElementsOf(seqs[1])
      <3>1. 1 .. 1 = {1}
        OBVIOUS
      <3> QED
        BY <3>1
    <2> HIDE DEF upto
    <2> QED
      BY <2>1, <2>2
  <1>4. ASSUME NEW n \in Nat, n \in S PROVE n + 1 \in S
    <2> HIDE DEF upto
    <2> SUFFICES ASSUME (n + 1) + 1 <= N PROVE ElementsOf(f[(n + 1) + 1]) = upto((n + 1) + 1)
      OBVIOUS
    <2>1. n + 1 <= N
      BY <1>1
    <2>2. ElementsOf(f[n + 1]) = upto(n + 1)
      BY <1>4, <2>1
    <2> HIDE DEF S
    <2>3. PICK b \in 1 .. N, c \in 1 .. N : b = n + 1 /\ c = (n + 1) + 1 /\ c - 1 = b /\ c # 1
      BY <1>1, <2>1
    <2>4. f[c] = f[b] \o seqs[c]
      BY <1>2, <2>3 DEF Gathered
    <2>5. f[b] \in Seq(V) /\ seqs[c] \in Seq(V)
      <3>1. f[b] \in Seq(V)
        BY <1>2
      <3>2. c \in 1 .. Len(seqs)
        BY <1>1
      <3>3. seqs[c] \in Seq(V)
        BY <3>2
      <3> QED
        BY <3>1, <3>3
    <2>6. ElementsOf(f[c]) = ElementsOf(f[b]) \cup ElementsOf(seqs[c])
      <3>1. PICK p \in Seq(V), q \in Seq(V) : p = f[b] /\ q = seqs[c]
        BY <2>5
      <3>2. ElementsOf(p \o q) = ElementsOf(p) \cup ElementsOf(q)
        BY ElementsOfConcat
      <3> QED
        BY <2>4, <3>1, <3>2
    <2>7. upto(c) = upto(b) \cup ElementsOf(seqs[c])
      <3>1. 1 .. c = (1 .. b) \cup {c}
        BY <2>3
      <3> QED
        BY <3>1 DEF upto
    <2> QED
      BY <2>2, <2>3, <2>6, <2>7
  <1> HIDE DEF S
  <1>5. Nat \subseteq S
    BY <1>3, <1>4, SetInduction
  <1>6. ElementsOf(flat) = upto(N)
    <2>1. N - 1 \in S /\ (N - 1) + 1 = N /\ N <= N
      BY <1>1, <1>5
    <2> HIDE DEF upto
    <2> QED
      BY <1>2, <2>1 DEF S
  <1>7. ASSUME NEW i \in 1 .. N, NEW k \in 1 .. Len(seqs[i])
        PROVE  \E m \in 1 .. Len(flat) : flat[m] = seqs[i][k]
    <2>1. seqs[i][k] \in ElementsOf(flat)
      <3>1. seqs[i][k] \in ElementsOf(seqs[i])
        BY DEF ElementsOf
      <3> QED
        BY <1>6, <3>1
    <2> QED
      BY <2>1 DEF ElementsOf
  <1>8. ASSUME NEW m \in 1 .. Len(flat)
        PROVE  \E i \in 1 .. N : \E k \in 1 .. Len(seqs[i]) : flat[m] = seqs[i][k]
    <2>1. flat[m] \in ElementsOf(flat)
      BY DEF ElementsOf
    <2>2. PICK i \in 1 .. N : flat[m] \in ElementsOf(seqs[i])
      BY <1>6, <2>1
    <2> QED
      BY <2>2 DEF ElementsOf
  <1>9. flat \in Seq(V)
    BY <1>1, <1>2
  <1> HIDE DEF upto
  <1> QED
    BY <1>1, <1>7, <1>8, <1>9 DEF SameTexts

Word == Txt \ {""}

CellsOf(entry, headers) == [h \in DOMAIN headers |-> Sheets!Cell(entry, headers[h])]

Full(entry) == \A c \in DOMAIN entry : entry[c] \in Texts /\ entry[c] # ""

(* One row of a workbook.                                                  *)
LEMMA CellsTyped ==
    ASSUME NEW headers \in Seq(Col), NEW entry, Full(entry)
    PROVE  /\ CellsOf(entry, headers) \in Seq(Word) /\ Len(CellsOf(entry, headers)) = Len(headers)
           /\ \A k \in 1 .. Len(headers) :
                 headers[k] \in DOMAIN entry => CellsOf(entry, headers)[k] = entry[headers[k]]
  <1>1. PICK N \in Nat : N = Len(headers) /\ DOMAIN headers = 1 .. N
    OBVIOUS
  <1> DEFINE r == CellsOf(entry, headers)
  <1>2. r = [k \in 1 .. N |-> IF Sheets!Missing(entry, headers[k]) THEN "<nil>" ELSE entry[headers[k]]]
    BY <1>1 DEF CellsOf, Sheets!Cell
  <1> HIDE DEF r
  <1>3. \A k \in 1 .. N : r[k] \in Word
    BY <1>2 DEF Sheets!Missing, Txt, Word, Full
  <1>4. \A k \in 1 .. N : headers[k] \in DOMAIN entry => r[k] = entry[headers[k]]
    BY <1>2 DEF Sheets!Missing
  <1>5. DOMAIN r = 1 .. N /\ r = [k \in 1 .. N |-> r[k]]
    BY <1>2
  <1>6. r \in Seq(Word) /\ Len(r) = N
    BY <1>3, <1>5
  <1> QED
    BY <1>1, <1>4, <1>6 DEF r

(* Where the shared strings hold a text; the workbook of some rows.        *)
At(strings, t) == CHOOSE i \in DOMAIN strings : strings[i] = t
Book(rows, strings) ==
    [strings |-> strings,
     cells |-> [r \in DOMAIN rows |-> [c \in DOMAIN rows[r] |-> At(strings, rows[r][c]) - 1]]]

(* The cells of a workbook are indices into its strings, which hold every  *)
(* text of its rows and no empty one: reading gives the rows back.         *)
LEMMA BookReadsBack ==
    ASSUME NEW rows \in Seq(Seq(Word)), rows # <<>>, NEW strings,
           strings = Selected(Sheets!FlattenSeq(rows), Firsts(Sheets!FlattenSeq(rows))),
           NEW book, book = Book(rows, strings)
    PROVE  Sheets!readSheetData(book) = rows
  <1>1. PICK flat : flat = Sheets!FlattenSeq(rows)
    OBVIOUS
  <1>2. flat \in Seq(Word) /\ SameTexts(flat, rows)
    BY <1>1, FlattenKeeps
  <1>3. /\ strings \in Seq(Word)
        /\ \A n \in 1 .. Len(flat) : \E k \in 1 .. Len(strings) : strings[k] = flat[n]
    <2>1. strings = Selected(flat, Firsts(flat))
      BY <1>1
    <2> QED
      BY <1>2, <2>1, FirstsKeep
  <1>4. DOMAIN strings = 1 .. Len(strings) /\ Len(strings) \in Nat /\ \A n \in 1 .. Len(strings) : strings[n] # ""
    <2>1. \A n \in 1 .. Len(strings) : strings[n] \in Word
      BY <1>3
    <2>2. \A n \in 1 .. Len(strings) : strings[n] # ""
      BY <2>1 DEF Word
    <2>3. DOMAIN strings = 1 .. Len(strings) /\ Len(strings) \in Nat
      BY <1>3
    <2> QED
      BY <2>2, <2>3
  <1>5. Sheets!readSharedStrings(book) = strings
    <2>1. book.strings = strings
      BY DEF Book
    <2>2. \A n \in 1 .. Len(strings) : n \in {x \in DOMAIN strings : strings[x] # ""}
      BY <1>4
    <2>3. Selected(strings, {x \in DOMAIN strings : strings[x] # ""}) = strings
      BY <1>3, <2>2, SelectedAll
    <2> QED
      BY <2>1, <2>3, SheetsSelected DEF Sheets!readSharedStrings
  <1>6. ASSUME NEW r \in DOMAIN rows, NEW c \in DOMAIN rows[r]
        PROVE  At(strings, rows[r][c]) \in 1 .. Len(strings) /\ strings[At(strings, rows[r][c])] = rows[r][c]
    <2>1. r \in 1 .. Len(rows) /\ rows[r] \in Seq(Word)
      OBVIOUS
    <2>2. c \in 1 .. Len(rows[r])
      BY <2>1
    <2>3. PICK n \in 1 .. Len(flat) : flat[n] = rows[r][c]
      BY <1>2, <2>1, <2>2 DEF SameTexts
    <2>4. \E k \in DOMAIN strings : strings[k] = rows[r][c]
      BY <1>3, <1>4, <2>3
    <2> QED
      BY <1>4, <2>4 DEF At
  <1> DEFINE Text(i) == IF i < Len(strings) THEN strings[i + 1] ELSE Digits[i + 1]
  <1>7. Sheets!readSheetData(book) =
           [r \in DOMAIN book.cells |-> [c \in DOMAIN book.cells[r] |-> Text(book.cells[r][c])]]
    BY <1>5 DEF Sheets!readSheetData
  <1>8. /\ DOMAIN book.cells = DOMAIN rows
        /\ \A r \in DOMAIN rows : /\ DOMAIN book.cells[r] = DOMAIN rows[r]
                                  /\ \A c \in DOMAIN rows[r] : book.cells[r][c] = At(strings, rows[r][c]) - 1
    BY DEF Book
  <1>9. ASSUME NEW r \in DOMAIN rows, NEW c \in DOMAIN rows[r]
        PROVE  Text(book.cells[r][c]) = rows[r][c]
    <2>1. PICK i \in 1 .. Len(strings) : i = At(strings, rows[r][c]) /\ strings[i] = rows[r][c]
      BY <1>6
    <2>2. book.cells[r][c] = i - 1
      BY <1>8, <2>1
    <2>3. i - 1 < Len(strings) /\ (i - 1) + 1 = i
      <3>1. PICK L \in Nat : L = Len(strings)
        BY <1>4
      <3>2. i \in 1 .. L
        BY <3>1
      <3> QED
        BY <3>1, <3>2
    <2> QED
      BY <2>1, <2>2, <2>3
  <1> HIDE DEF Text
  <1>10. ASSUME NEW r \in DOMAIN rows
         PROVE  [c \in DOMAIN book.cells[r] |-> Text(book.cells[r][c])] = rows[r]
    <2>1. rows[r] \in Seq(Word)
      OBVIOUS
    <2>2. rows[r] = [c \in DOMAIN rows[r] |-> rows[r][c]]
      BY <2>1
    <2> QED
      BY <1>8, <1>9, <2>2
  <1>11. rows = [r \in DOMAIN rows |-> rows[r]]
    OBVIOUS
  <1> QED
    BY <1>7, <1>8, <1>10, <1>11

(* A workbook gives back the table it was written from.                    *)
LEMMA XlsxReadsBack ==
    ASSUME NEW n \in Nat, n # 0, NEW table, Table(table, n), Filled(table, n)
    PROVE  GivesBack(Sheets!readSpreadsheet("xlsx", Sheets!writeSpreadsheet("xlsx", table), TRUE), table, n)
  <1>1. PICK headers : headers = Sheets!unionKeys(table)
    OBVIOUS
  <1>2. HeadersOf(headers, table, n) /\ headers \in Seq(Col)
    BY <1>1, UnionKeysCover DEF HeadersOf
  <1>3. headers # <<>>
    <2>1. PICK one \in 1 .. n : one = 1
      OBVIOUS
    <2>2. PICK c \in DOMAIN table[one] : TRUE
      BY <2>1 DEF Filled
    <2>3. PICK k \in 1 .. Len(headers) : headers[k] = c
      BY <1>2, <2>2 DEF HeadersOf
    <2> QED
      BY <1>2, <2>3
  <1>4. DOMAIN table = 1 .. n /\ \A i \in 1 .. n : Full(table[i])
    BY CellFacts DEF Filled, Full
  <1> DEFINE records == [i \in 1 .. n |-> CellsOf(table[i], headers)]
  <1>5. \A i \in 1 .. n : /\ records[i] \in Seq(Word) /\ Len(records[i]) = Len(headers)
                          /\ \A k \in 1 .. Len(headers) :
                               headers[k] \in DOMAIN table[i] => records[i][k] = table[i][headers[k]]
    BY <1>2, <1>4, CellsTyped
  <1>6. PICK rows : rows = <<headers>> \o records
    OBVIOUS
  <1>7. rows \in Seq(Seq(Word)) /\ rows # <<>>
    <2>1. records \in [1 .. n -> Seq(Word)] /\ headers \in Seq(Word)
      <3>1. records \in [1 .. n -> Seq(Word)]
        BY <1>5
      <3>2. Col \subseteq Word
        BY DEF Col, Txt, Word
      <3> HIDE DEF records
      <3>3. headers \in Seq(Word)
        BY <1>2, <3>2
      <3> QED
        BY <3>1, <3>3
    <2> HIDE DEF records
    <2>2. PICK h \in Seq(Seq(Word)), t \in Seq(Seq(Word)) : h = <<headers>> /\ t = records
      <3>1. <<headers>> \in Seq(Seq(Word))
        BY <2>1
      <3>2. records \in Seq(Seq(Word))
        BY <2>1
      <3> QED
        BY <3>1, <3>2
    <2>3. h \o t \in Seq(Seq(Word)) /\ Len(h \o t) = Len(h) + Len(t)
      BY <2>2, ConcatProperties
    <2>4. Len(h) = 1 /\ Len(t) \in Nat
      BY <2>2
    <2> QED
      BY <1>6, <2>2, <2>3, <2>4
  <1>8. RowsOf(rows, headers, table, n)
    <2>1. records \in [1 .. n -> Seq(Txt)]
      <3>1. Word \subseteq Txt
        BY DEF Word
      <3>2. \A i \in 1 .. n : records[i] \in Seq(Txt)
        BY <1>5, <3>1
      <3> QED
        BY <3>2
    <2> HIDE DEF records
    <2>2. RecordsOf(records, headers, table, n)
      BY <1>5, <2>1 DEF RecordsOf
    <2> QED
      BY <1>2, <1>6, <2>2, HeaderAndRows
  <1> HIDE DEF records
  <1>9. PICK strings : strings = Selected(Sheets!FlattenSeq(rows), Firsts(Sheets!FlattenSeq(rows)))
    OBVIOUS
  <1>10. PICK book : book = Book(rows, strings)
    OBVIOUS
  <1>11. Sheets!WriteXLSX(table) = book
    <2> DEFINE hd == IF Sheets!unionKeys(table) = <<>> THEN <<Positional[1]>> ELSE Sheets!unionKeys(table)
               rw == <<hd>> \o [i \in DOMAIN table |-> [h \in DOMAIN hd |-> Sheets!Cell(table[i], hd[h])]]
               tx == Sheets!FlattenSeq(rw)
               st == Sheets!Selected(tx, {x \in DOMAIN tx : \A m \in 1 .. (x - 1) : tx[m] # tx[x]})
    <2>1. Sheets!WriteXLSX(table) = Book(rw, st)
      BY DEF Sheets!WriteXLSX, Book, At
    <2>2. st = Selected(tx, Firsts(tx))
      BY SheetsSelected DEF Firsts
    <2> HIDE DEF st, tx
    <2>3. hd = headers
      BY <1>1, <1>3
    <2> HIDE DEF hd
    <2>4. [i \in DOMAIN table |-> [h \in DOMAIN hd |-> Sheets!Cell(table[i], hd[h])]] = records
      BY <1>4, <2>3 DEF records, CellsOf
    <2>5. rw = rows
      BY <1>6, <2>3, <2>4
    <2> HIDE DEF rw
    <2>6. tx = Sheets!FlattenSeq(rows)
      BY <2>5 DEF tx
    <2>7. st = strings
      BY <1>9, <2>2, <2>6
    <2> QED
      BY <1>10, <2>1, <2>5, <2>7
  <1>12. Sheets!writeSpreadsheet("xlsx", table) = book
    BY <1>11, CellFacts DEF Sheets!writeSpreadsheet
  <1>13. Sheets!readSheetData(book) = rows
    BY <1>7, <1>9, <1>10, BookReadsBack
  <1>14. Sheets!readSpreadsheet("xlsx", book, TRUE) = Sheets!RowItems(rows, TRUE)
    BY <1>13 DEF Sheets!readSpreadsheet
  <1> QED
    BY <1>2, <1>8, <1>12, <1>14, RowsReadBack

(* The rows that are read of a longer file begin with those of the file.   *)
NamedBy(row, headers) ==
    [h \in {headers[i] : i \in (DOMAIN headers) \cap (DOMAIN row)} |->
       row[CHOOSE i \in (DOMAIN headers) \cap (DOMAIN row) : headers[i] = h]]

LEMMA RowItemsNamed ==
    ASSUME NEW rows, rows # <<>>
    PROVE  Sheets!RowItems(rows, TRUE) = [i \in 1 .. (Len(rows) - 1) |-> NamedBy(rows[i + 1], rows[1])]
  BY DEF Sheets!RowItems, NamedBy

LEMMA RowItemsPrefix ==
    ASSUME NEW W, NEW rows \in Seq(W), rows # <<>>, NEW more \in Seq(W),
           NEW short, short = Sheets!RowItems(rows, TRUE),
           NEW long, long = Sheets!RowItems(rows \o more, TRUE)
    PROVE  Begins(long, short)
  <1>1. PICK L \in Nat, M \in Nat :
             /\ Len(rows) = L + 1 /\ Len(rows \o more) = (L + M) + 1 /\ rows \o more # <<>>
             /\ (rows \o more)[1] = rows[1] /\ \A i \in 1 .. L : (rows \o more)[i + 1] = rows[i + 1]
    BY FirstOf
  <1>2. PICK all : all = rows \o more
    OBVIOUS
  <1>3. all # <<>> /\ all[1] = rows[1] /\ Len(all) = (L + M) + 1 /\ \A i \in 1 .. L : all[i + 1] = rows[i + 1]
    BY <1>1, <1>2
  <1>4. PICK K \in Nat : K = L + M /\ L <= K /\ \A i \in 1 .. L : i \in 1 .. K
    OBVIOUS
  <1>5. Len(rows) - 1 = L /\ Len(all) - 1 = K
    BY <1>1, <1>3, <1>4
  <1>6. short = [i \in 1 .. L |-> NamedBy(rows[i + 1], rows[1])]
    BY <1>5, RowItemsNamed
  <1>7. long = [i \in 1 .. K |-> NamedBy(all[i + 1], rows[1])]
    <2>1. all # <<>> /\ all[1] = rows[1]
      BY <1>3
    <2>2. Sheets!RowItems(all, TRUE) = [i \in 1 .. (Len(all) - 1) |-> NamedBy(all[i + 1], all[1])]
      BY <2>1, RowItemsNamed
    <2>3. long = Sheets!RowItems(all, TRUE)
      BY <1>2
    <2> QED
      BY <1>5, <2>1, <2>2, <2>3
  <1>8. ListOf(short, L)
    BY <1>6 DEF ListOf
  <1>9. ListOf(long, K)
    BY <1>7 DEF ListOf
  <1>10. Agree(long, short, L)
    <2> SUFFICES ASSUME NEW i \in 1 .. L PROVE long[i] = short[i]
      BY DEF Agree
    <2>1. i \in 1 .. K /\ all[i + 1] = rows[i + 1]
      BY <1>3, <1>4
    <2>2. short[i] = NamedBy(rows[i + 1], rows[1])
      BY <1>6
    <2>3. long[i] = NamedBy(all[i + 1], rows[1])
      BY <1>7, <2>1
    <2> QED
      BY <2>1, <2>2, <2>3
  <1>11. L <= K
    BY <1>4
  <1> QED
    BY <1>8, <1>9, <1>10, <1>11, FirstPart

(* A header that has a name is no blank line.                              *)
LEMMA HeaderIsNoBlank ==
    ASSUME NEW headers \in Seq(Col), NEW k \in 1 .. Len(headers) PROVE ~Sheets!Blank(headers)
  <1>1. PICK L \in Nat : L = Len(headers) /\ L # 0
    OBVIOUS
  <1>2. headers # <<>>
    BY <1>1
  <1>3. ASSUME headers = <<"">> PROVE FALSE
    <2>1. headers[1] = ""
      BY <1>3
    <2>2. 1 \in 1 .. L
      BY <1>1
    <2>3. headers[1] \in Col
      BY <1>1, <2>2
    <2> QED
      BY <2>1, <2>3 DEF Col
  <1> QED
    BY <1>2, <1>3 DEF Sheets!Blank

(* A CSV that was appended to is read as before, and then some.            *)
LEMMA AppendedReadBack ==
    ASSUME NEW n \in Nat, NEW table, Table(table, n), NEW i \in 1 .. n, DOMAIN table[i] # {},
           NEW more \in Seq(Seq(Txt)),
           NEW short, short = Sheets!readSpreadsheet("csv", Sheets!WriteCSV(table), TRUE),
           NEW long, long = Sheets!readSpreadsheet("csv", Sheets!WriteCSV(table) \o more, TRUE)
    PROVE  Begins(long, short)
  <1>1. PICK headers, f : headers = Sheets!unionKeys(table) /\ f = Sheets!WriteCSV(table)
    OBVIOUS
  <1>2. HeadersOf(headers, table, n) /\ RowsOf(f, headers, table, n)
    BY <1>1, WriteCSVRows
  <1>3. f \in Seq(Seq(Txt)) /\ Len(f) = n + 1 /\ f[1] = headers /\ headers \in Seq(Col)
    BY <1>2 DEF HeadersOf, RowsOf
  <1>4. ~Sheets!Blank(f[1])
    <2>1. PICK c \in DOMAIN table[i] : TRUE
      OBVIOUS
    <2>2. PICK k \in 1 .. Len(headers) : headers[k] = c
      BY <1>2 DEF HeadersOf
    <2>3. ~Sheets!Blank(headers)
      BY <1>3, HeaderIsNoBlank
    <2> QED
      BY <1>3, <2>3
  <1>5. PICK g : g = f \o more
    OBVIOUS
  <1> DEFINE P == {x \in DOMAIN g : ~Sheets!Blank(g[x])}
             Q == {x \in DOMAIN f : ~Sheets!Blank(f[x])}
  <1>6. Sheets!ReadRecords(g) = Selected(g, P) /\ Sheets!ReadRecords(f) = Selected(f, Q)
    BY SheetsSelected DEF Sheets!ReadRecords
  <1>7. Q \subseteq 1 .. Len(f) /\ 1 \in Q
    BY <1>3, <1>4
  <1>8. \A x \in 1 .. Len(f) : x \in P <=> x \in Q
    <2>1. DOMAIN f = 1 .. Len(f)
      BY <1>3
    <2>2. \A x \in 1 .. Len(f) : x \in DOMAIN g /\ g[x] = f[x]
      BY <1>3, <1>5, ConcatBegins
    <2> QED
      BY <2>1, <2>2
  <1> HIDE DEF P, Q
  <1>9. PICK rows \in Seq(Seq(Txt)) : rows = Selected(f, Q) /\ rows # <<>>
    <2>1. Selected(f, Q) \in Seq(Seq(Txt)) /\ PicksOut(Selected(f, Q), f, Q)
      BY <1>3, <1>7, SelectedPicks
    <2>2. PICK at : Picks(Selected(f, Q), f, Q, at)
      BY <2>1 DEF PicksOut
    <2>3. PICK k \in 1 .. Len(Selected(f, Q)) : at[k] = 1
      BY <1>7, <2>2 DEF Picks
    <2>4. Selected(f, Q) # <<>>
      BY <2>1, <2>3
    <2> QED
      BY <2>1, <2>4
  <1>10. PICK rest \in Seq(Seq(Txt)) : Selected(g, P) = rows \o rest
    <2>1. SamePlaces(P, Q, f)
      BY <1>8 DEF SamePlaces
    <2>2. Continues(Selected(g, P), Selected(f, Q), Seq(Txt))
      BY <1>3, <1>5, <2>1, SelectedContinues
    <2> QED
      BY <1>9, <2>2 DEF Continues
  <1>11. short = Sheets!RowItems(rows, TRUE) /\ long = Sheets!RowItems(rows \o rest, TRUE)
    BY <1>1, <1>5, <1>6, <1>9, <1>10 DEF Sheets!readSpreadsheet
  <1> QED
    BY <1>9, <1>11, RowItemsPrefix

(* The rows of a table up to some number, and a table with more behind it. *)
First(w, k) == SubSeq(w, 1, k)

LEMMA TableFirst ==
    ASSUME NEW n \in Nat, NEW k \in Nat, k <= n, NEW w, Table(w, n), NEW s, s = First(w, k)
    PROVE  Table(s, k) /\ Agree(s, w, k) /\ (n = k => s = w)
  <1>1. w \in Seq(Sheets!Items) /\ Len(w) = n
    BY DEF Table
  <1>2. s \in Seq(Sheets!Items) /\ Len(s) = k /\ \A i \in 1 .. k : s[i] = w[i]
    BY <1>1 DEF First
  <1>3. s \in [1 .. k -> Sheets!Items]
    BY <1>2, LenProperties
  <1>4. n = k => s = w
    BY <1>1, <1>2, SeqEqual
  <1> QED
    BY <1>2, <1>3, <1>4 DEF Table, Agree

LEMMA TableLength == ASSUME NEW n \in Nat, NEW w, Table(w, n) PROVE Len(w) = n /\ DOMAIN w = 1 .. n
  BY DEF Table

LEMMA TableAppended ==
    ASSUME NEW k \in Nat, NEW w, Table(w, k), NEW l \in Nat, NEW m, Table(m, l), NEW a, a = w \o m
    PROVE  Table(a, k + l) /\ First(a, k) = w
  <1>1. w \in Seq(Sheets!Items) /\ Len(w) = k /\ m \in Seq(Sheets!Items) /\ Len(m) = l
    BY DEF Table
  <1>2. a \in Seq(Sheets!Items) /\ Len(a) = k + l
        /\ \A i \in 1 .. k + l : a[i] = IF i <= k THEN w[i] ELSE m[i - k]
    BY <1>1, ConcatProperties
  <1>3. a \in [1 .. k + l -> Sheets!Items]
    BY <1>2, LenProperties
  <1>4. \A i \in 1 .. k : i \in 1 .. k + l /\ i <= k
    OBVIOUS
  <1>5. \A i \in 1 .. k : a[i] = w[i]
    BY <1>2, <1>4
  <1> DEFINE s == SubSeq(a, 1, k)
  <1>6. s \in Seq(Sheets!Items) /\ Len(s) = k /\ \A i \in 1 .. k : s[i] = a[i]
    BY <1>2
  <1> HIDE DEF s
  <1>7. s = w
    BY <1>1, <1>5, <1>6, SeqEqual
  <1> QED
    BY <1>3, <1>7 DEF Table, s, First

(* The records that are appended to a CSV.                                 *)
LEMMA AppendedRecords ==
    ASSUME NEW l \in Nat, NEW m, Table(m, l), NEW headers \in Seq(Col),
           NEW records, records = [i \in DOMAIN m |-> Sheets!Record(m[i], headers)]
    PROVE  records \in Seq(Seq(Txt))
  <1>1. DOMAIN m = 1 .. l /\ \A i \in 1 .. l : \A c \in DOMAIN m[i] : m[i][c] \in Texts
    BY CellFacts
  <1>2. \A i \in 1 .. l : Sheets!Record(m[i], headers) \in Seq(Txt)
    BY <1>1, RecordTyped
  <1>3. records = [i \in 1 .. l |-> Sheets!Record(m[i], headers)]
    BY <1>1
  <1>4. ListOf(records, l) /\ \A i \in 1 .. l : records[i] \in Seq(Txt)
    BY <1>2, <1>3 DEF ListOf
  <1> QED
    BY <1>4, FunctionIsList DEF ListOf

-----------------------------------------------------------------------------
(* The invariant of a file: written, it holds the table; of a CSV it also  *)
(* begins with the first table when rows were appended.                    *)
Holds(fmt, w, k, f) ==
    /\ Table(w, k) => f = Sheets!writeSpreadsheet(fmt, w)
    /\ fmt = "csv" => Continues(f, Sheets!WriteCSV(First(w, k)), Seq(Txt))

SheetState(stg, fmt, w, k, f, b) ==
    /\ fmt \in {"csv", "xlsx"}
    /\ stg \in {"new", "written", "appended", "read"}
    /\ k \in Nat \ {0}
    /\ \E n \in Nat : k <= n /\ Table(w, n)
    /\ stg \in {"new", "written"} => Table(w, k)
    /\ stg # "new" => Holds(fmt, w, k, f)
    /\ stg = "read" => b = Sheets!readSpreadsheet(fmt, f, TRUE)

SheetInv == part = "sheet" => SheetState(stage, format, written, kept, file, back)

(* A written table is never empty.                                         *)
LEMMA TablesAre == ASSUME NEW w \in Sheets!Tables PROVE \E n \in Nat \ {0} : Table(w, n)
  <1>1. PICK n \in 1 .. MaxRows : w \in [1 .. n -> Sheets!Items]
    BY DEF Sheets!Tables
  <1>2. n \in Nat \ {0}
    <2>1. MaxRows \in Nat
      BY SheetsHold DEF SheetAssumption
    <2> QED
      BY <2>1
  <1> QED
    BY <1>1, <1>2 DEF Table

(* A written file holds the table.                                         *)
LEMMA WriteHolds ==
    ASSUME NEW fmt, NEW k \in Nat, k # 0, NEW w, Table(w, k)
    PROVE  Holds(fmt, w, k, Sheets!writeSpreadsheet(fmt, w))
  <1>1. First(w, k) = w
    <2>1. k <= k
      OBVIOUS
    <2> QED
      BY <2>1, TableFirst
  <1>2. fmt = "csv" => Sheets!writeSpreadsheet(fmt, w) = Sheets!WriteCSV(w)
    BY CellFacts DEF Sheets!writeSpreadsheet
  <1>3. PICK f : f = Sheets!WriteCSV(w)
    OBVIOUS
  <1>4. PICK headers : headers = Sheets!unionKeys(w)
    OBVIOUS
  <1>5. RowsOf(f, headers, w, k)
    BY <1>3, <1>4, WriteCSVRows
  <1>6. f \in Seq(Seq(Txt))
    BY <1>5 DEF RowsOf
  <1>7. <<>> \in Seq(Seq(Txt)) /\ f = f \o <<>>
    BY <1>6, ConcatEmptySeq
  <1>8. Continues(f, f, Seq(Txt))
    BY <1>7 DEF Continues
  <1> QED
    BY <1>1, <1>2, <1>3, <1>8 DEF Holds

(* An extended CSV begins with the first table.                            *)
LEMMA AppendHolds ==
    ASSUME NEW fmt, NEW k \in Nat, k # 0, NEW w, Table(w, k), NEW l \in Nat, l # 0, NEW m, Table(m, l),
           NEW f, Holds(fmt, w, k, f), NEW a, a = w \o m, NEW g, g = Sheets!appendSpreadsheet(fmt, f, m)
    PROVE  Holds(fmt, a, k, g) /\ Table(a, k + l)
  <1>1. Table(a, k + l) /\ First(a, k) = w
    BY TableAppended
  <1>2. ~Table(a, k)
    <2>1. PICK n \in Nat : n = k + l /\ n # k
      OBVIOUS
    <2>2. Len(a) = n /\ (Table(a, k) => Len(a) = k)
      BY <1>1, <2>1, TableLength
    <2> QED
      BY <2>1, <2>2
  <1>3. ASSUME fmt = "csv" PROVE Continues(g, Sheets!WriteCSV(w), Seq(Txt))
    <2>1. f = Sheets!WriteCSV(w)
      BY <1>3, CellFacts DEF Sheets!writeSpreadsheet, Holds
    <2>2. PICK existing : existing = Sheets!itemsOrEmpty(Sheets!readSpreadsheet(fmt, f, FALSE))
      OBVIOUS
    <2>3. PICK headers \in Seq(Col) : headers = Sheets!unionKeys(existing)
      BY UnionKeysTyped
    <2>4. PICK records : records = [i \in DOMAIN m |-> Sheets!Record(m[i], headers)]
      OBVIOUS
    <2>5. records \in Seq(Seq(Txt))
      BY <2>4, AppendedRecords
    <2>6. g = f \o records
      BY <1>3, <2>2, <2>3, <2>4 DEF Sheets!appendSpreadsheet
    <2> QED
      BY <2>1, <2>5, <2>6 DEF Continues
  <1> QED
    BY <1>1, <1>2, <1>3 DEF Holds

(* The invariant of a file is inductive.                                   *)
LEMMA SheetInvInit == PacksInit => SheetInv
  <1> SUFFICES ASSUME PacksInit, part = "sheet" PROVE SheetState(stage, format, written, kept, file, back)
    BY DEF SheetInv
  <1>1. Sheets!SheetInit
    BY DEF PacksInit
  <1>2. format \in {"csv", "xlsx"} /\ stage = "new" /\ written \in Sheets!Tables /\ kept = Len(written)
    BY <1>1 DEF Sheets!SheetInit
  <1>3. PICK n \in Nat \ {0} : Table(written, n)
    BY <1>2, TablesAre
  <1>4. kept = n
    BY <1>2, <1>3, TableLength
  <1> QED
    BY <1>2, <1>3, <1>4 DEF SheetState

LEMMA SheetInvStep == SheetInv /\ [PacksNext]_packVars => SheetInv'
  <1> SUFFICES ASSUME SheetInv, [PacksNext]_packVars, part' = "sheet"
               PROVE  SheetState(stage', format', written', kept', file', back')
    BY DEF SheetInv
  <1>1. CASE Sheets!SheetNext /\ part = "sheet"
    <2>1. SheetState(stage, format, written, kept, file, back)
      BY <1>1 DEF SheetInv
    <2>2. CASE Sheets!Write
      <3>1. stage = "new" /\ stage' = "written" /\ file' = Sheets!writeSpreadsheet(format, written)
            /\ format' = format /\ written' = written /\ kept' = kept /\ back' = back
        BY <2>2 DEF Sheets!Write
      <3>2. Table(written, kept) /\ kept \in Nat \ {0}
        BY <2>1, <3>1 DEF SheetState
      <3>3. Holds(format, written, kept, file')
        BY <3>1, <3>2, WriteHolds
      <3> QED
        BY <2>1, <3>1, <3>2, <3>3 DEF SheetState
    <2>3. CASE Sheets!AppendRows
      <3>1. stage = "written" /\ stage' = "appended" /\ format' = format /\ kept' = kept /\ back' = back
        BY <2>3 DEF Sheets!AppendRows
      <3>2. PICK m \in Sheets!Tables :
               file' = Sheets!appendSpreadsheet(format, file, m) /\ written' = written \o m
        BY <2>3 DEF Sheets!AppendRows
      <3>3. PICK l \in Nat \ {0} : Table(m, l)
        BY TablesAre
      <3>4. Table(written, kept) /\ kept \in Nat \ {0} /\ Holds(format, written, kept, file)
        BY <2>1, <3>1 DEF SheetState
      <3>5. Holds(format, written', kept, file') /\ Table(written', kept + l)
        BY <3>2, <3>3, <3>4, AppendHolds
      <3>6. kept + l \in Nat /\ kept <= kept + l
        BY <3>4
      <3> QED
        BY <2>1, <3>1, <3>4, <3>5, <3>6 DEF SheetState
    <2>4. CASE Sheets!Read
      <3>1. stage \in {"written", "appended"} /\ stage' = "read"
            /\ back' = Sheets!readSpreadsheet(format, file, TRUE)
            /\ format' = format /\ written' = written /\ kept' = kept /\ file' = file
        BY <2>4 DEF Sheets!Read
      <3> QED
        BY <2>1, <3>1 DEF SheetState
    <2> QED
      BY <1>1, <2>2, <2>3, <2>4 DEF Sheets!SheetNext
  <1>2. CASE part = "sheet" /\ UNCHANGED sheetVars
    BY <1>2 DEF SheetInv, sheetVars
  <1>3. (Sheets!SheetNext /\ part = "sheet") \/ (part = "sheet" /\ UNCHANGED sheetVars)
    BY DEF PacksNext, packVars, CallNode, CrashNode, ListNode, SheetNode
  <1> QED
    BY <1>1, <1>2, <1>3

(* The two parts of TablesSurvive follow from it.                          *)
LEMMA WholeTablesHold ==
    ASSUME part = "sheet", SheetInv PROVE Sheets!WholeTablesReadBack
  <1> SUFFICES ASSUME stage = "read", Len(written) = kept,
                      \A i \in DOMAIN written : DOMAIN written[i] # {}
                        /\ \A c \in DOMAIN written[i] : written[i][c] # ""
               PROVE  Len(back) = kept /\ \A i \in 1 .. kept : Sheets!ReadAs(i)
    BY DEF Sheets!WholeTablesReadBack
  <1>1. SheetState(stage, format, written, kept, file, back)
    BY DEF SheetInv
  <1>2. PICK n \in Nat : n # 0 /\ n = kept
    BY <1>1 DEF SheetState
  <1>3. Table(written, n)
    <2>1. PICK l \in Nat : Table(written, l)
      BY <1>1 DEF SheetState
    <2>2. l = n
      BY <1>2, <2>1, TableLength
    <2> QED
      BY <2>1, <2>2
  <1>4. Filled(written, n)
    BY <1>3, TableLength DEF Filled
  <1>5. format \in {"csv", "xlsx"} /\ back = Sheets!readSpreadsheet(format, Sheets!writeSpreadsheet(format, written), TRUE)
    BY <1>1, <1>2, <1>3 DEF SheetState, Holds
  <1>6. GivesBack(back, written, n)
    BY <1>2, <1>3, <1>4, <1>5, CsvReadsBack, XlsxReadsBack
  <1> QED
    BY <1>2, <1>6 DEF GivesBack, Sheets!ReadAs

LEMMA AppendsKeep ==
    ASSUME part = "sheet", SheetInv PROVE Sheets!AppendKeepsOldRows
  <1> SUFFICES ASSUME stage = "read", format = "csv", \E i \in 1 .. kept : DOMAIN written[i] # {}
               PROVE  Begins(back, Sheets!readSpreadsheet("csv", Sheets!WriteCSV(First(written, kept)), TRUE))
    BY DEF Sheets!AppendKeepsOldRows, Begins, First
  <1>1. SheetState(stage, format, written, kept, file, back)
    BY DEF SheetInv
  <1>2. PICK k \in Nat : k = kept
    BY <1>1 DEF SheetState
  <1>3. PICK n \in Nat : k <= n /\ Table(written, n)
    BY <1>1, <1>2 DEF SheetState
  <1>4. PICK s : s = First(written, k)
    OBVIOUS
  <1>5. Table(s, k) /\ Agree(s, written, k)
    BY <1>3, <1>4, TableFirst
  <1>6. PICK i \in 1 .. k : DOMAIN s[i] # {}
    BY <1>2, <1>5 DEF Agree
  <1>7. Continues(file, Sheets!WriteCSV(s), Seq(Txt)) /\ back = Sheets!readSpreadsheet("csv", file, TRUE)
    BY <1>1, <1>2, <1>4 DEF SheetState, Holds
  <1>8. PICK more \in Seq(Seq(Txt)) : file = Sheets!WriteCSV(s) \o more
    BY <1>7 DEF Continues
  <1>9. back = Sheets!readSpreadsheet("csv", Sheets!WriteCSV(s) \o more, TRUE)
    BY <1>7, <1>8
  <1>10. Begins(back, Sheets!readSpreadsheet("csv", Sheets!WriteCSV(s), TRUE))
    BY <1>5, <1>6, <1>9, AppendedReadBack
  <1> QED
    BY <1>2, <1>4, <1>10

(* A table that was written is read again as it was, and appending to a    *)
(* CSV leaves the rows it had, for every set of columns and texts and any  *)
(* number of rows (spreadsheet.go, files.go).                              *)
THEOREM TablesAlwaysSurvive == PacksSpec => []TablesSurvive
  <1>1. SheetInv => TablesSurvive
    BY WholeTablesHold, AppendsKeep DEF TablesSurvive
  <1> QED
    BY <1>1, SheetInvInit, SheetInvStep, PTL DEF PacksSpec
=============================================================================
