------------------------------ MODULE NodeCall ------------------------------
(***************************************************************************)
(* One call of a node's Execute function, for the nodes that talk to a     *)
(* service.  A plan lists what the operation does, in its order: checks of *)
(* its parameters, the credential, local work on the items, and requests   *)
(* to the service.  The tables of the node packs (Calls and the modules    *)
(* that extend it) translate each operation to its plan; this module says  *)
(* how a plan is carried out: what a request may meet (a refusal, a busy   *)
(* service, an answer that is lost or cut, silence), what the three http   *)
(* paths of the code do about it (rest.doWithRetry, google.retryTransport, *)
(* a plain client), and a crash of the server, after which the recovery of *)
(* the engine executes the node again.                                     *)
(***************************************************************************)
EXTENDS Naturals, Sequences, FiniteSets

CONSTANTS
    Plans,        \* what each operation does
    MaxItems,     \* bound on the input items of a node that loops over them
    MaxPages,     \* maxPages of rest.execute, 50 in the code
    MaxCrashes,   \* bound on the crashes of the server
    Careless,     \* operations that may report a success without the effect
    LateCheck,    \* operations that reject their input after a write
    Unusable,     \* operations whose form lacks a field the code needs
    Strict,       \* operations that reject an answer they cannot read
    Unrepeatable, \* http paths on which a retry cannot send a body again
    Endless,      \* operations that may wait for a silent service for ever
    Unaimed       \* operations that may change or remove without naming what

Local  == {"need", "cred", "parse", "claim"}
Writes == {"create", "set", "remove", "take"}
Sends  == Writes \cup {"read", "pages", "dial"}

(* What a step lets pass: an unreadable body, an error status, an error of *)
(* the transport; a step whose failure is a result of the node, and a step *)
(* that waits for the service for ever.                                    *)
Laxness == {"body", "status", "error", "quits", "endless"}

(* The kind of a step, the parameters it asks for or that say what its     *)
(* request is about, what it lets pass, and whether its request has a body.*)
StepRecord == [do : Local \cup Sends, of : SUBSET STRING, lax : SUBSET Laxness, body : BOOLEAN]

ASSUME NodeCallAssumption ==
    /\ MaxItems \in Nat \ {0} /\ MaxPages \in Nat \ {0} /\ MaxCrashes \in Nat
    /\ \A p \in Plans :
        /\ p.steps # <<>> /\ p.loop \in 0 .. Len(p.steps)
        /\ p.steps \in Seq(StepRecord)

-----------------------------------------------------------------------------
(* What the tables are like: the code of each operation that is not named  *)
(* by a list of exceptions.                                                *)

(* Whether a list of operations names this one, or all those of its node.  *)
Named(p, list) == <<p.node, p.op>> \in list \/ <<p.node, "*">> \in list

IsWrite(p, s)  == p.steps[s].do \in Writes
InLoop(p, s)   == p.loop \in 1 .. s

(* Every write is sent, its failure is looked at, and no failure of an     *)
(* earlier request is a result.                                            *)
Careful(p) ==
    \A s \in DOMAIN p.steps :
        /\ p.steps[s].do # "claim"
        /\ IsWrite(p, s) => p.steps[s].lax \cap {"status", "error"} = {}
        /\ "quits" \in p.steps[s].lax => \A t \in DOMAIN p.steps : ~IsWrite(p, t)

(* A step that may reject the input comes before every write, also before  *)
(* those for the items before.                                             *)
ChecksEarly(p) ==
    \A s \in DOMAIN p.steps : p.steps[s].do \in {"need", "cred", "parse"} =>
        \A t \in DOMAIN p.steps : IsWrite(p, t) => s < t /\ ~(InLoop(p, s) /\ InLoop(p, t))

(* The form shows what the code asks for.                                  *)
FormComplete(p) ==
    \A s \in DOMAIN p.steps : p.steps[s].do \in {"need"} \cup Sends => p.steps[s].of \subseteq p.form

(* What is changed or removed has a name, and the name has been asked for. *)
Aimed(p) ==
    \A s \in DOMAIN p.steps : p.steps[s].do \in {"set", "remove"} =>
        /\ p.steps[s].of # {}
        /\ \A name \in p.steps[s].of :
              \E t \in 1 .. (s - 1) : p.steps[t].do = "need" /\ name \in p.steps[t].of

(* Every answer is looked at.                                              *)
Exact(p) ==
    \A s \in DOMAIN p.steps : p.steps[s].do \in Sends =>
        p.steps[s].do # "pages" /\ p.steps[s].lax \cap {"body", "status", "error"} = {}

(* No request waits for the service for ever.                              *)
Deadlined(p) == \A s \in DOMAIN p.steps : "endless" \notin p.steps[s].lax

ASSUME TableAssumption ==
    /\ "google" \in Unrepeatable
    /\ \A p \in Plans :
        /\ ~Named(p, Careless) => Careful(p)
        /\ ~Named(p, LateCheck) => ChecksEarly(p)
        /\ ~Named(p, Unusable) => FormComplete(p)
        /\ ~Named(p, Unaimed) => Aimed(p)
        /\ Named(p, Strict) => Exact(p)
        /\ ~Named(p, Endless) => Deadlined(p)

(* doWithRetry and retryTransport make three attempts, the redis client    *)
(* four, a plain client one.                                               *)
Tries(via) == CASE via = "once" -> 1 [] via = "redis" -> 4 [] OTHER -> 3

VARIABLES
    plan,      \* the plan of the operation
    filled,    \* the user filled every field the form shows for it
    items,     \* the number of input items it loops over
    pc,        \* the step of its plan
    item,      \* the item of the loop
    page,      \* the page of a paged read
    try,       \* the attempts of this request that have failed
    spent,     \* an earlier attempt has read the body of this request
    sent,      \* the attempts that carried the whole request
    wrote,     \* this execution has had a write accepted
    count,     \* how often the service has applied each step
    unsure,    \* the attempts of writes of which the code cannot know what they did
    whole,     \* every answer taken was complete
    outcome,   \* running, ok, error, or hung on a silent service
    why,       \* the kind of step that failed
    asked,     \* the parameters this execution has found to be there
    strayed,   \* the kinds of request sent with a part of the address missing
    crashes

requestVars == <<page, try, spent, sent>>
vars == <<plan, filled, items, pc, item, page, try, spent, sent, wrote, count, unsure, whole,
          outcome, why, asked, strayed, crashes>>
givenVars == <<plan, filled, items>>

In(list) == Named(plan, list)
Steps == plan.steps
Here  == Steps[pc]
Via   == plan.via

-----------------------------------------------------------------------------
Init ==
    /\ plan \in Plans
    /\ filled \in BOOLEAN
    /\ items \in 1 .. (IF plan.loop = 0 THEN 1 ELSE MaxItems)
    /\ pc = 1 /\ item = 1 /\ page = 1 /\ try = 0 /\ spent = FALSE /\ sent = 0
    /\ wrote = FALSE
    /\ count = [s \in DOMAIN Steps |-> 0]
    /\ unsure = 0
    /\ whole = TRUE
    /\ outcome = "running" /\ why = "none"
    /\ asked = {} /\ strayed = {}
    /\ crashes = 0

(* The next step, the next item, or the result.                            *)
Advance ==
    /\ page' = 1 /\ try' = 0 /\ spent' = FALSE /\ sent' = 0
    /\ \/ /\ pc < Len(Steps)
          /\ pc' = pc + 1
          /\ UNCHANGED <<item, outcome>>
       \/ /\ pc = Len(Steps) /\ item < items
          /\ pc' = plan.loop
          /\ item' = item + 1
          /\ UNCHANGED outcome
       \/ /\ pc = Len(Steps) /\ item = items
          /\ outcome' = "ok"
          /\ UNCHANGED <<pc, item>>
    /\ UNCHANGED <<givenVars, why, crashes>>

(* An error of any step is the error of the node.                          *)
Fail ==
    /\ outcome' = "error"
    /\ why' = Here.do
    /\ UNCHANGED <<givenVars, pc, item, requestVars, crashes>>

(* A parameter the form shows is there when the user filled the form; one  *)
(* it does not show is not.                                                *)
Need ==
    /\ outcome = "running" /\ Here.do = "need"
    /\ \/ /\ Here.of \subseteq plan.form \/ ~filled
          /\ asked' = asked \cup Here.of
          /\ Advance
       \/ /\ ~(Here.of \subseteq plan.form /\ filled)
          /\ Fail
          /\ UNCHANGED asked
    /\ UNCHANGED <<wrote, count, unsure, whole, strayed>>

(* The credential or the authorized client, and work on the items: either  *)
(* may fail.  A write that is only claimed does not.                       *)
LocalStep ==
    /\ outcome = "running" /\ Here.do \in {"cred", "parse", "claim"}
    /\ Advance \/ (Here.do # "claim" /\ Fail)
    /\ UNCHANGED <<wrote, count, unsure, whole, asked, strayed>>

-----------------------------------------------------------------------------
(* A retry sends the request again only when its body can be read again:   *)
(* doWithRetry rewinds it, retryTransport does not.                        *)
Rewinds_Never == ~Here.body
Rewinds == Via # "google" \/ ~Here.body
Carried == ~spent \/ Rewinds

Applying == {"done", "cut", "busyDone", "lostDone"}
Unknown  == {"busy", "busyDone", "lost", "lostDone"}
Passing  == Unknown \cup {"unsent"}

(* A silent service is waited for until the deadline of the request, and   *)
(* for ever without one.                                                   *)
Silence_NoDeadline == {"silent"}
Silence == IF "endless" \in Here.lax THEN {"silent"} ELSE {}

(* What becomes of an attempt.  A request without its body never leaves    *)
(* the transport.                                                          *)
Answers == IF Carried THEN {"done", "cut", "refused", "unsent"} \cup Unknown \cup Silence
           ELSE {"unsent"}

(* The answers a step takes for a result.  Only a plain client hands a     *)
(* busy answer to the code.                                                *)
Taken_AnyStatus(a) == a \in {"done", "refused"} \/ (a = "cut" /\ "body" \in Here.lax)
Taken(a) ==
    \/ a = "done"
    \/ a = "cut" /\ "body" \in Here.lax
    \/ a = "refused" /\ "status" \in Here.lax
    \/ a \in {"busy", "busyDone"} /\ Via = "once" /\ "status" \in Here.lax
    \/ a \in Passing \ {"busy", "busyDone"} /\ "error" \in Here.lax /\ try + 1 = Tries(Via)

(* The attempts that are made again.                                       *)
Retried_CutToo(a) == a \in Passing \cup {"cut"} /\ try + 1 < Tries(Via)
Retried(a) == a \in Passing /\ try + 1 < Tries(Via)

(* Whether the address of the request lacks one of its parameters: not if  *)
(* they have been asked for; else it depends on the form and on the user.  *)
Holes == IF Here.of \subseteq asked THEN {FALSE}
         ELSE IF filled THEN {~(Here.of \subseteq plan.form)} ELSE BOOLEAN

(* What the service and the history keep of an attempt.                    *)
Note(a) ==
    /\ \E hole \in Holes : strayed' = IF hole THEN strayed \cup {Here.do} ELSE strayed
    /\ count' = IF a \in Applying /\ Here.do \in Writes THEN [count EXCEPT ![pc] = @ + 1] ELSE count
    /\ unsure' = IF a \in Unknown /\ Here.do \in Writes THEN unsure + 1 ELSE unsure

(* A page of more than one: rest.execute stops silently after maxPages and *)
(* after a page it cannot read.                                            *)
MorePages_OneMore(a) ==
    /\ Here.do = "pages" /\ a = "done"
    /\ page <= MaxPages
    /\ page' = page + 1 /\ try' = 0 /\ spent' = FALSE /\ sent' = 0
    /\ UNCHANGED <<givenVars, pc, item, whole, wrote, outcome, why, crashes>>
MorePages(a) ==
    /\ Here.do = "pages" /\ a = "done"
    /\ page < MaxPages
    /\ page' = page + 1 /\ try' = 0 /\ spent' = FALSE /\ sent' = 0
    /\ UNCHANGED <<givenVars, pc, item, whole, wrote, outcome, why, crashes>>

(* The answer is taken for the result of the step.                         *)
Accept(a) ==
    /\ Taken(a)
    /\ \E rest \in IF Here.do = "pages" /\ page = MaxPages THEN BOOLEAN ELSE {FALSE} :
          whole' = (whole /\ a = "done" /\ ~rest)
    /\ wrote' = (wrote \/ Here.do \in Writes)
    /\ Advance

(* The request is sent again.                                              *)
Resend(a) ==
    /\ ~Taken(a) /\ Retried(a)
    /\ try' = try + 1
    /\ spent' = (spent \/ a # "unsent")
    /\ sent' = IF Carried THEN sent + 1 ELSE sent
    /\ UNCHANGED <<givenVars, pc, item, page, wrote, whole, outcome, why, crashes>>

(* The last attempt has failed, or one that is not repeated.               *)
GiveUp(a) ==
    /\ ~Taken(a) /\ ~Retried(a) /\ a # "silent"
    /\ sent' = IF Carried THEN sent + 1 ELSE sent
    /\ IF "quits" \in Here.lax THEN outcome' = "ok" /\ UNCHANGED why
       ELSE outcome' = "error" /\ why' = Here.do
    /\ UNCHANGED <<givenVars, pc, item, page, try, spent, wrote, whole, crashes>>

Hang(a) ==
    /\ a = "silent"
    /\ outcome' = "hung"
    /\ UNCHANGED <<givenVars, pc, item, requestVars, wrote, whole, why, crashes>>

Attempt(a) ==
    /\ outcome = "running" /\ Here.do \in Sends
    /\ a \in Answers
    /\ Note(a)
    /\ UNCHANGED asked
    /\ MorePages(a) \/ Accept(a) \/ Resend(a) \/ GiveUp(a) \/ Hang(a)

Send == \E a \in Answers : Attempt(a)

(* A crash of the server; its recovery executes the node again.            *)
Crash ==
    /\ outcome \in {"running", "hung"} /\ crashes < MaxCrashes
    /\ crashes' = crashes + 1
    /\ pc' = 1 /\ item' = 1 /\ page' = 1 /\ try' = 0 /\ spent' = FALSE /\ sent' = 0
    /\ wrote' = FALSE /\ whole' = TRUE /\ outcome' = "running" /\ asked' = {}
    /\ UNCHANGED <<givenVars, count, unsure, why, strayed>>

Work == Need \/ LocalStep \/ Send
Next == Work \/ Crash

Spec     == Init /\ [][Next]_vars
FairSpec == Spec /\ WF_vars(Work)
-----------------------------------------------------------------------------
TypeOK ==
    /\ plan.loop \in 0 .. Len(Steps) /\ filled \in BOOLEAN
    /\ items \in 1 .. MaxItems /\ item \in 1 .. items
    /\ pc \in DOMAIN Steps /\ page \in 1 .. MaxPages
    /\ try \in 0 .. 3 /\ sent \in 0 .. 4 /\ spent \in BOOLEAN
    /\ wrote \in BOOLEAN /\ whole \in BOOLEAN
    /\ count \in [DOMAIN Steps -> Nat] /\ unsure \in Nat /\ crashes \in 0 .. MaxCrashes
    /\ outcome \in {"running", "ok", "error", "hung"}
    /\ why \in {"none"} \cup Local \cup Sends /\ strayed \subseteq Sends

(* How often a step is carried out in one execution without retries.       *)
Rounds(s) == IF plan.loop \in 1 .. s THEN items ELSE 1

(* A node that reports success has had each of its writes applied, for     *)
(* each item: no answer of the service, no retry and no crash in between   *)
(* lets one be skipped.                                                    *)
SuccessIsApplied ==
    outcome = "ok" /\ ~In(Careless) =>
        \A s \in DOMAIN Steps :
            Steps[s].do \in Writes \cup {"claim"} => count[s] >= Rounds(s)

(* The service applies a write once per execution; what it applies beyond  *)
(* that has a cause, a crash or an attempt whose fate the code could not   *)
(* know.  No answer that tells what happened is followed by a repetition.  *)
RepeatsHaveACause ==
    \A s \in DOMAIN Steps :
        Steps[s].do \in Writes => count[s] <= (crashes + 1) * Rounds(s) + unsure

(* Input the node rejects by itself is rejected before anything is         *)
(* written, so that the user may correct it and run again.                 *)
ChecksComeFirst ==
    outcome = "error" /\ why \in Local /\ ~In(LateCheck) => ~wrote

(* Whoever fills every field the form of the operation shows neither fails *)
(* for a missing parameter nor sends a request with a hole in its address. *)
FormFitsCode ==
    filled /\ ~In(Unusable) => why # "need" /\ strayed = {}

(* What is changed or removed is named: no parameter left empty turns the  *)
(* address of one thing into the address of what contains it, or a filter  *)
(* into one that matches everything.                                       *)
ChangesNameTheirTarget == strayed \cap {"set", "remove"} # {} => In(Unaimed)

(* The operations that check what they read do not report success on a     *)
(* truncated answer, a silently shortened list or an error body.           *)
StrictAnswersAreWhole == outcome = "ok" /\ In(Strict) => whole

(* A call that gives up after its last attempt made all of them with the   *)
(* whole request.                                                          *)
RetriesCarryTheRequest ==
    outcome = "error" /\ why \in Sends /\ try + 1 = Tries(Via)
        /\ ~(Via \in Unrepeatable /\ Here.body) => sent = Tries(Via)

(* Every call ends, whatever the service does, but for those that set no   *)
(* deadline.                                                               *)
EveryCallEnds == ~In(Endless) ~> (outcome \in {"ok", "error"})
=============================================================================
