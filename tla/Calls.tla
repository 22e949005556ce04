------------------------------- MODULE Calls --------------------------------
(***************************************************************************)
(* The vocabulary of the tables of operations.  A table is a set of plans; *)
(* a plan holds the node's type, the operation, the fields its form shows, *)
(* the http path its requests take, its steps, and the step from which it  *)
(* starts again for each input item (0: it does not).                      *)
(***************************************************************************)
EXTENDS Sequences, Naturals

Step(do, of, lax, body) == [do |-> do, of |-> of, lax |-> lax, body |-> body]

(* Checks and local work.                                                  *)
Need(params) == Step("need", params, {}, FALSE)
Cred         == Step("cred", {}, {}, FALSE)
Parse        == Step("parse", {}, {}, FALSE)
(* A write that is reported and never sent.                                *)
Claim        == Step("claim", {}, {}, FALSE)

(* Requests, with what they let pass.                                      *)
Dial(lax)    == Step("dial", {}, lax, FALSE)
Read(lax)    == Step("read", {}, lax, FALSE)
Ask(lax)     == Step("read", {}, lax, TRUE)
Pages(lax)   == Step("pages", {}, lax, FALSE)
Create(lax)  == Step("create", {}, lax, TRUE)
Set(lax)     == Step("set", {}, lax, TRUE)
Remove(lax)  == Step("remove", {}, lax, FALSE)
Take(lax)    == Step("take", {}, lax, FALSE)
Bare(step)     == [step EXCEPT !.body = FALSE]
Carrying(step) == [step EXCEPT !.body = TRUE]
(* The parameters that say what a request is about, in its address, its    *)
(* query or its body.                                                      *)
At(params, step) == [step EXCEPT !.of = params]

(* ReadAll whose error nobody looks at.                                    *)
Blind   == {"body"}
(* As Blind, and the status of the answer is not looked at either.         *)
Trusted == {"body", "status"}
(* A service that refuses in the body of an answer whose status is no      *)
(* error, and a code that looks at the status only.                        *)
InBody(step) == [step EXCEPT !.lax = @ \cup {"status"}]
(* A request that ends the call with a result when it fails.               *)
Quitting(step) == [step EXCEPT !.lax = @ \cup {"quits"}]
(* A request that waits without a deadline.                                *)
Forever(step) == [step EXCEPT !.lax = @ \cup {"endless"}]

-----------------------------------------------------------------------------
(* The declarative nodes of rest.go                                        *)

(* An operation: its request, the parameters in its path, the other fields *)
(* its form shows, and the names of the operations that look like this.    *)
Op(send, path, form, names) ==
    [send |-> send, path |-> path, form |-> path \cup form, names |-> names]

(* The form lacks a parameter of the path.                                 *)
Short(send, path, form, names) ==
    [send |-> send, path |-> path, form |-> form, names |-> names]

Get    == Read(Blind)
Post   == Create(Blind)
Query  == Ask(Blind)
Put    == Set(Blind)
Patch  == Set(Blind)
Delete == Remove(Blind)
(* A POST that changes or removes what there is.                           *)
Amend  == Set(Blind)
Expunge == Carrying(Remove(Blind))

(* execute asks for the parameters of the path and for no other: one that  *)
(* is missing in the query is left out, a missing body is an empty one and *)
(* a missing base URL the one of the node.  It fills the path, takes the   *)
(* credential, builds the request, which fails when the base URL is no     *)
(* URL, and sends it.                                                      *)
RestSteps(auth, op) ==
    <<Need(op.path)>> \o (IF auth = "none" THEN <<>> ELSE <<Cred>>)
        \o <<Parse, At(op.path \cup op.send.of, op.send)>>

Rest(type, auth, ops) ==
    UNION {{[node |-> type, op |-> name, form |-> o.form, via |-> "rest",
             steps |-> RestSteps(auth, o), loop |-> 0] : name \in o.names} : o \in ops}

-----------------------------------------------------------------------------
(* The nodes with an Execute function of their own                         *)

(* A field of a form and the operations that show it.                      *)
Field(params, ops) == [params |-> params, ops |-> ops]

Shown(form, op) == UNION {f.params : f \in {g \in form : op \in g.ops}}

(* Operations that take the same steps.                                    *)
Does(names, steps)     == [names |-> names, steps |-> steps, loop |-> 0]
PerItem(names, from, steps) == [names |-> names, steps |-> steps, loop |-> from]

(* The operations of a node, with the steps they all begin with.           *)
Node(type, via, form, first, ops) ==
    UNION {{[node |-> type, op |-> name, form |-> Shown(form, name), via |-> via,
             steps |-> first \o o.steps,
             loop |-> IF o.loop = 0 THEN 0 ELSE Len(first) + o.loop] :
                name \in o.names} : o \in ops}
=============================================================================
