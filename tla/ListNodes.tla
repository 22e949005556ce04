------------------------------ MODULE ListNodes ------------------------------
(***************************************************************************)
(* The core nodes that route, select, order and rename the items of a run: *)
(* server/internal/nodes/core (core.go, flow.go, items.go, loop.go).  None *)
(* of them calls a service: each is a function of the items it is given    *)
(* and of its parameters, except that renameKeys walks a Go map, whose     *)
(* order is not defined.  The module executes one of them on one input and *)
(* leaves what it returned in `output`.                                    *)
(***************************************************************************)
EXTENDS Integers, Sequences, FiniteSets, SequencesExt, Selection

CONSTANTS
    Fields,     \* the names of the fields of an item
    Rows,       \* the JSON objects an item may hold: functions of fields
    MaxItems,   \* the longest input
    Absent      \* the value fmt prints for a field that is missing ("<nil>")

VARIABLES
    node,       \* the node that is executed
    input,      \* its items, each with its place in the input
    arg,        \* its parameters, and what its expressions evaluate to
    output      \* what it returned: a record of ports, or a marker

listVars == <<node, input, arg, output>>

NotRun == [failed |-> FALSE, ports |-> <<>>]
Failed == [failed |-> TRUE, ports |-> <<>>]
Ports(p) == [failed |-> FALSE, ports |-> p]
Main(items) == Ports([main |-> items])

\* The input: the n-th item remembers n, so that an output can be traced.
InputsOf(rows) == UNION {{[i \in 1..n |-> [ix |-> i, json |-> r[i]]] :
                          r \in [1..n -> rows]} : n \in 0..MaxItems}

\* Most nodes see one empty item when nothing arrives.
itemsOrEmpty(in) == IF in = <<>> THEN <<[ix |-> 1, json |-> <<>>]>> ELSE in

\* A value is a number or not, and has a text; texts are ordered by `rank`,
\* and two values have the same text exactly when they have the same rank.
Value(item, f) == IF f \in DOMAIN item.json THEN item.json[f] ELSE Absent

-----------------------------------------------------------------------------
(* Routing. A condition evaluates to a truth value or to an error, and one *)
(* error fails the whole node.                                             *)

Verdicts == {"true", "false", "error"}

Chosen(in, verdict, v) == Selected(in, {i \in DOMAIN in : verdict[i] = v})

\* core.if: each item goes to the port its condition names.
If(in, verdict) ==
    IF \E i \in DOMAIN in : verdict[i] = "error" THEN Failed
    ELSE Ports([true |-> Chosen(in, verdict, "true"),
                false |-> Chosen(in, verdict, "false")])

\* core.filter: the items whose condition holds.
Filter(in, verdict) ==
    IF \E i \in DOMAIN in : verdict[i] = "error" THEN Failed
    ELSE Main(Chosen(in, verdict, "true"))

\* The port of core.switch for one item: that of the first rule that holds,
\* `default` when none holds or when the rule names no port of the node.
\* The rules after the first one that holds are not evaluated.
SwitchPort(rules) ==
    LET hits == {r \in DOMAIN rules : rules[r].verdict # "false"}
        first == CHOOSE r \in hits : \A h \in hits : r <= h
    IN  IF hits = {} THEN "default"
        ELSE IF rules[first].verdict = "error" THEN "error"
        ELSE IF rules[first].port \in {"p0", "p1", "p2", "p3"}
             THEN rules[first].port ELSE "default"

\* core.switch
Switch(in, rules) ==
    LET port(i) == SwitchPort(rules[i])
        To(p) == Selected(in, {i \in DOMAIN in : port(i) = p})
    IN  IF \E i \in DOMAIN in : port(i) = "error" THEN Failed
        ELSE Ports([p0 |-> To("p0"), p1 |-> To("p1"), p2 |-> To("p2"),
                    p3 |-> To("p3"), default |-> To("default")])

\* core.compareDatasets: arg.side says which items are tagged as data set b.
\* Of the items of b with one key only the last is indexed, an item of a is
\* compared with it over the fields named, or over the fields a has.
SameFields(a, b, fields) ==
    IF fields = {} THEN \A f \in DOMAIN a.json :
                            f \in DOMAIN b.json /\ a.json[f].rank = b.json[f].rank
    ELSE \A f \in fields : Value(a, f).rank = Value(b, f).rank

CompareDatasets(in, side, key, fields) ==
    LET A == {i \in DOMAIN in : side[i] = "a"}
        B == {i \in DOMAIN in : side[i] = "b"}
        K(i) == Value(in[i], key).rank
        matches(i) == {j \in B : K(j) = K(i)}
        last(i) == in[CHOOSE j \in matches(i) : \A k \in matches(i) : k <= j]
        InB(i) == matches(i) # {}
        Same(i) == InB(i) /\ SameFields(in[i], last(i), fields)
    IN  Ports([inAOnly |-> Selected(in, {i \in A : ~InB(i)}),
               same |-> Selected(in, {i \in A : Same(i)}),
               different |-> Selected(in, {i \in A : InB(i) /\ ~Same(i)}),
               inBOnly |-> Selected(in, {j \in B : \A i \in A : K(i) # K(j)})])

-----------------------------------------------------------------------------
(* Selecting and ordering.                                                 *)

\* core.limit
Limit(in, max, keep) ==
    LET n == IF max < 0 THEN 0 ELSE max
    IN  Main(IF n >= Len(in) THEN in
             ELSE IF keep = "last" THEN SubSeq(in, Len(in) - n + 1, Len(in))
             ELSE SubSeq(in, 1, n))

\* core.loop in mode splitBatches: runs of at most `size` items.
Batches(in, size) ==
    LET n == IF size < 1 THEN 1 ELSE size
        count == (Len(in) + n - 1) \div n
        end(b) == IF b * n > Len(in) THEN Len(in) ELSE b * n
    IN  Main([b \in 1..count |-> SubSeq(in, (b - 1) * n + 1, end(b))])

\* compareValues: by number when both are numbers, by text otherwise.
compareValues_ByText(x, y) == x.rank - y.rank
compareValues(x, y) ==
    IF x.isNum /\ y.isNum THEN x.num - y.num ELSE x.rank - y.rank

Before(x, y, desc) ==
    IF desc THEN compareValues(x, y) > 0 ELSE compareValues(x, y) < 0

\* core.sort: sort.SliceStable, which inserts the items one after the other
\* (inputs shorter than its blocks of 20): an item moves left as long as it
\* goes before its neighbour.
InsertBy(list, item, field, desc) ==
    LET stays == {k \in DOMAIN list : ~Before(Value(item, field), Value(list[k], field), desc)}
        at == IF stays = {} THEN 0 ELSE CHOOSE k \in stays : \A j \in stays : j <= k
    IN  InsertAt(list, at + 1, item)

SortBy(in, field, desc) ==
    LET sorted[n \in 0 .. Len(in)] ==
            IF n = 0 THEN <<>> ELSE InsertBy(sorted[n - 1], in[n], field, desc)
    IN  Main(sorted[Len(in)])

\* core.removeDuplicates: the first item of each key; the key is the whole
\* item, or the texts of the fields named.
RemoveDuplicates(in, fields) ==
    LET key(item) == IF fields = {} THEN item.json
                     ELSE [f \in fields |-> Value(item, f).rank]
    IN  Main(Selected(in, {i \in DOMAIN in : \A e \in 1..(i - 1) : key(in[e]) # key(in[i])}))

-----------------------------------------------------------------------------
(* Renaming.                                                               *)

\* One entry of the renames: an empty name is skipped; the field is set under
\* its new name first and the old one deleted afterwards.
RenameOne(json, old, new) ==
    IF new = "" \/ old \notin DOMAIN json THEN json
    ELSE LET set == [f \in DOMAIN json \cup {new} |->
                        IF f = new THEN json[old] ELSE json[f]]
         IN  [f \in DOMAIN set \ {old} |-> set[f]]

\* core.renameKeys on one item, for one order of the entries.
RenameIn(order, json, renames) ==
    LET after[n \in 0 .. Len(order)] ==
            IF n = 0 THEN json ELSE RenameOne(after[n - 1], order[n], renames[order[n]])
    IN  after[Len(order)]

\* core.renameKeys: Go chooses an order of the map anew for every item.
RenameKeys(in, renames) ==
    {Main([i \in DOMAIN in |->
             [in[i] EXCEPT !.json = RenameIn(order[i], in[i].json, renames)]]) :
        order \in [DOMAIN in -> SetToSeqs(DOMAIN renames)]}

-----------------------------------------------------------------------------
(* One execution.                                                          *)

Sides == {"a", "b"}
Rules == {<<>>} \cup [{1} -> [verdict : Verdicts, port : {"p0", "p9"}]]
         \cup [1..2 -> [verdict : {"true", "false"}, port : {"p0", "p1"}]]
Renames == UNION {[D -> Fields \cup {""}] : D \in SUBSET Fields}

Args(n, in) ==
    CASE n \in {"if", "filter"} -> [DOMAIN in -> Verdicts]
      [] n = "switch" -> [DOMAIN in -> Rules]
      [] n = "compareDatasets" ->
            [side : [DOMAIN in -> Sides], key : Fields, fields : SUBSET Fields]
      [] n = "limit" -> [max : -1..MaxItems, keep : {"first", "last"}]
      [] n = "loop" -> 0..MaxItems
      [] n = "sort" -> [field : Fields, desc : BOOLEAN]
      [] n = "removeDuplicates" -> SUBSET Fields
      [] n = "renameKeys" -> Renames

Nodes == {"if", "filter", "switch", "compareDatasets", "limit", "loop", "sort",
          "removeDuplicates", "renameKeys"}

\* limit and sort take the items as they come; what the items hold is of no
\* matter to a node that only evaluates conditions; renameKeys treats every item
\* by itself.
Inputs(n) ==
    CASE n \in {"limit", "sort"} -> InputsOf(Rows)
      [] n \in {"if", "filter", "switch"} ->
            {itemsOrEmpty(in) : in \in InputsOf({CHOOSE r \in Rows : TRUE})}
      [] n = "renameKeys" -> {in \in InputsOf(Rows) : Len(in) = 1}
      [] OTHER -> {itemsOrEmpty(in) : in \in InputsOf(Rows)}

\* What the node may return.
Results ==
    CASE node = "if" -> {If(input, arg)}
      [] node = "filter" -> {Filter(input, arg)}
      [] node = "switch" -> {Switch(input, arg)}
      [] node = "compareDatasets" ->
            {CompareDatasets(input, arg.side, arg.key, arg.fields)}
      [] node = "limit" -> {Limit(input, arg.max, arg.keep)}
      [] node = "loop" -> {Batches(input, arg)}
      [] node = "sort" -> {SortBy(input, arg.field, arg.desc)}
      [] node = "removeDuplicates" -> {RemoveDuplicates(input, arg)}
      [] node = "renameKeys" -> RenameKeys(input, arg)

ListInit ==
    /\ node \in Nodes
    /\ input \in Inputs(node)
    /\ arg \in Args(node, input)
    /\ output = NotRun

ListExecute ==
    /\ output = NotRun
    /\ output' \in Results
    /\ UNCHANGED <<node, input, arg>>

\* Where item i came out: its ports and places.
Places(i) == {at \in (DOMAIN output.ports) \X (1..MaxItems) :
                at[2] \in DOMAIN output.ports[at[1]] /\ output.ports[at[1]][at[2]].ix = i}

InOrder(items) == \A j, k \in DOMAIN items : j < k => items[j].ix < items[k].ix

Returned(n) == node = n /\ output.ports # <<>>

(* No item is lost, doubled or overtaken on its way through a branch: an   *)
(* item of If or Switch, and an item of data set a of Compare Datasets,    *)
(* leaves by exactly one port, and the items of a port keep their order.   *)
RoutedOnce ==
    \A n \in {"if", "switch", "compareDatasets"} : Returned(n) =>
        /\ \A i \in DOMAIN input :
             (n = "compareDatasets" => arg.side[i] = "a") => Cardinality(Places(i)) = 1
        /\ \A p \in DOMAIN output.ports : InOrder(output.ports[p])

(* Split In Batches hands every item on, in order, in batches that are     *)
(* never empty and never longer than asked.                                *)
BatchesCover ==
    Returned("loop") =>
        /\ FlattenSeq(output.ports.main) = input
        /\ \A b \in DOMAIN output.ports.main :
             Len(output.ports.main[b]) \in 1..(IF arg < 1 THEN 1 ELSE arg)

(* Sort returns the items it was given, numbers by size and texts by text, *)
(* ties in the order they came -- when the column holds one kind of value. *)
(* (Mixed columns have no order: 2 < 10 < "1x" < 2.)                       *)
SortOrders ==
    Returned("sort") =>
        LET out == output.ports.main
            col(i) == Value(out[i], arg.field)
            key(i) == IF col(i).isNum THEN col(i).num ELSE col(i).rank
            unmixed == \A i, j \in DOMAIN out : col(i).isNum = col(j).isNum
        IN  /\ {out[i] : i \in DOMAIN out} = {input[i] : i \in DOMAIN input}
            /\ Len(out) = Len(input)
            /\ unmixed => \A i, j \in DOMAIN out : i < j =>
                  IF key(i) = key(j) THEN out[i].ix < out[j].ix
                  ELSE arg.desc <=> key(i) > key(j)

(* Renaming to names that are new to the item and different from each      *)
(* other keeps every value, whatever order the map is walked in.           *)
RenameKeeps ==
    Returned("renameKeys") =>
        LET news == {arg[f] : f \in DOMAIN arg} \ {""}
        IN  \A i \in DOMAIN input :
              LET was == input[i].json
                  is == output.ports.main[i].json
                  To(f) == IF f \in DOMAIN arg /\ arg[f] # "" THEN arg[f] ELSE f
              IN  (/\ news \cap (DOMAIN was \cup DOMAIN arg) = {}
                   /\ \A f, g \in DOMAIN arg : arg[f] = arg[g] => f = g \/ arg[f] = "")
                  => /\ DOMAIN is = {To(f) : f \in DOMAIN was}
                     /\ \A f \in DOMAIN was : is[To(f)] = was[f]

ListSpec == ListInit /\ [][ListExecute]_listVars
=============================================================================
