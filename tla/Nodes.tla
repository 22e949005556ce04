------------------------------- MODULE Nodes --------------------------------
(***************************************************************************)
(* The node packs of server/internal/nodes together: a behaviour is one    *)
(* call of a node that reaches a service (NodeCall, over the tables of the *)
(* packs), one call of a core node that arranges its items (ListNodes), or *)
(* a file written and read by the core file nodes (Spreadsheet).           *)
(***************************************************************************)
EXTENDS NodeCall, Integers

CONSTANTS ListFields, ListRows, ListLength, Absent,
          Columns, Positional, Texts, Digits, MaxRows

(* What a field of an item of the list nodes holds, as they compare it.    *)
ListCell == [isNum : BOOLEAN, num : Int, rank : Int]

ListAssumption ==
    /\ ListLength \in Nat \ {0}
    /\ IsFiniteSet(ListFields)
    /\ <<>> \in ListRows
    /\ Absent \in ListCell
    /\ \A r \in ListRows : DOMAIN r \subseteq ListFields /\ r \in [DOMAIN r -> ListCell]
ASSUME ListsHold == ListAssumption

(* No column has the empty name: a header of one such column is a blank    *)
(* line, which the reader skips.                                           *)
SheetAssumption == MaxRows \in Nat /\ Columns \in Seq(STRING \ {""})
ASSUME SheetsHold == SheetAssumption

VARIABLES part,                             \* which of the three it is
          node, input, arg, output,         \* of ListNodes
          stage, format, written, kept, file, back   \* of Spreadsheet

Lists  == INSTANCE ListNodes WITH Fields <- ListFields, Rows <- ListRows, MaxItems <- ListLength
Sheets == INSTANCE Spreadsheet

listVars  == <<node, input, arg, output>>
sheetVars == <<stage, format, written, kept, file, back>>
packVars  == <<vars, part, listVars, sheetVars>>

NoCall ==
    /\ plan = [node |-> "none", op |-> "none", form |-> {}, via |-> "once", steps |-> <<>>, loop |-> 0]
    /\ filled = FALSE /\ items = 1 /\ pc = 1 /\ item = 1 /\ page = 1 /\ try = 0 /\ spent = FALSE
    /\ sent = 0 /\ wrote = FALSE /\ count = <<>> /\ unsure = 0 /\ whole = TRUE
    /\ outcome = "none" /\ why = "none" /\ asked = {} /\ strayed = {} /\ crashes = 0
NoList  == node = "none" /\ input = <<>> /\ arg = "none" /\ output = Lists!NotRun
NoSheet == stage = "none" /\ format = "none" /\ written = <<>> /\ kept = 0 /\ file = <<>> /\ back = <<>>

PacksInit ==
    \/ part = "call"  /\ Init /\ NoList /\ NoSheet
    \/ part = "list"  /\ NoCall /\ Lists!ListInit /\ NoSheet
    \/ part = "sheet" /\ NoCall /\ NoList /\ Sheets!SheetInit

CallNode  == part = "call"  /\ Work  /\ UNCHANGED <<part, listVars, sheetVars>>
CrashNode == part = "call"  /\ Crash /\ UNCHANGED <<part, listVars, sheetVars>>
ListNode  == part = "list"  /\ Lists!ListExecute /\ UNCHANGED <<part, vars, sheetVars>>
SheetNode == part = "sheet" /\ Sheets!SheetNext /\ UNCHANGED <<part, vars, listVars>>

PacksNext == CallNode \/ CrashNode \/ ListNode \/ SheetNode

(* The engine runs what it has begun: a call goes on as long as it can.    *)
PacksSpec == PacksInit /\ [][PacksNext]_packVars /\ WF_packVars(CallNode)

-----------------------------------------------------------------------------
(* The properties of the parts (TypeOK to EveryCallEnds of NodeCall, and   *)
(* those of ListNodes and Spreadsheet), each on the behaviours of its part.*)

(* What NodeCall's variables hold.                                         *)
CallTypeOK == part = "call" => TypeOK

(* A node that reports success has had each of its writes applied, and the *)
(* operations that check what they read have read all of it.               *)
SuccessIsTrue == part = "call" => SuccessIsApplied /\ StrictAnswersAreWhole

(* A write happens for a cause: it is repeated only after a crash or an    *)
(* attempt whose fate the code could not know, and it is not made for      *)
(* input that the node then rejects by itself.                             *)
WritesHaveACause == part = "call" => RepeatsHaveACause /\ ChecksComeFirst

(* A request goes out whole: a filled form lacks nothing the code needs,   *)
(* changes and removals name their target, and a retry carries the body.   *)
RequestsAreWhole ==
    part = "call" => FormFitsCode /\ ChangesNameTheirTarget /\ RetriesCarryTheRequest

(* Every call ends but for those that set no deadline.                     *)
CallEnds == (part = "call" /\ ~In(Endless)) ~> (outcome \in {"ok", "error"})

(* The list nodes keep their items: If, Switch and Compare Datasets route  *)
(* each once and in order, Split In Batches hands all of them on, Sort     *)
(* orders them, and renaming keeps their values.                           *)
ItemsKept ==
    part = "list" =>
        Lists!RoutedOnce /\ Lists!BatchesCover /\ Lists!SortOrders /\ Lists!RenameKeeps

(* A table that was written is read again as it was, and appending to it   *)
(* leaves the rows it had.                                                 *)
TablesSurvive == part = "sheet" => Sheets!WholeTablesReadBack /\ Sheets!AppendKeepsOldRows
=============================================================================
