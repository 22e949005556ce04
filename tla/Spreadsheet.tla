----------------------------- MODULE Spreadsheet -----------------------------
(***************************************************************************)
(* Items written to a file and read back: core.spreadsheetFile             *)
(* (nodes/core/spreadsheet.go, CSV and XLSX) and core.convertToFile with   *)
(* core.extractFromFile (nodes/core/files.go, CSV).  A file is what the    *)
(* reader can tell apart: the records of a CSV, or the shared strings of a *)
(* workbook and the indices its cells hold.                                *)
(***************************************************************************)
EXTENDS Integers, Sequences, SequencesExt, Selection

CONSTANTS
    Columns,    \* every column name, in the order of sort.Strings
    Positional, \* the names col0, col1, ... in the order of the columns
    Texts,      \* the texts a cell may hold, "" among them
    Digits,     \* the decimal forms of 0, 1, 2, ...
    MaxRows     \* the most items written, and the most appended

VARIABLES
    stage,      \* "new", "written", "appended" or "read"
    format,     \* "csv" or "xlsx"
    written,    \* the items given to the write, then also those appended
    kept,       \* how many of them the write was given
    file,       \* the file, once written
    back        \* the items read from it, once read

sheetVars == <<stage, format, written, kept, file, back>>

Missing(item, c) == c \notin DOMAIN item

\* The items a run may hold: each sets some of the caller's columns.
Names == {Columns[i] : i \in DOMAIN Columns} \ {Positional[i] : i \in DOMAIN Positional}
Items == UNION {[D -> Texts] : D \in SUBSET Names}
Tables == UNION {[1..n -> Items] : n \in 1..MaxRows}

itemsOrEmpty(items) == IF items = <<>> THEN <<[c \in {} |-> ""]>> ELSE items

\* The columns some item sets, sorted.
unionKeys(items) ==
    Selected(Columns, {k \in DOMAIN Columns :
                          \E i \in DOMAIN items : ~Missing(items[i], Columns[k])})

-----------------------------------------------------------------------------
(* CSV.                                                                    *)

\* One record of the writer: what an item does not set is left empty.
Record(item, headers) ==
    [i \in DOMAIN headers |-> IF Missing(item, headers[i]) THEN "" ELSE item[headers[i]]]

\* A record without a cell, or with one empty cell, is written as an empty
\* line, and the reader of encoding/csv skips empty lines.
Blank(record) == record = <<>> \/ record = <<"">>
ReadRecords(records) == Selected(records, {n \in DOMAIN records : ~Blank(records[n])})

WriteCSV(items) ==
    LET headers == unionKeys(items)
    IN  <<headers>> \o [i \in DOMAIN items |-> Record(items[i], headers)]

\* Rows to items: named by the first row, or by position.
RowItems(rows, hasHeader) ==
    LET Named(row, headers) ==
            [h \in {headers[i] : i \in (DOMAIN headers) \cap (DOMAIN row)} |->
               row[CHOOSE i \in (DOMAIN headers) \cap (DOMAIN row) : headers[i] = h]]
    IN  IF hasHeader /\ rows # <<>>
        THEN [i \in 1..(Len(rows) - 1) |-> Named(rows[i + 1], rows[1])]
        ELSE [i \in DOMAIN rows |-> Named(rows[i], Positional)]

-----------------------------------------------------------------------------
(* XLSX.                                                                   *)

\* A cell of a workbook: fmt prints <nil> for a field the item does not set.
Cell(item, c) == IF Missing(item, c) THEN "<nil>" ELSE item[c]

\* writeXLSX: every distinct text once, in the order met; cells hold indices.
WriteXLSX(items) ==
    LET headers == IF unionKeys(items) = <<>> THEN <<Positional[1]>> ELSE unionKeys(items)
        rows == <<headers>> \o [i \in DOMAIN items |->
                    [h \in DOMAIN headers |-> Cell(items[i], headers[h])]]
        texts == FlattenSeq(rows)
        strings == Selected(texts, {n \in DOMAIN texts : \A m \in 1 .. (n - 1) : texts[m] # texts[n]})
        Index(text) == (CHOOSE i \in DOMAIN strings : strings[i] = text) - 1
    IN  [strings |-> strings,
         cells |-> [r \in DOMAIN rows |-> [c \in DOMAIN rows[r] |-> Index(rows[r][c])]]]

\* readSharedStrings takes the token after each <t>: an empty <t></t> has no
\* character data, and the string is left out of the list.
readSharedStrings(book) ==
    Selected(book.strings, {n \in DOMAIN book.strings : book.strings[n] # ""})

\* readSheetData: an index beyond the list stays the text of the cell.
readSheetData_OneBased(book) ==
    LET list == readSharedStrings(book)
        Text(i) == IF i \in DOMAIN list THEN list[i] ELSE Digits[i + 1]
    IN  [r \in DOMAIN book.cells |-> [c \in DOMAIN book.cells[r] |-> Text(book.cells[r][c])]]
readSheetData(book) ==
    LET list == readSharedStrings(book)
        Text(i) == IF i < Len(list) THEN list[i + 1] ELSE Digits[i + 1]
    IN  [r \in DOMAIN book.cells |-> [c \in DOMAIN book.cells[r] |-> Text(book.cells[r][c])]]

-----------------------------------------------------------------------------
(* The three actions of the node.                                          *)

readSpreadsheet(fmt, f, hasHeader) ==
    RowItems(IF fmt = "xlsx" THEN readSheetData(f) ELSE ReadRecords(f), hasHeader)

writeSpreadsheet(fmt, items) ==
    IF fmt = "xlsx" THEN WriteXLSX(itemsOrEmpty(items)) ELSE WriteCSV(itemsOrEmpty(items))

\* The existing rows are read without a header, so their columns are named by
\* position; a CSV is extended by records over those names, a workbook is
\* written anew from the rows so named and the new ones.
appendSpreadsheet(fmt, f, items) ==
    LET existing == itemsOrEmpty(readSpreadsheet(fmt, f, FALSE))
        headers == unionKeys(existing)
    IN  IF fmt = "xlsx" THEN WriteXLSX(existing \o items)
        ELSE f \o [i \in DOMAIN items |-> Record(items[i], headers)]

SheetInit ==
    /\ format \in {"csv", "xlsx"}
    /\ written \in Tables
    /\ kept = Len(written)
    /\ stage = "new"
    /\ file = <<>>
    /\ back = <<>>

Write ==
    /\ stage = "new"
    /\ stage' = "written"
    /\ file' = writeSpreadsheet(format, written)
    /\ UNCHANGED <<format, written, kept, back>>

AppendRows ==
    /\ stage = "written"
    /\ stage' = "appended"
    /\ \E more \in Tables :
         /\ file' = appendSpreadsheet(format, file, more)
         /\ written' = written \o more
    /\ UNCHANGED <<format, kept, back>>

Read ==
    /\ stage \in {"written", "appended"}
    /\ stage' = "read"
    /\ back' = readSpreadsheet(format, file, TRUE)
    /\ UNCHANGED <<format, written, kept, file>>

SheetNext == Write \/ AppendRows \/ Read
SheetSpec == SheetInit /\ [][SheetNext]_sheetVars

-----------------------------------------------------------------------------
\* Whether reading gave item i of the table, with the cells it set.
ReadAs(i) ==
    /\ i \in DOMAIN back
    /\ \A c \in DOMAIN written[i] : c \in DOMAIN back[i] /\ back[i][c] = written[i][c]

(* A table that was written and is read again is the table, provided no    *)
(* cell is an empty text: an empty cell of a workbook shifts the shared    *)
(* strings, an empty row of a one-column CSV is a blank line.              *)
WholeTablesReadBack ==
    (stage = "read" /\ Len(written) = kept
       /\ \A i \in DOMAIN written : DOMAIN written[i] # {}
            /\ \A c \in DOMAIN written[i] : written[i][c] # "")
    => Len(back) = kept /\ \A i \in 1..kept : ReadAs(i)

(* Appending to a CSV leaves the rows it had where they were.              *)
AppendKeepsOldRows ==
    (stage = "read" /\ format = "csv" /\ \E i \in 1..kept : DOMAIN written[i] # {})
    => LET old == readSpreadsheet(format, WriteCSV(SubSeq(written, 1, kept)), TRUE)
       IN  Len(old) <= Len(back) /\ SubSeq(back, 1, Len(old)) = old
=============================================================================
