----------------------------- MODULE StringTables -----------------------------
(***************************************************************************)
(* The string tables (stringtables.go): CSVCMsg_CreateStringTable adds a   *)
(* table, CSVCMsg_UpdateStringTable names one by its number, and both      *)
(* carry a list of entries. An entry has an index, maybe a key and maybe a *)
(* value. Its index is told as the one after the last, or absolutely; its  *)
(* key may begin like one of the keys that the list had before, told as a  *)
(* place in the history of the last keys and a number of characters; and   *)
(* how its value is written depends on how the table was created.          *)
(*                                                                         *)
(* Only two tables are used: "instancebaseline", by key, for the values a  *)
(* new entity of a class has, and "userinfo", by index, for the players.   *)
(* CDemoStringTables repeats all tables as the server has them.            *)
(*                                                                         *)
(* The server is not in this repository: it writes what it has in a list   *)
(* into the forms the code reads. Applying the entries one by one stands   *)
(* for applying the list at its end, which is what the code does whether   *)
(* the list was read to its end or was cut off by an error.                *)
(***************************************************************************)
EXTENDS Integers, Sequences

CONSTANTS
    BaselineTable, UserInfoTable, OtherTable,   \* the names of tables
    Formats,        \* how values may be written (userDataFixed, flags, varint bit counts)
    ClassKeys,      \* the keys of baselines: a number (sequence of digits)
    OtherKeys,      \* keys of baselines that name a number and a variant ("12:1")
    Slots,          \* the indexes of entries, from 0
    Values,         \* what an entry may hold
    Empty,          \* an empty user info, or no value at all
    Garbage,        \* a value that was read in the wrong format
    History,        \* how many keys the history holds (32)
    MaxTables,      \* bound on the tables
    MaxEntries      \* bound on the entries of one list

ASSUME StringTablesAssumption ==
    /\ History \in Nat \ {0}
    /\ Slots \subseteq Nat
    /\ ClassKeys \cup OtherKeys \subseteq Seq(Nat)

VARIABLES
    tables,         \* the server's tables: their names and formats, in order of creation
    baselineOf,     \* the server's last value of each class
    infoOf,         \* the server's last user info of each slot that was not empty
    written,        \* the keys of the list being written
    stringTables,   \* parser.stringTables
    classBaselines, \* stParser.classBaselines
    rawPlayers,     \* parser.rawPlayers
    open,           \* the table whose list is being read and how it is read, or NoList
    index,          \* the index of the last entry read
    keys,           \* the history of keys
    entry           \* the last entry as the server wrote it and as it was read

serverVars == <<tables, baselineOf, infoOf, written>>
tablesVars == <<tables, baselineOf, infoOf, written, stringTables, classBaselines,
                rawPlayers, open, index, keys, entry>>

Names == {BaselineTable, UserInfoTable, OtherTable}
NoList == [name |-> OtherTable, format |-> Garbage, writtenAs |-> Garbage]
NoKey == <<>>
NoEntry == [sent |-> <<>>, read |-> <<>>]

-----------------------------------------------------------------------------
(***************************************************************************)
(* Keys.                                                                   *)
(***************************************************************************)
\* The smaller of two numbers.
Smaller(a, b) == IF a < b THEN a ELSE b

\* The last of a list.
Recent(list, n) == SubSeq(list, Len(list) - Smaller(n, Len(list)) + 1, Len(list))

\* A history that grows without end.
Remembered_All(history, key) == Append(history, key)

\* parseStringTable: the key is remembered, the oldest one forgotten.
Remembered(history, key) ==
    LET longer == Append(history, key)
    IN  IF Len(longer) > History THEN Tail(longer) ELSE longer

\* parseStringTable: the key that begins with size characters of the key at pos (from 0).
KeyRead(history, pos, size, rest) ==
    IF pos >= Len(history) THEN rest
    ELSE SubSeq(history[pos + 1], 1, Smaller(size, Len(history[pos + 1]))) \o rest

\* parseStringTable: the index of an entry, told as the next one or as a number that is one less.
IndexRead(next, number) == IF next THEN index + 1 ELSE number + 1

\* The forms in which the server may write key: the place of an earlier key and the number of
\* characters taken from it, or -1 and 0.
Forms(key) ==
    {<<-1, 0>>} \cup
    {form \in (0..(History - 1)) \X (0..Len(key)) :
        LET recent == Recent(written, History)
        IN  /\ form[1] < Len(recent)
            /\ form[2] <= Len(recent[form[1] + 1])
            /\ SubSeq(recent[form[1] + 1], 1, form[2]) = SubSeq(key, 1, form[2])}

-----------------------------------------------------------------------------
TablesInit ==
    /\ tables = <<>>
    /\ baselineOf = [k \in ClassKeys |-> Empty]
    /\ infoOf = [i \in Slots |-> Empty]
    /\ written = <<>>
    /\ stringTables = <<>>
    /\ classBaselines = [k \in ClassKeys |-> Empty]
    /\ rawPlayers = [i \in Slots |-> Empty]
    /\ open = NoList
    /\ index = -1
    /\ keys = <<>>
    /\ entry = NoEntry

BeginList(name, format, writtenAs) ==
    /\ open' = [name |-> name, format |-> format, writtenAs |-> writtenAs]
    /\ index' = -1
    /\ keys' = <<>>
    /\ written' = <<>>
    /\ entry' = NoEntry

\* handleCreateStringTable: the table is stored whatever its name, its list read if it is used.
\* (It is stored after its list was read; nothing else comes between.)
CreateStringTable(name, format) ==
    /\ open = NoList
    /\ Len(tables) < MaxTables
    /\ tables' = Append(tables, [name |-> name, format |-> format])
    /\ stringTables' = Append(stringTables, [name |-> name, format |-> format])
    /\ IF name = OtherTable THEN UNCHANGED <<open, index, keys, written, entry>>
       ELSE BeginList(name, format, format)
    /\ UNCHANGED <<baselineOf, infoOf, classBaselines, rawPlayers>>

\* An update that is read as if tables had no formats but the first.
UpdatedTable_FirstFormat(id) ==
    [stringTables[id] EXCEPT !.format = stringTables[1].format]

\* handleUpdateStringTable: the table as it was created.
UpdatedTable(id) == stringTables[id]

\* handleUpdateStringTable: an update of a table that was never created is ignored.
UpdateStringTable(id) ==
    /\ open = NoList
    /\ id <= Len(tables)
    /\ IF id > Len(stringTables) \/ UpdatedTable(id).name = OtherTable
       THEN UNCHANGED <<open, index, keys, written, entry>>
       ELSE BeginList(UpdatedTable(id).name, UpdatedTable(id).format, tables[id].format)
    /\ UNCHANGED <<tables, baselineOf, infoOf, stringTables, classBaselines, rawPlayers>>

\* parseUserInfo: empty user info is ignored, so that what was known of a slot stays.
InfoFrom(old, value) == IF value = Empty THEN old ELSE value

\* parseStringTable and processStringTable: one entry of the list.
ReadEntry(i, key, form, value) ==
    LET last == IF entry = NoEntry THEN -1 ELSE entry.sent[1]
        readIndex == IndexRead(i = last + 1, i - 1)
        rest == SubSeq(key, form[2] + 1, Len(key))
        readKey == IF form[1] = -1 THEN key ELSE KeyRead(keys, form[1], form[2], rest)
        readValue == IF value = Empty \/ open.format = open.writtenAs THEN value ELSE Garbage
    IN  /\ open # NoList
        /\ Len(written) < MaxEntries
        /\ form \in Forms(key)
        /\ written' = IF key = NoKey THEN written ELSE Append(written, key)
        /\ baselineOf' = IF open.name = BaselineTable /\ key \in ClassKeys
                         THEN [baselineOf EXCEPT ![key] = value] ELSE baselineOf
        /\ infoOf' = IF open.name = UserInfoTable
                     THEN [infoOf EXCEPT ![i] = InfoFrom(@, value)] ELSE infoOf
        /\ index' = readIndex
        /\ keys' = IF key = NoKey THEN keys ELSE Remembered(keys, readKey)
        /\ classBaselines' = IF open.name = BaselineTable /\ readKey \in ClassKeys
                             THEN [classBaselines EXCEPT ![readKey] = readValue]
                             ELSE classBaselines
        /\ rawPlayers' = IF open.name = UserInfoTable
                         THEN [rawPlayers EXCEPT ![readIndex] = InfoFrom(@, readValue)]
                         ELSE rawPlayers
        /\ entry' = [sent |-> <<i, key>>, read |-> <<readIndex, readKey>>]
        /\ UNCHANGED <<tables, stringTables, open>>

\* The list has been read, or an entry could not be: what was read of it has been applied.
EndList ==
    /\ open # NoList
    /\ open' = NoList
    /\ index' = -1
    /\ keys' = <<>>
    /\ written' = <<>>
    /\ entry' = NoEntry
    /\ UNCHANGED <<tables, baselineOf, infoOf, stringTables, classBaselines, rawPlayers>>

\* handleStringTables: every table as the server has it; keys of variants are left out.
StringTablesDump ==
    /\ open = NoList
    /\ classBaselines' = [k \in ClassKeys |->
           IF \E id \in 1..Len(tables) : tables[id].name = BaselineTable /\ baselineOf[k] # Empty
           THEN baselineOf[k] ELSE classBaselines[k]]
    /\ rawPlayers' = [i \in Slots |->
           IF \E id \in 1..Len(tables) : tables[id].name = UserInfoTable
           THEN InfoFrom(rawPlayers[i], infoOf[i]) ELSE rawPlayers[i]]
    /\ UNCHANGED <<tables, baselineOf, infoOf, written, stringTables, open, index, keys, entry>>

TablesNext ==
    \/ \E name \in Names, format \in Formats : CreateStringTable(name, format)
    \/ \E id \in 1..MaxTables : UpdateStringTable(id)
    \/ \E i \in Slots, key \in ClassKeys \cup OtherKeys \cup {NoKey}, value \in Values \cup {Empty} :
          \E form \in Forms(key) : ReadEntry(i, key, form, value)
    \/ EndList
    \/ StringTablesDump

TablesSpec == TablesInit /\ [][TablesNext]_tablesVars

-----------------------------------------------------------------------------
\* An entry is read with the index and the key the server wrote, however it wrote them
\* (parseStringTable), and the parser's history of keys is the server's.
EntriesAsWritten ==
    /\ entry.read = entry.sent
    /\ keys = Recent(written, History)

\* The baselines and the user info are the server's, whatever tables exist and in whichever
\* order and formats they were created (handleUpdateStringTable, processStringTable).
ContentsFollow == classBaselines = baselineOf /\ rawPlayers = infoOf
=============================================================================
