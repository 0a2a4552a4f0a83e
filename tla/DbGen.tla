--------------------------------- MODULE DbGen ---------------------------------
(***************************************************************************)
(* The statement builder of server/srcs/db/db_gen.c over db_execute of     *)
(* db.c: from a table's schema and a list of C strings, NULL for those     *)
(* left out, it makes a statement with numbered placeholders and an array  *)
(* of parameters.  Postgres is external: one table that executes a         *)
(* statement whole or not at all.                                          *)
(*                                                                         *)
(* Statements are token sequences.  A column is its index in the schema, a *)
(* placeholder its number, and Comma the separator, so that what the       *)
(* look-ahead loops of the code print is what the database has to parse.   *)
(***************************************************************************)
EXTENDS Integers, Sequences, FiniteSets, SequencesExt

CONSTANTS
    Schemas,   \* the schemas tables are made from
    Strings,   \* values callers pass
    Serials,   \* sequence of values a SERIAL column takes by default
    NULL,
    MaxRows    \* bound on the rows of the table

\* A schema is a sequence of columns [is_primary, is_unique, not_null: BOOLEAN,
\* default_val: a value or NULL].  SERIAL stands for the default that a column
\* of type SERIAL has in Postgres.
SERIAL == "SERIAL"

ASSUME RowsAssumption == MaxRows \in Nat /\ NULL \notin Strings
ASSUME SchemasAssumption == \A s \in Schemas : s \in Seq(Range(s))
ASSUME KeyAssumption ==
    \A s \in Schemas : \E i \in DOMAIN s : s[i].is_primary /\ s[i].not_null

ERROR == -1
SUCCESS == 0
Comma == 0

VARIABLES
    schema,  \* the schema the program passes
    created, \* the table is there
    key,     \* the columns the table's PRIMARY KEY was created with
    rows,    \* the rows of the table; a row is a sequence of values
    serial,  \* values the table's SERIAL column has handed out
    call,    \* the call under way and its arguments, or Idle
    rc       \* what the last call returned

vars == <<schema, created, key, rows, serial, call, rc>>

Idle == [op |-> "none"]

Columns == DOMAIN schema

-----------------------------------------------------------------------------
(* What the loops of db_gen.c print.                                       *)

MoreColumns(cols, values, i) == i < Len(values)    \* mutant: NULLs not skipped

\* The look-ahead: some later column has a value.
More(cols, values, i) == \E j \in cols : j > i /\ values[j] # NULL

\* The items of the columns in cols that have a value, with their separators.
PrintedList(cols, values, item) ==
    FlattenSeq([i \in 1..Len(values) |->
        IF i \notin cols \/ values[i] = NULL THEN <<>>
        ELSE IF More(cols, values, i) THEN <<item[i], Comma>> ELSE <<item[i]>>])

PlaceholderNotAdvanced(cols, values, i) == 1    \* mutant: the number is not incremented

\* Placeholders are numbered in the order they are printed.
Placeholder(cols, values, i) ==
    Cardinality({j \in cols : j <= i /\ values[j] # NULL})

Params(cols, values) ==
    FlattenSeq([i \in 1..Len(values) |->
        IF i \in cols /\ values[i] # NULL THEN <<values[i]>> ELSE <<>>])

InsertStatement(values) ==
    [columns |-> PrintedList(Columns, values, [i \in Columns |-> i]),
     placeholders |-> PrintedList(Columns, values,
                          [i \in Columns |-> Placeholder(Columns, values, i)]),
     params |-> Params(Columns, values)]

PrimaryColumns == {i \in Columns : schema[i].is_primary}

FirstPrimary == CHOOSE i \in PrimaryColumns : \A j \in PrimaryColumns : i <= j

\* mutant: the key takes an argument as well
ValuesInOrder(args) ==
    [i \in Columns |-> IF i = FirstPrimary \/ i > Len(args) THEN NULL ELSE args[i]]

\* The variable arguments skip the key column: the columns after it take the
\* argument before their own place.
ValuesAround(args) ==
    [i \in Columns |-> IF i < FirstPrimary THEN args[i]
                       ELSE IF i = FirstPrimary THEN NULL ELSE args[i - 1]]

UpdateStatement(pk, values) ==
    LET cols == Columns \ {FirstPrimary}
        params == Params(cols, values)
    IN  [columns |-> PrintedList(cols, values, [i \in cols |-> i]),
         placeholders |-> PrintedList(cols, values,
                              [i \in cols |-> Placeholder(cols, values, i)]),
         where |-> FirstPrimary,
         whereParam |-> Len(params) + 1,
         params |-> Append(params, pk)]

Separator(i) == i < Len(schema) \/ Cardinality(PrimaryColumns) > 1

InlineKey(i) == schema[i].is_primary /\ Cardinality(PrimaryColumns) = 1

\* The table's elements: a column with or without PRIMARY KEY, a separator,
\* and the columns of a key clause of its own.
CreateStatement ==
    FlattenSeq([i \in Columns |->
        <<[column |-> i, key |-> IF InlineKey(i) THEN {i} ELSE {}]>>
        \o IF Separator(i) THEN <<[column |-> Comma, key |-> {}]>> ELSE <<>>])
    \o IF Cardinality(PrimaryColumns) > 1
       THEN <<[column |-> -1, key |-> PrimaryColumns]>> ELSE <<>>

-----------------------------------------------------------------------------
(* Postgres.                                                               *)

\* A list of items with a separator between any two, and nowhere else.
WellFormed(list) ==
    /\ Len(list) % 2 = 1
    /\ \A k \in DOMAIN list : list[k] = Comma <=> k % 2 = 0

\* The elements of CREATE TABLE without their keys.
ElementsOf(statement) == [k \in DOMAIN statement |-> statement[k].column]

Items(list) == [k \in 1..((Len(list) + 1) \div 2) |-> list[2 * k - 1]]

Assigned(statement) ==
    LET cols == Items(statement.columns)
        places == Items(statement.placeholders)
    IN  [i \in Range(cols) |->
            statement.params[places[CHOOSE k \in DOMAIN cols : cols[k] = i]]]

Parses(statement) ==
    /\ WellFormed(statement.columns)
    /\ WellFormed(statement.placeholders)
    /\ Len(statement.columns) = Len(statement.placeholders)

Default(i) ==
    IF schema[i].default_val = SERIAL THEN Serials[serial + 1]
    ELSE schema[i].default_val

NewRow(statement) ==
    [i \in Columns |-> IF i \in DOMAIN Assigned(statement)
                       THEN Assigned(statement)[i] ELSE Default(i)]

Updated(row, statement) ==
    [i \in Columns |-> IF i \in DOMAIN Assigned(statement)
                       THEN Assigned(statement)[i] ELSE row[i]]

\* The table's constraints.
Admissible(table) ==
    /\ \A row \in table, i \in Columns : schema[i].not_null => row[i] # NULL
    /\ \A r1, r2 \in table :
          r1 # r2 =>
              /\ \E i \in key : r1[i] # r2[i]
              /\ \A i \in Columns :
                    schema[i].is_unique => r1[i] # r2[i] \/ r1[i] = NULL

-----------------------------------------------------------------------------

Init ==
    /\ schema \in Schemas
    /\ created = FALSE
    /\ key = {}
    /\ rows = {}
    /\ serial = 0
    /\ call = Idle
    /\ rc = SUCCESS

Arguments(n) == [1..n -> Strings \cup {NULL}]

KeyValues == Strings \cup Range(Serials)

\* The program calls one of the functions.
Call ==
    /\ call = Idle
    /\ \/ /\ ~created
          /\ call' = [op |-> "create"]
       \/ /\ created
          /\ Cardinality(rows) < MaxRows
          /\ \E values \in Arguments(Len(schema)) :
                call' = [op |-> "insert", values |-> values]
       \/ /\ created
          /\ \E pk \in KeyValues, args \in Arguments(Len(schema) - 1) :
                call' = [op |-> "update", pk |-> pk, args |-> args]
       \/ /\ created
          /\ \E pk \in KeyValues : call' = [op |-> "delete", pk |-> pk]
    /\ UNCHANGED <<schema, created, key, rows, serial, rc>>

Return(result) == call' = Idle /\ rc' = result

\* The statement was done; the connection may be lost before the reply.
Reply == \E result \in {SUCCESS, ERROR} : Return(result)

\* The call under way fails with nothing done: the connection is lost, or the
\* database refuses.
Fail ==
    /\ call # Idle
    /\ Return(ERROR)
    /\ UNCHANGED <<schema, created, key, rows, serial>>

db_gen_create_table ==
    /\ call.op = "create"
    /\ WellFormed(ElementsOf(CreateStatement))
    /\ created' = TRUE
    /\ key' = UNION {CreateStatement[k].key : k \in DOMAIN CreateStatement}
    /\ Reply
    /\ UNCHANGED <<schema, rows, serial>>

\* A statement that makes a table of n rows: done if the constraints allow it,
\* and refused otherwise.  Two rows that become one have the same key.
Execute(table, n) ==
    IF Admissible(table) /\ Cardinality(table) = n
    THEN rows' = table /\ Reply
    ELSE UNCHANGED rows /\ Return(ERROR)

TakesSerial(statement) ==
    \E i \in Columns \ DOMAIN Assigned(statement) : schema[i].default_val = SERIAL

\* A sequence does not take back the number of an INSERT that was refused.
db_gen_insert ==
    /\ call.op = "insert"
    /\ LET values == call.values
           statement == InsertStatement(values)
       IN  IF \A i \in Columns : values[i] = NULL
           THEN Return(ERROR) /\ UNCHANGED <<rows, serial>>
           ELSE /\ Parses(statement)
                /\ TakesSerial(statement) => serial < Len(Serials)
                /\ Execute(rows \cup {NewRow(statement)}, Cardinality(rows) + 1)
                /\ serial' = IF TakesSerial(statement) THEN serial + 1 ELSE serial
    /\ UNCHANGED <<schema, created, key>>

\* The key is the first primary column, of however many.  Without a value
\* there is nothing to do.
db_gen_update_by_pk ==
    /\ call.op = "update"
    /\ LET values == ValuesAround(call.args)
           statement == UpdateStatement(call.pk, values)
           hit == {row \in rows :
                     row[statement.where] = statement.params[statement.whereParam]}
       IN  IF \A i \in Columns : values[i] = NULL
           THEN Return(SUCCESS) /\ UNCHANGED rows
           ELSE /\ Parses(statement)
                /\ Execute((rows \ hit) \cup {Updated(row, statement) : row \in hit},
                           Cardinality(rows))
    /\ UNCHANGED <<schema, created, key, serial>>

\* Refused for a table whose key is more than one column.
db_gen_delete_by_pk ==
    /\ call.op = "delete"
    /\ IF Cardinality(PrimaryColumns) = 1
       THEN /\ rows' = {row \in rows : row[FirstPrimary] # call.pk}
            /\ Reply
       ELSE UNCHANGED rows /\ Return(ERROR)
    /\ UNCHANGED <<schema, created, key, serial>>

Next ==
    \/ Call
    \/ Fail
    \/ db_gen_create_table
    \/ db_gen_insert
    \/ db_gen_update_by_pk
    \/ db_gen_delete_by_pk

Spec == Init /\ [][Next]_vars

-----------------------------------------------------------------------------

\* Whatever subset of the columns has values, the lists of INSERT and UPDATE
\* have a separator between any two items and no other; and so has CREATE TABLE
\* for every schema, which declares exactly the primary columns as the key,
\* inline or in a clause of its own (db_gen.c:74-114,199-209,397-409).
StatementsParse ==
    /\ WellFormed(ElementsOf(CreateStatement))
    /\ created => key = PrimaryColumns
    /\ call.op = "insert" /\ (\E i \in Columns : call.values[i] # NULL) =>
           Parses(InsertStatement(call.values))
    /\ call.op = "update" /\ (\E k \in DOMAIN call.args : call.args[k] # NULL) =>
           Parses(UpdateStatement(call.pk, ValuesAround(call.args)))

\* An INSERT that is done, and be its reply lost, adds one row, with each value
\* in its own column and the column's default in the others: names, placeholders and parameters,
\* printed and filled by three loops, stay in step (db_gen.c:191-237).
InsertStoresItsValues ==
    [][call.op = "insert" /\ rows' # rows =>
        rows' = rows \cup {[i \in Columns |-> IF call.values[i] # NULL THEN call.values[i]
                                             ELSE Default(i)]}]_vars

\* An UPDATE that succeeds, or is done and has its reply lost, changes the rows
\* with its key and no others, and in them exactly the columns it has a value
\* for: the arguments, which leave out the key, meet their columns
\* (db_gen.c:354-360,385-417).
UpdateChangesItsColumns ==
    [][call.op = "update" /\ (rc' = SUCCESS \/ rows' # rows) =>
        LET given == InsertAt(call.args, FirstPrimary, call.pk)
            New(row) == IF row[FirstPrimary] # call.pk THEN row
                        ELSE [i \in Columns |-> IF given[i] = NULL THEN row[i]
                                                ELSE given[i]]
        IN  rows' = {New(row) : row \in rows}]_vars

\* "If a given column is NULLable and you want to store SQL NULL, pass NULL
\* for that vararg." (db_gen.h:49-50)
NullIsStored ==
    [][call.op = "insert" /\ rows' # rows =>
        \A row \in rows' \ rows, i \in Columns :
            call.values[i] = NULL /\ ~schema[i].not_null => row[i] = NULL]_vars
=============================================================================
