----------------------------- MODULE SqlScripts -----------------------------
\* The script of a backup and the order of its tables
\* (application/transfer/backup), its statements as they are read again, and the
\* SQL of a change of a row and of the copy of a table.  One behaviour looks at
\* one subject: an odd text in one place, or foreign keys.
EXTENDS SqlText

CONSTANTS
  Engines,     \* the engines to look at
  Subjects     \* [role, text, keys, backup]: where the odd text is, the foreign
               \* keys, and what is asked for: [content, drop, tables]

\* What an instance assumes of the constants.
ScriptsAssumption ==
  /\ Engines \subseteq {"PostgreSQL", "MySQL", "SQLite", "SQLServer", "ClickHouse"}
  /\ \A s \in Subjects : /\ s.backup.content \in {"Structure", "Data", "Both"}
                          /\ s.backup.drop \in {"None", "Drop", "DropIfExists"}
                          /\ ToSet(s.backup.tables) \subseteq 1..3

VARIABLES
  engine, subject,
  tables,    \* the tables of the plan, in its order
  phase,     \* what is done next
  at,        \* index of the table it is done for
  script,    \* what was written
  meant,     \* what it stands for: [tokens, from, to] of each statement
  partial,   \* some part of the backup is missing
  read       \* the statements that were read back

options == subject.backup
vars == <<engine, subject, tables, phase, at, script, meant, partial, read>>

-----------------------------------------------------------------------------
\* The plan of a backup.

\* The odd text in its place, or a plain one.
Subject(role, plain) == IF subject.role = role THEN subject.text ELSE plain
TableName(t) == CASE t = 1 -> Subject("table", <<"t1">>) [] t = 2 -> <<"t2">> [] t = 3 -> <<"t3">>
Columns == << <<"id">>, Subject("column", <<"c">>) >>
Indexes == << Subject("index", <<"i">>) >>

\* quote_table: with its schema where an engine has schemas.
Table(t) ==
  IF engine \in {"PostgreSQL", "SQLServer"}
  THEN <<Name(Subject("schema", <<"s">>)), Word("."), Name(TableName(t))>>
  ELSE <<Name(TableName(t))>>

\* What each table of a plan refers to, but not itself.
Referenced(ts, keys, t) == {u \in ToSet(ts) \ {t} : <<t, u>> \in keys}

\* Mutant: a table comes before those it refers to.
RECURSIVE SortedBackwards(_, _, _)
SortedBackwards(ts, keys, done) ==
  LET ready == {t \in ToSet(ts) \ ToSet(done) :
                  \A u \in ToSet(ts) \ ToSet(done) : t \notin Referenced(ts, keys, u)}
  IN IF ready = {} THEN done \o SelectSeq(ts, LAMBDA t : t \notin ToSet(done))
     ELSE SortedBackwards(ts, keys, Append(done, CHOOSE t \in ready : \A u \in ready : t >= u))

\* Kahn's order, the greatest name first; tables in a cycle follow as they were.
RECURSIVE SortTablesByDeps(_, _, _)
SortTablesByDeps(ts, keys, done) ==
  LET ready == {t \in ToSet(ts) \ ToSet(done) : Referenced(ts, keys, t) \subseteq ToSet(done)}
  IN IF ready = {} THEN done \o SelectSeq(ts, LAMBDA t : t \notin ToSet(done))
     ELSE SortTablesByDeps(ts, keys, Append(done, CHOOSE t \in ready : \A u \in ready : t >= u))

Valid(choice) == choice.drop # "None" => choice.content # "Data"

Init ==
  /\ engine \in Engines /\ subject \in Subjects
  /\ subject.role = "schema" => engine \in {"PostgreSQL", "SQLServer"}
  /\ subject.role = "index" => engine = "PostgreSQL"
  /\ tables = <<>> /\ phase = "discover" /\ at = 1
  /\ script = <<>> /\ meant = <<>> /\ partial = FALSE /\ read = <<>>

\* start_backup: the tables that were chosen, or all of them; a failure to read
\* the catalog leaves no backup.
Discover ==
  /\ phase = "discover"
  /\ \/ /\ Valid(options) /\ phase' = "begin"
        /\ tables' = SortTablesByDeps(options.tables, subject.keys, <<>>)
     \/ phase' = "refused" /\ UNCHANGED tables
  /\ UNCHANGED <<engine, subject, at, script, meant, partial, read>>

-----------------------------------------------------------------------------
\* The script of a backup.

Comment(text) == <<"-", "-", " ">> \o Replace(text, NL, <<NL, "-", "-", " ">>) \o <<NL>>

Header ==
  Comment(<<"Astesia">>) \o Comment(<<"Database:">> \o Subject("database", <<"db">>))
    \o Comment(<<"Date:">>) \o <<NL>>
Checks(on) ==
  CASE engine = "MySQL" -> <<Words(<<"SET", "FOREIGN_KEY_CHECKS", "=", on>>)>>
    [] engine = "SQLite" -> <<Words(<<"PRAGMA", "foreign_keys", "=", on>>)>>
    [] OTHER -> <<>>

\* Statements in a row, each with what ends it.
RECURSIVE Written(_, _, _)
Written(to, style, statements) ==
  IF statements = <<>> THEN to
  ELSE LET text == Rendered(engine, style, Head(statements))
           entry == [tokens |-> Head(statements), from |-> Len(to.script) + 1,
                        to |-> Len(to.script \o text)]
       IN Written([script |-> to.script \o text \o <<";", NL>>, meant |-> Append(to.meant, entry)],
                  style, Tail(statements))

Write(style, statements, after) ==
  LET to == Written([script |-> script, meant |-> meant], style, statements)
  IN script' = to.script \o after /\ meant' = to.meant

AllRenderable(statements) == \A i \in DOMAIN statements : Renderable(statements[i])
Reversed(ts) == [i \in DOMAIN ts |-> ts[Len(ts) + 1 - i]]
Exists == IF options.drop = "DropIfExists" THEN Words(<<"IF", "EXISTS">>) ELSE <<>>

DropTable(t) ==
  (IF engine # "PostgreSQL" THEN <<>>
   ELSE [i \in DOMAIN Indexes |-> Words(<<"DROP", "INDEX">>) \o Exists
           \o <<Name(Subject("schema", <<"s">>)), Word("."), Name(Indexes[i])>>])
    \o <<Words(<<"DROP", "TABLE">>) \o Exists \o Table(t)>>

\* A name that cannot be quoted fails the whole backup here.
Begin ==
  /\ phase = "begin"
  /\ LET drops == IF options.drop = "None" THEN <<>>
                  ELSE Joined([i \in DOMAIN tables |-> DropTable(Reversed(tables)[i])])
     IN IF AllRenderable(drops)
        THEN /\ LET to == Written([script |-> Header, meant |-> <<>>], "Export", Checks("0") \o drops)
                IN script' = to.script \o <<NL>> /\ meant' = to.meant
             /\ phase' = "structure"
        ELSE phase' = "failed" /\ UNCHANGED <<script, meant>>
  /\ UNCHANGED <<engine, subject, tables, at, partial, read>>

Definition(t) == Words(<<"CREATE", "TABLE">>) \o Table(t)
                   \o Parens([i \in DOMAIN Columns |-> <<Name(Columns[i]), Word("int")>>])

\* CREATE TABLE as the driver answers it: the drivers of PostgreSQL and SQL
\* Server quote it themselves, PostgreSQL with a semicolon of its own.
Ddl(t) ==
  IF engine \in {"PostgreSQL", "SQLServer"} /\ ~Renderable(Definition(t)) THEN Error
  ELSE Rendered(engine, "Native", Definition(t)) \o (IF engine = "PostgreSQL" THEN <<";">> ELSE <<>>)

CreateIndexes(t) ==
  IF engine # "PostgreSQL" THEN <<>>
  ELSE [i \in DOMAIN Indexes |-> Words(<<"CREATE", "INDEX">>) \o <<Name(Indexes[i]), Word("ON")>>
          \o Table(t) \o Parens([c \in DOMAIN Columns |-> <<Name(Columns[c])>>])]

\* What cannot be read or rendered leaves a comment instead.
Structure ==
  /\ phase = "structure"
  /\ LET t == tables[at]
         ddl == IF subject.role = "error" THEN Error ELSE Ddl(t)
         indexed == AllRenderable(CreateIndexes(t))
         message == <<"Error">> \o Subject("error", <<"no">>)
         to == Written(
                 [script |-> script \o ddl \o <<";", NL>>,
                  meant |-> Append(meant, [tokens |-> Definition(t), from |-> Len(script) + 1,
                                           to |-> Len(script \o ddl)])],
                 "Native", CreateIndexes(t))
     IN IF options.content = "Data" THEN UNCHANGED <<script, meant, partial>>
        ELSE IF ddl = Error \/ ~indexed
        THEN script' = script \o Comment(message) \o <<NL>> /\ partial' = TRUE /\ UNCHANGED meant
        ELSE script' = to.script \o <<NL>> /\ meant' = to.meant /\ UNCHANGED partial
  /\ phase' = IF options.content = "Structure" THEN "next" ELSE "data"
  /\ UNCHANGED <<engine, subject, tables, at, read>>

Row(value) == <<Word("NULL"), Text(value)>>
Insert(t, value) ==
  Words(<<"INSERT", "INTO">>) \o Table(t) \o Parens([i \in DOMAIN Columns |-> <<Name(Columns[i])>>])
    \o <<Word("VALUES")>> \o Parens([i \in DOMAIN Row(value) |-> <<Row(value)[i]>>])

\* A page that is cut short is taken back, and ends the table.
DataPage(more) ==
  /\ phase = "data" \/ (phase = "last page" /\ ~more)
  /\ LET rows == << Insert(tables[at], <<"a">>), Insert(tables[at], Subject("value", <<"b">>)) >>
     IN IF AllRenderable(rows) THEN Write("Export", rows, <<>>) /\ UNCHANGED partial
        ELSE partial' = TRUE /\ UNCHANGED <<script, meant>>
  /\ phase' = IF more /\ meant' # meant THEN "last page" ELSE "finish table"
  /\ UNCHANGED <<engine, subject, tables, at, read>>

\* Each sequence of a table starts again after its greatest value.
ResetSequences(t) ==
  IF engine # "PostgreSQL" THEN <<>>
  ELSE LET name == Rendered(engine, "Native", Table(t))
           of == <<Word("("), Text(name), Word(")")>>
           template == Words(<<"SELECT", "COALESCE", "FROM">>) \o Table(t)
       IN << <<Word("DO"), Body(
               Words(<<"DECLARE", "seq", "RECORD", ";", "BEGIN", "FOR", "seq", "IN", "SELECT",
                       "pg_get_serial_sequence">>) \o of
               \o Words(<<"WHERE", "table_schema", "=">>) \o <<Text(Subject("schema", <<"s">>))>>
               \o Words(<<"AND", "table_name", "=">>) \o <<Text(TableName(t))>>
               \o Words(<<"LOOP", "EXECUTE", "format", "(">>) \o <<Plain(template)>>
               \o Words(<<")", ";", "END", "LOOP", ";", "END">>))>> >>

FinishTable ==
  /\ phase = "finish table"
  /\ LET resets == ResetSequences(tables[at])
     IN IF AllRenderable(resets) THEN Write("Native", resets, <<NL>>) /\ UNCHANGED partial
        ELSE partial' = TRUE /\ UNCHANGED <<script, meant>>
  /\ phase' = "next"
  /\ UNCHANGED <<engine, subject, tables, at, read>>

NextTable ==
  /\ phase = "next"
  /\ IF at < Len(tables)
     THEN at' = at + 1 /\ phase' = "structure" /\ UNCHANGED <<script, meant>>
     ELSE phase' = "written" /\ Write("Native", Checks("1"), <<>>) /\ UNCHANGED at
  /\ UNCHANGED <<engine, subject, tables, partial, read>>

\* validate_restore: the statements of a script, before any of them runs.
Restore ==
  /\ phase = "written"
  /\ read' = Scan(engine, script) /\ phase' = "read"
  /\ UNCHANGED <<engine, subject, tables, at, script, meant, partial>>

-----------------------------------------------------------------------------
\* A change of a row, and the copy of a table, instead of a backup.

Elsewhere == phase = "discover" /\ subject.role # "keys"

RowEdits ==
  LET columns == [i \in DOMAIN Columns |-> <<Name(Columns[i])>>]
      value == Text(Subject("value", <<"b">>))
      null == Word("NULL")
  IN << InsertRow(engine, Table(1), columns, << <<Bool(engine)>>, <<value>> >>),
        InsertRow(engine, Table(1), columns, << <<value>> >>),
        InsertRow(engine, Table(1), <<>>, <<>>),
        DeleteRows(engine, Table(1), Name(Columns[2]), << <<value>>, <<Text(<<"a">>)>> >>),
        DeleteRows(engine, Table(1), Name(Columns[2]), << <<value>>, <<null>> >>),
        UpdateRow(engine, Table(1), Name(Columns[1]), value, Name(Columns[2]), value),
        UpdateRow(engine, Table(1), Name(Columns[1]), null, Name(Columns[2]), value) >>

EditRow(edit) ==
  /\ Elsewhere /\ edit # Error
  /\ meant' = <<[tokens |-> edit, from |-> 1, to |-> 1]>>
  /\ IF Renderable(edit) THEN script' = Rendered(engine, "Native", edit) /\ phase' = "edited"
     ELSE phase' = "refused" /\ UNCHANGED script
  /\ UNCHANGED <<engine, subject, tables, at, partial, read>>

\* The ways a definition may start.
Beginnings == {<<"CREATE", "TABLE">>, <<"CREATE", "TEMPORARY", "TABLE">>,
               <<"CREATE", "TABLE", "IF", "NOT", "EXISTS">>}

\* A file of SQLite holds a definition in the quotes of whoever wrote it.
CopyTable(beginning, style) ==
  LET name == Subject("copy", <<"new">>)
      rest == (IF engine = "PostgreSQL" THEN <<Word(";")>> ELSE <<>>)
      columns == Parens([i \in DOMAIN Columns |-> <<Name(Columns[i]), Word("int")>>]) \o rest
      ddl == Rendered(engine, style, Words(beginning) \o Table(1) \o columns)
  IN /\ Elsewhere
     /\ style = "Export" => engine = "SQLite"
     /\ Ddl(1) # Error
     /\ read' = RetargetCreateTable(engine, ddl, name)
     /\ meant' = <<[tokens |-> Words(beginning) \o <<Name(name)>> \o columns, from |-> 1, to |-> 1]>>
     /\ phase' = "copied"
     /\ UNCHANGED <<engine, subject, tables, at, script, partial>>

Stopped == phase \in {"refused", "failed", "read", "edited", "copied"} /\ UNCHANGED vars

Next ==
  \/ Discover \/ Begin \/ Structure \/ FinishTable \/ NextTable \/ Restore
  \/ \E more \in BOOLEAN : DataPage(more)
  \/ \E edit \in DOMAIN RowEdits : EditRow(RowEdits[edit])
  \/ \E beginning \in Beginnings, style \in {"Native", "Export"} : CopyTable(beginning, style)
  \/ Stopped

Spec == Init /\ [][Next]_vars

-----------------------------------------------------------------------------
\* Properties.

\* Restoring a backup executes the statements that the backup was made of, and
\* the engine reads in them the names and values that were written: nothing of a
\* name, a value, an error message or a name of a database gets loose.
ScriptsReadBack ==
  phase = "read" =>
    /\ read # Error /\ Len(read) = Len(meant)
    /\ \A i \in DOMAIN meant : SameTokens(Tokens(engine, read[i].sql, 1), meant[i].tokens)

\* A cursor anywhere in a statement of a script picks that statement to run.
PickedIsUnderCursor ==
  phase = "read" =>
    \A i \in DOMAIN meant : \A cursor \in meant[i].from..meant[i].to : StatementAt(read, cursor) = i

\* A change of rows is one statement and means the row and the values it was
\* made for.
EditsSayWhatWasMeant ==
  phase = "edited" =>
    /\ SameTokens(Tokens(engine, script, 1), meant[1].tokens)
    /\ Scan(engine, script) # Error /\ Len(Scan(engine, script)) = 1

\* The definition of a copy differs from its source in the name alone.  Only a
\* name with a backslash between backticks is not found.
CopiesOnlyRename ==
  phase = "copied" =>
    IF read = Error
    THEN \/ ~ValidIdentifier(Subject("copy", <<"new">>))
         \/ Contains(TableName(1), Backslash) /\ engine \in {"MySQL", "SQLite"}
    ELSE SameTokens(Tokens(engine, read, 1), meant[1].tokens)

Through(ts, keys, t) ==
  LET once(set) == set \cup UNION {Referenced(ts, keys, u) : u \in set}
  IN once(once(Referenced(ts, keys, t)))
InCycle(ts, keys, t) == t \in Through(ts, keys, t)

\* The statements that create or drop a table.
Of(word, t) ==
  {i \in DOMAIN meant :
     /\ meant[i].tokens[1].value = word /\ meant[i].tokens[2].value = "TABLE"
     /\ \E j \in DOMAIN meant[i].tokens : meant[i].tokens[j].kind = "name"
                                          /\ meant[i].tokens[j].value = TableName(t)}

\* A table is created after those its foreign keys refer to, and dropped before
\* them, unless it leads into a cycle of foreign keys.
ReferencedTablesFirst ==
  phase = "read" =>
    \A t \in ToSet(tables) :
      (\A u \in {t} \cup Through(tables, subject.keys, t) : ~InCycle(tables, subject.keys, u)) =>
        \A u \in Referenced(tables, subject.keys, t) :
          /\ \A i \in Of("CREATE", u), j \in Of("CREATE", t) : i < j
          /\ \A i \in Of("DROP", t), j \in Of("DROP", u) : i < j
=============================================================================
