----------------------------- MODULE ObjectForms -----------------------------
\* The form that creates or renames an object of a database
\* (ui/object_mutation_form.rs), the prompt that drops one
\* (ui/connections/object_actions.rs), and the one statement that the object
\* service makes of either (application/object_service.rs).
\*
\* One form or prompt of one connection.  What is typed is plain, but for one
\* field that holds an odd text; while a form is executed it may be typed into.
\* The SQL that is typed has words and parentheses, or is to be refused; what the
\* body of a routine holds is only looked into where it is between dollars.
EXTENDS SqlText

CONSTANTS
  Engines,    \* the engines to look at
  Subjects    \* [mode, kind, schema, role, text, edits]: what is asked for, where the
              \* odd text is, and how often the form is changed

Modes == {"create", "rename", "drop"}
Kinds == {"database", "schema", "table", "view", "function", "procedure", "trigger", "user"}
Timings == {"BEFORE", "AFTER", "INSTEAD OF"}
Events == {"INSERT", "UPDATE", "DELETE", "TRUNCATE"}

\* What an instance assumes of the constants.
FormsAssumption ==
  /\ Engines \subseteq {"PostgreSQL", "MySQL", "SQLite", "SQLServer", "ClickHouse"}
  /\ \A s \in Subjects : s.mode \in Modes /\ s.kind \in Kinds /\ s.edits \in Nat

VARIABLES
  engine, subject,
  form,      \* what the form shows, or the object the prompt is about
  step,      \* how far the form or the prompt is
  sent,      \* the form as it was submitted
  error,     \* an error is shown
  live,      \* the session of the connection, or 0
  handle,    \* the session the service has taken
  ran,       \* the statement that a server was given: [sql, of, session], or Error
  saved,     \* the form that is reported as done, or Error
  edits

vars == <<engine, subject, form, step, sent, error, live, handle, ran, saved, edits>>

-----------------------------------------------------------------------------
\* What an engine has.

HasSchemas(e) == e \in {"PostgreSQL", "SQLServer"}

\* EngineCapabilities.
CanCreate(e, kind) ==
  CASE e \in {"MySQL", "PostgreSQL", "SQLServer"} -> TRUE
    [] e = "SQLite" -> kind \in {"table", "view", "trigger"}
    [] e = "ClickHouse" -> kind \in {"database", "table", "view", "function", "user"}
CanRename(e, kind) ==
  \/ kind = "table"
  \/ kind = "database" /\ e \in {"PostgreSQL", "SQLServer", "ClickHouse"}
  \/ kind = "schema" /\ e = "PostgreSQL"
CanDrop(e, kind) == CanCreate(e, kind)
Supported(e, mode, kind) ==
  CASE mode = "create" -> CanCreate(e, kind)
    [] mode = "rename" -> CanRename(e, kind)
    [] mode = "drop" -> CanDrop(e, kind)

TimingSupported(e, timing) ==
  CASE timing = "BEFORE" -> e \in {"PostgreSQL", "MySQL", "SQLite"}
    [] timing = "AFTER" -> e # "ClickHouse"
    [] timing = "INSTEAD OF" -> e \in {"PostgreSQL", "SQLite", "SQLServer"}
EventSupported(e, event) == event = "TRUNCATE" => e = "PostgreSQL"

\* ObjectCreationPolicy.
DefaultColumnType(e) ==
  CASE e \in {"MySQL", "SQLServer"} -> <<"INT">> [] e = "ClickHouse" -> <<"UInt64">>
    [] OTHER -> <<"INTEGER">>
DefaultReturnType(e) ==
  CASE e = "PostgreSQL" -> <<"void">> [] e = "ClickHouse" -> <<>> [] OTHER -> <<"INT">>
DefaultLanguage(e) ==
  CASE e = "PostgreSQL" -> <<"plpgsql">> [] e = "SQLServer" -> <<"T-SQL">> [] OTHER -> <<"SQL">>
DefaultTiming(e) == IF e = "SQLServer" THEN "AFTER" ELSE "BEFORE"
HasLanguage(e) == e = "PostgreSQL"
HasReturnType(e) == e # "ClickHouse"
HasHost(e) == e = "MySQL"

\* The fields of the form of a kind; those of columns are apart.
Fields(e, kind) ==
  {"name"} \cup
    CASE kind \in {"database", "schema", "table"} -> {}
      [] kind = "view" -> {"body"}
      [] kind = "function" -> {"arguments", "body"} \cup (IF HasReturnType(e) THEN {"returns"} ELSE {})
                                \cup (IF HasLanguage(e) THEN {"language"} ELSE {})
      [] kind = "procedure" -> {"arguments", "body"} \cup (IF HasLanguage(e) THEN {"language"} ELSE {})
      [] kind = "trigger" -> {"table", "body"}
      [] kind = "user" -> {"password"} \cup (IF HasHost(e) THEN {"host"} ELSE {})

-----------------------------------------------------------------------------
\* Names.

\* A text between its dots.
Parts(text) ==
  LET dots == SetToSortSeq({0, Len(text) + 1} \cup {i \in DOMAIN text : text[i] = "."}, <)
  IN [i \in 1..Len(dots) - 1 |-> SubSeq(text, dots[i] + 1, dots[i + 1] - 1)]
LastPart(text) == Last(Parts(text))
\* The tokens of a name in parts.
Dotted(parts) ==
  Joined([i \in DOMAIN parts |-> (IF i = 1 THEN <<>> ELSE <<Word(".")>>) \o <<Name(parts[i])>>])

MaxParts(e) == IF e = "SQLServer" THEN 4 ELSE 2

Identifier(text) == <<Name(Trimmed(text))>>
QualifiedName(text) == Dotted(Parts(Trimmed(text)))

\* TableRef::parse.
ParsesTable(e, text) ==
  IF HasSchemas(e) THEN Len(Parts(text)) <= 2 /\ \A i \in DOMAIN Parts(text) : ValidIdentifier(Parts(text)[i])
  ELSE ValidIdentifier(text)
TableRef(e, text) == IF HasSchemas(e) THEN Dotted(Parts(text)) ELSE <<Name(text)>>

\* The kinds whose names may be in parts.
Qualified(kind) == kind \notin {"database", "schema", "user"}

QualifyName(schema, name) ==
  IF schema = <<>> \/ Contains(name, ".") THEN name ELSE schema \o <<".">> \o name

\* What the catalog calls an object that is there.
ListedAs(e, kind, name) ==
  CASE kind \in {"function", "procedure"} /\ e = "PostgreSQL" -> <<"s", ".">> \o name \o <<"(", "int", ")">>
    [] HasSchemas(e) /\ Qualified(kind) /\ ~(kind \in {"function", "procedure"} /\ e = "PostgreSQL") ->
         <<"s", ".">> \o name
    [] OTHER -> name

\* A routine as it is listed: its name, and what it is told apart by.
OpensAt(text) == CHOOSE i \in DOMAIN text : text[i] = "(" /\ \A j \in 1..i - 1 : text[j] # "("
RoutineName(text) == SubSeq(text, 1, OpensAt(text) - 1)
RoutineArguments(text) == SubSeq(text, OpensAt(text), Len(text))

-----------------------------------------------------------------------------
\* What is typed.

\* The odd text in its field, or a plain one.
Plainly == [name |-> <<"x">>, table |-> <<"t">>, arguments |-> <<>>, returns |-> <<"int">>,
            language |-> <<"sql">>, body |-> <<"x">>, host |-> <<"h">>, password |-> <<"p">>,
            type |-> <<"int">>, column |-> <<"c">>, default |-> <<>>]
Oddly(role) == IF subject.role = role THEN subject.text ELSE Plainly[role]

Column(name, type, default) ==
  [name |-> name, type |-> type, default |-> default, nullable |-> TRUE, primary |-> FALSE]
NewColumn(e) == Column(<<>>, DefaultColumnType(e), <<>>)

\* What the fields hold at first.
Draft(e, mode, kind, name) ==
  [texts |-> [name |-> name, table |-> <<>>, arguments |-> <<>>, returns |-> DefaultReturnType(e),
              language |-> DefaultLanguage(e), body |-> <<>>, host |-> <<"%">>, password |-> <<>>],
   columns |-> IF mode = "create" /\ kind = "table" THEN <<[NewColumn(e) EXCEPT !.name = <<"id">>]>> ELSE <<>>,
   timing |-> DefaultTiming(e), event |-> "INSERT"]

\* The name of a table is offered without its schema, and without what follows a
\* parenthesis.
RenameDefaultName(name) == LastPart(IF Contains(name, "(") THEN RoutineName(name) ELSE name)

Opened(e, s) ==
  LET listed == ListedAs(e, s.kind, IF s.role = "listed" THEN s.text ELSE <<"x">>)
      name == CASE s.mode # "rename" -> <<>>
                [] s.mode = "rename" /\ s.kind = "table" -> RenameDefaultName(listed)
                [] OTHER -> listed
  IN [mode |-> s.mode, kind |-> s.kind, schema |-> s.schema, session |-> 1,
      listed |-> IF s.mode = "create" THEN <<>> ELSE listed,
      table |-> ListedAs(e, "table", <<"t">>), host |-> <<"h">>] @@ Draft(e, s.mode, s.kind, name)

\* A form or a prompt that a menu offers.
Init ==
  /\ engine \in Engines
  /\ subject \in {s \in Subjects : Supported(engine, s.mode, s.kind)}
  /\ subject.schema # <<>> => HasSchemas(engine) /\ subject.mode = "create"
  /\ subject.role \in {"table", "arguments", "returns", "language", "body", "host", "password"} =>
       subject.mode = "create" /\ subject.role \in Fields(engine, subject.kind)
  /\ subject.role \in {"column", "type", "default"} => subject.mode = "create" /\ subject.kind = "table"
  /\ subject.role = "listed" => subject.mode # "create"
  /\ subject.role = "name" => subject.mode # "drop"
  /\ form = Opened(engine, subject)
  /\ step = IF subject.mode = "drop" THEN "asked" ELSE "idle"
  /\ sent = form /\ error = FALSE /\ live = 1 /\ handle = 0 /\ ran = Error /\ saved = Error
  /\ edits = 0

-----------------------------------------------------------------------------
\* The statement of a form.

Keywords == [database |-> "DATABASE", schema |-> "SCHEMA", table |-> "TABLE", view |-> "VIEW",
             function |-> "FUNCTION", procedure |-> "PROCEDURE", trigger |-> "TRIGGER", user |-> "USER"]

\* A part of a statement that is typed must stay one.
Breaks(text, a, b) == \E i \in 1..Len(text) - 1 : text[i] = a /\ text[i + 1] = b
IsFragment(text) == ~Contains(text, ";") /\ ~Breaks(text, "-", "-") /\ ~Breaks(text, "/", "*")
IsGiven(text) == Trimmed(text) # <<>>

WrapsNullable(e, c) == e = "ClickHouse" /\ c.nullable /\ ~c.primary
ColumnType(e, c) ==
  CASE ~WrapsNullable(e, c) \/ c.type[1] = "Nullable" -> Words(c.type)
    [] WrapsNullable(e, c) /\ c.type[1] = "LowCardinality" ->
         Words(<<"LowCardinality", "(", "Nullable">>) \o Words(Tail(c.type)) \o <<Word(")")>>
    [] OTHER -> Words(<<"Nullable", "(">>) \o Words(c.type) \o <<Word(")")>>
AcceptsColumn(e, c) ==
  /\ IsGiven(c.type) /\ IsFragment(c.type) /\ IsFragment(c.default)
  /\ WrapsNullable(e, c) => c.type[1] \notin {"Array", "Map", "Tuple", "Nested"}

ColumnDefinition(e, c) ==
  Identifier(c.name) \o ColumnType(e, c)
    \o (IF e # "ClickHouse" /\ ~c.nullable /\ ~c.primary THEN Words(<<"NOT", "NULL">>) ELSE <<>>)
    \o (IF c.default # <<>> THEN <<Word("DEFAULT")>> \o Words(c.default) ELSE <<>>)

CreateTable(e, name, columns) ==
  LET keys == SelectSeq(columns, LAMBDA c : c.primary)
      key == Parens([i \in DOMAIN keys |-> Identifier(keys[i].name)])
      definitions == [i \in DOMAIN columns |-> ColumnDefinition(e, columns[i])]
  IN Words(<<"CREATE", "TABLE">>) \o QualifiedName(name)
       \o CASE e = "ClickHouse" ->
                 Parens(definitions) \o Words(<<"ENGINE", "=", "MergeTree", "ORDER", "BY">>)
                   \o (IF keys = <<>> THEN Words(<<"tuple", "(", ")">>) ELSE key)
            [] e # "ClickHouse" /\ keys # <<>> ->
                 Parens(Append(definitions, Words(<<"PRIMARY", "KEY">>) \o key))
            [] OTHER -> Parens(definitions)

Block(body) == <<Word("BEGIN")>> \o Words(Trimmed(body)) \o <<Word("END")>>
Signature(name, arguments) == QualifiedName(name) \o Parens(<<Words(Trimmed(arguments))>>)
InLanguage(t) == <<Word("LANGUAGE")>> \o Identifier(t.language) \o <<Word("AS"), Tagged(Trimmed(t.body))>>

CreateFunction(e, name, t) ==
  LET start == Words(<<"CREATE", "FUNCTION">>) \o Signature(name, t.arguments) \o <<Word("RETURNS")>>
                 \o Words(t.returns)
  IN CASE e = "PostgreSQL" -> start \o InLanguage(t)
       [] e = "MySQL" -> start \o <<Word("DETERMINISTIC")>> \o Block(t.body)
       [] e = "SQLServer" -> start \o <<Word("AS")>> \o Block(t.body)
       [] e = "ClickHouse" -> Words(<<"CREATE", "FUNCTION">>) \o QualifiedName(name) \o <<Word("AS")>>
                                \o Words(Trimmed(t.body))

CreateProcedure(e, name, t) ==
  LET start == Words(<<"CREATE", "PROCEDURE">>)
  IN CASE e = "PostgreSQL" -> start \o Signature(name, t.arguments) \o InLanguage(t)
       [] e = "MySQL" -> start \o Signature(name, t.arguments) \o Block(t.body)
       [] e = "SQLServer" -> start \o QualifiedName(name) \o Words(Trimmed(t.arguments)) \o <<Word("AS")>>
                               \o Block(t.body)

\* INSTEAD OF is two words.
TimingWords(timing) == IF timing = "INSTEAD OF" THEN Words(<<"INSTEAD", "OF">>) ELSE <<Word(timing)>>
CreateTrigger(e, name, f) ==
  LET on == <<Word("ON")>> \o TableRef(e, Trimmed(f.texts.table))
      when == TimingWords(f.timing) \o <<Word(f.event)>>
      start == Words(<<"CREATE", "TRIGGER">>)
      row == Words(<<"FOR", "EACH", "ROW">>)
  IN CASE e = "PostgreSQL" -> start \o Identifier(LastPart(name)) \o when \o on \o row
                                \o Words(<<"EXECUTE", "FUNCTION">>) \o Words(Trimmed(f.texts.body))
       [] e = "MySQL" -> start \o QualifiedName(name) \o when \o on \o row \o Block(f.texts.body)
       [] e = "SQLite" -> start \o QualifiedName(name) \o when \o on \o Block(f.texts.body)
       [] e = "SQLServer" -> start \o QualifiedName(name) \o on \o when \o <<Word("AS")>>
                               \o Block(f.texts.body)

Account(name, host) == <<Text(name), Word("@"), Text(host)>>
CreateUser(e, name, t) ==
  CASE e = "PostgreSQL" -> Words(<<"CREATE", "USER">>) \o Identifier(name)
                             \o Words(<<"WITH", "PASSWORD">>) \o <<Text(t.password)>>
    [] e = "MySQL" -> Words(<<"CREATE", "USER">>) \o Account(name, t.host)
                        \o Words(<<"IDENTIFIED", "BY">>) \o <<Text(t.password)>>
    [] e = "SQLServer" -> Words(<<"CREATE", "LOGIN">>) \o Identifier(name)
                            \o Words(<<"WITH", "PASSWORD", "=">>) \o <<Text(t.password)>>
    [] e = "ClickHouse" -> Words(<<"CREATE", "USER">>) \o Identifier(name)
                             \o Words(<<"IDENTIFIED", "WITH", "sha256_password", "BY">>)
                             \o <<Text(t.password)>>

CreateName(f) == QualifyName(f.schema, Trimmed(f.texts.name))

RenderCreate(e, f) ==
  LET name == CreateName(f)
  IN CASE f.kind = "database" -> Words(<<"CREATE", "DATABASE">>) \o Identifier(name)
       [] f.kind = "schema" -> Words(<<"CREATE", "SCHEMA">>) \o Identifier(name)
       [] f.kind = "table" -> CreateTable(e, name, f.columns)
       [] f.kind = "view" -> Words(<<"CREATE", "VIEW">>) \o QualifiedName(name) \o <<Word("AS")>>
                               \o Words(Trimmed(f.texts.body))
       [] f.kind = "function" -> CreateFunction(e, name, f.texts)
       [] f.kind = "procedure" -> CreateProcedure(e, name, f.texts)
       [] f.kind = "trigger" -> CreateTrigger(e, name, f)
       [] f.kind = "user" -> CreateUser(e, name, f.texts)

AcceptsCreate(e, f) ==
  LET t == f.texts
      named == Len(Parts(CreateName(f))) <= MaxParts(e)
  IN CASE f.kind \in {"database", "schema"} -> TRUE
       [] f.kind = "table" -> named /\ f.columns # <<>> /\ \A i \in DOMAIN f.columns : AcceptsColumn(e, f.columns[i])
       [] f.kind = "view" -> named /\ IsGiven(t.body)
       [] f.kind = "function" -> /\ named /\ IsFragment(t.arguments) /\ IsGiven(t.body)
                                 /\ e # "ClickHouse" => IsGiven(t.returns) /\ IsFragment(t.returns)
       [] f.kind = "procedure" -> named /\ IsFragment(t.arguments) /\ IsGiven(t.body)
       [] f.kind = "trigger" -> /\ IsGiven(t.body) /\ TimingSupported(e, f.timing) /\ EventSupported(e, f.event)
                                /\ IF e = "PostgreSQL" THEN IsFragment(t.body) ELSE named
       [] f.kind = "user" -> t.password # <<>>

RenderRename(e, f) ==
  LET new == Identifier(f.texts.name)
      old == IF f.kind = "table" THEN QualifiedName(f.listed) ELSE Identifier(f.listed)
  IN CASE f.kind = "database" /\ e = "SQLServer" ->
            Words(<<"ALTER", "DATABASE">>) \o old \o Words(<<"MODIFY", "NAME", "=">>) \o new
       [] f.kind = "database" /\ e = "ClickHouse" ->
            Words(<<"RENAME", "DATABASE">>) \o old \o <<Word("TO")>> \o new
       [] f.kind = "table" /\ e \in {"MySQL", "ClickHouse"} ->
            Words(<<"RENAME", "TABLE">>) \o old \o <<Word("TO")>> \o new
       [] f.kind = "table" /\ e = "SQLServer" ->
            Words(<<"EXEC", "sp_rename">>) \o <<Text(Rendered(e, "Native", old)), Word(","),
              Text(Trimmed(f.texts.name)), Word(","), Text(<<"OBJECT">>)>>
       [] e = "PostgreSQL" \/ (f.kind = "table" /\ e = "SQLite") ->
            <<Word("ALTER"), Word(Keywords[f.kind])>> \o old \o Words(<<"RENAME", "TO">>) \o new

RenderDrop(e, f) ==
  LET drop == <<Word("DROP"), Word(IF f.kind = "user" /\ e = "SQLServer" THEN "LOGIN" ELSE Keywords[f.kind])>>
  IN CASE f.kind = "trigger" /\ e = "PostgreSQL" ->
            drop \o Identifier(LastPart(f.listed)) \o <<Word("ON")>> \o TableRef(e, f.table)
       [] f.kind = "user" /\ e = "MySQL" -> drop \o Account(f.listed, f.host)
       [] f.kind \in {"function", "procedure"} /\ e = "PostgreSQL" ->
            drop \o QualifiedName(RoutineName(f.listed)) \o Words(RoutineArguments(f.listed))
       [] f.kind = "schema" /\ e = "PostgreSQL" -> drop \o Identifier(f.listed) \o <<Word("CASCADE")>>
       [] OTHER -> drop \o IF Qualified(f.kind) THEN QualifiedName(f.listed) ELSE Identifier(f.listed)

RenderStatement(e, f) ==
  CASE f.mode = "create" -> RenderCreate(e, f)
    [] f.mode = "rename" -> RenderRename(e, f)
    [] f.mode = "drop" -> RenderDrop(e, f)

AcceptsRename(e, f) ==
  /\ f.kind = "table" => Len(Parts(f.listed)) <= MaxParts(e) /\ Renderable(QualifiedName(f.listed))
  /\ Renderable(Identifier(f.texts.name))

AcceptsDrop(e, f) ==
  /\ f.kind \in {"function", "procedure"} /\ e = "PostgreSQL" =>
       IsFragment(RoutineArguments(f.listed)) /\ Len(Parts(RoutineName(f.listed))) <= MaxParts(e)
  /\ f.kind = "trigger" /\ e = "PostgreSQL" => ParsesTable(e, f.table)
  /\ Qualified(f.kind) /\ e # "PostgreSQL" => Len(Parts(f.listed)) <= MaxParts(e)
  /\ Qualified(f.kind) /\ f.kind \in {"table", "view"} => Len(Parts(f.listed)) <= MaxParts(e)

Accepts(e, f) ==
  /\ Supported(e, f.mode, f.kind)
  /\ CASE f.mode = "create" -> AcceptsCreate(e, f)
       [] f.mode = "rename" -> AcceptsRename(e, f)
       [] f.mode = "drop" -> AcceptsDrop(e, f)
  /\ Renderable(RenderStatement(e, f))

-----------------------------------------------------------------------------
\* What is done with a form.

Edit(new) ==
  /\ subject.mode # "drop" /\ step # "closed" /\ edits < subject.edits
  /\ form' = new /\ edits' = edits + 1
  /\ UNCHANGED <<engine, subject, step, sent, error, live, handle, ran, saved>>

\* Everything is typed, with the odd text or without; also while it is executed.
Type(odd) ==
  LET text(role) == IF odd THEN Oddly(role) ELSE Plainly[role]
      column(i) == [form.columns[i] EXCEPT !.name = IF i = 1 THEN text("column") ELSE << <<"d">>, <<"e">>, <<"f">> >>[i - 1],
                                           !.type = text("type"), !.default = Trimmed(text("default"))]
      fields == IF form.mode = "rename" THEN {"name"} ELSE Fields(engine, form.kind)
  IN Edit([form EXCEPT
       !.texts = [field \in DOMAIN @ |-> IF field \in fields THEN text(field) ELSE @[field]],
       !.columns = [i \in DOMAIN @ |-> column(i)]])

IsTable == form.mode = "create" /\ form.kind = "table"
IsTrigger == form.mode = "create" /\ form.kind = "trigger"

AddColumn ==
  /\ step = "idle" /\ IsTable
  /\ Edit([form EXCEPT !.columns = Append(@, NewColumn(engine))])
RemoveColumn(i) ==
  /\ step = "idle" /\ Len(form.columns) > 1
  /\ Edit([form EXCEPT !.columns = SubSeq(@, 1, i - 1) \o SubSeq(@, i + 1, Len(@))])

\* A column of a primary key has its other box disabled.
SetNullable(i, state) ==
  /\ step = "idle" /\ ~form.columns[i].primary
  /\ Edit([form EXCEPT !.columns[i].nullable = state])

\* Mutant: a column of a primary key stays nullable in the form.
SetPrimaryKeyOnly(i, state) ==
  /\ step = "idle"
  /\ Edit([form EXCEPT !.columns[i].primary = state])

SetPrimaryKey(i, state) ==
  /\ step = "idle"
  /\ Edit([form EXCEPT !.columns[i].primary = state,
                       !.columns[i].nullable = IF state THEN FALSE ELSE @])

SetTiming(timing) ==
  /\ step = "idle" /\ IsTrigger /\ TimingSupported(engine, timing)
  /\ Edit([form EXCEPT !.timing = timing])
SetEvent(event) ==
  /\ step = "idle" /\ IsTrigger /\ EventSupported(engine, event)
  /\ Edit([form EXCEPT !.event = event])

\* build_mutation refuses what has no name, and a trigger whose table is none.
Builds(f) ==
  /\ IsGiven(f.texts.name)
  /\ f.mode = "create" /\ f.kind = "trigger" => ParsesTable(engine, Trimmed(f.texts.table))

Submit ==
  /\ step = "idle"
  /\ IF Builds(form) THEN step' = "start" /\ sent' = form /\ error' = FALSE
     ELSE error' = TRUE /\ UNCHANGED <<step, sent>>
  /\ UNCHANGED <<engine, subject, form, live, handle, ran, saved, edits>>

\* Cancelled, or dismissed; not while it is executed.
Cancel ==
  /\ step = "idle" /\ step' = "closed"
  /\ UNCHANGED <<engine, subject, form, sent, error, live, handle, ran, saved, edits>>

\* The panel may know by now that the session has ended, or not yet.
ConfirmDrop(ok) ==
  /\ step = "asked"
  /\ step' \in IF ~ok THEN {"closed"} ELSE IF live = form.session THEN {"start"} ELSE {"start", "closed"}
  /\ UNCHANGED <<engine, subject, form, sent, error, live, handle, ran, saved, edits>>

-----------------------------------------------------------------------------
\* The service.

\* Mutant: whatever session the connection has.
TakeAnySession ==
  /\ step = "start"
  /\ handle' = live
  /\ step' = IF live # 0 THEN "taken" ELSE "failed"
  /\ UNCHANGED <<engine, subject, form, sent, error, live, ran, saved, edits>>

TakeSession ==
  /\ step = "start"
  /\ handle' = live
  /\ step' = IF live = sent.session THEN "taken" ELSE "failed"
  /\ UNCHANGED <<engine, subject, form, sent, error, live, ran, saved, edits>>

\* The database the statement is sent to.
Database == <<"db">>
DropsActive(f) == f.mode = "drop" /\ f.kind = "database" /\ f.listed = Database

\* The driver is used under its lock, unless it has ended; its server may refuse.
Execute(ok) ==
  /\ step = "taken"
  /\ IF live = handle /\ ~DropsActive(sent) /\ Accepts(engine, sent)
     THEN /\ ran' = [sql |-> Rendered(engine, "Native", RenderStatement(engine, sent)), of |-> sent,
                     session |-> handle]
          /\ step' = IF ok THEN "done" ELSE "failed"
     ELSE step' = "failed" /\ UNCHANGED ran
  /\ UNCHANGED <<engine, subject, form, sent, error, live, handle, saved, edits>>

\* A form that failed may be corrected; of a drop only a notice is left.
Answer ==
  /\ step \in {"done", "failed"}
  /\ step' = IF step = "done" \/ sent.mode = "drop" THEN "closed" ELSE "idle"
  /\ error' = (step = "failed")
  /\ saved' = IF step = "done" THEN sent ELSE saved
  /\ UNCHANGED <<engine, subject, form, sent, live, handle, ran, edits>>

\* The session ends, or another follows it.
EndSession ==
  /\ live' = IF live = 1 THEN 0 ELSE 2
  /\ UNCHANGED <<engine, subject, form, step, sent, error, handle, ran, saved, edits>>

Next ==
  \/ \E odd \in BOOLEAN : Type(odd)
  \/ AddColumn \/ \E i \in DOMAIN form.columns : RemoveColumn(i)
  \/ \E i \in DOMAIN form.columns, state \in BOOLEAN : SetNullable(i, state) \/ SetPrimaryKey(i, state)
  \/ \E timing \in Timings : SetTiming(timing)
  \/ \E event \in Events : SetEvent(event)
  \/ Submit \/ Cancel \/ \E ok \in BOOLEAN : ConfirmDrop(ok) \/ Execute(ok)
  \/ TakeSession \/ Answer \/ EndSession

Spec == Init /\ [][Next]_vars

-----------------------------------------------------------------------------
\* Properties.

\* The places of the names in what is said, and of the texts that stand for names.
Places(said) == SetToSortSeq({i \in DOMAIN said : said[i].kind \in {"name", "text"}}, <)
Names(said) == LET places == Places(said) IN [i \in DOMAIN places |-> said[places[i]].value]

\* The object as the form or the prompt presents it: its schema and its name.
Object(f) ==
  LET name == CASE f.mode = "create" -> Trimmed(f.texts.name)
                [] subject.role = "listed" /\ f.mode # "create" -> subject.text
                [] OTHER -> <<"x">>
      schema == IF f.mode = "create" THEN f.schema ELSE IF HasSchemas(engine) THEN <<"s">> ELSE <<>>
  IN CASE ~Qualified(f.kind) -> <<name>>
       [] f.kind = "trigger" /\ engine = "PostgreSQL" -> <<LastPart(name)>>
       [] f.mode = "create" /\ Qualified(f.kind) /\ Contains(name, ".") -> Parts(name)
       [] OTHER -> IF schema = <<>> THEN <<name>> ELSE <<schema, name>>

\* What follows it: its columns and its primary key, or its new name.
Shown(f) ==
  LET keys == SelectSeq(f.columns, LAMBDA c : c.primary)
      names(columns) == [i \in DOMAIN columns |-> Trimmed(columns[i].name)]
  IN Object(f) \o names(f.columns) \o names(keys)
       \o IF f.mode = "rename" THEN <<Trimmed(f.texts.name)>> ELSE <<>>

\* Whether a column of a statement allows NULL.
AllowsNull(f, said, i) ==
  LET places == Places(said)
      place == Len(Object(f)) + i
      next == IF place = Len(places) THEN Len(said) + 1 ELSE places[place + 1]
      definition == SubSeq(said, places[place], next - 1)
      keys == {said[places[k]].value : k \in Len(Object(f)) + Len(f.columns) + 1..Len(places)}
  IN /\ said[places[place]].value \notin keys
     /\ IF engine = "ClickHouse" THEN Contains(definition, Word("Nullable"))
        ELSE ~Contains(definition, Word("NOT"))

\* A name that is listed with a dot in it is taken for two, spaces around one are
\* lost, a parenthesis in the name of a routine is taken for its arguments, and
\* the name of a schema is never qualified: what the program does with these is
\* not what it shows.
Misread(f) ==
  \/ /\ f.mode # "create" /\ subject.role = "listed"
     /\ \/ Contains(subject.text, ".") \/ Trimmed(subject.text) # subject.text
        \/ Contains(subject.text, "(") /\ f.kind \in {"function", "procedure"} /\ engine = "PostgreSQL"
  \/ f.mode = "create" /\ f.kind = "schema" /\ f.schema # <<>>

\* The body of a view, a routine or a trigger, where it is not between dollars.
WritesBody(f) ==
  /\ f.mode = "create"
  /\ f.kind = "view" \/ (f.kind \in {"function", "procedure", "trigger"} /\ engine # "PostgreSQL")

\* The statement that a server is given is run in the session the form or the
\* prompt is of; it is one statement, unless a body is written without quotes;
\* and the server reads in it the object, the columns, which of them may be NULL
\* and the primary key as the form showed them when it was submitted, with the
\* password that was typed.  What is reported as done is what ran.
StatementsSayWhatIsShown ==
  ran # Error =>
    LET f == ran.of
        said == Tokens(engine, ran.sql, 1)
        scripts == Scan(engine, ran.sql)
    IN /\ ran.session = f.session
       /\ SameTokens(said, RenderStatement(engine, f))
       /\ WritesBody(f) \/ (scripts # Error /\ Len(scripts) = 1)
       /\ \/ Misread(f) \/ (engine = "SQLServer" /\ f.mode = "rename" /\ f.kind = "table")
          \/ IsPrefix(Shown(f), Names(said))
       /\ \A i \in DOMAIN f.columns :
            f.columns[i].nullable = AllowsNull(f, said, i) \/ f.columns[i].type[1] = "Nullable"
       /\ f.mode = "create" /\ f.kind = "user" => Last(said) = Text(f.texts.password)
       /\ saved # Error => saved = f
=============================================================================
