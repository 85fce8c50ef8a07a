------------------------------ MODULE MCDatabase ------------------------------
\* What reaches a database: instances of McpStatements, of Drivers and of
\* SqlScripts for TLC.  They share nothing; a behaviour is one of the tools of a
\* client, of a driver or of a script, and keeps the variables of the others.
EXTENDS McpStatements, DatabaseDrivers

CONSTANTS k1, k2, d1, d2

VARIABLES
  part,   \* what this behaviour is of
  dialect, subject, tables, phase, at, script, meant, partial, read,  \* a script
  maker, about, form, step, sent, error, online, taken, given, saved, edits   \* a form

driverVars == <<engine, idle, dcall, ran, manual, replies, durable>>
scriptVars == <<dialect, subject, tables, phase, at, script, meant, partial, read>>

formVars == <<maker, about, form, step, sent, error, online, taken, given, saved, edits>>

Symmetric == Permutations(Calls) \cup Permutations(Databases)

(* Statements up to a given depth.  What the policy does not look into has   *)
(* parts only if running it always asks.                                     *)
Exprs == {Leaf("value"), Leaf("uncommon")}
           \cup {Tree(n, <<Leaf("value")>>) : n \in {"operator", "aggregate", "function"}}
Tables == {Leaf("table"), Tree("tableFunction", <<>>)}
Selects == {Tree("select", <<e, t>>) : e \in Exprs, t \in Tables}
             \cup {Tree("selectInto", <<e>>) : e \in Exprs}
Changes == {Leaf(n) : n \in {"update", "delete", "drop", "permission", "create",
                             "createOrReplace", "other", "truncate"}}
Sources == {Tree("select", <<Leaf("value"), Leaf("table")>>), Tree("select", <<Leaf("function")>>)}
Writes == Changes \cup {Tree(n, <<q>>) : n \in DOMAIN InsertRisk \cup {"delete", "merge"}, q \in Sources}
Inner == Sources \cup {Leaf("update"), Leaf("delete"), Tree("insert", <<Leaf("select")>>)}

Statements ==
  Selects \cup Writes \cup {Tree("explain", <<q>>) : q \in Inner}
    \cup {Tree("query", <<q, r>>) : q \in Inner, r \in Inner}
    \cup {Tree("setOperation", <<q, r>>) : q \in Sources, r \in Sources}
    \cup {Tree("locked", <<q>>) : q \in Sources}
    \cup {Tree("select", <<Tree("subquery", <<q>>), Tree("derived", <<r>>)>>) : q \in Sources, r \in Sources}
    \cup {Tree("select", <<Leaf("value"), Tree("pivot", <<Tree("derived", <<q>>)>>)>>) : q \in Sources}

(* Every statement saved and run; and a few together with all other tools.  *)
MCClients ==
  [statement : Statements, tools : {{"create_query", "execute_query", "connect", "disconnect"}}]
    \cup [statement : {Leaf("update"), Leaf("delete")}, tools : {Tools}]

-----------------------------------------------------------------------------
\* Odd names and values: every symbol alone, the loose ones in pairs.
Symbols == {"quote", "double quote", "backtick", "[", "]", "backslash", ";", "-", "#", "/", "*",
            "$", "E", "x", "newline"}
Loose == {"quote", "double quote", "backtick", "]", "backslash", ";", "-", "$", "x"}
OddTexts ==
  ({<<c>> : c \in Symbols} \cup (Loose \X Loose)
     \cup {<<"/", "*">>, <<"*", "/">>, <<"E", "quote">>, <<"newline", "-">>})
  \ {<<"$", "$">>}   \* a table of PostgreSQL with $$ in its name ends the body of its own reset

Full == [content |-> "Both", drop |-> "DropIfExists", tables |-> <<1>>]
Links == {<<1, 1>>, <<1, 2>>, <<2, 1>>, <<1, 3>>, <<3, 1>>, <<2, 3>>, <<3, 2>>}
MCSubjects ==
  [role : {"database", "table", "schema", "column", "index", "value", "error", "copy"},
   text : OddTexts, keys : {{}}, backup : {Full}]
    \cup [role : {"value"}, text : {<<"NUL">>, <<"x", "NUL">>}, keys : {{}}, backup : {Full}]
    \cup [role : {"keys"}, text : {<<>>}, keys : SUBSET Links,
          backup : {[content |-> "Structure", drop |-> "Drop", tables |-> <<3, 1, 2>>]}]
    \cup [role : {"keys"}, text : {<<>>}, keys : {{<<1, 2>>}},
          backup : [content : {"Structure", "Data", "Both"}, drop : {"None", "Drop"},
                    tables : {<<1, 2>>}]]

Script == INSTANCE SqlScripts WITH
  Error <- None, Engines <- {"PostgreSQL", "MySQL", "SQLite", "SQLServer", "ClickHouse"},
  Subjects <- MCSubjects, engine <- dialect
ASSUME ScriptsAssumption == Script!ScriptsAssumption

-----------------------------------------------------------------------------
\* Forms of objects: what is typed into each field, or listed.
OddNames ==
  {<<c>> : c \in Symbols}
    \cup {<<>>, <<" ", "x", " ">>, <<"x", ".", "y">>, <<"x", ".", "y", ".", "z">>, <<"x", "(", "x">>,
          <<"backslash", "quote">>, <<"]", "]">>, <<"*">>, <<"-", "-">>}
OddFragments == {<<>>, <<"x", ";", "x">>, <<"-", "-", "x">>, <<"/", "*", "x">>, <<"x", "(", "x", ")">>}
OddTypes == OddFragments \cup {<<w, "(", "int", ")">> : w \in {"Nullable", "LowCardinality", "Array"}}
OddBodies == {<<"$", "$">>, <<"$", "astesia", "$">>, <<"$", "astesia">>,
              <<"$", "astesia", "$", "astesia_", "$">>}
OddOf(role) ==
  CASE role \in {"name", "listed", "column", "table", "language"} -> OddNames
    [] role \in {"host", "password"} -> OddNames \cup {<<"NUL">>}
    [] role \in {"arguments", "returns", "default"} -> OddFragments
    [] role = "type" -> OddTypes
    [] role = "body" -> {<<>>, <<"x", ";", "x">>, <<"-", "-", "x">>, <<" ", "x">>}
Roles == {"name", "listed", "column", "table", "language", "host", "password", "arguments", "returns",
          "default", "type", "body"}
Asked(modes, kinds, schema, role, texts, most) ==
  [mode : modes, kind : kinds, schema : {schema}, role : {role}, text : texts, edits : {most}]
FormKinds == {"database", "schema", "table", "view", "function", "procedure", "trigger", "user"}
MCForms ==
  UNION {Asked({"create", "rename", "drop"}, FormKinds, <<>>, role, OddOf(role), 1) : role \in Roles}
    \cup Asked({"create"}, {"function", "procedure"}, <<>>, "body", OddBodies, 1)
    \cup Asked({"create"}, {"schema", "table", "function"}, <<"s">>, "name", OddNames, 1)
    \cup Asked({"drop"}, {"database"}, <<>>, "listed", {<<"db">>}, 0)
    \cup Asked({"create", "rename", "drop"}, FormKinds, <<>>, "name", {<<>>, <<"x">>}, 2)
    \cup Asked({"create"}, {"table"}, <<>>, "type", {<<w, "(", "int", ")">> : w \in {"int", "Nullable"}}, 3)
    \cup Asked({"create"}, {"trigger"}, <<>>, "name", {<<"x", ".", "y">>}, 3)

Form == INSTANCE ObjectForms WITH
  Error <- None, Engines <- {"PostgreSQL", "MySQL", "SQLite", "SQLServer", "ClickHouse"},
  Subjects <- MCForms, engine <- maker, subject <- about, live <- online,
  handle <- taken, ran <- given
ASSUME FormsAssumption == Form!FormsAssumption

-----------------------------------------------------------------------------
MCInit ==
  /\ part \in {"tools", "driver", "script", "form"}
  /\ IF part = "tools" THEN TRUE ELSE client = CHOOSE c \in MCClients : TRUE
  /\ IF part = "driver" THEN TRUE ELSE engine = "SQLite"
  /\ IF part = "script" THEN TRUE
     ELSE dialect = "SQLite" /\ subject = CHOOSE s \in MCSubjects : s.role = "copy"
  /\ IF part = "form" THEN TRUE
     ELSE /\ maker = "SQLite"
          /\ about = CHOOSE s \in MCForms : s.mode = "drop" /\ s.kind = "table" /\ s.role = "listed"
  /\ Init /\ Driver!Init /\ Script!Init /\ Form!Init

MCNext ==
  /\ UNCHANGED part
  /\ \/ part = "tools" /\ Next /\ UNCHANGED <<driverVars, scriptVars, formVars>>
     \/ part = "driver" /\ Driver!Next /\ UNCHANGED <<vars, scriptVars, formVars>>
     \/ part = "script" /\ Script!Next /\ UNCHANGED <<vars, driverVars, formVars>>
     \/ part = "form" /\ Form!Next /\ UNCHANGED <<vars, driverVars, scriptVars>>

MCSpec == MCInit /\ [][MCNext]_<<part, vars, driverVars, scriptVars, formVars>>

\* The properties of SqlScripts: a backup is restored as it was made and a
\* statement is picked as it was written; what a change or a copy says is what
\* was meant.
ScriptsReadBack ==
  Script!ScriptsReadBack /\ Script!PickedIsUnderCursor /\ Script!ReferencedTablesFirst
SqlSaysWhatWasMeant ==
  Script!EditsSayWhatWasMeant /\ Script!CopiesOnlyRename /\ Form!StatementsSayWhatIsShown

\* The properties of McpStatements: a statement that changes more than it adds
\* runs only when it was confirmed, and for the profile it was confirmed for.
ConfirmedOnly == NothingUnconfirmed /\ ConfirmationFitsTarget
=============================================================================
