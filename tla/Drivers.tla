------------------------------- MODULE Drivers -------------------------------
\* What the database drivers (db/*.rs) do with their server sessions, and the
\* connection of a manual transaction (db/transaction.rs).  One driver of one
\* engine: its calls are serial, they hold the lock of the driver handle
\* (connection_runtime/driver.rs).  An operation of a driver is the sequence of
\* things it sends; what it reads out of the answers is left out.
EXTENDS Integers, Sequences, FiniteSets, SequencesExt

CONSTANTS
  None,
  Engines,                \* the engines to look at
  MainDb, OtherDbs,       \* the database of the profile, and others of its server
  Schema,                 \* a schema that is not the default one
  Batches, BatchSize,     \* batches of edits for a manual transaction
  MaxScript               \* bound of the model: statements of a user's script

\* What an instance assumes of the constants.
DriversAssumption ==
  /\ Engines \subseteq {"PostgreSQL", "MySQL", "SQLite", "SQLServer", "ClickHouse",
                        "MongoDB", "Redis"}
  /\ MainDb \notin OtherDbs /\ None \notin OtherDbs \cup {MainDb, Schema}
  /\ None \notin Batches \cup {"ok", "refused"}
  /\ BatchSize \in Nat \ {0} /\ MaxScript \in Nat \ {0}

VARIABLES
  engine,   \* the engine of the profile
  idle,     \* [database -> idle sessions of its pool]; one pool, or one client, is at MainDb
  call,     \* the call that holds the driver
  ran,      \* the statement that was executed last: what was asked, and the session it met
  manual,   \* the manual transaction
  replies,  \* [batch -> what its caller was told]
  durable   \* statements of batches that the database has committed

vars == <<engine, idle, call, ran, manual, replies, durable>>

AllDatabases == {MainDb} \cup OtherDbs
Stateless == engine \in {"ClickHouse", "MongoDB"}
\* A client that is not a pool: a lost session is not replaced.
OneClient == engine \in {"SQLServer", "Redis"}

\* A session: its database, search path, open transaction, SHOWPLAN mode and
\* isolation level, and which of them a script of the user has left there.
Fresh(db) == [db |-> db, path |-> None, tx |-> FALSE, plan |-> FALSE,
              level |-> "default", by |-> {}]

-----------------------------------------------------------------------------
\* The operations.  RUN is a statement in the session's database, NAMED one that
\* names its database itself, SERVER one about the server; USE selects the
\* asked database; SCRIPT stands for the user's statements; OPEN to CLOSE is the
\* transaction of a batch.

Every(names, program) == names \X {program}

PostgresCatalog == Every({"get_tables", "get_columns", "get_indexes", "get_constraints"}, <<"RUN">>)
PostgresScripts == Every({"execute_query", "execute_statements"}, <<"SCRIPT">>)
                   \cup Every({"execute_in_schema"}, <<"PATH", "SCRIPT">>)
                   \cup Every({"explain"}, <<"EXPLAIN">>)
PostgresBegins == Every({"begin_transaction"}, <<"BEGIN", "ISOLATION">>)
PostgresBatch == Every({"execute_mutation_batch"}, <<"OPEN", "EDIT", "EDIT", "CLOSE">>)
PostgresObjects == Every({"get_table_data", "get_views", "get_functions", "get_procedures",
                          "get_triggers"}, <<"RUN">>)
PostgresDetails == Every({"get_users", "get_databases"}, <<"SERVER">>)
                   \cup Every({"get_foreign_keys", "get_schemas", "get_enum_values"}, <<"RUN">>)
PostgresDdl == Every({"get_create_table_sql"}, <<"RUN", "RUN">>)

\* The catalog of MySQL is asked by a bound parameter, on any connection.
MySqlCatalog == Every({"get_databases"}, <<"SERVER">>)
                \cup Every({"get_tables", "get_columns", "get_indexes", "get_constraints"}, <<"NAMED">>)
MySqlScripts == Every({"execute_query", "execute_statements"}, <<"USE", "SCRIPT">>)
                \cup Every({"explain"}, <<"USE", "EXPLAIN">>)
MySqlBegins == Every({"begin_transaction"}, <<"USE", "ISOLATION", "BEGIN">>)
MySqlBatch == Every({"execute_mutation_batch"}, <<"USE", "OPEN", "EDIT", "EDIT", "CLOSE">>)
MySqlObjects == Every({"get_table_data"}, <<"USE", "RUN">>)
                \cup Every({"get_views", "get_functions", "get_procedures", "get_triggers",
                            "get_foreign_keys", "get_create_table_sql"}, <<"NAMED">>)
                \cup Every({"get_users"}, <<"SERVER">>)

\* The database of a SQLite call is ignored: a file has one.
SqliteCatalog == Every({"get_tables", "get_columns"}, <<"RUN">>)
                 \cup Every({"get_indexes"}, <<"RUN", "RUN">>)
                 \cup Every({"get_constraints"}, <<"RUN", "RUN", "RUN">>)
SqliteScripts == Every({"execute_query", "execute_statements"}, <<"SCRIPT">>)
                 \cup Every({"explain"}, <<"EXPLAIN">>) \cup Every({"begin_transaction"}, <<"BEGIN">>)
SqliteBatch == Every({"execute_mutation_batch"}, <<"OPEN", "EDIT", "EDIT", "CLOSE">>)
SqliteObjects == Every({"get_table_data", "get_views", "get_triggers", "get_foreign_keys",
                        "get_create_table_sql"}, <<"RUN">>)

\* The catalog of SQL Server is asked in one batch with its USE.
SqlServerCatalog == Every({"get_databases"}, <<"SERVER">>)
                    \cup Every({"get_tables", "get_columns"}, <<"USE", "RUN">>)
SqlServerKeys == Every({"get_indexes", "get_constraints"}, <<"USE", "RUN">>)
SqlServerScripts == Every({"execute_query", "execute_statements"}, <<"USE", "SCRIPT">>)
                    \cup Every({"explain"}, <<"USE", "PLAN", "PLANNED", "UNPLAN">>)
SqlServerBegins == Every({"begin_transaction"}, <<"USE", "ISOLATION", "BEGIN">>)
SqlServerBatch == Every({"execute_mutation_batch"}, <<"USE", "OPEN", "EDIT", "EDIT", "CLOSE">>)
SqlServerObjects == Every({"get_table_data", "get_views", "get_functions", "get_procedures",
                           "get_triggers"}, <<"USE", "RUN">>)
SqlServerDetails == Every({"get_foreign_keys", "get_schemas"}, <<"USE", "RUN">>)
                    \cup Every({"get_users"}, <<"SERVER">>)
SqlServerDdl == Every({"get_create_table_sql"}, <<"USE", "RUN">>)

\* Every request over HTTP, and every command of MongoDB, names its database.
ClickHouseOperations ==
  Every({"get_tables", "get_columns", "get_indexes", "execute_query", "get_table_data"}, <<"NAMED">>)
  \cup Every({"explain"}, <<"EXPLAIN">>)
ClickHouseObjects == Every({"get_databases", "get_users"}, <<"SERVER">>)
                     \cup Every({"get_views", "get_functions", "get_create_table_sql"}, <<"NAMED">>)
MongoCatalog == Every({"get_tables", "get_columns", "get_indexes", "execute_query"}, <<"NAMED">>)
                \cup Every({"get_databases"}, <<"SERVER">>)
MongoDocuments == Every({"get_table_data", "get_mongodb_server_status"}, <<"NAMED">>)
                  \cup Every({"get_documents"}, <<"NAMED", "NAMED">>)

\* One multiplexed connection: SELECT, then the commands of the operation.  A
\* scan, or a page of a key, is several commands.
RedisKeys == Every({"get_tables"}, <<"USE", "RUN", "RUN">>)
             \cup Every({"execute_query"}, <<"USE", "SCRIPT">>)
             \cup Every({"set_key", "delete_key"}, <<"USE", "RUN">>)
RedisPages == Every({"scan_redis_keys"}, <<"USE", "RUN", "RUN">>)
              \cup Every({"get_redis_key_page"}, <<"USE", "RUN", "RUN", "RUN", "RUN">>)
RedisCommands == Every({"mutate_redis_key"}, <<"USE", "RUN">>)
                 \cup Every({"execute_redis_command"}, <<"USE", "SCRIPT">>)
RedisTable == Every({"get_table_data"}, <<"USE", "RUN", "RUN", "RUN">>)

\* What the engine's driver offers: pairs of an operation and its program.
Operations ==
  CASE engine = "PostgreSQL" -> PostgresCatalog \cup PostgresScripts \cup PostgresBegins
                                \cup PostgresBatch \cup PostgresObjects \cup PostgresDetails \cup PostgresDdl
    [] engine = "MySQL" -> MySqlCatalog \cup MySqlScripts \cup MySqlBegins \cup MySqlBatch \cup MySqlObjects
    [] engine = "SQLite" -> SqliteCatalog \cup SqliteScripts \cup SqliteBatch \cup SqliteObjects
    [] engine = "SQLServer" -> SqlServerCatalog \cup SqlServerKeys \cup SqlServerScripts
                               \cup SqlServerBegins \cup SqlServerBatch \cup SqlServerObjects \cup SqlServerDetails
                               \cup SqlServerDdl
    [] engine = "ClickHouse" -> ClickHouseOperations \cup ClickHouseObjects
    [] engine = "MongoDB" -> MongoCatalog \cup MongoDocuments
    [] engine = "Redis" -> RedisKeys \cup RedisPages \cup RedisCommands \cup RedisTable

\* What a user may write beside statements that change nothing of the session.
UserStatements ==
  {"write"} \cup
  CASE engine = "PostgreSQL" -> {"user_path", "user_begin", "user_commit"}
    [] engine = "MySQL" -> {"user_use", "user_begin", "user_commit"}
    [] engine = "SQLite" -> {"user_begin", "user_commit"}
    [] engine = "SQLServer" -> {"user_use", "user_begin", "user_commit", "user_plan"}
    [] engine = "Redis" -> {"user_use", "user_begin", "user_commit"}
    [] OTHER -> {}

\* execute_query is one statement; a script is run until one of them fails.
ScriptsOf(op) == UNION {[1..n -> UserStatements] :
                          n \in IF op = "execute_statements" \/ op = "execute_in_schema"
                                THEN 1..MaxScript ELSE {1}}
\* A script is what an operation ends with.
Steps(program, script) ==
  IF Last(program) = "SCRIPT" THEN Front(program) \o script ELSE program

\* Requests of the MCP server that give up after sixty seconds: the future is
\* dropped where it stands.
Droppable == {"execute_query", "get_columns", "get_table_data"}
\* Sessions that leave the pool: the comment of execute_statements_in_schema.
Detached(op) == op \in {"execute_in_schema", "begin_transaction"}
\* get_databases and get_users of PostgreSQL use the pool of the profile.
Pool(program, db) == IF engine = "PostgreSQL" /\ program # <<"SERVER">> THEN db ELSE MainDb

-----------------------------------------------------------------------------
\* The server's side.

\* While it only shows plans, or queues the commands of a MULTI, a session does
\* not execute what a driver sends to change it.
Inert(s) == s.plan \/ (engine = "Redis" /\ s.tx)
Used(s, db) == IF Inert(s) THEN [s EXCEPT !.by = IF @ = {} THEN @ ELSE @ \cup {"db"}]
               ELSE [s EXCEPT !.db = db, !.by = @ \ {"db"}]

UserEffects(s, statement) ==
  CASE statement = "user_use" -> {Used(s, d) : d \in AllDatabases}
    [] statement = "user_path" -> {[s EXCEPT !.path = Schema, !.by = @ \cup {"path"}]}
    [] statement = "user_begin" -> {IF s.plan THEN s ELSE [s EXCEPT !.tx = TRUE, !.by = @ \cup {"tx"}]}
    [] statement = "user_commit" -> {IF s.plan THEN s ELSE [s EXCEPT !.tx = FALSE, !.by = @ \ {"tx"}]}
    [] statement = "user_plan" -> {[s EXCEPT !.plan = ~@, !.by = IF s.plan THEN @ \ {"plan"}
                                                                 ELSE @ \cup {"plan"}]}
    [] OTHER -> {s}

\* BEGIN, in a session of PostgreSQL that is in a transaction already, only
\* warns; the level is set in the transaction there, and before it elsewhere.
\* A transaction of SQLite is serializable.
Begun(s) ==
  IF engine = "PostgreSQL" /\ s.tx THEN s
  ELSE [s EXCEPT !.tx = TRUE, !.by = @ \ {"tx"},
                 !.level = CASE engine = "PostgreSQL" -> "default"
                             [] engine = "SQLite" -> "asked"
                             [] OTHER -> s.level]
\* The transaction of a batch: within another one SQLite refuses it, SQL Server
\* nests it and PostgreSQL only warns.
Opened(s) ==
  CASE s.plan -> {[s EXCEPT !.by = IF @ = {} THEN @ ELSE @ \cup {"tx"}]}
    [] ~s.plan /\ engine = "SQLite" /\ s.tx -> {}
    [] OTHER -> {[s EXCEPT !.tx = TRUE,
                           !.by = IF s.tx /\ engine # "MySQL" THEN @ ELSE @ \ {"tx"}]}
Ended(s) == IF s.plan THEN s ELSE [s EXCEPT !.tx = FALSE, !.by = @ \ {"tx"}]
ClosedBatch(s) == IF engine = "SQLServer" /\ "tx" \in s.by THEN s ELSE Ended(s)
Isolated(s, level) ==
  IF level = "default" \/ (engine = "PostgreSQL" /\ ~s.tx) THEN s ELSE [s EXCEPT !.level = level]

\* What a session becomes when the step is executed; {} when the server refuses.
Effects(step, s, asked) ==
  CASE step = "USE" -> {Used(s, asked.db)}
    [] step = "PATH" -> {[s EXCEPT !.path = asked.path, !.by = @ \ {"path"}]}
    [] step = "PLAN" -> {[s EXCEPT !.plan = TRUE, !.by = @ \ {"plan"}]}
    [] step = "UNPLAN" -> {[s EXCEPT !.plan = FALSE, !.by = @ \ {"plan"}]}
    [] step = "BEGIN" -> IF engine = "SQLite" /\ s.tx THEN {} ELSE {Begun(s)}
    [] step = "OPEN" -> Opened(s)
    [] step = "CLOSE" -> {ClosedBatch(s)}
    [] step = "UNDO" -> {Ended(s)}
    [] step = "ISOLATION" ->
         IF engine = "MySQL" /\ s.tx /\ asked.level # "default" THEN {} ELSE {Isolated(s, asked.level)}
    [] OTHER -> UserEffects(s, step)

\* The record of a statement: what the caller asked for, and what it met.
Ran(step, s, asked) ==
  [asked |-> [asked EXCEPT !.db = IF step = "SERVER" THEN None ELSE @],
   had |-> [db |-> IF step = "NAMED" \/ Stateless THEN asked.db ELSE s.db, path |-> s.path, tx |-> s.tx,
            plan |-> s.plan \/ step = "EXPLAIN", level |-> s.level],
   by |-> s.by]
Statements == {"RUN", "EDIT", "NAMED", "SERVER", "EXPLAIN", "PLANNED", "write"}

-----------------------------------------------------------------------------
Init ==
  /\ engine \in Engines
  /\ idle = [d \in AllDatabases |-> IF d = MainDb THEN {Fresh(d)} ELSE {}]
  /\ call = None /\ ran = None /\ manual = None
  /\ replies = [b \in Batches |-> None]
  /\ durable = {}

\* There is a manual transaction.  Bound of the model: its batches and the calls
\* of the driver, which share nothing, do not overlap.
Open == manual # None /\ manual.outcome = "open"
Untouched == Open /\ manual.step = "idle" /\ \A b \in Batches : replies[b] = None

\* A call takes an idle session of its pool, or a new one.  A SQL Server
\* transaction has a client of its own.
Start(op, program) ==
  /\ call = None
  /\ IF Open THEN Untouched /\ op # "begin_transaction" ELSE TRUE
  /\ \E db \in (IF engine = "SQLite" THEN {MainDb} ELSE AllDatabases), script \in ScriptsOf(op),
        level \in (IF op = "begin_transaction" THEN {"default", "asked"} ELSE {"default"}) :
       LET pool == Pool(program, db)
           own == engine = "SQLServer" /\ op = "begin_transaction"
       IN  \E s \in (IF own \/ Stateless \/ (idle[pool] = {} /\ ~OneClient)
                     THEN {Fresh(pool)} ELSE idle[pool]) :
             /\ idle' = IF own THEN idle ELSE [idle EXCEPT ![pool] = @ \ {s}]
             /\ call' = [op |-> op, pool |-> pool, session |-> s,
                         asked |-> [db |-> db, path |-> IF op = "execute_in_schema" THEN Schema ELSE None,
                                    tx |-> op = "execute_mutation_batch", plan |-> op = "explain", level |-> level],
                         todo |-> Steps(program, script)]
  /\ IF Open THEN UNCHANGED <<manual, replies, durable>>
     ELSE manual' = None /\ replies' = [b \in Batches |-> None] /\ durable' = {}
  /\ UNCHANGED <<engine, ran>>

\* The call returns: its session goes back to the pool as it is, is the one of
\* the manual transaction, or is closed.
End(began, session) ==
  /\ idle' = IF Detached(call.op) \/ Stateless THEN idle
             ELSE [idle EXCEPT ![call.pool] = @ \cup {session}]
  /\ call' = None /\ ran' = None
  /\ IF began
     THEN manual' = [session |-> session, db |-> call.asked.db, level |-> call.asked.level,
                        step |-> "idle", batch |-> None, at |-> 0, aborted |-> FALSE,
                        written |-> {}, saved |-> {}, outcome |-> "open"]
     ELSE UNCHANGED manual
  /\ UNCHANGED <<engine, replies, durable>>

\* The next step succeeds.  The user's own USE is what he asks for from then on.
Execute ==
  /\ call # None /\ call.todo # <<>>
  /\ LET step == Head(call.todo)
     IN  \E s \in Effects(step, call.session, call.asked) :
           /\ call' = [call EXCEPT !.session = s, !.todo = Tail(@),
                                   !.asked = IF step = "user_use" THEN [@ EXCEPT !.db = None] ELSE @]
           /\ ran' = IF step \in Statements THEN Ran(step, call.session, call.asked) ELSE ran
  /\ UNCHANGED <<engine, idle, manual, replies, durable>>

\* Mutant: the error is returned at once.
NothingAfterFailure(todo) == <<>>
\* It fails: the call returns its error, but explain turns SHOWPLAN off first,
\* and a batch rolls back (which fails only with the connection).
AfterFailure(todo) ==
  CASE Head(todo) = "PLANNED" -> Tail(todo)
    [] Head(todo) = "EDIT" -> <<"UNDO">>
    [] OTHER -> <<>>
\* A COMMIT that fails ends the transaction; SQLite, when it is busy, keeps it.
Failed(s, step) ==
  CASE step = "CLOSE" /\ engine = "SQLite" -> [s EXCEPT !.by = @ \cup {"tx"}]
    [] step = "CLOSE" /\ engine # "SQLite" -> Ended(s)
    [] OTHER -> s
Fail ==
  /\ call # None /\ call.todo # <<>> /\ Head(call.todo) \notin {"UNPLAN", "UNDO"}
  /\ LET rest == AfterFailure(call.todo)
     IN  IF rest = <<>> THEN End(FALSE, Failed(call.session, Head(call.todo)))
         ELSE call' = [call EXCEPT !.todo = rest] /\ UNCHANGED <<engine, idle, ran, manual, replies, durable>>

Return == call # None /\ call.todo = <<>> /\ End(call.op = "begin_transaction", call.session)

\* The caller gives up.
Abandon == call # None /\ call.todo # <<>> /\ call.op \in Droppable /\ End(FALSE, call.session)

\* The session of the call, or an idle one, is lost.
Lose ==
  \/ /\ call # None
     /\ call' = None /\ ran' = None
     /\ UNCHANGED <<engine, idle, manual, replies, durable>>
  \/ /\ call = None
     /\ \E d \in AllDatabases : \E s \in idle[d] : idle' = [idle EXCEPT ![d] = @ \ {s}]
     /\ UNCHANGED <<engine, call, ran, manual, replies, durable>>

-----------------------------------------------------------------------------
\* The manual transaction: GridTransaction's actor calls apply_batch, read (a
\* batch of one statement that writes nothing), commit and rollback on it.

AskedOfManual == [db |-> manual.db, path |-> None, tx |-> TRUE, plan |-> FALSE, level |-> manual.level]
RanManual == Ran("RUN", manual.session, AskedOfManual)
Told(reply) == replies' = IF manual.batch = None THEN replies
                          ELSE [replies EXCEPT ![manual.batch] = reply]
Rest(m) == [m EXCEPT !.step = "idle", !.batch = None, !.at = 0]

\* The connection is dropped: the server rolls back what is open.
Drop(outcome) ==
  /\ manual' = [Rest(manual) EXCEPT !.outcome = outcome, !.written = {}, !.saved = {},
                                    !.session = Fresh(MainDb), !.level = "default", !.aborted = FALSE]
  /\ UNCHANGED <<engine, idle, call, ran>>

\* SAVEPOINT.
BatchStart ==
  /\ Open /\ call = None /\ manual.step = "idle" /\ ~manual.aborted
  /\ \E b \in {x \in Batches : replies[x] = None} \cup {None} :
       manual' = [manual EXCEPT !.step = "run", !.batch = b, !.at = 1, !.saved = {manual.written}]
  /\ UNCHANGED <<engine, idle, call, ran, replies, durable>>

Length == IF manual.batch = None THEN 1 ELSE BatchSize

\* A statement; outside of a transaction it is durable at once.
BatchRuns ==
  /\ Open /\ manual.step = "run" /\ manual.at <= Length
  /\ LET effect == IF manual.batch = None THEN {} ELSE {<<manual.batch, manual.at>>}
     IN  /\ manual' = [manual EXCEPT !.at = @ + 1,
                                     !.written = IF manual.session.tx THEN @ \cup effect ELSE @]
         /\ durable' = IF manual.session.tx THEN durable ELSE durable \cup effect
  /\ ran' = RanManual
  /\ UNCHANGED <<engine, idle, call, replies>>

\* It fails: the statement alone, which keeps PostgreSQL from doing anything
\* else in the transaction, or with it the whole transaction (a deadlock of
\* MySQL, XACT_ABORT of SQL Server, a full disk for SQLite).
BatchFails ==
  /\ Open /\ manual.step = "run" /\ manual.at <= Length
  /\ \/ manual' = [manual EXCEPT !.step = "recover", !.aborted = engine = "PostgreSQL"]
     \/ /\ engine # "PostgreSQL"
        /\ manual' = [manual EXCEPT !.step = "recover", !.session = [@ EXCEPT !.tx = FALSE],
                                     !.written = {}, !.saved = {}]
  /\ UNCHANGED <<engine, idle, call, ran, replies, durable>>

\* Mutant: a failed statement is thought to have undone the batch.
NothingRecovered(m) == [m EXCEPT !.step = IF engine = "SQLServer" THEN "refused" ELSE "releasing"]
\* ROLLBACK TO SAVEPOINT brings back what was there: `saved` holds that one set, or
\* nothing when there is no savepoint.  SQL Server keeps the savepoint, the others
\* release it first.
Recovered(m) == [m EXCEPT !.written = UNION m.saved, !.aborted = FALSE,
                          !.step = IF engine = "SQLServer" THEN "refused" ELSE "releasing"]
BatchRecovers ==
  /\ Open /\ manual.step = "recover" /\ manual.saved # {}
  /\ manual' = Recovered(manual)
  /\ UNCHANGED <<engine, idle, call, ran, replies, durable>>

\* There is no such savepoint any more: the error ends the actor.
BatchLost ==
  /\ Open /\ manual.step = "recover" /\ manual.saved = {}
  /\ Drop("undone") /\ UNCHANGED <<replies, durable>>

\* RELEASE SAVEPOINT, and the answer.
BatchReturns ==
  /\ Open
  /\ manual.step \in {"refused", "releasing"} \/ (manual.step = "run" /\ manual.at > Length)
  /\ manual.step = "releasing" => ~manual.aborted
  /\ manual' = [Rest(manual) EXCEPT !.saved = IF engine = "SQLServer" THEN @ ELSE {}]
  /\ Told(IF manual.step = "run" THEN "ok" ELSE "refused")
  /\ UNCHANGED <<engine, idle, call, ran, durable>>

\* COMMIT.  PostgreSQL answers it without an error in a transaction that it has
\* aborted, and rolls back.  The answer may be lost.
Commit ==
  /\ Open /\ call = None /\ manual.step = "idle"
  /\ \/ /\ durable' = IF manual.aborted THEN durable ELSE durable \cup manual.written
        /\ \E outcome \in {"committed", "unknown"} : Drop(outcome)
     \/ UNCHANGED durable /\ Drop("unknown")
  /\ UNCHANGED replies

\* ROLLBACK, a retired session, or a connection that is lost.
Rollback == Open /\ call = None /\ Drop("undone") /\ UNCHANGED <<replies, durable>>

Transaction == \/ BatchStart \/ BatchRuns \/ BatchFails \/ BatchRecovers \/ BatchLost
               \/ BatchReturns \/ Commit \/ Rollback

Next == \/ \E o \in Operations : Start(o[1], o[2])
        \/ Execute \/ Fail \/ Return \/ Abandon \/ Lose
        \/ Transaction

Spec == Init /\ [][Next]_vars

-----------------------------------------------------------------------------
TypeOK ==
  /\ engine \in Engines
  /\ \A d \in AllDatabases : Cardinality(idle[d]) <= 1
  /\ call # None => \E o \in Operations : call.op = o[1]
  /\ \A b \in Batches : replies[b] \in {None, "ok", "refused"}
  /\ durable \subseteq Batches \X (1..BatchSize)

\* Every statement meets the session its caller asked for: the database, the
\* schema, whether it is in a transaction and of which isolation, and whether
\* it is executed or only planned, whatever earlier calls, failures, timeouts
\* and scripts did with the sessions.  Only what a user's own script has set
\* (a search path, an open BEGIN, SHOWPLAN and what that makes of USE and of a
\* batch's transaction), and the transaction of a batch whose COMMIT SQLite
\* refused, may still be in a pooled session.
RunsAsAsked ==
  ran # None =>
    /\ ran.asked.db \in {None, ran.had.db} \/ "db" \in ran.by
    /\ \A f \in {"path", "tx", "plan"} : ran.had[f] = ran.asked[f] \/ f \in ran.by
    /\ ran.asked.level = "default" \/ ran.had.level = ran.asked.level

\* A batch of a manual transaction is applied as a whole or not at all, and it
\* is durable when, and only when, the transaction was committed: whichever
\* statement fails, however much the server rolls back with it, and also when
\* the answer of a commit is lost (transaction.rs, apply_batch).
BatchesAreAtomic ==
  manual # None =>
    LET agreed == {b \in Batches : replies[b] = "ok"} \X (1..BatchSize)
    IN  CASE manual.outcome = "open" ->
               durable = {} /\ (manual.step = "idle" => manual.written = agreed)
          [] manual.outcome = "committed" -> durable = agreed
          [] manual.outcome = "undone" -> durable = {}
          [] manual.outcome = "unknown" -> durable \in {{}, agreed}

-----------------------------------------------------------------------------
\* The inductive invariant behind both properties.

Levels == {"default", "asked"}
Session == [db : AllDatabases, path : {None, Schema}, tx : BOOLEAN, plan : BOOLEAN,
            level : Levels, by : SUBSET {"db", "path", "tx", "plan"}]
Asked == [db : AllDatabases \cup {None}, path : {None, Schema}, tx : BOOLEAN, plan : BOOLEAN,
          level : Levels]
UserSteps == {"write", "user_use", "user_path", "user_begin", "user_commit", "user_plan"}
AllSteps == {"RUN", "NAMED", "SERVER", "EXPLAIN", "USE", "PATH", "PLAN", "PLANNED", "UNPLAN", "BEGIN",
             "ISOLATION", "OPEN", "EDIT", "CLOSE", "UNDO"} \cup UserSteps
CallShape(c) ==
  /\ c = [op |-> c.op, pool |-> c.pool, session |-> c.session, asked |-> c.asked, todo |-> c.todo]
  /\ c.pool \in AllDatabases /\ c.session \in Session /\ c.asked \in Asked
  /\ c.todo \in Seq(AllSteps)
Answers == {None, "ok", "refused"}
Outcomes == {"open", "committed", "undone", "unknown"}
Manual == [session : Session, db : AllDatabases \cup {None}, level : Levels,
           step : {"idle", "run", "recover", "refused", "releasing"},
           batch : Batches \cup {None}, at : Nat, aborted : BOOLEAN,
           written : SUBSET (Batches \X Nat),
           saved : SUBSET SUBSET (Batches \X Nat), outcome : Outcomes]

DriverTypes ==
  /\ engine \in Engines
  /\ idle \in [AllDatabases -> SUBSET Session]
  /\ call # None => CallShape(call)
  /\ manual \in Manual \cup {None}
  /\ replies \in [Batches -> Answers]
  /\ durable \subseteq Batches \X Nat

\* PostgreSQL and SQLite have no statement that selects a database.
Pinned == engine \in {"PostgreSQL", "SQLite"}
\* What is as the driver does not leave it was set by a script.
UserPath(s) == s.path = None \/ "path" \in s.by
UserTx(s) == s.tx => "tx" \in s.by
UserPlan(s) == s.plan => "plan" \in s.by
IdleInv ==
  \A d \in AllDatabases : \A s \in idle[d] :
    UserPath(s) /\ UserTx(s) /\ UserPlan(s) /\ (Pinned => s.db = d)

\* What the first of the remaining steps is.
First(c, steps) == c.todo # <<>> /\ Head(c.todo) \in steps
\* The session is at the database that was asked for, or the next step sees to it.
AtDatabase(c) == \/ First(c, {"USE"})
                 \/ c.asked.db \in {None, c.session.db} \/ "db" \in c.session.by
AtPath(c) == \/ First(c, {"PATH"}) /\ c.op = "execute_in_schema"
             \/ c.session.path = c.asked.path \/ "path" \in c.session.by

BeginInv(c) ==
  /\ engine # "Redis"
  /\ engine = "PostgreSQL" => c.todo \in {<<"BEGIN", "ISOLATION">>, <<"ISOLATION">>, <<>>}
  /\ engine = "SQLite" => c.todo \in {<<"BEGIN">>, <<>>}
  /\ ~Pinned => c.todo \in {<<"USE", "ISOLATION", "BEGIN">>, <<"ISOLATION", "BEGIN">>, <<"BEGIN">>, <<>>}
  /\ ~First(c, {"PATH"}) /\ AtDatabase(c) /\ UserPlan(c.session)
  /\ c.todo = <<>> \/ (engine = "PostgreSQL" /\ c.todo = <<"ISOLATION">>) => c.session.tx
  /\ c.todo = <<>> \/ (~Pinned /\ c.todo = <<"BEGIN">>) =>
       c.asked.level \in {"default", c.session.level}

BatchInv(c) ==
  /\ c.todo \in {<<"USE", "OPEN", "EDIT", "EDIT", "CLOSE">>, <<"OPEN", "EDIT", "EDIT", "CLOSE">>,
                 <<"EDIT", "EDIT", "CLOSE">>, <<"EDIT", "CLOSE">>, <<"CLOSE">>, <<"UNDO">>, <<>>}
  /\ Pinned => ~First(c, {"USE"})
  /\ AtDatabase(c) /\ UserPlan(c.session)
  /\ c.session.plan \/ c.todo = <<>> \/ First(c, {"USE", "OPEN"}) => UserTx(c.session)
  /\ First(c, {"EDIT", "CLOSE"}) => c.session.tx \/ "tx" \in c.session.by

ExplainInv(c) ==
  /\ c.todo \in {<<"USE", "PLAN", "PLANNED", "UNPLAN">>, <<"PLAN", "PLANNED", "UNPLAN">>,
                 <<"PLANNED", "UNPLAN">>, <<"UNPLAN">>, <<>>, <<"EXPLAIN">>, <<"USE", "EXPLAIN">>}
  /\ Pinned => ~First(c, {"USE"})
  /\ Stateless \/ AtDatabase(c)
  /\ UserTx(c.session)
  /\ c.todo = <<>> \/ First(c, {"USE", "PLAN", "EXPLAIN"}) => UserPlan(c.session)
  /\ First(c, {"PLANNED"}) => c.session.plan

PlainInv(c) ==
  /\ First(c, {"USE", "PATH", "RUN", "NAMED", "SERVER"} \cup UserSteps) \/ c.todo = <<>>
  /\ \A i \in 2..Len(c.todo) : c.todo[i] \in {"RUN", "NAMED", "SERVER"} \cup UserSteps
  /\ Pinned => \A i \in 1..Len(c.todo) : c.todo[i] \notin {"USE", "user_use"}
  /\ \/ AtDatabase(c) \/ Stateless
     \/ \A i \in 1..Len(c.todo) : c.todo[i] \in {"NAMED", "SERVER"}
  /\ UserTx(c.session) /\ UserPlan(c.session)

\* What the session of a call is while its steps are sent.
CallInv(c) ==
  /\ Pinned => c.session.db = c.pool
  /\ c.op # "execute_in_schema" => c.asked.path = None
  /\ c.op # "begin_transaction" => c.asked.level = "default"
  /\ c.asked.tx <=> c.op = "execute_mutation_batch"
  /\ c.asked.plan <=> c.op = "explain"
  /\ First(c, {"USE"}) => c.asked.db \in AllDatabases
  /\ AtPath(c)
  /\ c.op = "begin_transaction" => BeginInv(c)
  /\ c.op = "execute_mutation_batch" => BatchInv(c)
  /\ c.op = "explain" => ExplainInv(c)
  /\ c.op \notin {"begin_transaction", "execute_mutation_batch", "explain"} => PlainInv(c)

\* The batches that were answered with success, and what they wrote.
Agreed(answers) == {b \in Batches : answers[b] = "ok"} \X (1..BatchSize)
\* What a batch is going to be: its statements so far.
Batched(m, n) == IF m.batch = None THEN {} ELSE {m.batch} \X (1..n)
LengthOf(m) == IF m.batch = None THEN 1 ELSE BatchSize
OpenInv(m, answers) ==
  /\ UserPath(m.session) /\ UserPlan(m.session)
  /\ m.db \in {None, m.session.db} \/ "db" \in m.session.by
  /\ m.level \in {"default", m.session.level}
  /\ m.session.tx \/ (m.step = "recover" /\ m.saved = {})
  /\ m.step # "idle" /\ m.batch # None => answers[m.batch] = None
  /\ m.aborted => m.step = "recover" /\ m.saved # {}
  /\ m.step \in {"run", "recover"} /\ m.saved # {} => m.saved = {Agreed(answers)}
  /\ m.step \in {"idle", "refused", "releasing"} => m.written = Agreed(answers)
  /\ m.step = "run" =>
       /\ m.saved # {} /\ m.at \in 1..LengthOf(m) + 1
       /\ m.written = Agreed(answers) \cup Batched(m, m.at - 1)
ManualInv(m, answers, committed) ==
  /\ m.outcome = "open" => committed = {} /\ OpenInv(m, answers)
  /\ m.outcome = "committed" => committed = Agreed(answers)
  /\ m.outcome = "undone" => committed = {}
  /\ m.outcome = "unknown" => committed \in {{}, Agreed(answers)}

DriverInv ==
  /\ DriverTypes /\ IdleInv
  /\ call # None => CallInv(call)
  /\ call # None /\ call.op = "begin_transaction" =>
       manual = None /\ durable = {} /\ \A b \in Batches : replies[b] = None
  /\ manual # None => ManualInv(manual, replies, durable)
  /\ RunsAsAsked
=============================================================================
