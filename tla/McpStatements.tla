--------------------------- MODULE McpStatements ----------------------------
\* The tools of one MCP session that touch a database through one connection
\* (mcp/query_tools.rs, row_tools.rs, object_tools.rs, execution.rs): saved
\* queries, confirmations and the "do not ask again" of updates
\* (mcp/approval.rs), and what may end the session's connection meanwhile.
\*
\* A tool call is a future; its steps are the stretches between awaits that
\* matter to others.  The client may drop any call, and several run at once.
\* One saved-query identifier, one connection.  Every read of a profile, prompt
\* and request to the database may fail or time out, which ends the call.
EXTENDS SqlPolicy, FiniteSets

CONSTANTS
  Calls, None, Databases,
  Clients,         \* what a client may do: the statement it saves, a tree of
                   \* SqlPolicy, and the tools it uses
  MaxRevision,     \* edits of the profile end there
  MaxGeneration    \* connects end there

ASSUME NoneAssumption == None \notin Calls /\ None \notin Databases
ASSUME ClientsAssumption == \A c \in Clients : DOMAIN c = {"statement", "tools"}
ASSUME BoundsAssumption == MaxRevision \in Nat /\ MaxGeneration \in Nat

VARIABLES
  client,     \* the client of this behaviour, chosen once
  profile,    \* revision of the shared profile
  driver,     \* the open connection: its generation and profile revision
  generation, \* connections opened so far
  lifecycle,  \* who holds the connection's lifecycle lock
  query,      \* the saved query: its database, or None
  approvals,  \* update_approvals: pairs of profile revision and database
  waived,     \* history: what the user said not to be asked again for
  call        \* the calls in flight

vars == <<client, profile, driver, generation, lifecycle, query, approvals, waived, call>>
world == <<client, profile>>
session == <<driver, generation, approvals, waived>>

Closed == [generation |-> 0, revision |-> 0]
Idle == [tool |-> None, step |-> "idle", sql |-> None, database |-> None, revision |-> 0,
         answer |-> "none", generation |-> 0]

\* What a tool runs without a saved query.  create_table stands for all tools
\* that only add, delete_table for those that drop, after one confirmation.
BuiltSql == [update_row |-> Leaf("update"), delete_rows |-> Leaf("delete"),
             delete_table |-> Leaf("drop"), create_table |-> Leaf("create"),
             read_rows |-> Leaf("select")]
Tools == DOMAIN BuiltSql \cup {"create_query", "execute_query", "delete_query", "connect",
                               "disconnect", "control"}
\* Mutant: an update does not hold the lifecycle lock.
UnlockedUpdates == {"create_table", "read_rows", "update_row"}
\* Tools that run without the lifecycle lock.
Unlocked == {"create_table", "read_rows"}

TypeOK ==
  /\ client \in Clients /\ profile \in 1..MaxRevision
  /\ driver \in [generation : 0..MaxGeneration, revision : 0..MaxRevision]
  /\ generation \in 0..MaxGeneration
  /\ lifecycle \in Calls \cup {None}
  /\ query \in Databases \cup {None}
  /\ approvals \subseteq (1..MaxRevision) \X Databases
  /\ waived \subseteq (1..MaxRevision) \X Databases
  /\ \A k \in Calls : /\ call[k].tool \in Tools \cup {None}
                      /\ call[k].answer \in {"none", "waived", "confirmed"}
                      /\ call[k].revision \in 0..MaxRevision

Init ==
  /\ client \in Clients /\ profile = 1
  /\ driver = Closed /\ generation = 0 /\ lifecycle = None
  /\ query = None /\ approvals = {} /\ waived = {}
  /\ call = [k \in Calls |-> Idle]

At(k, step) == call[k].step = step
GoTo(k, step) == call' = [call EXCEPT ![k].step = step]
\* The call returns, fails or is dropped: its guard goes with it.
End(k) == /\ call' = [call EXCEPT ![k] = Idle]
          /\ lifecycle' = IF lifecycle = k THEN None ELSE lifecycle

-----------------------------------------------------------------------------
(* A call begins: saved queries are read before the lock is taken           *)

Begin(k, tool, db) ==
  /\ At(k, "idle") /\ tool \in client.tools
  /\ tool \in {"execute_query", "delete_query"} => query # None
  /\ tool = "control" => driver # Closed
  /\ call' = [call EXCEPT ![k] =
       [Idle EXCEPT !.tool = tool, !.step = IF tool \in Unlocked THEN "profile" ELSE "lock",
                    !.sql = IF tool \in DOMAIN BuiltSql THEN BuiltSql[tool] ELSE client.statement,
                    !.database = IF tool \in {"execute_query", "delete_query"} THEN query ELSE db,
                    !.generation = IF tool = "control" THEN driver.generation ELSE 0]]
  /\ UNCHANGED <<world, session, lifecycle, query>>

Enter(k) ==
  /\ At(k, "lock") /\ lifecycle = None /\ lifecycle' = k
  /\ GoTo(k, IF call[k].tool = "delete_query" THEN "prompt"
             ELSE IF call[k].tool \in {"connect", "disconnect", "control"} THEN "run" ELSE "profile")
  /\ UNCHANGED <<world, session, query>>

\* approve_query_risk: what the statement's risk asks for.
Approval(sql) ==
  LET risk == Classify(sql)
  IN IF ~RequiresConfirmation(risk) THEN "target"
     ELSE IF AllowsSessionSuppression(risk) THEN "scope" ELSE "prompt"

\* The profile is read and the input checked against its engine.
ReadProfile(k) ==
  /\ At(k, "profile")
  /\ call' = [call EXCEPT ![k].revision = profile,
                          ![k].step = CASE call[k].tool = "create_query" -> "insert"
                                        [] call[k].tool = "execute_query" -> Approval(call[k].sql)
                                        [] call[k].tool \in {"update_row", "delete_rows"} -> "metadata"
                                        [] call[k].tool = "delete_table" -> "prompt"
                                        [] call[k].tool \in Unlocked -> "target"]
  /\ UNCHANGED <<world, session, lifecycle, query>>

\* validate_primary_key_target asks the database for the table's columns.
ReadMetadata(k) ==
  /\ At(k, "metadata") /\ driver.revision = profile
  /\ GoTo(k, IF call[k].tool = "update_row" THEN "scope" ELSE "prompt")
  /\ UNCHANGED <<world, session, lifecycle, query>>

-----------------------------------------------------------------------------
(* Confirmation                                                             *)

\* require_update_approval reads the profile again, then the approvals.
ReadScope(k) ==
  LET known == <<profile, call[k].database>> \in approvals
  IN /\ At(k, "scope")
     /\ call' = [call EXCEPT ![k].revision = profile,
                             ![k].step = IF known THEN "target" ELSE "prompt",
                             ![k].answer = IF known THEN "waived" ELSE "none"]
     /\ UNCHANGED <<world, session, lifecycle, query>>

\* The user confirms; an update's prompt has the choice not to be asked again.
Confirm(k) ==
  LET scope == <<call[k].revision, call[k].database>>
      update == call[k].tool \in {"update_row", "execute_query"} /\ Approval(call[k].sql) = "scope"
  IN /\ At(k, "prompt")
     /\ call' = [call EXCEPT ![k].answer = "confirmed",
                             ![k].step = IF call[k].tool = "delete_query" THEN "remove" ELSE "target"]
     /\ \/ UNCHANGED <<approvals, waived>>
        \/ update /\ approvals' = approvals \cup {scope} /\ waived' = waived \cup {scope}
     /\ UNCHANGED <<world, driver, generation, lifecycle, query>>

-----------------------------------------------------------------------------
(* Execution: execute_sql, read_rows                                        *)

\* The driver's handle is taken if it still fits the profile ...
TakeDriver(k) ==
  /\ At(k, "target") /\ driver # Closed /\ driver.revision = profile
  /\ call' = [call EXCEPT ![k].step = "execute", ![k].generation = driver.generation]
  /\ UNCHANGED <<world, session, lifecycle, query>>

\* ... and lock_active refuses it when it was retired meanwhile.
Execute(k) ==
  /\ At(k, "execute") /\ driver.generation = call[k].generation
  /\ End(k)
  /\ UNCHANGED <<world, session, query>>

-----------------------------------------------------------------------------
(* Saved queries                                                            *)

InsertQuery(k) ==
  /\ At(k, "insert") /\ query = None
  /\ query' = call[k].database
  /\ End(k)
  /\ UNCHANGED <<world, session>>

\* remove_query_if_unchanged
RemoveQuery(k) ==
  /\ At(k, "remove") /\ query = call[k].database
  /\ query' = None
  /\ End(k)
  /\ UNCHANGED <<world, session>>

-----------------------------------------------------------------------------
(* The connection                                                           *)

Connect(k) ==
  /\ At(k, "run") /\ call[k].tool = "connect"
  /\ driver = Closed /\ generation < MaxGeneration
  /\ generation' = generation + 1
  /\ driver' = [generation |-> generation', revision |-> profile]
  /\ End(k)
  /\ UNCHANGED <<world, query, approvals, waived>>

\* Catalog::disconnect: approvals go first, the driver goes whatever it answers.
Disconnect(k) ==
  /\ At(k, "run") /\ call[k].tool = "disconnect"
  /\ approvals' = {} /\ driver' = Closed /\ waived' = {}
  /\ End(k)
  /\ UNCHANGED <<world, query, generation>>

\* The App's command for one generation clears them when it closed the driver;
\* no engine's disconnect fails.
Control(k) ==
  /\ At(k, "run") /\ call[k].tool = "control"
  /\ driver.generation = call[k].generation
  /\ driver' = Closed /\ approvals' = {} /\ waived' = {}
  /\ End(k)
  /\ UNCHANGED <<world, query, generation>>

\* Any App may save the profile while no MCP server has it open.
EditProfile ==
  /\ driver = Closed /\ profile < MaxRevision
  /\ profile' = profile + 1
  /\ UNCHANGED <<client, session, lifecycle, query, call>>

\* A read fails, the user declines, a timeout strikes, the driver is retired or
\* does not fit, a command finds its generation gone, the client drops the call.
Fail(k) ==
  /\ ~At(k, "idle") /\ End(k)
  /\ UNCHANGED <<world, session, query>>

-----------------------------------------------------------------------------

Step(k) ==
  \/ Enter(k) \/ ReadProfile(k) \/ ReadMetadata(k) \/ ReadScope(k) \/ Confirm(k)
  \/ TakeDriver(k) \/ Execute(k) \/ InsertQuery(k) \/ RemoveQuery(k)
  \/ Connect(k) \/ Disconnect(k) \/ Control(k)

Next ==
  \/ \E k \in Calls : \/ \E tool \in Tools, db \in Databases : Begin(k, tool, db)
                      \/ Step(k) \/ Fail(k)
  \/ EditProfile

Spec == Init /\ [][Next]_vars

-----------------------------------------------------------------------------
(* Properties *)

\* What a statement that runs may do to the database was confirmed: without a
\* prompt it adds at most, and what the user does not want to be asked about
\* again it changes at most.
NothingUnconfirmed ==
  [][\A k \in Calls : Execute(k) =>
       /\ call[k].answer = "none" => Effects(call[k].sql) \subseteq {"adds"}
       /\ call[k].answer = "waived" => Effects(call[k].sql) \subseteq {"adds", "changes"}]_vars

\* A confirmed statement runs on the profile as it was when the user was asked;
\* one that was waived, on a profile and database the user waived the question
\* for since the connection was last ended.
ConfirmationFitsTarget ==
  [][\A k \in Calls : Execute(k) =>
       /\ call[k].answer = "confirmed" => driver.revision = call[k].revision
       /\ call[k].answer = "waived" => <<driver.revision, call[k].database>> \in waived]_vars
=============================================================================
