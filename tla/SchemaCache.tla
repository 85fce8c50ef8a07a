----------------------------- MODULE SchemaCache -----------------------------
(***************************************************************************)
(* The persisted cache of database schemas behind the App's catalog.  One  *)
(* connection.  A scope is a revision of its profile and a database; the   *)
(* parts of a scope (tables, views, columns of a table, ...) share its     *)
(* epoch and nothing else, so one part stands for all of them.             *)
(*                                                                         *)
(* What a server answers is abstracted to the revision of the profile the  *)
(* driver was opened for (another revision may name another server) and    *)
(* the value of a clock that every change of a schema advances.            *)
(***************************************************************************)
EXTENDS Naturals

CONSTANTS Loaders,        \* reads of the catalog in progress
          Databases,
          None,
          MaxRevision, MaxGeneration, MaxClock, MaxEpoch

ASSUME ConstantsAssumption ==
  /\ MaxRevision \in Nat \ {0} /\ MaxGeneration \in Nat
  /\ MaxClock \in Nat /\ MaxEpoch \in Nat
  /\ None \notin Nat

VARIABLES
  revision,   \* committed revision of the profile
  saving,     \* a save has committed and not yet retired the session
  session,    \* the installed session: its generation, 0 is none, and the
              \* revision its driver was opened for
  generation, \* the last generation given to a session
  clock,      \* number of schema changes on the servers
  scopes,     \* rows of schema_scopes
  epoch,      \* epoch of each scope
  entry,      \* row of schema_entries for each scope: its epoch and value
  loader,     \* the catalog reads and how far each has come
  refreshed   \* history: the clock when each scope was last invalidated

cacheVars == <<scopes, epoch, entry, refreshed>>
sessionVars == <<revision, saving, session, generation>>
vars == <<cacheVars, sessionVars, clock, loader>>

Revisions == 1..MaxRevision
Scopes == Revisions \X Databases
Handle == [generation : 0..MaxGeneration, revision : Revisions \cup {None}]
Value == [revision : Revisions, version : 0..MaxClock]
Entry == [epoch : 0..MaxEpoch, value : Value]
NoSession == [generation |-> 0, revision |-> None]

\* kind is "list" for the database list, which takes its session first.
Loader ==
  [step : {"idle", "profile", "scope", "ticket", "driver", "lock", "query", "write", "done"},
   kind : {"list", "objects"}, cause : {"open", "refresh", "mutated"},
   database : Databases \cup {None}, asked : 0..MaxClock,
   revision : Revisions \cup {None}, ticket : (0..MaxEpoch) \cup {None},
   handle : Handle, value : Value \cup {None}]

TypeOK ==
  /\ revision \in Revisions /\ saving \in BOOLEAN
  /\ session \in Handle /\ generation \in 0..MaxGeneration
  /\ clock \in 0..MaxClock
  /\ scopes \subseteq Scopes
  /\ epoch \in [Scopes -> 0..MaxEpoch]
  /\ entry \in [Scopes -> Entry \cup {None}]
  /\ refreshed \in [Scopes -> 0..MaxClock]
  /\ loader \in [Loaders -> Loader]

Request(kind, cause, d, asked) ==
  [step |-> "idle", kind |-> kind, cause |-> cause, database |-> d, asked |-> asked,
   revision |-> None, ticket |-> None, handle |-> NoSession, value |-> None]
Idle == Request("objects", "open", None, 0)

Init ==
  /\ revision = 1 /\ saving = FALSE /\ session = NoSession /\ generation = 0
  /\ clock = 0
  /\ scopes = {} /\ epoch = [s \in Scopes |-> 0]
  /\ entry = [s \in Scopes |-> None] /\ refreshed = [s \in Scopes |-> 0]
  /\ loader = [l \in Loaders |-> Idle]

-----------------------------------------------------------------------------
(* The profile and its session.  The global lifecycle lock is held from the *)
(* commit of a save until the session is retired; connect, delete and       *)
(* disconnect need it.                                                      *)

SaveCommits ==
  /\ ~saving /\ revision < MaxRevision
  /\ saving' = TRUE /\ revision' = revision + 1
  /\ UNCHANGED <<session, generation, cacheVars, clock, loader>>

SaveRetires ==
  /\ saving /\ saving' = FALSE /\ session' = NoSession
  /\ UNCHANGED <<revision, generation, cacheVars, clock, loader>>

\* A driver is installed only for the revision the repository has now.
Connect ==
  /\ ~saving /\ generation < MaxGeneration
  /\ generation' = generation + 1
  /\ session' = [generation |-> generation + 1, revision |-> revision]
  /\ UNCHANGED <<revision, saving, cacheVars, clock, loader>>

Disconnect ==
  /\ ~saving /\ session # NoSession /\ session' = NoSession
  /\ UNCHANGED <<revision, saving, generation, cacheVars, clock, loader>>

\* Another client, or a statement typed into a query tab.
ServerChanges ==
  /\ clock < MaxClock /\ clock' = clock + 1
  /\ UNCHANGED <<cacheVars, sessionVars, loader>>

-----------------------------------------------------------------------------
(* A read of the catalog *)

Scope(l) == <<loader[l].revision, loader[l].database>>
Step(l, step) == loader' = [loader EXCEPT ![l].step = step]
Done(l, value) == [Idle EXCEPT !.step = "done", !.cause = loader[l].cause,
                               !.asked = loader[l].asked, !.value = value]

\* What a request does first: the database list takes the session it is for.
Started(l, request) ==
  IF request.kind = "objects" THEN [request EXCEPT !.step = "profile"]
  ELSE IF session = NoSession THEN Idle
  ELSE [request EXCEPT !.step = "profile", !.handle = session]

Start(l, request) ==
  /\ loader[l].step = "idle"
  /\ loader' = [loader EXCEPT ![l] = Started(l, request)]

Open(l) ==
  /\ \E kind \in {"list", "objects"}, d \in Databases : Start(l, Request(kind, "open", d, 0))
  /\ UNCHANGED <<cacheVars, sessionVars, clock>>

\* refresh_schema, of one database or of all, and the load that follows it.
Refresh(l) ==
  /\ \E kind \in {"list", "objects"}, d \in Databases, only \in BOOLEAN :
       LET hit == {s \in scopes : only => s[2] = d}
       IN /\ Start(l, Request(kind, "refresh", d, clock))
          /\ \A s \in hit : epoch[s] < MaxEpoch
          /\ epoch' = [s \in Scopes |-> IF s \in hit THEN epoch[s] + 1 ELSE epoch[s]]
          /\ refreshed' = [s \in Scopes |-> IF s \in hit THEN clock ELSE refreshed[s]]
  /\ UNCHANGED <<scopes, entry, sessionVars, clock>>

\* The App changes an object through the session; then object_mutated clears
\* what the panel shows of it and loads it again.
Mutate(l) ==
  /\ session # NoSession /\ clock < MaxClock /\ clock' = clock + 1
  /\ \E kind \in {"list", "objects"}, d \in Databases : Start(l, Request(kind, "mutated", d, clock + 1))
  /\ UNCHANGED <<cacheVars, sessionVars>>

Profile(l) ==
  /\ loader[l].step = "profile"
  /\ loader' = [loader EXCEPT ![l].step = "scope", ![l].revision = revision]
  /\ UNCHANGED <<cacheVars, sessionVars, clock>>

AddScope(l) ==
  /\ loader[l].step = "scope" /\ Step(l, "ticket")
  /\ scopes' = scopes \cup {Scope(l)}
  /\ UNCHANGED <<epoch, entry, refreshed, sessionVars, clock>>

Loads(l) == IF loader[l].kind = "list" THEN "lock" ELSE "driver"
Hit(s) == entry[s] # None /\ entry[s].epoch = epoch[s]

\* Mutant: an entry of any epoch answers.
TicketOfAnyEpoch(l) ==
  /\ loader[l].step = "ticket"
  /\ loader' = [loader EXCEPT ![l] =
       IF entry[Scope(l)] # None THEN Done(l, entry[Scope(l)].value)
       ELSE [@ EXCEPT !.step = Loads(l), !.ticket = epoch[Scope(l)]]]
  /\ UNCHANGED <<cacheVars, sessionVars, clock>>

Ticket(l) ==
  /\ loader[l].step = "ticket"
  /\ loader' = [loader EXCEPT ![l] =
       IF Hit(Scope(l)) THEN Done(l, entry[Scope(l)].value)
       ELSE [@ EXCEPT !.step = Loads(l), !.ticket = epoch[Scope(l)]]]
  /\ UNCHANGED <<cacheVars, sessionVars, clock>>

\* The cache cannot be read: the load goes on and stores nothing.
CacheFails(l) ==
  /\ loader[l].step \in {"scope", "ticket"} /\ Step(l, Loads(l))
  /\ UNCHANGED <<cacheVars, sessionVars, clock>>

Driver(l) ==
  /\ loader[l].step = "driver"
  /\ loader' = [loader EXCEPT ![l] = IF session = NoSession THEN Idle
                                     ELSE [@ EXCEPT !.step = "lock", !.handle = session]]
  /\ UNCHANGED <<cacheVars, sessionVars, clock>>

\* lock_active refuses a handle that was retired while it waited.
Lock(l) ==
  /\ loader[l].step = "lock"
  /\ loader' = [loader EXCEPT ![l] = IF loader[l].handle = session THEN [@ EXCEPT !.step = "query"] ELSE Idle]
  /\ UNCHANGED <<cacheVars, sessionVars, clock>>

Query(l) ==
  LET value == [revision |-> loader[l].handle.revision, version |-> clock]
  IN /\ loader[l].step = "query"
     /\ \E succeeds \in BOOLEAN :
          loader' = [loader EXCEPT ![l] =
            IF ~succeeds THEN Idle
            ELSE IF loader[l].ticket = None THEN Done(l, value)
            ELSE [@ EXCEPT !.step = "write", !.value = value]]
     /\ UNCHANGED <<cacheVars, sessionVars, clock>>

\* Stored only while the scope has the epoch of the ticket; a failure to
\* store it is logged and no more.
Write(l) ==
  LET s == Scope(l)
  IN /\ loader[l].step = "write" /\ loader' = [loader EXCEPT ![l] = Done(l, loader[l].value)]
     /\ \/ /\ epoch[s] = loader[l].ticket
           /\ entry' = [entry EXCEPT ![s] = [epoch |-> epoch[s], value |-> loader[l].value]]
        \/ UNCHANGED entry
     /\ UNCHANGED <<scopes, epoch, refreshed, sessionVars, clock>>

\* The panel takes the answer.  A read that fails is answered at once: Idle.
Answer(l) ==
  /\ loader[l].step = "done"
  /\ loader' = [loader EXCEPT ![l] = Idle]
  /\ UNCHANGED <<cacheVars, sessionVars, clock>>

Next ==
  \/ SaveCommits \/ SaveRetires \/ Connect \/ Disconnect \/ ServerChanges
  \/ \E l \in Loaders : \/ Open(l) \/ Refresh(l) \/ Mutate(l) \/ Profile(l) \/ AddScope(l)
                        \/ Ticket(l) \/ CacheFails(l) \/ Driver(l) \/ Lock(l) \/ Query(l)
                        \/ Write(l) \/ Answer(l)

Spec == Init /\ [][Next]_vars

-----------------------------------------------------------------------------
(* Properties *)

\* An introspection that began before a refresh never restores what it found:
\* an entry of the current epoch was loaded after the scope was last
\* invalidated (the epoch comparison of SchemaCache::write).
CurrentEntryIsFresh ==
  \A s \in Scopes : Hit(s) => entry[s].value.version >= refreshed[s]

\* Whoever presses refresh sees the schema as it was then, or newer, although
\* older loads of the same scope may still be running (refresh_schema).
RefreshShows ==
  \A l \in Loaders : loader[l].step = "done" /\ loader[l].cause = "refresh"
                       => loader[l].value.version >= loader[l].asked

\* A refresh is not undone by what began before it, and shows what it found.
RefreshWins == CurrentEntryIsFresh /\ RefreshShows

\* The catalog that is loaded again after the App changed an object shows the
\* change (object_mutated).
MutationShows ==
  \A l \in Loaders : loader[l].step = "done" /\ loader[l].cause = "mutated"
                       => loader[l].value.version >= loader[l].asked
=============================================================================
