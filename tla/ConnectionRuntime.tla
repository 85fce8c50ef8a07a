-------------------------- MODULE ConnectionRuntime --------------------------
(***************************************************************************)
(* The App's database sessions: ConnectionManager (application/            *)
(* connections.rs) over ConnectionRuntime (connection_runtime/).           *)
(*                                                                         *)
(* Operations of the App (connect, save, delete, disconnect, snapshot) run *)
(* as concurrent tasks; every stretch of code between two awaits is one    *)
(* action.  A connect attempt is named by its intent generation, which the *)
(* code also makes the session generation, so a driver handle is a natural *)
(* number.  Other processes write the shared repository at any moment.     *)
(***************************************************************************)
EXTENDS Naturals

CONSTANTS
    Connections,    \* ids of connection profiles
    NoConnection,   \* the target of an operation that names no profile
    Tasks,          \* slots for concurrent App operations
    Users,          \* slots for work that runs statements on a session
    Free,           \* the global lifecycle mutex has no owner
    MaxIntent,      \* bound: no operation starts past this many intents
    MaxRevision     \* bound: nothing is written past this repository revision

ASSUME FreeAssumption == Free \notin Tasks
ASSUME NoConnectionAssumption == NoConnection \notin Connections
ASSUME BoundAssumption == MaxIntent \in Nat /\ MaxRevision \in Nat

VARIABLES
    repositoryRevision, \* shared_connection_state.revision
    revision,           \* revision of each stored profile
    appRevision,        \* history: revision of the App's last save or delete
    currentIntents,     \* RuntimeState.current_intents
    nextIntent,         \* RuntimeState.next_intent_generation
    drivers,            \* RuntimeState.drivers: generation and profile revision
    invalidated,        \* history: last intent that only invalidated older ones
    open,               \* handles whose driver holds a server connection
    retired,            \* handles with DriverHandleInner.retired set
    globalLifecycle,    \* owner of the global lifecycle mutex
    snapshot,           \* revisions read by the snapshot that holds the mutex
    task,               \* step and locals of each operation
    user                \* work on a session: its handle, and whether it runs

repository == <<repositoryRevision, revision, appRevision>>
runtime == <<currentIntents, nextIntent, drivers, invalidated>>
handles == <<open, retired>>
vars == <<repository, runtime, handles, globalLifecycle, snapshot, task, user>>

NoGeneration == 0   \* generations start at 1
NoProfile == 0      \* the revision of a profile that does not exist

NoDriver == [generation |-> NoGeneration, profileRevision |-> NoProfile]

(* A session is of some generation and some stored revision.                *)
Driver == {NoDriver} \cup [generation : Nat \ {NoGeneration},
                          profileRevision : Nat \ {NoProfile}]

(* The steps at which a task owns the global lifecycle mutex.               *)
LockedSteps == {"verify", "install", "save", "delete", "detach", "snapshot", "reconcile"}

(* The steps at which a connect attempt owns an opened, uninstalled driver. *)
CandidateSteps == {"lock", "verify", "install", "abort"}

Steps == LockedSteps \cup CandidateSteps \cup {"idle", "resolve", "dial", "disconnect"}

Task == [step : Steps, conn : Connections \cup {NoConnection}, intent : Nat,
         rev : Nat, closing : SUBSET Nat]

Idle == [step |-> "idle", conn |-> NoConnection, intent |-> NoGeneration,
         rev |-> NoProfile, closing |-> {}]

User == [handle : Nat, running : BOOLEAN]

Rest == [handle |-> NoGeneration, running |-> FALSE]

Installed == {drivers[c].generation : c \in Connections} \ {NoGeneration}

Init ==
    /\ repositoryRevision = 1
    /\ revision \in [Connections -> {NoProfile, 1}]
    /\ appRevision = [c \in Connections |-> NoProfile]
    /\ currentIntents = [c \in Connections |-> NoGeneration]
    /\ nextIntent = 0
    /\ drivers = [c \in Connections |-> NoDriver]
    /\ invalidated = [c \in Connections |-> NoGeneration]
    /\ open = {}
    /\ retired = {}
    /\ globalLifecycle = Free
    /\ snapshot = [c \in Connections |-> NoProfile]
    /\ task = [t \in Tasks |-> Idle]
    /\ user = [u \in Users |-> Rest]

-----------------------------------------------------------------------------
(* Building blocks                                                          *)

(* RuntimeState::advance_intent                                             *)
AdvanceIntent(c) ==
    /\ nextIntent' = nextIntent + 1
    /\ currentIntents' = [currentIntents EXCEPT ![c] = nextIntent']

Step(t, step) == task' = [task EXCEPT ![t].step = step]

(* The task goes on to disconnect the handles in hs, or is done.            *)
DisconnectThen(t, hs) ==
    task' = [task EXCEPT ![t] =
                 IF hs = {} THEN Idle
                 ELSE [Idle EXCEPT !.step = "disconnect", !.closing = hs]]

(* What a repository write that succeeds does to the revisions: the counter *)
(* moves and the profile takes the new number, or disappears.               *)
CommitProfile(c, deleted) ==
    /\ repositoryRevision' = repositoryRevision + 1
    /\ revision' = [revision EXCEPT ![c] =
                        IF deleted THEN NoProfile ELSE repositoryRevision']

-----------------------------------------------------------------------------
(* Connect                                                                  *)

(* begin_replacing_intent: the global mutex is taken and given back in one  *)
(* stretch of code.                                                         *)
BeginConnect(t, c) ==
    /\ task[t].step = "idle"
    /\ nextIntent < MaxIntent
    /\ globalLifecycle = Free
    /\ AdvanceIntent(c)
    /\ task' = [task EXCEPT ![t] = [Idle EXCEPT !.step = "resolve", !.conn = c,
                                                !.intent = nextIntent']]
    /\ UNCHANGED <<repository, drivers, invalidated, handles, globalLifecycle,
                   snapshot, user>>

(* SharedConnectionRepository::resolve_config                               *)
ResolveConfig(t) ==
    /\ task[t].step = "resolve"
    /\ revision[task[t].conn] # NoProfile
    /\ task' = [task EXCEPT ![t].step = "dial", ![t].rev = revision[task[t].conn]]
    /\ UNCHANGED <<repository, runtime, handles, globalLifecycle, snapshot, user>>

(* The profile is gone, or the repository or the vault answers an error.    *)
ResolveFails(t) ==
    /\ task[t].step = "resolve"
    /\ task' = [task EXCEPT ![t] = Idle]
    /\ UNCHANGED <<repository, runtime, handles, globalLifecycle, snapshot, user>>

(* driver.connect() without any lock                                        *)
Dial(t) ==
    /\ task[t].step = "dial"
    /\ open' = open \cup {task[t].intent}
    /\ Step(t, "lock")
    /\ UNCHANGED <<repository, runtime, retired, globalLifecycle, snapshot, user>>

DialFails(t) ==
    /\ task[t].step = "dial"
    /\ task' = [task EXCEPT ![t] = Idle]
    /\ UNCHANGED <<repository, runtime, handles, globalLifecycle, snapshot, user>>

LockForInstall(t) ==
    /\ task[t].step = "lock"
    /\ globalLifecycle = Free
    /\ globalLifecycle' = t
    /\ Step(t, "verify")
    /\ UNCHANGED <<repository, runtime, handles, snapshot, user>>

(* verify() answers the revision this attempt was resolved from.            *)
VerifyRevision(t) ==
    /\ task[t].step = "verify"
    /\ revision[task[t].conn] = task[t].rev
    /\ Step(t, "install")
    /\ UNCHANGED <<repository, runtime, handles, globalLifecycle, snapshot, user>>

(* verify() fails, finds no profile or finds another revision.              *)
VerifyFails(t) ==
    /\ task[t].step = "verify"
    /\ globalLifecycle' = Free
    /\ Step(t, "abort")
    /\ UNCHANGED <<repository, runtime, handles, snapshot, user>>

(* The driver that never became a handle is disconnected after the lock.    *)
AbortCandidate(t) ==
    /\ task[t].step = "abort"
    /\ open' = open \ {task[t].intent}
    /\ task' = [task EXCEPT ![t] = Idle]
    /\ UNCHANGED <<repository, runtime, retired, globalLifecycle, snapshot, user>>

(* Variant: the intent is not compared before the installation.             *)
InstallWithoutIntent(t) ==
    LET c == task[t].conn
        replaced == {drivers[c].generation} \ {NoGeneration}
    IN  /\ task[t].step = "install"
        /\ drivers' = [drivers EXCEPT ![c] = [generation |-> task[t].intent,
                                              profileRevision |-> task[t].rev]]
        /\ retired' = retired \cup replaced
        /\ DisconnectThen(t, replaced)
        /\ globalLifecycle' = Free
        /\ UNCHANGED <<repository, currentIntents, nextIntent, invalidated, open,
                       snapshot, user>>

(* Variant: the replaced handle is retired but nobody disconnects it.       *)
InstallWithoutDisconnect(t) ==
    LET c == task[t].conn
    IN  /\ task[t].step = "install"
        /\ currentIntents[c] = task[t].intent
        /\ drivers' = [drivers EXCEPT ![c] = [generation |-> task[t].intent,
                                              profileRevision |-> task[t].rev]]
        /\ retired' = retired \cup ({drivers[c].generation} \ {NoGeneration})
        /\ DisconnectThen(t, {})
        /\ globalLifecycle' = Free
        /\ UNCHANGED <<repository, currentIntents, nextIntent, invalidated, open,
                       snapshot, user>>

(* install_replacing_if_current, then the lock is dropped and the replaced  *)
(* or the superseded handle is disconnected.                                *)
InstallReplacing(t) ==
    LET c == task[t].conn
        replaced == drivers[c].generation
    IN  /\ task[t].step = "install"
        /\ currentIntents[c] = task[t].intent
        /\ drivers' = [drivers EXCEPT ![c] = [generation |-> task[t].intent,
                                              profileRevision |-> task[t].rev]]
        /\ retired' = retired \cup ({replaced} \ {NoGeneration})
        /\ DisconnectThen(t, {replaced} \ {NoGeneration})
        /\ globalLifecycle' = Free
        /\ UNCHANGED <<repository, currentIntents, nextIntent, invalidated, open,
                       snapshot, user>>

InstallSuperseded(t) ==
    /\ task[t].step = "install"
    /\ currentIntents[task[t].conn] # task[t].intent
    /\ DisconnectThen(t, {task[t].intent})
    /\ globalLifecycle' = Free
    /\ UNCHANGED <<repository, runtime, handles, snapshot, user>>

-----------------------------------------------------------------------------
(* Save, delete, disconnect                                                 *)

(* save_profile and delete_profile hold the global mutex around the write.  *)
BeginMutation(t, c, step) ==
    /\ task[t].step = "idle"
    /\ nextIntent < MaxIntent
    /\ globalLifecycle = Free
    /\ globalLifecycle' = t
    /\ task' = [task EXCEPT ![t] = [Idle EXCEPT !.step = step, !.conn = c]]
    /\ UNCHANGED <<repository, runtime, handles, snapshot, user>>

BeginSave(t, c) == BeginMutation(t, c, "save")

BeginDelete(t, c) == BeginMutation(t, c, "delete")

(* disconnect_local needs no repository access before the detach.           *)
BeginDisconnect(t, c) == BeginMutation(t, c, "detach")

(* Variant: a committed write returns without retiring the local session.   *)
CommitWithoutDetach(t, c) ==
    /\ appRevision' = [appRevision EXCEPT ![c] = repositoryRevision']
    /\ task' = [task EXCEPT ![t] = Idle]
    /\ globalLifecycle' = Free
    /\ UNCHANGED <<runtime, handles, snapshot, user>>

CommitMutation(t, c) ==
    /\ appRevision' = [appRevision EXCEPT ![c] = repositoryRevision']
    /\ Step(t, "detach")
    /\ UNCHANGED <<runtime, handles, globalLifecycle, snapshot, user>>

(* A create when the profile is absent, else an update.                     *)
SaveCommits(t) ==
    /\ task[t].step = "save"
    /\ repositoryRevision < MaxRevision
    /\ CommitProfile(task[t].conn, FALSE)
    /\ CommitMutation(t, task[t].conn)

DeleteCommits(t) ==
    /\ task[t].step = "delete"
    /\ repositoryRevision < MaxRevision
    /\ revision[task[t].conn] # NoProfile
    /\ CommitProfile(task[t].conn, TRUE)
    /\ CommitMutation(t, task[t].conn)

(* Variant: the guard outlives a failed write.                              *)
MutationFailsLocked(t) ==
    /\ task[t].step \in {"save", "delete"}
    /\ task' = [task EXCEPT ![t] = Idle]
    /\ UNCHANGED <<repository, runtime, handles, globalLifecycle, snapshot, user>>

(* A conflict, a usage lease held elsewhere or an I/O error: `?` returns     *)
(* and the guard is dropped with nothing detached.                          *)
MutationFails(t) ==
    /\ task[t].step \in {"save", "delete"}
    /\ globalLifecycle' = Free
    /\ task' = [task EXCEPT ![t] = Idle]
    /\ UNCHANGED <<repository, runtime, handles, snapshot, user>>

(* invalidate_and_detach under the mutex, which is then dropped.            *)
InvalidateAndDetach(t) ==
    LET c == task[t].conn
        detached == {drivers[c].generation} \ {NoGeneration}
    IN  /\ task[t].step = "detach"
        /\ AdvanceIntent(c)
        /\ invalidated' = [invalidated EXCEPT ![c] = nextIntent']
        /\ drivers' = [drivers EXCEPT ![c] = NoDriver]
        /\ retired' = retired \cup detached
        /\ DisconnectThen(t, detached)
        /\ globalLifecycle' = Free
        /\ UNCHANGED <<repository, open, snapshot, user>>

(* DriverHandle::disconnect: retire, then wait for the driver mutex.        *)
DisconnectHandle(t, h) ==
    /\ task[t].step = "disconnect"
    /\ h \in task[t].closing
    /\ ~ \E u \in Users : user[u].running /\ user[u].handle = h
    /\ retired' = retired \cup {h}
    /\ open' = open \ {h}
    /\ DisconnectThen(t, task[t].closing \ {h})
    /\ UNCHANGED <<repository, runtime, globalLifecycle, snapshot, user>>

-----------------------------------------------------------------------------
(* Snapshot                                                                 *)

BeginSnapshot(t) ==
    /\ task[t].step = "idle"
    /\ globalLifecycle = Free
    /\ globalLifecycle' = t
    /\ task' = [task EXCEPT ![t] = [Idle EXCEPT !.step = "snapshot"]]
    /\ UNCHANGED <<repository, runtime, handles, snapshot, user>>

(* One read transaction sees every profile.                                 *)
ReadSnapshot(t) ==
    /\ task[t].step = "snapshot"
    /\ snapshot' = revision
    /\ Step(t, "reconcile")
    /\ UNCHANGED <<repository, runtime, handles, globalLifecycle, user>>

ReadSnapshotFails(t) ==
    /\ task[t].step = "snapshot"
    /\ globalLifecycle' = Free
    /\ task' = [task EXCEPT ![t] = Idle]
    /\ UNCHANGED <<repository, runtime, handles, snapshot, user>>

(* detach_stale: sessions of other revisions than the snapshot's.           *)
Stale == {c \in Connections : /\ drivers[c] # NoDriver
                              /\ drivers[c].profileRevision # snapshot[c]}

Reconcile(t) ==
    LET detached == {drivers[c].generation : c \in Stale}
    IN  /\ task[t].step = "reconcile"
        /\ drivers' = [c \in Connections |-> IF c \in Stale THEN NoDriver ELSE drivers[c]]
        /\ retired' = retired \cup detached
        /\ DisconnectThen(t, detached)
        /\ globalLifecycle' = Free
        /\ snapshot' = [c \in Connections |-> NoProfile]
        /\ UNCHANGED <<repository, currentIntents, nextIntent, invalidated, open, user>>

-----------------------------------------------------------------------------
(* Work on a session                                                        *)

(* ConnectionManager::driver_session clones the installed handle.           *)
TakeHandle(u, c) ==
    /\ user[u] = Rest
    /\ drivers[c] # NoDriver
    /\ user' = [user EXCEPT ![u].handle = drivers[c].generation]
    /\ UNCHANGED <<repository, runtime, handles, globalLifecycle, snapshot, task>>

(* DriverHandle::lock_active: the retired flag is read under the mutex.     *)
MutexFree(h) == ~ \E u \in Users : user[u].running /\ user[u].handle = h

LockActive(u) ==
    /\ user[u].handle # NoGeneration
    /\ ~user[u].running
    /\ MutexFree(user[u].handle)
    /\ user' = [user EXCEPT ![u] = IF user[u].handle \in retired THEN Rest
                                   ELSE [user[u] EXCEPT !.running = TRUE]]
    /\ UNCHANGED <<repository, runtime, handles, globalLifecycle, snapshot, task>>

FinishWork(u) ==
    /\ user[u].running
    /\ user' = [user EXCEPT ![u] = Rest]
    /\ UNCHANGED <<repository, runtime, handles, globalLifecycle, snapshot, task>>

-----------------------------------------------------------------------------
(* Another process commits to the shared repository: it takes none of this  *)
(* process's locks.                                                         *)
ExternalCommit(c, deleted) ==
    /\ repositoryRevision < MaxRevision
    /\ deleted => revision[c] # NoProfile
    /\ CommitProfile(c, deleted)
    /\ UNCHANGED <<appRevision, runtime, handles, globalLifecycle, snapshot, task, user>>

StartOperation(t) ==
    \/ \E c \in Connections : \/ BeginConnect(t, c)
                              \/ BeginSave(t, c)
                              \/ BeginDelete(t, c)
                              \/ BeginDisconnect(t, c)
    \/ BeginSnapshot(t)

(* The two points where a task waits for another one.                       *)
DisconnectAny(t) == \E h \in task[t].closing : DisconnectHandle(t, h)

ContinueOperation(t) ==
    \/ ResolveConfig(t) \/ ResolveFails(t)
    \/ Dial(t) \/ DialFails(t)
    \/ VerifyRevision(t) \/ VerifyFails(t) \/ AbortCandidate(t)
    \/ InstallReplacing(t) \/ InstallSuperseded(t)
    \/ SaveCommits(t) \/ DeleteCommits(t) \/ MutationFails(t)
    \/ InvalidateAndDetach(t)
    \/ ReadSnapshot(t) \/ ReadSnapshotFails(t) \/ Reconcile(t)

Next ==
    \/ \E t \in Tasks : \/ StartOperation(t)
                        \/ ContinueOperation(t)
                        \/ LockForInstall(t)
                        \/ DisconnectAny(t)
    \/ \E u \in Users : \/ \E c \in Connections : TakeHandle(u, c)
                        \/ LockActive(u)
                        \/ FinishWork(u)
    \/ \E c \in Connections, deleted \in BOOLEAN : ExternalCommit(c, deleted)

Spec == Init /\ [][Next]_vars

(* The async runtime polls a ready task, repository and server calls end,   *)
(* and a tokio mutex queues its waiters in order: a waiter that finds the   *)
(* mutex free again and again gets it.                                      *)
Fairness ==
    /\ \A t \in Tasks : /\ WF_vars(ContinueOperation(t))
                        /\ SF_vars(LockForInstall(t))
                        /\ SF_vars(DisconnectAny(t))
    /\ \A u \in Users : WF_vars(FinishWork(u))

FairSpec == Spec /\ Fairness

-----------------------------------------------------------------------------
(* Properties                                                               *)

TypeOK ==
    /\ repositoryRevision \in Nat
    /\ revision \in [Connections -> Nat]
    /\ appRevision \in [Connections -> Nat]
    /\ currentIntents \in [Connections -> Nat]
    /\ nextIntent \in Nat
    /\ drivers \in [Connections -> Driver]
    /\ invalidated \in [Connections -> Nat]
    /\ open \in SUBSET Nat
    /\ retired \in SUBSET Nat
    /\ globalLifecycle \in Tasks \cup {Free}
    /\ snapshot \in [Connections -> Nat]
    /\ task \in [Tasks -> Task]
    /\ user \in [Users -> User]

(* A session that a save, delete or disconnect invalidated never shows up   *)
(* again, although its connect attempt ran unlocked in the meantime.        *)
InvalidatedStaysGone ==
    \A c \in Connections :
        drivers[c] # NoDriver => drivers[c].generation > invalidated[c]

(* Once the App's own save or delete has returned, no session of an older   *)
(* revision of that profile is installed.                                   *)
MutationPending(c) ==
    \E t \in Tasks : task[t].step = "detach" /\ task[t].conn = c

NoSessionBeforeSave ==
    \A c \in Connections :
        drivers[c] # NoDriver =>
            \/ drivers[c].profileRevision >= appRevision[c]
            \/ MutationPending(c)

(* Handles a task must still install or disconnect.                         *)
Owned(t) ==
    task[t].closing \cup (IF task[t].step \in CandidateSteps THEN {task[t].intent} ELSE {})

(* No server connection is leaked or owned twice: an open handle is the     *)
(* installed session of a profile or one task will dispose of it, never     *)
(* both and never two.                                                      *)
NoLeakedSession ==
    /\ open = Installed \cup UNION {Owned(t) : t \in Tasks}
    /\ \A t \in Tasks : Owned(t) \cap Installed = {}
    /\ \A s, t \in Tasks : s # t => Owned(s) \cap Owned(t) = {}

(* Work that holds the driver guard runs on an open server connection, and  *)
(* a retired handle accepts no new work.                                    *)
NoWorkOnClosedDriver ==
    \A u \in Users : user[u].running => user[u].handle \in open

(* Who has a server connection, and until when: both of the above.          *)
HandlesAreOwned == NoLeakedSession /\ NoWorkOnClosedDriver

(* The runtime implements the abstract slots: generations are tickets.      *)
Slots == INSTANCE SessionSlots WITH
    session <- [c \in Connections |-> drivers[c].generation],
    latest <- currentIntents,
    drawn <- nextIntent

ImplementsSlots == Slots!Spec

(* Every operation that starts comes to an end, so no lock is held forever, *)
(* and every retired session is disconnected from its server.               *)
OperationsEnd ==
    /\ \A t \in Tasks : task[t].step # "idle" ~> task[t].step = "idle"
    /\ \A h \in 1..MaxIntent : h \in retired ~> h \notin open
=============================================================================
