---------------------- MODULE ConnectionRuntimeProofs ----------------------
(***************************************************************************)
(* Theorems about ConnectionRuntime for any profiles, tasks, users and     *)
(* bounds.                                                                  *)
(***************************************************************************)
EXTENDS ConnectionRuntime, TLAPS

(* A task that runs a connect attempt, from its intent to its installation. *)
ConnectingSteps == {"resolve", "dial", "lock", "verify", "install", "abort"}

Connecting(t) == task[t].step \in ConnectingSteps

(* The global lifecycle mutex excludes: whoever is inside owns it.          *)
LockInv ==
    \A t \in Tasks : task[t].step \in LockedSteps => globalLifecycle = t

(* Every operation on a profile names one; a connect attempt has an intent  *)
(* and, once resolved, the revision of a stored profile.                    *)
LocalsInv ==
    \A t \in Tasks :
        /\ task[t].step \in ConnectingSteps \cup {"save", "delete", "detach"}
               => task[t].conn \in Connections
        /\ Connecting(t) => task[t].intent # NoGeneration
        /\ task[t].step \in ConnectingSteps \ {"resolve"} => task[t].rev # NoProfile

TypeInv == TypeOK /\ LocalsInv

(* Intents: a connect attempt's own intent is never the one an invalidation *)
(* drew, and no profile's newest intent is older than its invalidation.     *)
IntentInv ==
    /\ \A c \in Connections : /\ invalidated[c] <= currentIntents[c]
                              /\ currentIntents[c] <= nextIntent
    /\ \A t \in Tasks : Connecting(t) =>
           /\ task[t].intent <= nextIntent
           /\ \A c \in Connections : task[t].intent # invalidated[c]

(* Revisions: a stored profile is at least as new as the App's last write,  *)
(* and so is the revision an attempt has verified under the mutex.          *)
RevisionInv ==
    /\ \A c \in Connections :
           /\ revision[c] <= repositoryRevision
           /\ appRevision[c] <= repositoryRevision
           /\ revision[c] # NoProfile => appRevision[c] <= revision[c]
    /\ \A t \in Tasks : task[t].step = "install" => task[t].rev >= appRevision[task[t].conn]

-----------------------------------------------------------------------------
(* Type correctness                                                         *)
USE DEF NoGeneration, NoProfile

(* Moving a task to a named step keeps the task well-formed.                *)
LEMMA StepType ==
    ASSUME task \in [Tasks -> Task], NEW t \in Tasks, NEW step \in Steps, Step(t, step)
    PROVE  task' \in [Tasks -> Task]
  BY DEF Step, Task

(* ... and leaves its locals alone.                                         *)
LEMMA StepKeepsLocals ==
    ASSUME task \in [Tasks -> Task], NEW t \in Tasks, NEW step, Step(t, step)
    PROVE  /\ task'[t].step = step
           /\ task'[t].conn = task[t].conn
           /\ task'[t].intent = task[t].intent
           /\ task'[t].rev = task[t].rev
           /\ task'[t].closing = task[t].closing
<1>1. task[t] \in Task /\ task'[t] = [task[t] EXCEPT !.step = step]
  BY DEF Step
<1>2. QED BY <1>1 DEF Task

LEMMA IdleType == Idle \in Task
  BY DEF Idle, Task, Steps

(* A task that goes on to disconnect handles, or is done, is well-formed    *)
(* and names no profile.                                                    *)
LEMMA DisconnectThenType ==
    ASSUME TypeInv, NEW t \in Tasks, NEW hs \in SUBSET Nat, DisconnectThen(t, hs)
    PROVE  task' \in [Tasks -> Task] /\ LocalsInv'
<1>1. [Idle EXCEPT !.step = "disconnect", !.closing = hs] \in Task
  BY DEF Idle, Task, Steps
<1>2. QED BY <1>1, IdleType DEF DisconnectThen, TypeInv, TypeOK, LocalsInv, Connecting,
   ConnectingSteps, Idle

LEMMA InitTypeInv == Init => TypeInv
  BY IdleType DEF Init, TypeInv, TypeOK, LocalsInv, Connecting, ConnectingSteps, Idle,
     User, Rest, Driver, NoDriver

(* What an operation of the App does to the types.                          *)
LEMMA OperationType ==
    ASSUME TypeInv, NEW t \in Tasks,
           \/ StartOperation(t) \/ ContinueOperation(t)
           \/ LockForInstall(t) \/ DisconnectAny(t)
    PROVE  TypeInv'
<1> USE DEF TypeInv, TypeOK, repository, runtime, handles
<1>s. Steps = {"verify", "install", "save", "delete", "detach", "snapshot", "reconcile",
               "lock", "abort", "idle", "resolve", "dial", "disconnect"}
  BY DEF Steps, LockedSteps, CandidateSteps
<1>g. \A c \in Connections : {drivers[c].generation} \ {NoGeneration} \in SUBSET Nat
  BY DEF Driver, NoDriver
<1>1. ASSUME NEW c \in Connections, BeginConnect(t, c) PROVE TypeInv'
  <2>n. nextIntent' \in Nat \ {NoGeneration}
    BY <1>1 DEF BeginConnect, AdvanceIntent
  <2>1. [Idle EXCEPT !.step = "resolve", !.conn = c, !.intent = nextIntent'] \in Task
    BY <2>n, <1>s DEF Idle, Task
  <2>2. LocalsInv'
    BY <1>1, <2>n DEF BeginConnect, Idle, LocalsInv, Connecting, ConnectingSteps
  <2>3. QED BY <1>1, <2>1, <2>2 DEF BeginConnect, AdvanceIntent
<1>2. ASSUME NEW c \in Connections, NEW step \in {"save", "delete", "detach"},
             BeginMutation(t, c, step)
      PROVE TypeInv'
  <2>1. [Idle EXCEPT !.step = step, !.conn = c] \in Task
    BY <1>s DEF Idle, Task
  <2>2. LocalsInv'
    BY <1>2 DEF BeginMutation, Idle, LocalsInv, Connecting, ConnectingSteps
  <2>3. QED BY <1>2, <2>1, <2>2 DEF BeginMutation
<1>3. CASE BeginSnapshot(t)
  <2>1. [Idle EXCEPT !.step = "snapshot"] \in Task
    BY <1>s DEF Idle, Task
  <2>2. LocalsInv'
    BY <1>3 DEF BeginSnapshot, Idle, LocalsInv, Connecting, ConnectingSteps
  <2>3. QED BY <1>3, <2>1, <2>2 DEF BeginSnapshot
<1>4. CASE ResolveConfig(t)
  <2>1. task[t].conn \in Connections
    BY <1>4 DEF ResolveConfig, LocalsInv, Connecting, ConnectingSteps
  <2>2. revision[task[t].conn] \in Nat
    BY <2>1
  <2>3. [task[t] EXCEPT !.step = "dial", !.rev = revision[task[t].conn]] \in Task
    BY <1>s, <2>2 DEF Task
  <2>4. task' = [task EXCEPT ![t] =
                     [task[t] EXCEPT !.step = "dial", !.rev = revision[task[t].conn]]]
    BY <1>4 DEF ResolveConfig
  <2>5. task' \in [Tasks -> Task]
    BY <2>3, <2>4
  <2>6. LocalsInv'
    BY <1>4, <2>1, <2>4 DEF ResolveConfig, LocalsInv, Connecting, ConnectingSteps
  <2>7. QED BY <1>4, <2>5, <2>6 DEF ResolveConfig
<1>5. CASE \/ ResolveFails(t) \/ DialFails(t) \/ MutationFails(t) \/ ReadSnapshotFails(t)
           \/ AbortCandidate(t)
  <2>1. task' = [task EXCEPT ![t] = Idle]
    BY <1>5 DEF ResolveFails, DialFails, MutationFails, ReadSnapshotFails, AbortCandidate
  <2>2. task' \in [Tasks -> Task] /\ LocalsInv'
    BY <2>1, IdleType DEF LocalsInv, Connecting, ConnectingSteps, Idle
  <2>3. QED
    BY <1>5, <2>2
    DEF ResolveFails, DialFails, MutationFails, ReadSnapshotFails, AbortCandidate
<1>6. CASE Dial(t)
  <2>1. task[t].intent \in Nat
    BY DEF Task
  <2>2. task' \in [Tasks -> Task]
    BY <1>6, <1>s, StepType DEF Dial
  <2>3. LocalsInv'
    BY <1>6 DEF Dial, Step, LocalsInv, Connecting, ConnectingSteps
  <2>4. QED BY <1>6, <2>1, <2>2, <2>3 DEF Dial
<1>7. CASE LockForInstall(t) \/ VerifyRevision(t) \/ VerifyFails(t) \/ ReadSnapshot(t)
  <2>1. PICK step \in {"verify", "install", "abort", "reconcile"} :
            /\ Step(t, step)
            /\ step # "reconcile" => task[t].step \in ConnectingSteps \ {"resolve"}
    BY <1>7 DEF LockForInstall, VerifyRevision, VerifyFails, ReadSnapshot, ConnectingSteps
  <2>2. task' \in [Tasks -> Task]
    BY <2>1, <1>s, StepType
  <2>3. LocalsInv'
    BY <2>1 DEF Step, LocalsInv, Connecting, ConnectingSteps
  <2>4. QED
    BY <1>7, <2>2, <2>3 DEF LockForInstall, VerifyRevision, VerifyFails, ReadSnapshot
<1>8. CASE InstallReplacing(t)
  <2>1. task[t].conn \in Connections
    BY <1>8 DEF InstallReplacing, LocalsInv, Connecting, ConnectingSteps
  <2>2. [generation |-> task[t].intent, profileRevision |-> task[t].rev] \in Driver
    BY <1>8 DEF InstallReplacing, Task, Driver, LocalsInv, Connecting, ConnectingSteps
  <2>3. task' \in [Tasks -> Task] /\ LocalsInv'
    BY <1>8, <1>g, <2>1, DisconnectThenType DEF InstallReplacing
  <2>4. QED BY <1>8, <1>g, <2>1, <2>2, <2>3 DEF InstallReplacing
<1>9. CASE InstallSuperseded(t)
  <2>1. {task[t].intent} \in SUBSET Nat
    BY DEF Task
  <2>2. task' \in [Tasks -> Task] /\ LocalsInv'
    BY <1>9, <2>1, DisconnectThenType DEF InstallSuperseded
  <2>3. QED BY <1>9, <2>2 DEF InstallSuperseded
<1>10. CASE SaveCommits(t) \/ DeleteCommits(t)
  <2>1. /\ task[t].conn \in Connections
        /\ Step(t, "detach")
    BY <1>10 DEF SaveCommits, DeleteCommits, CommitMutation, LocalsInv
  <2>2. task' \in [Tasks -> Task]
    BY <2>1, <1>s, StepType
  <2>3. LocalsInv'
    BY <2>1 DEF Step, LocalsInv, Connecting, ConnectingSteps
  <2>4. repositoryRevision' \in Nat /\ revision' \in [Connections -> Nat]
    BY <1>10, <2>1 DEF SaveCommits, DeleteCommits, CommitProfile
  <2>5. appRevision' \in [Connections -> Nat]
    BY <1>10, <2>4 DEF SaveCommits, DeleteCommits, CommitMutation
  <2>6. QED
    BY <1>10, <2>2, <2>3, <2>4, <2>5 DEF SaveCommits, DeleteCommits, CommitMutation
<1>11. CASE InvalidateAndDetach(t)
  <2>1. task[t].conn \in Connections
    BY <1>11 DEF InvalidateAndDetach, LocalsInv
  <2>2. NoDriver \in Driver
    BY DEF NoDriver, Driver
  <2>3. task' \in [Tasks -> Task] /\ LocalsInv'
    BY <1>11, <1>g, <2>1, DisconnectThenType DEF InvalidateAndDetach
  <2>4. nextIntent' \in Nat
    BY <1>11 DEF InvalidateAndDetach, AdvanceIntent
  <2>5. QED BY <2>4, <1>11, <1>g, <2>1, <2>2, <2>3 DEF InvalidateAndDetach, AdvanceIntent
<1>12. CASE Reconcile(t)
  <2>1. {drivers[c].generation : c \in Stale} \in SUBSET Nat
    BY DEF Stale, Driver, NoDriver
  <2>2. NoDriver \in Driver
    BY DEF NoDriver, Driver
  <2>3. task' \in [Tasks -> Task] /\ LocalsInv'
    BY <1>12, <2>1, DisconnectThenType DEF Reconcile
  <2>4. QED BY <1>12, <2>1, <2>2, <2>3 DEF Reconcile
<1>13. CASE DisconnectAny(t)
  <2>1. PICK h \in task[t].closing : DisconnectHandle(t, h)
    BY <1>13 DEF DisconnectAny
  <2>2. h \in Nat /\ task[t].closing \ {h} \in SUBSET Nat
    BY DEF Task
  <2>3. task' \in [Tasks -> Task] /\ LocalsInv'
    BY <2>1, <2>2, DisconnectThenType DEF DisconnectHandle
  <2>4. QED BY <2>1, <2>2, <2>3 DEF DisconnectHandle
<1>14. QED
  BY <1>1, <1>2, <1>3, <1>4, <1>5, <1>6, <1>7, <1>8, <1>9, <1>10, <1>11, <1>12, <1>13
  DEF StartOperation, ContinueOperation, BeginSave, BeginDelete, BeginDisconnect

(* Work on sessions and writes by other processes keep the types.           *)
LEMMA EnvironmentType ==
    ASSUME TypeInv,
           \/ \E u \in Users : \/ \E c \in Connections : TakeHandle(u, c)
                               \/ LockActive(u)
                               \/ FinishWork(u)
           \/ \E c \in Connections, deleted \in BOOLEAN : ExternalCommit(c, deleted)
    PROVE  TypeInv'
<1> USE DEF TypeInv, TypeOK, repository, runtime, handles
<1>1. ASSUME NEW u \in Users, NEW c \in Connections, TakeHandle(u, c) PROVE TypeInv'
  <2>1. drivers[c].generation \in Nat
    BY DEF Driver, NoDriver
  <2>2. user' \in [Users -> User]
    BY <1>1, <2>1 DEF TakeHandle, User
  <2>3. QED BY <1>1, <2>2 DEF TakeHandle, LocalsInv, Connecting
<1>2. ASSUME NEW u \in Users, LockActive(u) \/ FinishWork(u) PROVE TypeInv'
  <2>1. Rest \in User /\ [user[u] EXCEPT !.running = TRUE] \in User
    BY DEF Rest, User
  <2>2. user' \in [Users -> User]
    BY <1>2, <2>1 DEF LockActive, FinishWork
  <2>3. QED BY <1>2, <2>2 DEF LockActive, FinishWork, LocalsInv, Connecting
<1>3. ASSUME NEW c \in Connections, NEW deleted \in BOOLEAN, ExternalCommit(c, deleted)
      PROVE TypeInv'
  BY <1>3 DEF ExternalCommit, CommitProfile, LocalsInv, Connecting
<1>4. QED BY <1>1, <1>2, <1>3

LEMMA TypeInvStep == TypeInv /\ [Next]_vars => TypeInv'
<1>1. CASE Next
  BY <1>1, OperationType, EnvironmentType DEF Next
<1>2. CASE UNCHANGED vars
  BY <1>2 DEF vars, repository, runtime, handles, TypeInv, TypeOK, LocalsInv, Connecting
<1>3. QED BY <1>1, <1>2

(* Every variable stays in the range the code's types give it.              *)
THEOREM TypeCorrect == Spec => []TypeOK
<1>1. Spec => []TypeInv
  BY InitTypeInv, TypeInvStep, PTL DEF Spec
<1>2. QED BY <1>1, PTL DEF TypeInv

-----------------------------------------------------------------------------
(* Mutual exclusion under the global lifecycle mutex                        *)

(* Every step of an operation leaves the other tasks alone.                 *)
LEMMA OthersKeep ==
    ASSUME TypeInv, NEW t \in Tasks,
           \/ StartOperation(t) \/ ContinueOperation(t)
           \/ LockForInstall(t) \/ DisconnectAny(t)
    PROVE  \A s \in Tasks \ {t} : task'[s] = task[s]
  BY DEF TypeInv, TypeOK, StartOperation, ContinueOperation, LockForInstall,
     DisconnectAny,
     BeginConnect, BeginSave, BeginDelete, BeginDisconnect, BeginMutation, BeginSnapshot,
     ResolveConfig, ResolveFails, Dial, DialFails, VerifyRevision, VerifyFails,
     AbortCandidate, InstallReplacing, InstallSuperseded, SaveCommits, DeleteCommits,
     CommitMutation, MutationFails, InvalidateAndDetach, ReadSnapshot, ReadSnapshotFails,
     Reconcile, DisconnectHandle, DisconnectThen, Step

(* An operation enters the mutex when it is free, and is inside only while  *)
(* it owns it.                                                              *)
LEMMA LockHandover ==
    ASSUME TypeInv, LockInv, NEW t \in Tasks,
           \/ StartOperation(t) \/ ContinueOperation(t)
           \/ LockForInstall(t) \/ DisconnectAny(t)
    PROVE  /\ globalLifecycle' # globalLifecycle => globalLifecycle \in {Free, t}
           /\ task'[t].step \in LockedSteps => globalLifecycle' = t
<1> USE DEF TypeInv, TypeOK, LockInv, LockedSteps
<1>1. CASE StartOperation(t)
  <2>1. CASE \E c \in Connections : BeginConnect(t, c)
    BY <2>1 DEF BeginConnect, Idle
  <2>2. CASE \E c \in Connections : BeginSave(t, c) \/ BeginDelete(t, c) \/ BeginDisconnect(t, c)
    BY <2>2 DEF BeginSave, BeginDelete, BeginDisconnect, BeginMutation, Idle
  <2>3. CASE BeginSnapshot(t)
    BY <2>3 DEF BeginSnapshot, Idle
  <2>4. QED BY <1>1, <2>1, <2>2, <2>3 DEF StartOperation
<1>2. CASE LockForInstall(t)
  BY <1>2 DEF LockForInstall, Step
<1>3. CASE DisconnectAny(t)
  <2>1. PICK h \in task[t].closing : DisconnectHandle(t, h)
    BY <1>3 DEF DisconnectAny
  <2>2. task'[t].step \in {"idle", "disconnect"}
    BY <2>1 DEF DisconnectHandle, DisconnectThen, Idle
  <2>3. QED BY <2>1, <2>2 DEF DisconnectHandle
<1>4. CASE \/ ResolveConfig(t) \/ ResolveFails(t) \/ Dial(t) \/ DialFails(t)
           \/ VerifyRevision(t) \/ VerifyFails(t) \/ AbortCandidate(t)
           \/ MutationFails(t) \/ ReadSnapshot(t) \/ ReadSnapshotFails(t)
           \/ SaveCommits(t) \/ DeleteCommits(t)
  <2>1. CASE \/ ResolveFails(t) \/ DialFails(t) \/ AbortCandidate(t) \/ MutationFails(t)
             \/ ReadSnapshotFails(t)
    BY <2>1 DEF ResolveFails, DialFails, AbortCandidate, MutationFails,
       ReadSnapshotFails, Idle
  <2>2. CASE ResolveConfig(t) \/ Dial(t)
    <3>1. task'[t].step \in {"dial", "lock"} /\ globalLifecycle' = globalLifecycle
      <4>1. CASE ResolveConfig(t)
        BY <4>1 DEF ResolveConfig, Task
      <4>2. CASE Dial(t)
        BY <4>2 DEF Dial, Step
      <4>3. QED BY <2>2, <4>1, <4>2
    <3>2. QED BY <3>1
  <2>3. CASE VerifyFails(t)
    BY <2>3 DEF VerifyFails, Step
  <2>4. CASE VerifyRevision(t) \/ ReadSnapshot(t) \/ SaveCommits(t) \/ DeleteCommits(t)
    <3>1. task[t].step \in LockedSteps /\ globalLifecycle' = globalLifecycle
      BY <2>4 DEF VerifyRevision, ReadSnapshot, SaveCommits, DeleteCommits, CommitMutation
    <3>2. QED BY <3>1
  <2>5. QED BY <1>4, <2>1, <2>2, <2>3, <2>4
<1>5. CASE \/ InstallReplacing(t) \/ InstallSuperseded(t) \/ InvalidateAndDetach(t)
           \/ Reconcile(t)
  <2>1. task[t].step \in LockedSteps
    BY <1>5 DEF InstallReplacing, InstallSuperseded, InvalidateAndDetach, Reconcile
  <2>2. \E hs : DisconnectThen(t, hs)
    BY <1>5 DEF InstallReplacing, InstallSuperseded, InvalidateAndDetach, Reconcile
  <2>3. task'[t].step \in {"idle", "disconnect"}
    BY <2>2 DEF DisconnectThen, Idle
  <2>4. QED BY <2>1, <2>3
<1>6. QED BY <1>1, <1>2, <1>3, <1>4, <1>5 DEF ContinueOperation

LEMMA LockStep ==
    ASSUME TypeInv, LockInv, NEW t \in Tasks,
           \/ StartOperation(t) \/ ContinueOperation(t)
           \/ LockForInstall(t) \/ DisconnectAny(t)
    PROVE  LockInv'
<1>1. \A s \in Tasks \ {t} : task'[s] = task[s]
  BY OthersKeep
<1>2. /\ globalLifecycle' # globalLifecycle => globalLifecycle \in {Free, t}
      /\ task'[t].step \in LockedSteps => globalLifecycle' = t
  BY LockHandover
<1>3. QED BY <1>1, <1>2, FreeAssumption DEF LockInv

-----------------------------------------------------------------------------
(* Intents and sessions                                                     *)

(* After its first step an attempt keeps its intent and its target, and no  *)
(* later step turns another operation into a connect attempt.               *)
LEMMA AttemptKeepsIntent ==
    ASSUME TypeInv, NEW t \in Tasks,
           \/ \E c \in Connections : BeginSave(t, c) \/ BeginDelete(t, c) \/ BeginDisconnect(t, c)
           \/ BeginSnapshot(t)
           \/ ContinueOperation(t) \/ LockForInstall(t) \/ DisconnectAny(t)
    PROVE  task'[t].step \in ConnectingSteps =>
               /\ Connecting(t)
               /\ task'[t].intent = task[t].intent
               /\ task'[t].conn = task[t].conn
<1> USE DEF TypeInv, TypeOK, Connecting, ConnectingSteps
<1>1. CASE \/ \E c \in Connections : BeginSave(t, c) \/ BeginDelete(t, c) \/ BeginDisconnect(t, c)
           \/ BeginSnapshot(t)
  <2>1. task'[t].step \in {"save", "delete", "detach", "snapshot"}
    BY <1>1 DEF BeginSave, BeginDelete, BeginDisconnect, BeginMutation, BeginSnapshot,
       Idle
  <2>2. QED BY <2>1
<1>2. CASE \/ ResolveFails(t) \/ DialFails(t) \/ AbortCandidate(t) \/ MutationFails(t)
           \/ ReadSnapshotFails(t)
  BY <1>2 DEF ResolveFails, DialFails, AbortCandidate, MutationFails, ReadSnapshotFails,
     Idle
<1>3. CASE DisconnectAny(t) \/ InstallReplacing(t) \/ InstallSuperseded(t)
           \/ InvalidateAndDetach(t) \/ Reconcile(t)
  <2>1. \E hs : DisconnectThen(t, hs)
    BY <1>3 DEF DisconnectAny, DisconnectHandle, InstallReplacing, InstallSuperseded,
       InvalidateAndDetach, Reconcile
  <2>2. task'[t].step \in {"idle", "disconnect"}
    BY <2>1 DEF DisconnectThen, Idle
  <2>3. QED BY <2>2
<1>4. CASE ResolveConfig(t)
  <2>1. task[t] \in Task /\ task[t].step = "resolve"
    BY <1>4 DEF ResolveConfig
  <2>2. task'[t] = [task[t] EXCEPT !.step = "dial", !.rev = revision[task[t].conn]]
    BY <1>4 DEF ResolveConfig
  <2>3. task'[t].intent = task[t].intent /\ task'[t].conn = task[t].conn
    BY <2>1, <2>2 DEF Task
  <2>4. QED BY <2>1, <2>3
<1>5. CASE Dial(t) \/ LockForInstall(t) \/ VerifyRevision(t) \/ VerifyFails(t)
  <2>1. task[t] \in Task /\ task[t].step \in ConnectingSteps
    BY <1>5 DEF Dial, LockForInstall, VerifyRevision, VerifyFails
  <2>2. \E step : task'[t] = [task[t] EXCEPT !.step = step]
    BY <1>5 DEF Dial, LockForInstall, VerifyRevision, VerifyFails, Step
  <2>3. task'[t].intent = task[t].intent /\ task'[t].conn = task[t].conn
    BY <2>1, <2>2 DEF Task
  <2>4. QED BY <2>1, <2>3
<1>6. CASE SaveCommits(t) \/ DeleteCommits(t) \/ ReadSnapshot(t)
  <2>1. task'[t].step \in {"detach", "reconcile"}
    BY <1>6, StepKeepsLocals DEF SaveCommits, DeleteCommits, CommitMutation, ReadSnapshot
  <2>2. QED BY <2>1
<1>7. QED
  BY <1>1, <1>2, <1>3, <1>4, <1>5, <1>6 DEF ContinueOperation

IntentVars == <<currentIntents, nextIntent, invalidated>>

(* Only two kinds of step touch the intents.                                *)
LEMMA IntentsKept ==
    ASSUME NEW t \in Tasks,
           \/ \E c \in Connections : BeginSave(t, c) \/ BeginDelete(t, c) \/ BeginDisconnect(t, c)
           \/ BeginSnapshot(t)
           \/ ContinueOperation(t) \/ LockForInstall(t) \/ DisconnectAny(t),
           ~InvalidateAndDetach(t)
    PROVE  UNCHANGED IntentVars
  BY DEF IntentVars, runtime, ContinueOperation, LockForInstall, DisconnectAny, BeginSave,
     BeginDelete, BeginDisconnect, BeginMutation, BeginSnapshot, ResolveConfig, ResolveFails,
     Dial, DialFails, VerifyRevision, VerifyFails, AbortCandidate, InstallReplacing,
     InstallSuperseded, SaveCommits, DeleteCommits, CommitMutation, MutationFails,
     ReadSnapshot, ReadSnapshotFails, Reconcile, DisconnectHandle

LEMMA IntentStep ==
    ASSUME TypeInv, IntentInv, NEW t \in Tasks,
           \/ StartOperation(t) \/ ContinueOperation(t)
           \/ LockForInstall(t) \/ DisconnectAny(t)
    PROVE  IntentInv'
<1>o. \A s \in Tasks \ {t} : task'[s] = task[s]
  BY OthersKeep
<1> USE DEF TypeInv, TypeOK, IntentInv, Connecting
<1>n. \A s \in Tasks : task[s].intent \in Nat
  BY DEF Task
<1>1. ASSUME NEW c \in Connections, BeginConnect(t, c) PROVE IntentInv'
  <2>1. task'[t].intent = nextIntent + 1 /\ nextIntent' = nextIntent + 1
    BY <1>1 DEF BeginConnect, AdvanceIntent, Idle
  <2>2. \A d \in Connections : /\ invalidated'[d] <= currentIntents'[d]
                               /\ currentIntents'[d] <= nextIntent'
    BY <1>1 DEF BeginConnect, AdvanceIntent
  <2>3. invalidated' = invalidated
    BY <1>1 DEF BeginConnect
  <2>4. \A s \in Tasks : Connecting(s)' =>
            /\ task'[s].intent <= nextIntent'
            /\ \A d \in Connections : task'[s].intent # invalidated'[d]
    BY <1>o, <1>n, <2>1, <2>3
  <2>5. QED BY <2>2, <2>4
<1>2. CASE InvalidateAndDetach(t)
  <2>1. nextIntent' = nextIntent + 1
    BY <1>2 DEF InvalidateAndDetach, AdvanceIntent
  <2>2. \A d \in Connections : /\ invalidated'[d] <= currentIntents'[d]
                               /\ currentIntents'[d] <= nextIntent'
    BY <1>2 DEF InvalidateAndDetach, AdvanceIntent
  <2>3. \A d \in Connections : invalidated'[d] = invalidated[d] \/ invalidated'[d] = nextIntent + 1
    BY <1>2, <2>1 DEF InvalidateAndDetach
  <2>4. \A s \in Tasks : Connecting(s)' => Connecting(s) /\ task'[s].intent = task[s].intent
    BY <1>2, <1>o, AttemptKeepsIntent DEF ContinueOperation
  <2>5. \A s \in Tasks : Connecting(s)' =>
            /\ task'[s].intent <= nextIntent'
            /\ \A d \in Connections : task'[s].intent # invalidated'[d]
    BY <1>n, <2>1, <2>3, <2>4
  <2>6. QED BY <2>2, <2>5
<1>3. CASE /\ \/ \E c \in Connections : BeginSave(t, c) \/ BeginDelete(t, c) \/ BeginDisconnect(t, c)
              \/ BeginSnapshot(t)
              \/ ContinueOperation(t) \/ LockForInstall(t) \/ DisconnectAny(t)
           /\ ~InvalidateAndDetach(t)
  <2>1. UNCHANGED IntentVars
    BY <1>3, IntentsKept
  <2>2. \A s \in Tasks : Connecting(s)' => Connecting(s) /\ task'[s].intent = task[s].intent
    BY <1>3, <1>o, AttemptKeepsIntent
  <2>3. QED BY <2>1, <2>2 DEF IntentVars
<1>4. QED
  BY <1>1, <1>2, <1>3 DEF StartOperation

(* An attempt installed under its own newest intent is younger than every   *)
(* invalidation of its profile.                                             *)
LEMMA InvalidatedStep ==
    ASSUME TypeInv, IntentInv, InvalidatedStaysGone, NEW t \in Tasks,
           \/ StartOperation(t) \/ ContinueOperation(t)
           \/ LockForInstall(t) \/ DisconnectAny(t)
    PROVE  InvalidatedStaysGone'
<1> USE DEF TypeInv, TypeOK, InvalidatedStaysGone
<1>1. CASE InstallReplacing(t)
  <2> DEFINE c == task[t].conn
  <2>1. c \in Connections /\ Connecting(t)
    BY <1>1 DEF InstallReplacing, LocalsInv, Connecting, ConnectingSteps
  <2>2. task[t].intent \in Nat /\ task[t].intent = currentIntents[c]
    BY <1>1 DEF InstallReplacing, Task
  <2>3. task[t].intent # invalidated[c] /\ invalidated[c] <= currentIntents[c]
    BY <2>1 DEF IntentInv
  <2>4. task[t].intent > invalidated[c]
    BY <2>1, <2>2, <2>3
  <2>5. /\ invalidated' = invalidated
        /\ drivers' = [drivers EXCEPT ![c] = [generation |-> task[t].intent,
                                              profileRevision |-> task[t].rev]]
    BY <1>1 DEF InstallReplacing
  <2>6. QED BY <2>1, <2>4, <2>5
<1>2. CASE InvalidateAndDetach(t)
  <2>1. task[t].conn \in Connections
    BY <1>2 DEF InvalidateAndDetach, LocalsInv
  <2>2. QED BY <1>2, <2>1 DEF InvalidateAndDetach
<1>3. CASE Reconcile(t)
  BY <1>3 DEF Reconcile
<1>4. CASE /\ \/ StartOperation(t) \/ ContinueOperation(t)
              \/ LockForInstall(t) \/ DisconnectAny(t)
           /\ ~(InstallReplacing(t) \/ InvalidateAndDetach(t) \/ Reconcile(t))
  <2>1. UNCHANGED <<drivers, invalidated>>
    BY <1>4 DEF runtime, StartOperation, ContinueOperation, LockForInstall, DisconnectAny,
       BeginConnect, BeginSave, BeginDelete, BeginDisconnect, BeginMutation, BeginSnapshot,
       ResolveConfig, ResolveFails, Dial, DialFails, VerifyRevision, VerifyFails,
       AbortCandidate, InstallSuperseded, SaveCommits, DeleteCommits, CommitMutation,
       MutationFails, ReadSnapshot, ReadSnapshotFails, DisconnectHandle
  <2>2. QED BY <2>1
<1>5. QED BY <1>1, <1>2, <1>3, <1>4

-----------------------------------------------------------------------------
(* Revisions                                                                *)

LEMMA RevisionStep ==
    ASSUME TypeInv, LockInv, RevisionInv, NEW t \in Tasks,
           \/ StartOperation(t) \/ ContinueOperation(t)
           \/ LockForInstall(t) \/ DisconnectAny(t)
    PROVE  RevisionInv'
<1>o. \A s \in Tasks \ {t} : task'[s] = task[s]
  BY OthersKeep
<1> USE DEF TypeInv, TypeOK, RevisionInv
<1>1. CASE SaveCommits(t) \/ DeleteCommits(t)
  <2> DEFINE c == task[t].conn
  <2>1. c \in Connections /\ task[t].step \in {"save", "delete"}
    BY <1>1 DEF SaveCommits, DeleteCommits, LocalsInv
  <2>2. /\ repositoryRevision' = repositoryRevision + 1
        /\ appRevision' = [appRevision EXCEPT ![c] = repositoryRevision']
        /\ \/ revision' = [revision EXCEPT ![c] = repositoryRevision']
           \/ revision' = [revision EXCEPT ![c] = NoProfile]
        /\ task'[t].step = "detach"
    BY <1>1, <2>1, StepKeepsLocals DEF SaveCommits, DeleteCommits, CommitProfile,
       CommitMutation
  <2>3. \A d \in Connections :
            /\ revision'[d] <= repositoryRevision'
            /\ appRevision'[d] <= repositoryRevision'
            /\ revision'[d] # NoProfile => appRevision'[d] <= revision'[d]
    BY <2>1, <2>2
  <2>4. \A s \in Tasks : task'[s].step # "install"
    BY <2>1, <2>2, <1>o DEF LockInv, LockedSteps
  <2>5. QED BY <2>3, <2>4
<1>2. CASE VerifyRevision(t)
  <2> DEFINE c == task[t].conn
  <2>1. /\ c \in Connections
        /\ task[t].rev # NoProfile
        /\ task[t].step = "verify"
        /\ revision[c] = task[t].rev
    BY <1>2 DEF VerifyRevision, LocalsInv, ConnectingSteps
  <2>2. appRevision[c] <= task[t].rev
    BY <2>1
  <2>3. task[t] \in Task /\ task'[t] = [task[t] EXCEPT !.step = "install"]
    BY <1>2 DEF VerifyRevision, Step
  <2>4. task'[t].conn = c /\ task'[t].rev = task[t].rev
    BY <2>3 DEF Task
  <2>5. UNCHANGED repository
    BY <1>2 DEF VerifyRevision
  <2>6. \A s \in Tasks : task'[s].step = "install" =>
            task'[s].rev >= appRevision'[task'[s].conn]
    <3>1. SUFFICES ASSUME NEW s \in Tasks, task'[s].step = "install"
                   PROVE  task'[s].rev >= appRevision'[task'[s].conn]
      OBVIOUS
    <3>2. CASE s = t
      <4>1. task[t].rev \in Nat /\ appRevision[c] \in Nat
        BY <2>1 DEF Task
      <4>2. QED BY <2>2, <2>4, <2>5, <3>2, <4>1 DEF repository
    <3>3. CASE s # t
      BY <1>o, <2>5, <3>1, <3>3 DEF repository
    <3>4. QED BY <3>2, <3>3
  <2>7. QED BY <2>5, <2>6 DEF repository
<1>3. CASE /\ \/ StartOperation(t) \/ ContinueOperation(t)
              \/ LockForInstall(t) \/ DisconnectAny(t)
           /\ ~(SaveCommits(t) \/ DeleteCommits(t) \/ VerifyRevision(t))
  <2>1. UNCHANGED repository
    BY <1>3 DEF StartOperation, ContinueOperation, LockForInstall, DisconnectAny,
       BeginConnect, BeginSave, BeginDelete, BeginDisconnect, BeginMutation, BeginSnapshot,
       ResolveConfig, ResolveFails, Dial, DialFails, VerifyFails, AbortCandidate,
       InstallReplacing, InstallSuperseded, MutationFails, InvalidateAndDetach,
       ReadSnapshot, ReadSnapshotFails, Reconcile, DisconnectHandle
  <2>2. task'[t].step # "install"
    <3>1. CASE DisconnectAny(t) \/ InstallReplacing(t) \/ InstallSuperseded(t)
               \/ InvalidateAndDetach(t) \/ Reconcile(t)
      <4>1. \E hs : DisconnectThen(t, hs)
        BY <3>1 DEF DisconnectAny, DisconnectHandle, InstallReplacing, InstallSuperseded,
           InvalidateAndDetach, Reconcile
      <4>2. task'[t].step \in {"idle", "disconnect"}
        BY <4>1 DEF DisconnectThen, Idle
      <4>3. QED BY <4>2
    <3>2. CASE StartOperation(t)
      BY <3>2 DEF StartOperation, BeginConnect, BeginSave, BeginDelete, BeginDisconnect,
         BeginMutation, BeginSnapshot, Idle
    <3>3. CASE \/ ResolveFails(t) \/ DialFails(t) \/ AbortCandidate(t) \/ MutationFails(t)
               \/ ReadSnapshotFails(t)
      BY <3>3 DEF ResolveFails, DialFails, AbortCandidate, MutationFails,
         ReadSnapshotFails, Idle
    <3>4. CASE ResolveConfig(t)
      <4>1. task[t] \in Task
        OBVIOUS
      <4>2. task'[t] = [task[t] EXCEPT !.step = "dial", !.rev = revision[task[t].conn]]
        BY <3>4 DEF ResolveConfig
      <4>3. QED BY <4>1, <4>2 DEF Task
    <3>5. CASE Dial(t) \/ LockForInstall(t) \/ VerifyFails(t) \/ ReadSnapshot(t)
      <4>1. task'[t].step \in {"lock", "verify", "abort", "reconcile"}
        BY <3>5, StepKeepsLocals DEF Dial, LockForInstall, VerifyFails, ReadSnapshot
      <4>2. QED BY <4>1
    <3>6. QED BY <1>3, <3>1, <3>2, <3>3, <3>4, <3>5 DEF ContinueOperation
  <2>3. QED BY <1>o, <2>1, <2>2 DEF repository
<1>4. QED BY <1>1, <1>2, <1>3

(* A session is installed at a revision verified under the mutex, and no    *)
(* save or delete commits before the installation is done.                  *)
LEMMA NoSessionBeforeSaveStep ==
    ASSUME TypeInv, LockInv, RevisionInv, NoSessionBeforeSave, NEW t \in Tasks,
           \/ StartOperation(t) \/ ContinueOperation(t)
           \/ LockForInstall(t) \/ DisconnectAny(t)
    PROVE  NoSessionBeforeSave'
<1>o. \A s \in Tasks \ {t} : task'[s] = task[s]
  BY OthersKeep
<1> USE DEF TypeInv, TypeOK, NoSessionBeforeSave, MutationPending
<1>1. CASE SaveCommits(t) \/ DeleteCommits(t)
  <2> DEFINE c == task[t].conn
  <2>1. c \in Connections /\ task[t] \in Task /\ task[t].step \in {"save", "delete"}
    BY <1>1 DEF SaveCommits, DeleteCommits, LocalsInv
  <2>2. /\ appRevision' = [appRevision EXCEPT ![c] = repositoryRevision']
        /\ task'[t].step = "detach" /\ task'[t].conn = c
        /\ drivers' = drivers
    BY <1>1, StepKeepsLocals DEF SaveCommits, DeleteCommits, CommitMutation, runtime
  <2>3. SUFFICES ASSUME NEW d \in Connections, drivers'[d] # NoDriver
                 PROVE  drivers'[d].profileRevision >= appRevision'[d] \/ MutationPending(d)'
    OBVIOUS
  <2>4. CASE d = c
    BY <2>2, <2>4
  <2>5. CASE d # c
    <3>1. appRevision'[d] = appRevision[d] /\ drivers'[d] = drivers[d]
      BY <2>2, <2>5
    <3>2. CASE drivers[d].profileRevision >= appRevision[d]
      BY <3>1, <3>2
    <3>3. CASE MutationPending(d)
      <4>1. PICK s \in Tasks : task[s].step = "detach" /\ task[s].conn = d
        BY <3>3
      <4>2. s # t
        BY <2>1, <4>1
      <4>3. QED BY <1>o, <4>1, <4>2
    <3>4. QED BY <2>3, <3>1, <3>2, <3>3
  <2>6. QED BY <2>4, <2>5
<1>2. CASE InstallReplacing(t)
  <2> DEFINE c == task[t].conn
  <2>1. c \in Connections /\ task[t].step = "install"
    BY <1>2 DEF InstallReplacing, LocalsInv, ConnectingSteps
  <2>2. task[t].rev >= appRevision[c]
    BY <2>1 DEF RevisionInv
  <2>3. /\ drivers' = [drivers EXCEPT ![c] = [generation |-> task[t].intent,
                                              profileRevision |-> task[t].rev]]
        /\ appRevision' = appRevision
    BY <1>2 DEF InstallReplacing, repository
  <2>4. QED BY <1>o, <2>1, <2>2, <2>3
<1>3. CASE InvalidateAndDetach(t)
  <2> DEFINE c == task[t].conn
  <2>1. c \in Connections /\ task[t].step = "detach"
    BY <1>3 DEF InvalidateAndDetach, LocalsInv
  <2>2. \A s \in Tasks \ {t} : task[s].step # "detach"
    BY <2>1 DEF LockInv, LockedSteps
  <2>3. /\ drivers' = [drivers EXCEPT ![c] = NoDriver]
        /\ appRevision' = appRevision
    BY <1>3 DEF InvalidateAndDetach, repository
  <2>4. QED BY <2>1, <2>2, <2>3
<1>4. CASE Reconcile(t)
  <2>1. task[t].step # "detach" /\ appRevision' = appRevision
    BY <1>4 DEF Reconcile, repository
  <2>2. \A d \in Connections : drivers'[d] \in {NoDriver, drivers[d]}
    BY <1>4 DEF Reconcile
  <2>3. QED BY <1>o, <2>1, <2>2
<1>5. CASE /\ \/ StartOperation(t) \/ ContinueOperation(t)
              \/ LockForInstall(t) \/ DisconnectAny(t)
           /\ ~(SaveCommits(t) \/ DeleteCommits(t) \/ InstallReplacing(t)
                \/ InvalidateAndDetach(t) \/ Reconcile(t))
  <2>1. UNCHANGED <<appRevision, drivers>> /\ task[t].step # "detach"
    BY <1>5 DEF repository, runtime, StartOperation, ContinueOperation, LockForInstall,
       DisconnectAny, BeginConnect, BeginSave, BeginDelete, BeginDisconnect, BeginMutation,
       BeginSnapshot, ResolveConfig, ResolveFails, Dial, DialFails, VerifyRevision,
       VerifyFails, AbortCandidate, InstallSuperseded, MutationFails, ReadSnapshot,
       ReadSnapshotFails, DisconnectHandle
  <2>2. QED BY <1>o, <2>1
<1>6. QED BY <1>1, <1>2, <1>3, <1>4, <1>5

-----------------------------------------------------------------------------
(* Handles and their owners                                                 *)

(* The generations a task answers for: the handles it must disconnect, and  *)
(* the one its connect attempt has drawn, dialled or not.                   *)
Claims(t) == task[t].closing \cup (IF Connecting(t) THEN {task[t].intent} ELSE {})

(* Only a task on its way to disconnect handles has handles to disconnect.  *)
ClosingInv == \A t \in Tasks : task[t].step # "disconnect" => task[t].closing = {}

(* A generation has at most one claimant, and none once it is installed.    *)
ClaimInv ==
    /\ \A t \in Tasks : Claims(t) \cap Installed = {}
    /\ \A s, t \in Tasks : s # t => Claims(s) \cap Claims(t) = {}
    /\ \A t \in Tasks : \A h \in Claims(t) : h # NoGeneration /\ h <= nextIntent

(* No two profiles share a session, and none is newer than its intent.      *)
InstalledInv ==
    /\ \A c, d \in Connections :
           c # d /\ drivers[c].generation = drivers[d].generation
               => drivers[c].generation = NoGeneration
    /\ \A c \in Connections : drivers[c].generation <= currentIntents[c]

OpenInv == open = Installed \cup UNION {Owned(t) : t \in Tasks}

(* A handle in somebody's hands was installed once: it is open or retired,  *)
(* and no attempt still waits to install it.                                *)
UserInv ==
    \A u \in Users :
        /\ user[u].handle <= nextIntent
        /\ user[u].handle # NoGeneration => user[u].handle \in open \cup retired
        /\ \A t \in Tasks : Connecting(t) => user[u].handle # task[t].intent
        /\ user[u].running => user[u].handle \in open

HandleInv == ClosingInv /\ ClaimInv /\ InstalledInv /\ OpenInv /\ UserInv

LEMMA OwnedAreClaimed == \A t \in Tasks : Owned(t) \subseteq Claims(t)
  BY DEF Owned, Claims, Connecting, ConnectingSteps, CandidateSteps

(* A task that goes on to disconnect handles claims these and owns them.    *)
LEMMA DisconnectThenClaims ==
    ASSUME TypeInv, NEW t \in Tasks, NEW hs \in SUBSET Nat, DisconnectThen(t, hs)
    PROVE  /\ Claims(t)' = hs
           /\ Owned(t)' = hs
           /\ ~Connecting(t)'
           /\ task'[t].closing = hs
           /\ task'[t].step # "disconnect" => hs = {}
<1>1. [Idle EXCEPT !.step = "disconnect", !.closing = hs] \in Task
  BY DEF Idle, Task, Steps
<1>2. task'[t] = IF hs = {} THEN Idle
                 ELSE [Idle EXCEPT !.step = "disconnect", !.closing = hs]
  BY DEF DisconnectThen, TypeInv, TypeOK
<1>3. task'[t].closing = hs /\ task'[t].step = IF hs = {} THEN "idle" ELSE "disconnect"
  BY <1>1, <1>2 DEF Idle
<1>4. QED BY <1>3 DEF Claims, Owned, Connecting, ConnectingSteps, CandidateSteps

(* The steps that move no handle: they may give up a claim to a generation  *)
(* that was never dialled.                                                  *)
Quiet(t) ==
    \/ \E c \in Connections : BeginSave(t, c) \/ BeginDelete(t, c) \/ BeginDisconnect(t, c)
    \/ BeginSnapshot(t)
    \/ ResolveConfig(t) \/ ResolveFails(t) \/ DialFails(t) \/ LockForInstall(t)
    \/ VerifyRevision(t) \/ VerifyFails(t) \/ InstallSuperseded(t)
    \/ SaveCommits(t) \/ DeleteCommits(t) \/ MutationFails(t)
    \/ ReadSnapshot(t) \/ ReadSnapshotFails(t)

LEMMA QuietEffect ==
    ASSUME TypeInv, ClosingInv, NEW t \in Tasks, Quiet(t)
    PROVE  /\ UNCHANGED <<currentIntents, nextIntent, drivers, open, retired, user>>
           /\ \A s \in Tasks \ {t} : task'[s] = task[s]
           /\ Claims(t)' \subseteq Claims(t)
           /\ Owned(t)' = Owned(t)
           /\ task'[t].step # "disconnect" => task'[t].closing = {}
           /\ Connecting(t)' => Connecting(t) /\ task'[t].intent = task[t].intent
<1>1. UNCHANGED <<currentIntents, nextIntent, drivers, open, retired, user>>
  BY DEF Quiet, runtime, handles, BeginSave, BeginDelete, BeginDisconnect, BeginMutation,
     BeginSnapshot, ResolveConfig, ResolveFails, DialFails, LockForInstall, VerifyRevision,
     VerifyFails, InstallSuperseded, SaveCommits, DeleteCommits, CommitMutation,
     MutationFails, ReadSnapshot, ReadSnapshotFails
<1>2. \A s \in Tasks \ {t} : task'[s] = task[s]
  BY OthersKeep DEF Quiet, StartOperation, ContinueOperation
<1>3. task[t] \in Task /\ task \in [Tasks -> Task]
  BY DEF TypeInv, TypeOK
<1> USE DEF Claims, Owned, Connecting, ConnectingSteps, CandidateSteps, ClosingInv
<1>4. CASE \/ \E c \in Connections : BeginSave(t, c) \/ BeginDelete(t, c) \/ BeginDisconnect(t, c)
           \/ BeginSnapshot(t)
  <2>1. /\ task[t].step = "idle"
        /\ task'[t].step \in {"save", "delete", "detach", "snapshot"}
        /\ task'[t].closing = {}
    <3>1. CASE \E c \in Connections : BeginSave(t, c) \/ BeginDelete(t, c) \/ BeginDisconnect(t, c)
      <4>1. PICK c \in Connections, step \in {"save", "delete", "detach"} : BeginMutation(t, c, step)
        BY <3>1 DEF BeginSave, BeginDelete, BeginDisconnect
      <4>2. QED BY <1>3, <4>1 DEF BeginMutation, Idle
    <3>2. CASE BeginSnapshot(t)
      BY <1>3, <3>2 DEF BeginSnapshot, Idle
    <3>3. QED BY <1>4, <3>1, <3>2
  <2>2. QED BY <1>1, <1>2, <2>1
<1>5. CASE ResolveFails(t) \/ DialFails(t) \/ MutationFails(t) \/ ReadSnapshotFails(t)
  <2>1. /\ task[t].step \in {"resolve", "dial", "save", "delete", "snapshot"}
        /\ task'[t].step = "idle"
        /\ task'[t].closing = {}
    BY <1>3, <1>5 DEF ResolveFails, DialFails, MutationFails, ReadSnapshotFails, Idle
  <2>2. QED BY <1>1, <1>2, <2>1
<1>6. CASE ResolveConfig(t)
  <2>1. task[t].step = "resolve"
    BY <1>6 DEF ResolveConfig
  <2>2. task'[t] = [task[t] EXCEPT !.step = "dial", !.rev = revision[task[t].conn]]
    BY <1>3, <1>6 DEF ResolveConfig
  <2>3. /\ task'[t].step = "dial" /\ task'[t].intent = task[t].intent
        /\ task'[t].closing = task[t].closing
    BY <1>3, <2>2 DEF Task
  <2>4. QED BY <1>1, <1>2, <2>1, <2>3
<1>7. CASE LockForInstall(t) \/ VerifyRevision(t) \/ VerifyFails(t)
  <2>1. PICK step \in {"verify", "install", "abort"} : Step(t, step)
    BY <1>7 DEF LockForInstall, VerifyRevision, VerifyFails
  <2>2. /\ task'[t].step = step /\ task'[t].intent = task[t].intent
        /\ task'[t].closing = task[t].closing
    BY <1>3, <2>1, StepKeepsLocals
  <2>3. task[t].step \in {"lock", "verify"}
    BY <1>7 DEF LockForInstall, VerifyRevision, VerifyFails
  <2>4. QED BY <1>1, <1>2, <2>2, <2>3
<1>8. CASE SaveCommits(t) \/ DeleteCommits(t) \/ ReadSnapshot(t)
  <2>1. PICK step \in {"detach", "reconcile"} : Step(t, step)
    BY <1>8 DEF SaveCommits, DeleteCommits, CommitMutation, ReadSnapshot
  <2>2. task'[t].step = step /\ task'[t].closing = task[t].closing
    BY <1>3, <2>1, StepKeepsLocals
  <2>3. task[t].step \in {"save", "delete", "snapshot"}
    BY <1>8 DEF SaveCommits, DeleteCommits, ReadSnapshot
  <2>4. QED BY <1>1, <1>2, <2>2, <2>3
<1>9. CASE InstallSuperseded(t)
  <2>1. task[t].step = "install" /\ DisconnectThen(t, {task[t].intent})
    BY <1>9 DEF InstallSuperseded
  <2>2. {task[t].intent} \in SUBSET Nat
    BY <1>3 DEF Task
  <2>3. /\ Claims(t)' = {task[t].intent} /\ Owned(t)' = {task[t].intent}
        /\ ~Connecting(t)'
        /\ task'[t].step # "disconnect" => task'[t].closing = {}
    BY <2>1, <2>2, DisconnectThenClaims
  <2>4. Claims(t) = {task[t].intent} /\ Owned(t) = {task[t].intent}
    BY <2>1
  <2> HIDE DEF Claims, Owned, Connecting
  <2>5. QED BY <1>1, <1>2, <2>3, <2>4
<1>10. QED BY <1>4, <1>5, <1>6, <1>7, <1>8, <1>9 DEF Quiet

(* A task that is left alone keeps its claims.                              *)
LEMMA SameTaskSameClaims ==
    ASSUME NEW s \in Tasks, task'[s] = task[s]
    PROVE  /\ Claims(s)' = Claims(s) /\ Owned(s)' = Owned(s)
           /\ Connecting(s)' = Connecting(s)
  BY DEF Claims, Owned, Connecting

LEMMA QuietHandles ==
    ASSUME TypeInv, HandleInv, NEW t \in Tasks, Quiet(t)
    PROVE  HandleInv'
<1>1. /\ UNCHANGED <<currentIntents, nextIntent, drivers, open, retired, user>>
      /\ \A s \in Tasks \ {t} : task'[s] = task[s]
      /\ Claims(t)' \subseteq Claims(t)
      /\ Owned(t)' = Owned(t)
      /\ task'[t].step # "disconnect" => task'[t].closing = {}
      /\ Connecting(t)' => Connecting(t) /\ task'[t].intent = task[t].intent
  BY QuietEffect DEF HandleInv
<1>2. \A s \in Tasks : /\ Claims(s)' \subseteq Claims(s)
                       /\ Owned(s)' = Owned(s)
                       /\ Connecting(s)' => Connecting(s) /\ task'[s].intent = task[s].intent
  BY <1>1, SameTaskSameClaims
<1>3. Installed' = Installed
  BY <1>1 DEF Installed
<1>4. ClosingInv'
  BY <1>1 DEF HandleInv, ClosingInv
<1>5. ClaimInv'
  BY <1>1, <1>2, <1>3 DEF HandleInv, ClaimInv
<1>6. InstalledInv'
  BY <1>1 DEF HandleInv, InstalledInv
<1>7. OpenInv'
  BY <1>1, <1>2, <1>3 DEF HandleInv, OpenInv
<1>8. UserInv'
  BY <1>1, <1>2 DEF HandleInv, UserInv
<1>9. QED BY <1>4, <1>5, <1>6, <1>7, <1>8 DEF HandleInv

(* A new attempt draws a generation nobody has claimed, installed or used.  *)
LEMMA BeginConnectHandles ==
    ASSUME TypeInv, IntentInv, HandleInv, NEW t \in Tasks, NEW c \in Connections,
           BeginConnect(t, c)
    PROVE  HandleInv'
<1> DEFINE g == nextIntent + 1
<1>1. /\ nextIntent' = g /\ nextIntent \in Nat
      /\ currentIntents' = [currentIntents EXCEPT ![c] = g]
      /\ UNCHANGED <<drivers, open, retired, user>>
      /\ task[t].step = "idle"
      /\ task'[t].step = "resolve" /\ task'[t].intent = g /\ task'[t].closing = {}
  BY DEF BeginConnect, AdvanceIntent, handles, Idle, TypeInv, TypeOK
<1>2. \A s \in Tasks \ {t} : task'[s] = task[s]
  BY OthersKeep DEF StartOperation
<1>3. Claims(t)' = {g} /\ Connecting(t)' /\ Owned(t)' = {} /\ Owned(t) = {}
  BY <1>1 DEF Claims, Owned, Connecting, ConnectingSteps, CandidateSteps, HandleInv,
     ClosingInv
<1>4. \A s \in Tasks \ {t} : /\ Claims(s)' = Claims(s) /\ Owned(s)' = Owned(s)
                             /\ Connecting(s)' = Connecting(s)
  BY <1>2, SameTaskSameClaims
<1>5. \A s \in Tasks : Owned(s)' = Owned(s)
  BY <1>3, <1>4
<1>6. /\ Installed' = Installed
      /\ \A d \in Connections : drivers[d].generation \in Nat /\ currentIntents[d] \in Nat
      /\ \A d \in Connections : drivers[d].generation <= nextIntent
  BY <1>1 DEF Installed, TypeInv, TypeOK, Driver, NoDriver, HandleInv, InstalledInv,
     IntentInv
<1>7. \A s \in Tasks : Claims(s) \subseteq Nat
  BY DEF Claims, TypeInv, TypeOK, Task
<1>8. ClosingInv'
  BY <1>1, <1>2 DEF HandleInv, ClosingInv
<1>9. ClaimInv'
  <2>1. g \notin Installed
    BY <1>1, <1>6 DEF Installed
  <2>2. \A s \in Tasks : g \notin Claims(s)
    BY <1>1, <1>7 DEF HandleInv, ClaimInv
  <2>3. \A s \in Tasks : Claims(s)' \cap Installed' = {}
    BY <1>3, <1>4, <1>6, <2>1 DEF HandleInv, ClaimInv
  <2>4. \A r, s \in Tasks : r # s => Claims(r)' \cap Claims(s)' = {}
    BY <1>3, <1>4, <2>2 DEF HandleInv, ClaimInv
  <2>5. \A s \in Tasks : \A h \in Claims(s)' : h # NoGeneration /\ h <= nextIntent'
    BY <1>1, <1>3, <1>4, <1>7 DEF HandleInv, ClaimInv
  <2>6. QED BY <2>3, <2>4, <2>5 DEF ClaimInv
<1>10. InstalledInv'
  BY <1>1, <1>6 DEF HandleInv, InstalledInv, TypeInv, TypeOK
<1>11. OpenInv'
  BY <1>1, <1>5, <1>6 DEF HandleInv, OpenInv
<1>12. UserInv'
  <2>1. SUFFICES ASSUME NEW u \in Users
                 PROVE  /\ user'[u].handle <= nextIntent'
                        /\ user'[u].handle # NoGeneration => user'[u].handle \in open' \cup retired'
                        /\ \A s \in Tasks : Connecting(s)' => user'[u].handle # task'[s].intent
                        /\ user'[u].running => user'[u].handle \in open'
    BY DEF UserInv
  <2>2. user[u].handle \in Nat /\ user[u].handle <= nextIntent
    BY DEF TypeInv, TypeOK, User, HandleInv, UserInv
  <2>3. \A s \in Tasks : Connecting(s)' => user[u].handle # task'[s].intent
    BY <1>1, <1>2, <1>4, <2>2 DEF HandleInv, UserInv
  <2>4. QED BY <1>1, <2>2, <2>3 DEF HandleInv, UserInv
<1>13. QED BY <1>8, <1>9, <1>10, <1>11, <1>12 DEF HandleInv

(* A dialled driver is open, and its attempt owns it.                       *)
LEMMA DialHandles ==
    ASSUME TypeInv, HandleInv, NEW t \in Tasks, Dial(t)
    PROVE  HandleInv'
<1>1. /\ UNCHANGED <<currentIntents, nextIntent, drivers, retired, user>>
      /\ open' = open \cup {task[t].intent}
      /\ task[t].step = "dial" /\ task'[t].step = "lock"
      /\ task'[t].intent = task[t].intent /\ task'[t].closing = task[t].closing
  BY StepKeepsLocals DEF Dial, runtime, TypeInv, TypeOK
<1>2. \A s \in Tasks \ {t} : task'[s] = task[s]
  BY OthersKeep DEF ContinueOperation
<1>3. /\ Claims(t)' = Claims(t) /\ Connecting(t)' = Connecting(t) /\ Connecting(t)
      /\ Owned(t)' = {task[t].intent} /\ Owned(t) = {}
  BY <1>1 DEF Claims, Owned, Connecting, ConnectingSteps, CandidateSteps, HandleInv,
     ClosingInv
<1>4. \A s \in Tasks \ {t} : /\ Claims(s)' = Claims(s) /\ Owned(s)' = Owned(s)
                             /\ Connecting(s)' = Connecting(s)
  BY <1>2, SameTaskSameClaims
<1>5. \A s \in Tasks : Claims(s)' = Claims(s)
  BY <1>3, <1>4
<1>6. Installed' = Installed
  BY <1>1 DEF Installed
<1>7. ClosingInv'
  BY <1>1, <1>2 DEF HandleInv, ClosingInv
<1>8. ClaimInv'
  BY <1>1, <1>5, <1>6 DEF HandleInv, ClaimInv
<1>9. InstalledInv'
  BY <1>1 DEF HandleInv, InstalledInv
<1>10. OpenInv'
  BY <1>1, <1>3, <1>4, <1>6 DEF HandleInv, OpenInv
<1>11. UserInv'
  BY <1>1, <1>2, <1>3, <1>4 DEF HandleInv, UserInv
<1>12. QED BY <1>7, <1>8, <1>9, <1>10, <1>11 DEF HandleInv

(* A task closes a handle that it alone owns and that nobody works on.      *)
LEMMA DisposeHandles ==
    ASSUME TypeInv, HandleInv, NEW t \in Tasks, NEW h \in Owned(t),
           UNCHANGED <<currentIntents, nextIntent, drivers, user>>,
           \A s \in Tasks \ {t} : task'[s] = task[s],
           open' = open \ {h},
           retired \subseteq retired',
           Claims(t)' = Claims(t) \ {h}, Owned(t)' = Owned(t) \ {h}, ~Connecting(t)',
           task'[t].step # "disconnect" => task'[t].closing = {},
           \A u \in Users : /\ user[u].running => user[u].handle # h
                            /\ user[u].handle = h => h \in retired'
    PROVE  HandleInv'
<1>1. \A s \in Tasks \ {t} : /\ Claims(s)' = Claims(s) /\ Owned(s)' = Owned(s)
                             /\ Connecting(s)' = Connecting(s)
  BY SameTaskSameClaims
<1>2. Installed' = Installed
  BY DEF Installed
<1>3. h \in Claims(t)
  BY OwnedAreClaimed
<1>4. h \notin Installed /\ \A s \in Tasks \ {t} : h \notin Owned(s)
  BY <1>3, OwnedAreClaimed DEF HandleInv, ClaimInv
<1>5. ClosingInv'
  BY DEF HandleInv, ClosingInv
<1>6. ClaimInv'
  <2>1. \A s \in Tasks : Claims(s)' \subseteq Claims(s)
    BY <1>1
  <2>2. QED BY <1>2, <2>1 DEF HandleInv, ClaimInv
<1>7. InstalledInv'
  BY DEF HandleInv, InstalledInv
<1>8. OpenInv'
  BY <1>1, <1>2, <1>4 DEF HandleInv, OpenInv
<1>9. UserInv'
  BY <1>1 DEF HandleInv, UserInv
<1>10. QED BY <1>5, <1>6, <1>7, <1>8, <1>9 DEF HandleInv

LEMMA AbortHandles ==
    ASSUME TypeInv, HandleInv, NEW t \in Tasks, AbortCandidate(t)
    PROVE  HandleInv'
<1> DEFINE h == task[t].intent
<1>1. /\ UNCHANGED <<currentIntents, nextIntent, drivers, retired, user>>
      /\ open' = open \ {h} /\ task[t].step = "abort"
      /\ task'[t].step = "idle" /\ task'[t].closing = {}
  BY DEF AbortCandidate, runtime, Idle, TypeInv, TypeOK
<1>2. \A s \in Tasks \ {t} : task'[s] = task[s]
  BY OthersKeep DEF ContinueOperation
<1>3. /\ Claims(t) = {h} /\ Owned(t) = {h} /\ Connecting(t)
      /\ Claims(t)' = {} /\ Owned(t)' = {} /\ ~Connecting(t)'
  BY <1>1 DEF Claims, Owned, Connecting, ConnectingSteps, CandidateSteps, HandleInv,
     ClosingInv
<1>4. \A u \in Users : user[u].handle # h
  BY <1>3 DEF HandleInv, UserInv
<1>5. QED
  <2> HIDE DEF h
  <2>1. h \in Owned(t)
    BY <1>3
  <2>2. Claims(t)' = Claims(t) \ {h} /\ Owned(t)' = Owned(t) \ {h}
    BY <1>3
  <2>3. retired \subseteq retired'
    BY <1>1
  <2>4. QED BY <1>1, <1>2, <1>3, <1>4, <2>1, <2>2, <2>3, DisposeHandles

LEMMA DisconnectHandles ==
    ASSUME TypeInv, HandleInv, NEW t \in Tasks, DisconnectAny(t)
    PROVE  HandleInv'
<1>1. PICK h \in task[t].closing : DisconnectHandle(t, h)
  BY DEF DisconnectAny
<1>2. /\ UNCHANGED <<currentIntents, nextIntent, drivers, user>>
      /\ open' = open \ {h} /\ retired' = retired \cup {h}
      /\ task[t].step = "disconnect"
      /\ DisconnectThen(t, task[t].closing \ {h})
      /\ \A u \in Users : user[u].running => user[u].handle # h
  BY <1>1 DEF DisconnectHandle, runtime
<1>3. task[t].closing \ {h} \in SUBSET Nat
  BY DEF TypeInv, TypeOK, Task
<1>4. /\ Claims(t)' = task[t].closing \ {h} /\ Owned(t)' = task[t].closing \ {h}
      /\ ~Connecting(t)'
      /\ task'[t].closing = task[t].closing \ {h}
      /\ task'[t].step # "disconnect" => task[t].closing \ {h} = {}
  BY <1>2, <1>3, DisconnectThenClaims
<1>5. Claims(t) = task[t].closing /\ Owned(t) = task[t].closing
  BY <1>2 DEF Claims, Owned, Connecting, ConnectingSteps, CandidateSteps
<1>6. \A s \in Tasks \ {t} : task'[s] = task[s]
  BY OthersKeep
<1>7. /\ h \in Owned(t)
      /\ Claims(t)' = Claims(t) \ {h} /\ Owned(t)' = Owned(t) \ {h}
      /\ retired \subseteq retired' /\ h \in retired'
      /\ task'[t].step # "disconnect" => task'[t].closing = {}
  BY <1>2, <1>4, <1>5
<1>8. QED BY <1>2, <1>4, <1>6, <1>7, DisposeHandles

LEMMA DriverRange ==
    ASSUME NEW d \in Driver
    PROVE  d.generation \in Nat /\ (d # NoDriver => d.generation # NoGeneration)
  BY DEF Driver, NoDriver

(* An installed generation has been drawn.                                  *)
LEMMA InstalledRange ==
    ASSUME TypeInv, IntentInv, HandleInv
    PROVE  \A h \in Installed : h \in Nat /\ h # NoGeneration /\ h <= nextIntent
<1>1. /\ \A c \in Connections : drivers[c] \in Driver /\ currentIntents[c] \in Nat
      /\ nextIntent \in Nat
  BY DEF TypeInv, TypeOK
<1>2. \A c \in Connections : drivers[c].generation \in Nat
  BY <1>1, DriverRange
<1>3. \A c \in Connections : /\ drivers[c].generation <= currentIntents[c]
                             /\ currentIntents[c] <= nextIntent
  BY DEF HandleInv, InstalledInv, IntentInv
<1>4. ASSUME NEW c \in Connections PROVE drivers[c].generation <= nextIntent
  <2> DEFINE g == drivers[c].generation
             i == currentIntents[c]
  <2>1. g \in Nat /\ i \in Nat /\ nextIntent \in Nat /\ g <= i /\ i <= nextIntent
    BY <1>1, <1>2, <1>3
  <2> HIDE DEF g, i
  <2>2. g <= nextIntent
    BY <2>1
  <2>3. QED BY <2>2 DEF g
<1>5. QED BY <1>2, <1>4 DEF Installed

(* Installing and detaching move handles between the installed sessions and *)
(* one task: the detached ones become the task's, its own becomes a session.*)
LEMMA HandoverHandles ==
    ASSUME TypeInv, IntentInv, HandleInv, NEW t \in Tasks, NEW detached, NEW own,
           \A s \in Tasks \ {t} : task'[s] = task[s],
           nextIntent' \in Nat, nextIntent <= nextIntent',
           UNCHANGED <<open, user>>, retired \subseteq retired',
           detached \subseteq Installed,
           own = Owned(t),
           Installed' = (Installed \ detached) \cup own,
           Claims(t)' = detached, Owned(t)' = detached, ~Connecting(t)',
           task'[t].step # "disconnect" => task'[t].closing = {},
           InstalledInv'
    PROVE  HandleInv'
<1>1. \A s \in Tasks \ {t} : /\ Claims(s)' = Claims(s) /\ Owned(s)' = Owned(s)
                             /\ Connecting(s)' = Connecting(s)
  BY SameTaskSameClaims
<1>2. \A h \in Installed : h \in Nat /\ h # NoGeneration /\ h <= nextIntent
  BY InstalledRange
<1>3. own \subseteq Claims(t)
  BY OwnedAreClaimed
<1>4. ClosingInv'
  BY DEF HandleInv, ClosingInv
<1>5. ClaimInv'
  <2>1. \A s \in Tasks : Claims(s)' \cap Installed' = {}
    BY <1>1, <1>3 DEF HandleInv, ClaimInv
  <2>2. \A r, s \in Tasks : r # s => Claims(r)' \cap Claims(s)' = {}
    BY <1>1 DEF HandleInv, ClaimInv
  <2>3. \A s \in Tasks : \A h \in Claims(s)' : h # NoGeneration /\ h <= nextIntent'
    <3>1. \A s \in Tasks : Claims(s) \subseteq Nat
      BY DEF Claims, TypeInv, TypeOK, Task
    <3>2. nextIntent \in Nat
      BY DEF TypeInv, TypeOK
    <3>3. \A s \in Tasks : \A h \in Claims(s)' : h \in Nat /\ h # NoGeneration /\ h <= nextIntent
      BY <1>1, <1>2, <3>1 DEF HandleInv, ClaimInv
    <3>4. QED BY <3>2, <3>3
  <2>4. QED BY <2>1, <2>2, <2>3 DEF ClaimInv
<1>6. OpenInv'
  <2>1. open = Installed \cup UNION {Owned(s) : s \in Tasks}
    BY DEF HandleInv, OpenInv
  <2>2. \A h : (\E s \in Tasks : h \in Owned(s)')
                 <=> (h \in detached \/ \E s \in Tasks \ {t} : h \in Owned(s))
    BY <1>1
  <2>3. open' = Installed' \cup UNION {Owned(s)' : s \in Tasks}
    BY <2>1, <2>2
  <2>4. QED BY <2>3 DEF OpenInv
<1>7. UserInv'
  <2>1. \A u \in Users : user[u].handle \in Nat /\ nextIntent \in Nat
    BY DEF TypeInv, TypeOK, User
  <2>2. QED BY <1>1, <2>1 DEF HandleInv, UserInv
<1>8. QED BY <1>4, <1>5, <1>6, <1>7 DEF HandleInv

(* The session a detachment of one profile takes, if it has one.             *)
SessionOf(c) == {drivers[c].generation} \ {NoGeneration}

LEMMA SessionIsInstalled ==
    ASSUME TypeInv, NEW c \in Connections
    PROVE  SessionOf(c) \in SUBSET Nat /\ SessionOf(c) \subseteq Installed
<1>1. drivers[c].generation \in Installed \cup {NoGeneration}
  BY DEF Installed
<1>2. drivers[c].generation \in Nat
  BY DEF TypeInv, TypeOK, Driver, NoDriver
<1>3. QED BY <1>1, <1>2 DEF SessionOf

(* Replacing the session of one profile changes just that one.              *)
LEMMA ReplacedInstalled ==
    ASSUME TypeInv, InstalledInv, NEW c \in Connections, NEW d \in Driver,
           drivers' = [drivers EXCEPT ![c] = d]
    PROVE  Installed' = (Installed \ {drivers[c].generation})
                            \cup ({d.generation} \ {NoGeneration})
<1>1. drivers \in [Connections -> Driver]
  BY DEF TypeInv, TypeOK
<1>2. \A b \in Connections : drivers'[b] = IF b = c THEN d ELSE drivers[b]
  BY <1>1
<1>3. Installed' = {drivers'[b].generation : b \in Connections} \ {NoGeneration}
  BY DEF Installed
<1>4. QED BY <1>2, <1>3 DEF InstalledInv, Installed

LEMMA InstallHandles ==
    ASSUME TypeInv, IntentInv, HandleInv, NEW t \in Tasks, InstallReplacing(t)
    PROVE  HandleInv'
<1> DEFINE c == task[t].conn
           g == task[t].intent
           detached == SessionOf(c)
           d == [generation |-> g, profileRevision |-> task[t].rev]
<1>1. /\ c \in Connections /\ g \in Nat \ {NoGeneration} /\ d \in Driver
      /\ task[t].step = "install"
  BY DEF InstallReplacing, TypeInv, TypeOK, Task, Driver, LocalsInv, Connecting,
     ConnectingSteps
<1>2. /\ currentIntents[c] = g
      /\ drivers' = [drivers EXCEPT ![c] = d]
      /\ UNCHANGED <<currentIntents, nextIntent, open, user>>
      /\ retired \subseteq retired'
      /\ DisconnectThen(t, detached)
  BY DEF InstallReplacing, SessionOf
<1>3. Claims(t) = {g} /\ Owned(t) = {g}
  BY <1>1 DEF Claims, Owned, Connecting, ConnectingSteps, CandidateSteps, HandleInv,
     ClosingInv
<1>4. /\ drivers \in [Connections -> Driver]
      /\ \A b \in Connections : drivers[b].generation \in Nat
      /\ nextIntent \in Nat
  BY DEF TypeInv, TypeOK, Driver, NoDriver
<1>5. g \notin Installed
  BY <1>1, <1>3 DEF HandleInv, ClaimInv
<1>6. detached \in SUBSET Nat /\ detached \subseteq Installed
  BY <1>1, SessionIsInstalled
<1>7. /\ Claims(t)' = detached /\ Owned(t)' = detached /\ ~Connecting(t)'
      /\ task'[t].closing = detached
      /\ task'[t].step # "disconnect" => detached = {}
  BY <1>2, <1>6, DisconnectThenClaims
<1>8. Installed' = (Installed \ detached) \cup Owned(t)
  <2>1. d.generation = g
    OBVIOUS
  <2>2. c \in Connections /\ d \in Driver /\ drivers' = [drivers EXCEPT ![c] = d]
    BY <1>1, <1>2
  <2>3. InstalledInv
    BY DEF HandleInv
  <2>4. Owned(t) = {g} /\ g # NoGeneration
    BY <1>1, <1>3
  <2> HIDE DEF c, d, g
  <2>5. Installed' = (Installed \ {drivers[c].generation})
                         \cup ({d.generation} \ {NoGeneration})
    BY <2>2, <2>3, ReplacedInstalled
  <2>6. NoGeneration \notin Installed
    BY DEF Installed
  <2>7. QED BY <2>1, <2>4, <2>5, <2>6 DEF SessionOf
<1>9. InstalledInv'
  <2>1. \A b \in Connections : drivers'[b] = IF b = c THEN d ELSE drivers[b]
    BY <1>2, <1>4
  <2>2. \A b \in Connections : b # c => drivers[b].generation # g
    BY <1>1, <1>5 DEF Installed
  <2>3. d.generation = g
    OBVIOUS
  <2> HIDE DEF d
  <2>4. \A a, b \in Connections :
            a # b /\ drivers'[a].generation = drivers'[b].generation
                => drivers'[a].generation = NoGeneration
    BY <2>1, <2>2, <2>3 DEF HandleInv, InstalledInv
  <2>5. \A b \in Connections : drivers'[b].generation <= currentIntents'[b]
    BY <1>1, <1>2, <2>1, <2>3 DEF HandleInv, InstalledInv
  <2>6. QED BY <2>4, <2>5 DEF InstalledInv
<1>10. \A s \in Tasks \ {t} : task'[s] = task[s]
  BY OthersKeep DEF ContinueOperation
<1>11. nextIntent' \in Nat /\ nextIntent <= nextIntent'
  BY <1>2, <1>4
<1> HIDE DEF detached
<1>12. QED BY <1>2, <1>6, <1>7, <1>8, <1>9, <1>10, <1>11, HandoverHandles

LEMMA DetachHandles ==
    ASSUME TypeInv, IntentInv, HandleInv, NEW t \in Tasks, InvalidateAndDetach(t)
    PROVE  HandleInv'
<1> DEFINE c == task[t].conn
           detached == SessionOf(c)
<1>1. /\ c \in Connections /\ NoDriver \in Driver /\ NoDriver.generation = NoGeneration
      /\ task[t].step = "detach"
  BY DEF InvalidateAndDetach, LocalsInv, TypeInv, Driver, NoDriver
<1>2. /\ nextIntent' = nextIntent + 1
      /\ currentIntents' = [currentIntents EXCEPT ![c] = nextIntent']
      /\ drivers' = [drivers EXCEPT ![c] = NoDriver]
      /\ UNCHANGED <<open, user>>
      /\ retired \subseteq retired'
      /\ DisconnectThen(t, detached)
  BY DEF InvalidateAndDetach, AdvanceIntent, SessionOf
<1>3. Owned(t) = {}
  BY <1>1 DEF Owned, CandidateSteps, HandleInv, ClosingInv
<1>4. /\ drivers \in [Connections -> Driver]
      /\ currentIntents \in [Connections -> Nat]
      /\ \A b \in Connections : drivers[b].generation \in Nat
      /\ nextIntent \in Nat
  BY DEF TypeInv, TypeOK, Driver, NoDriver
<1>5. detached \in SUBSET Nat /\ detached \subseteq Installed
  BY <1>1, SessionIsInstalled
<1>6. /\ Claims(t)' = detached /\ Owned(t)' = detached /\ ~Connecting(t)'
      /\ task'[t].closing = detached
      /\ task'[t].step # "disconnect" => detached = {}
  BY <1>2, <1>5, DisconnectThenClaims
<1>7. Installed' = (Installed \ detached) \cup Owned(t)
  <2>1. Installed' = (Installed \ {drivers[c].generation})
                         \cup ({NoDriver.generation} \ {NoGeneration})
    BY <1>1, <1>2, ReplacedInstalled DEF HandleInv
  <2>2. NoGeneration \notin Installed
    BY DEF Installed
  <2>3. QED BY <1>1, <1>3, <2>1, <2>2 DEF SessionOf
<1>8. InstalledInv'
  <2>1. \A b \in Connections : drivers'[b] = IF b = c THEN NoDriver ELSE drivers[b]
    BY <1>2, <1>4
  <2>2. \A b \in Connections : currentIntents'[b] = IF b = c THEN nextIntent + 1
                                                    ELSE currentIntents[b]
    BY <1>2, <1>4
  <2>3. \A a, b \in Connections :
            a # b /\ drivers'[a].generation = drivers'[b].generation
                => drivers'[a].generation = NoGeneration
    BY <1>1, <2>1 DEF HandleInv, InstalledInv
  <2>4. \A b \in Connections : drivers'[b].generation <= currentIntents'[b]
    BY <1>1, <1>4, <2>1, <2>2 DEF HandleInv, InstalledInv
  <2>5. QED BY <2>3, <2>4 DEF InstalledInv
<1>9. \A s \in Tasks \ {t} : task'[s] = task[s]
  BY OthersKeep DEF ContinueOperation
<1>10. nextIntent' \in Nat /\ nextIntent <= nextIntent'
  BY <1>2, <1>4
<1> HIDE DEF detached
<1>11. QED BY <1>2, <1>5, <1>6, <1>7, <1>8, <1>9, <1>10, HandoverHandles

LEMMA ReconcileHandles ==
    ASSUME TypeInv, IntentInv, HandleInv, NEW t \in Tasks, Reconcile(t)
    PROVE  HandleInv'
<1> DEFINE detached == {drivers[c].generation : c \in Stale}
<1>1. /\ task[t].step = "reconcile"
      /\ drivers' = [c \in Connections |-> IF c \in Stale THEN NoDriver ELSE drivers[c]]
      /\ UNCHANGED <<currentIntents, nextIntent, open, user>>
      /\ retired \subseteq retired'
      /\ DisconnectThen(t, detached)
  BY DEF Reconcile
<1>2. /\ \A c \in Connections : drivers[c] \in Driver /\ drivers[c].generation \in Nat
      /\ \A c \in Connections : drivers[c] # NoDriver => drivers[c].generation # NoGeneration
      /\ NoDriver.generation = NoGeneration
      /\ \A c \in Stale : c \in Connections /\ drivers[c] # NoDriver
      /\ nextIntent \in Nat /\ \A c \in Connections : currentIntents[c] \in Nat
  BY DEF TypeInv, TypeOK, Driver, NoDriver, Stale
<1>3. Owned(t) = {}
  BY <1>1 DEF Owned, CandidateSteps, HandleInv, ClosingInv
<1>4. detached \in SUBSET Nat /\ detached \subseteq Installed
  BY <1>2 DEF Installed
<1>5. /\ Claims(t)' = detached /\ Owned(t)' = detached /\ ~Connecting(t)'
      /\ task'[t].closing = detached
      /\ task'[t].step # "disconnect" => detached = {}
  BY <1>1, <1>4, DisconnectThenClaims
<1>6. \A c \in Connections : drivers'[c] = IF c \in Stale THEN NoDriver ELSE drivers[c]
  BY <1>1
<1>7. Installed' = (Installed \ detached) \cup Owned(t)
  <2>1. Installed' = {drivers'[c].generation : c \in Connections} \ {NoGeneration}
    BY DEF Installed
  <2>2. QED BY <1>2, <1>3, <1>6, <2>1 DEF Installed, HandleInv, InstalledInv
<1>8. InstalledInv'
  BY <1>1, <1>2, <1>6 DEF HandleInv, InstalledInv
<1>9. \A s \in Tasks \ {t} : task'[s] = task[s]
  BY OthersKeep DEF ContinueOperation
<1>10. nextIntent' \in Nat /\ nextIntent <= nextIntent'
  BY <1>1, <1>2
<1> HIDE DEF detached
<1>11. QED BY <1>1, <1>4, <1>5, <1>7, <1>8, <1>9, <1>10, HandoverHandles

LEMMA OperationHandles ==
    ASSUME TypeInv, IntentInv, HandleInv, NEW t \in Tasks,
           \/ StartOperation(t) \/ ContinueOperation(t)
           \/ LockForInstall(t) \/ DisconnectAny(t)
    PROVE  HandleInv'
<1>1. \/ \E c \in Connections : BeginConnect(t, c)
      \/ Quiet(t) \/ Dial(t) \/ AbortCandidate(t) \/ DisconnectAny(t)
      \/ InstallReplacing(t) \/ InvalidateAndDetach(t) \/ Reconcile(t)
  BY DEF StartOperation, ContinueOperation, Quiet
<1>2. QED
  BY <1>1, BeginConnectHandles, QuietHandles, DialHandles, AbortHandles, DisconnectHandles,
     InstallHandles, DetachHandles, ReconcileHandles

(* Work takes an installed handle and runs on it only while it is open.     *)
LEMMA UserHandles ==
    ASSUME TypeInv, IntentInv, HandleInv, NEW u \in Users,
           \/ \E c \in Connections : TakeHandle(u, c)
           \/ LockActive(u)
           \/ FinishWork(u)
    PROVE  HandleInv'
<1>1. UNCHANGED <<currentIntents, nextIntent, drivers, open, retired, task>>
  BY DEF TakeHandle, LockActive, FinishWork, runtime, handles
<1>2. /\ user \in [Users -> User] /\ user[u] \in User
      /\ Rest.handle = NoGeneration /\ ~Rest.running
      /\ nextIntent \in Nat
  BY DEF TypeInv, TypeOK, Rest
<1>3. /\ \A v \in Users \ {u} : user'[v] = user[v]
      /\ \/ user'[u] = Rest
         \/ /\ user'[u].handle = user[u].handle
            /\ user[u].handle # NoGeneration /\ user[u].handle \notin retired
         \/ /\ user'[u].handle \in Installed /\ ~user'[u].running
  <2>1. ASSUME NEW c \in Connections, TakeHandle(u, c)
        PROVE  /\ \A v \in Users \ {u} : user'[v] = user[v]
               /\ user'[u].handle \in Installed /\ ~user'[u].running
    <3>1. user'[u] = [user[u] EXCEPT !.handle = drivers[c].generation]
      BY <1>2, <2>1 DEF TakeHandle
    <3>2. user'[u].handle = drivers[c].generation /\ user'[u].running = user[u].running
      BY <1>2, <3>1 DEF User
    <3>3. drivers[c] # NoDriver /\ drivers[c] \in Driver /\ user[u] = Rest
      BY <2>1 DEF TakeHandle, TypeInv, TypeOK
    <3>4. QED BY <1>2, <2>1, <3>2, <3>3 DEF TakeHandle, Driver, Installed
  <2>2. CASE LockActive(u)
    <3>1. /\ user[u].handle # NoGeneration
          /\ \A v \in Users \ {u} : user'[v] = user[v]
          /\ user'[u] = IF user[u].handle \in retired THEN Rest
                        ELSE [user[u] EXCEPT !.running = TRUE]
      BY <1>2, <2>2 DEF LockActive
    <3>2. [user[u] EXCEPT !.running = TRUE].handle = user[u].handle
      BY <1>2 DEF User
    <3>3. QED BY <3>1, <3>2
  <2>3. CASE FinishWork(u)
    BY <1>2, <2>3 DEF FinishWork
  <2>4. QED BY <2>1, <2>2, <2>3
<1>4. /\ \A s \in Tasks : /\ Claims(s)' = Claims(s) /\ Owned(s)' = Owned(s)
                          /\ Connecting(s)' = Connecting(s)
      /\ Installed' = Installed
  BY <1>1, SameTaskSameClaims DEF Installed
<1>5. ClosingInv' /\ ClaimInv' /\ InstalledInv' /\ OpenInv'
  BY <1>1, <1>4 DEF HandleInv, ClosingInv, ClaimInv, InstalledInv, OpenInv
<1>6. \A h \in Installed : /\ h <= nextIntent /\ h # NoGeneration /\ h \in open
                           /\ \A t \in Tasks : Connecting(t) => h # task[t].intent
  <2>1. Installed \subseteq open
    BY DEF HandleInv, OpenInv
  <2>2. \A h \in Installed : \A t \in Tasks : Connecting(t) => h # task[t].intent
    BY DEF HandleInv, ClaimInv, Claims
  <2>3. QED BY InstalledRange, <2>1, <2>2
<1>7. UserInv'
  <2>1. /\ user'[u].handle <= nextIntent
        /\ user'[u].handle # NoGeneration => user'[u].handle \in open \cup retired
        /\ \A t \in Tasks : Connecting(t) => user'[u].handle # task[t].intent
        /\ user'[u].running => user'[u].handle \in open
    <3>1. CASE user'[u] = Rest
      <4>1. \A t \in Tasks : Connecting(t) => NoGeneration # task[t].intent
        BY DEF TypeInv, LocalsInv
      <4>2. QED BY <1>2, <3>1, <4>1
    <3>2. CASE /\ user'[u].handle = user[u].handle
               /\ user[u].handle # NoGeneration /\ user[u].handle \notin retired
      BY <3>2 DEF HandleInv, UserInv
    <3>3. CASE user'[u].handle \in Installed /\ ~user'[u].running
      BY <1>6, <3>3
    <3>4. QED BY <1>3, <3>1, <3>2, <3>3
  <2>2. QED BY <1>1, <1>3, <1>4, <2>1 DEF HandleInv, UserInv
<1>8. QED BY <1>5, <1>7 DEF HandleInv

-----------------------------------------------------------------------------
(* The abstract slots                                                       *)

LEMMA InitSlots == Init => Slots!Init
  BY DEF Init, Slots!Init, NoDriver

(* Only four kinds of step touch what the slots show.                       *)
LEMMA SlotsKept ==
    ASSUME NEW t \in Tasks,
           Quiet(t) \/ Dial(t) \/ AbortCandidate(t) \/ DisconnectAny(t)
    PROVE  UNCHANGED <<drivers, currentIntents, nextIntent>>
  BY DEF Quiet, runtime, BeginSave, BeginDelete, BeginDisconnect, BeginMutation,
     BeginSnapshot, ResolveConfig, ResolveFails, DialFails, LockForInstall, VerifyRevision,
     VerifyFails, InstallSuperseded, SaveCommits, DeleteCommits, CommitMutation,
     MutationFails, ReadSnapshot, ReadSnapshotFails, Dial, AbortCandidate, DisconnectAny,
     DisconnectHandle

(* Every step of an operation is a step of the slots, or changes none.      *)
LEMMA OperationSlots ==
    ASSUME TypeInv, IntentInv, HandleInv, NEW t \in Tasks,
           \/ StartOperation(t) \/ ContinueOperation(t)
           \/ LockForInstall(t) \/ DisconnectAny(t)
    PROVE  [Slots!Next]_(Slots!slots)
<1> DEFINE shown == [c \in Connections |-> drivers[c].generation]
<1>1. ASSUME NEW c \in Connections, BeginConnect(t, c) PROVE Slots!Reserve(c)
  BY <1>1 DEF BeginConnect, AdvanceIntent, Slots!Reserve, Slots!Draw
<1>2. CASE InstallReplacing(t)
  <2> DEFINE c == task[t].conn
             g == task[t].intent
             d == [generation |-> g, profileRevision |-> task[t].rev]
  <2>1. /\ c \in Connections /\ g \in Nat \ {NoGeneration}
        /\ task[t].step = "install"
    BY <1>2 DEF InstallReplacing, TypeInv, TypeOK, Task, LocalsInv, Connecting,
       ConnectingSteps
  <2>2. /\ currentIntents[c] = g
        /\ drivers' = [drivers EXCEPT ![c] = d]
        /\ UNCHANGED <<currentIntents, nextIntent>>
    BY <1>2 DEF InstallReplacing
  <2>3. drivers \in [Connections -> Driver] /\ drivers[c].generation \in Nat
    BY <2>1, DriverRange DEF TypeInv, TypeOK
  <2>4. drivers[c].generation < g
    <3>1. g \in Claims(t)
      BY <2>1 DEF Claims, Connecting, ConnectingSteps
    <3>2. g \notin Installed
      BY <3>1 DEF HandleInv, ClaimInv
    <3>3. drivers[c].generation # g
      BY <2>1, <3>2 DEF Installed
    <3>4. drivers[c].generation <= g
      BY <2>1, <2>2 DEF HandleInv, InstalledInv
    <3>5. QED BY <2>1, <2>3, <3>3, <3>4
  <2>5. shown' = [shown EXCEPT ![c] = g]
    <3>1. d.generation = g
      OBVIOUS
    <3> HIDE DEF d
    <3>2. \A b \in Connections : drivers'[b].generation = IF b = c THEN g
                                                          ELSE drivers[b].generation
      BY <2>1, <2>2, <2>3, <3>1
    <3>3. QED BY <2>1, <3>2
  <2>6. shown[c] = drivers[c].generation
    BY <2>1
  <2> HIDE DEF d, g, c
  <2>7. PICK b \in Connections : b = c
    BY <2>1
  <2>8. Slots!Fill(b)
    BY <2>2, <2>4, <2>5, <2>6, <2>7 DEF Slots!Fill
  <2>9. QED BY <2>8 DEF Slots!Next
<1>3. CASE InvalidateAndDetach(t)
  <2> DEFINE c == task[t].conn
  <2>1. c \in Connections
    BY <1>3 DEF InvalidateAndDetach, LocalsInv, TypeInv
  <2>2. /\ nextIntent' = nextIntent + 1
        /\ currentIntents' = [currentIntents EXCEPT ![c] = nextIntent']
        /\ drivers' = [drivers EXCEPT ![c] = NoDriver]
        /\ drivers \in [Connections -> Driver]
    BY <1>3 DEF InvalidateAndDetach, AdvanceIntent, TypeInv, TypeOK
  <2>3. \A b \in Connections : drivers'[b].generation = IF b = c THEN 0
                                                        ELSE drivers[b].generation
    BY <2>1, <2>2 DEF NoDriver
  <2> HIDE DEF c
  <2>4. shown' = [shown EXCEPT ![c] = 0]
    BY <2>1, <2>3
  <2>5. PICK b \in Connections : b = c
    BY <2>1
  <2>6. Slots!Revoke(b)
    BY <2>2, <2>4, <2>5 DEF Slots!Revoke, Slots!Draw
  <2>7. QED BY <2>6 DEF Slots!Next
<1>4. CASE Reconcile(t)
  <2>1. /\ drivers' = [c \in Connections |-> IF c \in Stale THEN NoDriver ELSE drivers[c]]
        /\ UNCHANGED <<currentIntents, nextIntent>>
    BY <1>4 DEF Reconcile
  <2>2. shown' = [c \in Connections |-> IF c \in Stale THEN 0 ELSE shown[c]]
    BY <2>1 DEF NoDriver
  <2>3. PICK stale \in SUBSET Connections : stale = Stale
    BY DEF Stale
  <2>4. Slots!Evict(stale)
    BY <2>1, <2>2, <2>3 DEF Slots!Evict
  <2>5. QED BY <2>4 DEF Slots!Next
<1>5. CASE Quiet(t) \/ Dial(t) \/ AbortCandidate(t) \/ DisconnectAny(t)
  BY <1>5, SlotsKept DEF Slots!slots
<1>6. \/ \E c \in Connections : BeginConnect(t, c)
      \/ Quiet(t) \/ Dial(t) \/ AbortCandidate(t) \/ DisconnectAny(t)
      \/ InstallReplacing(t) \/ InvalidateAndDetach(t) \/ Reconcile(t)
  BY DEF StartOperation, ContinueOperation, Quiet
<1>7. QED
  <2>1. CASE \E c \in Connections : BeginConnect(t, c)
    BY <1>1, <2>1 DEF Slots!Next
  <2>2. QED BY <1>2, <1>3, <1>4, <1>5, <1>6, <2>1

-----------------------------------------------------------------------------
(* The theorems                                                             *)

(* What the theorems rest on.                                               *)
IInv ==
    /\ TypeInv /\ LockInv /\ IntentInv /\ RevisionInv /\ HandleInv
    /\ InvalidatedStaysGone /\ NoSessionBeforeSave

LEMMA InitHandles == Init => HandleInv
<1>1. SUFFICES ASSUME Init PROVE HandleInv
  OBVIOUS
<1>2. /\ \A c \in Connections : drivers[c].generation = NoGeneration /\ currentIntents[c] = 0
      /\ \A t \in Tasks : task[t].step = "idle" /\ task[t].closing = {}
      /\ \A u \in Users : user[u].handle = NoGeneration /\ ~user[u].running
      /\ open = {} /\ nextIntent = 0
  BY <1>1 DEF Init, NoDriver, Idle, Rest
<1>3. \A t \in Tasks : Claims(t) = {} /\ Owned(t) = {} /\ ~Connecting(t)
  BY <1>2 DEF Claims, Owned, Connecting, ConnectingSteps, CandidateSteps
<1>4. Installed = {}
  BY <1>2 DEF Installed
<1>5. QED
  BY <1>2, <1>3, <1>4
  DEF HandleInv, ClosingInv, ClaimInv, InstalledInv, OpenInv, UserInv

LEMMA InitIInv == Init => IInv
<1>1. SUFFICES ASSUME Init PROVE IInv
  OBVIOUS
<1>2. TypeInv
  BY <1>1, InitTypeInv
<1>3. LockInv /\ IntentInv /\ RevisionInv
  BY <1>1 DEF Init, LockInv, LockedSteps, IntentInv, RevisionInv, Connecting,
     ConnectingSteps, Idle
<1>4. InvalidatedStaysGone /\ NoSessionBeforeSave
  BY <1>1 DEF Init, InvalidatedStaysGone, NoSessionBeforeSave
<1>5. QED BY <1>1, <1>2, <1>3, <1>4, InitHandles DEF IInv

(* Nothing about handles depends on the repository.                         *)
LEMMA HandlesKept ==
    ASSUME HandleInv,
           UNCHANGED <<currentIntents, nextIntent, drivers, open, retired, task, user>>
    PROVE  HandleInv'
<1>1. /\ \A s \in Tasks : /\ Claims(s)' = Claims(s) /\ Owned(s)' = Owned(s)
                          /\ Connecting(s)' = Connecting(s)
      /\ Installed' = Installed
  BY SameTaskSameClaims DEF Installed
<1>2. ClosingInv' /\ InstalledInv'
  BY DEF HandleInv, ClosingInv, InstalledInv
<1>3. ClaimInv' /\ OpenInv'
  BY <1>1 DEF HandleInv, ClaimInv, OpenInv
<1>4. UserInv'
  BY <1>1 DEF HandleInv, UserInv
<1>5. QED BY <1>2, <1>3, <1>4 DEF HandleInv

LEMMA IInvStep == IInv /\ [Next]_vars => IInv'
<1>1. SUFFICES ASSUME IInv, [Next]_vars PROVE IInv'
  OBVIOUS
<1>2. TypeInv'
  BY <1>1, TypeInvStep DEF IInv
<1>3. CASE \E t \in Tasks : \/ StartOperation(t) \/ ContinueOperation(t)
                            \/ LockForInstall(t) \/ DisconnectAny(t)
  BY <1>1, <1>2, <1>3, LockStep, IntentStep, InvalidatedStep, RevisionStep,
     NoSessionBeforeSaveStep, OperationHandles DEF IInv
<1>4. CASE \E u \in Users : \/ \E c \in Connections : TakeHandle(u, c)
                            \/ LockActive(u)
                            \/ FinishWork(u)
  <2>1. UNCHANGED <<repository, runtime, globalLifecycle, task>>
    BY <1>4 DEF TakeHandle, LockActive, FinishWork
  <2>2. HandleInv'
    BY <1>1, <1>4, UserHandles DEF IInv
  <2>3. QED
    BY <1>1, <1>2, <2>1, <2>2 DEF IInv, LockInv, IntentInv, RevisionInv,
       InvalidatedStaysGone, NoSessionBeforeSave, MutationPending, Connecting, repository,
       runtime
<1>5. CASE \E c \in Connections, deleted \in BOOLEAN : ExternalCommit(c, deleted)
  <2>1. PICK c \in Connections, deleted \in BOOLEAN : ExternalCommit(c, deleted)
    BY <1>5
  <2>2. UNCHANGED <<appRevision, runtime, handles, globalLifecycle, task, user>>
    BY <2>1 DEF ExternalCommit
  <2>3. RevisionInv'
    BY <1>1, <2>1, <2>2
    DEF IInv, TypeInv, TypeOK, RevisionInv, ExternalCommit, CommitProfile
  <2>4. HandleInv'
    BY <1>1, <2>2, HandlesKept DEF IInv, runtime, handles
  <2>5. QED
    BY <1>1, <1>2, <2>2, <2>3, <2>4 DEF IInv, LockInv, IntentInv, InvalidatedStaysGone,
       NoSessionBeforeSave, MutationPending, Connecting, runtime
<1>6. CASE UNCHANGED vars
  <2>1. HandleInv'
    BY <1>1, <1>6, HandlesKept DEF IInv, vars, runtime, handles
  <2>2. QED
    BY <1>1, <1>2, <1>6, <2>1 DEF IInv, LockInv, IntentInv, RevisionInv,
       InvalidatedStaysGone, NoSessionBeforeSave, MutationPending, Connecting, vars,
       repository, runtime
<1>7. QED BY <1>1, <1>3, <1>4, <1>5, <1>6 DEF Next

(* A connect that was overtaken by a save, a delete or a disconnect of its  *)
(* profile never installs its session, in any interleaving of any number of *)
(* operations (connection_runtime/state.rs, install_replacing_if_current).  *)
THEOREM InvalidatedNeverReturns == Spec => []InvalidatedStaysGone
<1>1. Spec => []IInv
  BY InitIInv, IInvStep, PTL DEF Spec
<1>2. QED BY <1>1, PTL DEF IInv

(* Outside the stretch in which a save or delete is about to detach it, no  *)
(* installed session predates the App's last write of its profile           *)
(* (application/connections.rs, save_profile and delete_profile).           *)
THEOREM SavesEndOlderSessions == Spec => []NoSessionBeforeSave
<1>1. Spec => []IInv
  BY InitIInv, IInvStep, PTL DEF Spec
<1>2. QED BY <1>1, PTL DEF IInv

(* No server connection is leaked, closed twice or closed under its work:   *)
(* an open handle is the session of just one profile or in the hands of     *)
(* just one task that disposes of it, and work never runs on a closed one   *)
(* (connection_runtime/, application/connections.rs).                       *)
THEOREM HandlesHaveOwners == Spec => []HandlesAreOwned
<1>1. Spec => []IInv
  BY InitIInv, IInvStep, PTL DEF Spec
<1>2. IInv => HandlesAreOwned
  <2>1. SUFFICES ASSUME HandleInv PROVE HandlesAreOwned
    BY DEF IInv
  <2>2. \A s, t \in Tasks : s # t => Owned(s) \cap Owned(t) = {}
    BY <2>1, OwnedAreClaimed DEF HandleInv, ClaimInv
  <2>3. \A t \in Tasks : Owned(t) \cap Installed = {}
    BY <2>1, OwnedAreClaimed DEF HandleInv, ClaimInv
  <2>4. QED
    BY <2>1, <2>2, <2>3
    DEF HandleInv, OpenInv, UserInv, HandlesAreOwned, NoLeakedSession,
        NoWorkOnClosedDriver
<1>3. QED BY <1>1, <1>2, PTL

(* The tasks, locks and handles of the runtime implement one slot per       *)
(* profile, filled only by the newest ticket and emptied for every older    *)
(* one (connection_runtime/state.rs).                                       *)
THEOREM RuntimeImplementsSlots == Spec => ImplementsSlots
<1>1. Spec => []IInv
  BY InitIInv, IInvStep, PTL DEF Spec
<1>2. Init => Slots!Init
  BY InitSlots
<1>3. IInv /\ [Next]_vars => [Slots!Next]_(Slots!slots)
  <2>1. SUFFICES ASSUME IInv, [Next]_vars PROVE [Slots!Next]_(Slots!slots)
    OBVIOUS
  <2>2. CASE \E t \in Tasks : \/ StartOperation(t) \/ ContinueOperation(t)
                              \/ LockForInstall(t) \/ DisconnectAny(t)
    BY <2>1, <2>2, OperationSlots DEF IInv
  <2>3. CASE \/ \E u \in Users : \/ \E c \in Connections : TakeHandle(u, c)
                                 \/ LockActive(u)
                                 \/ FinishWork(u)
             \/ \E c \in Connections, deleted \in BOOLEAN : ExternalCommit(c, deleted)
             \/ UNCHANGED vars
    <3>1. UNCHANGED <<drivers, currentIntents, nextIntent>>
      BY <2>3 DEF TakeHandle, LockActive, FinishWork, ExternalCommit, vars, runtime
    <3>2. QED BY <3>1 DEF Slots!slots
  <2>4. QED BY <2>1, <2>2, <2>3 DEF Next
<1>4. QED BY <1>1, <1>2, <1>3, PTL DEF Spec, ImplementsSlots, Slots!Spec
=============================================================================
