---------------------- MODULE ConnectionWorkspaceProofs ----------------------
(***************************************************************************)
(* TLAPS proofs about ConnectionWorkspace: however many tasks run and in   *)
(* whatever order their results come, the panel never goes back to an      *)
(* older snapshot, what it lists belongs to the session it shows, and a    *)
(* panel that comes to rest shows what there is.  In the last part, proofs *)
(* about the database drivers (Drivers).                                   *)
(***************************************************************************)
EXTENDS ConnectionWorkspace, DatabaseDrivers, Integers, Sequences, TLAPS

-----------------------------------------------------------------------------
(* The inductive invariant *)

\* The part of the types the argument needs; nothing is bounded.
PanelTypes ==
  /\ session \in [Profiles -> Nat] /\ sessions \in Nat /\ usage \in SUBSET Profiles
  /\ version \in [{"manager", "registry"} -> Nat]
  /\ prompt \in Profiles \cup {None}
  /\ shown \in Snapshot \cup {None}
  /\ epoch \in Nat \ {0}

TaskTypes ==
  /\ tasks \in [DOMAIN tasks -> Task]
  /\ DOMAIN tasks \subseteq 1..epoch
  /\ \A t \in DOMAIN tasks : tasks[t].kind # "refresh" => tasks[t].profile \in Profiles

ListTypes ==
  /\ lists \in [Profiles -> List]
  /\ requests \in Nat
  /\ loads \in [DOMAIN loads -> Load]

\* What is shown is not newer than what there is.
ShownIsPast ==
  shown # None => /\ shown.manager.version <= version["manager"]
                  /\ shown.registry.version <= version["registry"]

\* What a task read is not newer than what there is; and when the task is
\* the one the panel waits for, it is not older than what is shown.
TaskFresh(t) ==
  /\ tasks[t].manager # None =>
       /\ tasks[t].manager.version <= version["manager"]
       /\ t = epoch /\ shown # None => shown.manager.version <= tasks[t].manager.version
  /\ tasks[t].registry # None =>
       /\ tasks[t].registry.version <= version["registry"]
       /\ t = epoch /\ shown # None => shown.registry.version <= tasks[t].registry.version

Fresh == ShownIsPast /\ \A t \in DOMAIN tasks : TaskFresh(t)

Inv == PanelTypes /\ TaskTypes /\ ListTypes /\ Fresh /\ ListsBelongToShownSession

\* What a step does to the tasks when it shows nothing new: tasks may go,
\* read their two parts, or begin under the next epoch.
Carries ==
  /\ epoch' \in {epoch, epoch + 1}
  /\ tasks' \in [DOMAIN tasks' -> Task]
  /\ DOMAIN tasks' \subseteq 1..epoch'
  /\ \A t \in DOMAIN tasks' : tasks'[t].kind # "refresh" => tasks'[t].profile \in Profiles
  /\ \A t \in DOMAIN tasks' :
       \/ /\ t \in DOMAIN tasks
          /\ tasks'[t].manager \in {tasks[t].manager, Manager}
          /\ tasks'[t].registry \in {tasks[t].registry, Registry}
       \/ t = epoch + 1 /\ tasks'[t].manager = None /\ tasks'[t].registry = None

Later ==
  /\ version' \in [{"manager", "registry"} -> Nat]
  /\ version'["manager"] >= version["manager"]
  /\ version'["registry"] >= version["registry"]

-----------------------------------------------------------------------------
(* Lemmas about the parts *)

\* The two parts of a snapshot, as they are read.
LEMMA PartsTyped ==
  ASSUME PanelTypes
  PROVE  /\ Manager \in ManagerPart /\ Manager.version = version["manager"]
         /\ Registry \in RegistryPart /\ Registry.version = version["registry"]
  BY DEF PanelTypes, Manager, Registry, ManagerPart, RegistryPart, SessionMaps

\* A new task has read nothing.
LEMMA NewTaskTyped ==
  ASSUME NEW kind \in {"refresh", "connect", "disconnect", "delete"},
         NEW p \in Profiles \cup {None}
  PROVE  /\ NewTask(kind, p) \in Task
         /\ NewTask(kind, p).kind = kind /\ NewTask(kind, p).profile = p
         /\ NewTask(kind, p).manager = None /\ NewTask(kind, p).registry = None
  BY DEF NewTask, Task

\* The session a snapshot shows for a profile.
LEMMA SessionTyped ==
  ASSUME NEW snapshot \in Snapshot \cup {None}, NEW p \in Profiles
  PROVE  SessionIn(snapshot, p) \in Nat
  <1>1. CASE snapshot = None
    BY <1>1 DEF SessionIn, ListedIn
  <1>2. CASE snapshot \in Snapshot
    BY <1>2 DEF SessionIn, ListedIn, Snapshot, ManagerPart, SessionMaps
  <1> QED BY <1>1, <1>2

\* Adding a task under the next epoch, to all tasks or to all but one.
LEMMA AddCarries ==
  ASSUME PanelTypes, TaskTypes, NEW t,
         NEW others \in {tasks, Remove(tasks, t)},
         NEW kind \in {"refresh", "connect", "disconnect", "delete"},
         NEW p \in Profiles \cup {None}, kind # "refresh" => p \in Profiles,
         epoch' = epoch + 1, tasks' = Add(others, epoch + 1, NewTask(kind, p))
  PROVE  Carries
  <1> DEFINE new == NewTask(kind, p)
  <1>1. /\ new \in Task /\ new.manager = None /\ new.registry = None
        /\ new.kind = kind /\ new.profile = p
    BY NewTaskTyped
  <1>2. /\ others \in [DOMAIN others -> Task] /\ DOMAIN others \subseteq DOMAIN tasks
        /\ \A u \in DOMAIN others : others[u] = tasks[u]
    BY DEF Remove, TaskTypes
  <1> HIDE DEF new
  <1>3. /\ tasks' \in [DOMAIN others \cup {epoch + 1} -> Task]
        /\ DOMAIN tasks' = DOMAIN others \cup {epoch + 1}
        /\ tasks'[epoch + 1] = new
        /\ \A u \in DOMAIN others \ {epoch + 1} : tasks'[u] = others[u]
    BY <1>1, <1>2 DEF new, Add
  <1>4. DOMAIN tasks' \subseteq 1..epoch'
    BY <1>2, <1>3 DEF PanelTypes, TaskTypes
  <1>5. ASSUME NEW u \in DOMAIN tasks', u # epoch + 1
        PROVE  u \in DOMAIN tasks /\ tasks'[u] = tasks[u]
    BY <1>2, <1>3, <1>5
  <1>6. \A u \in DOMAIN tasks' : tasks'[u].kind # "refresh" => tasks'[u].profile \in Profiles
    BY <1>1, <1>3, <1>5 DEF TaskTypes
  <1> QED BY <1>1, <1>3, <1>4, <1>5, <1>6 DEF Carries

LEMMA RemoveCarries ==
  ASSUME PanelTypes, TaskTypes, NEW t, epoch' = epoch, tasks' = Remove(tasks, t)
  PROVE  Carries
  BY DEF Remove, PanelTypes, TaskTypes, Carries

LEMMA SameCarries ==
  ASSUME PanelTypes, TaskTypes, epoch' = epoch, tasks' = tasks
  PROVE  Carries
  BY DEF PanelTypes, TaskTypes, Carries

\* A task ends its effect, or reads a part.
LEMMA EffectCarries ==
  ASSUME PanelTypes, TaskTypes, NEW t \in DOMAIN tasks, NEW connected \in BOOLEAN,
         epoch' = epoch, Effect(t, connected)
  PROVE  Carries
  <1>1. tasks[t] \in Task
    BY DEF TaskTypes
  <1>2. [[tasks[t] EXCEPT !.done = TRUE] EXCEPT !.connected = connected] \in Task
    BY <1>1 DEF Task
  <1> DEFINE new == [[tasks[t] EXCEPT !.done = TRUE] EXCEPT !.connected = connected]
  <1>3. /\ new.manager = tasks[t].manager /\ new.registry = tasks[t].registry
        /\ new.kind = tasks[t].kind /\ new.profile = tasks[t].profile
    BY <1>1 DEF Task
  <1>4. tasks' = [tasks EXCEPT ![t] = new]
    BY <1>1 DEF Effect, TaskTypes, Task
  <1> HIDE DEF new
  <1> QED BY <1>2, <1>3, <1>4 DEF PanelTypes, TaskTypes, Carries, new

LEMMA ReadCarries ==
  ASSUME PanelTypes, TaskTypes, NEW t \in DOMAIN tasks, epoch' = epoch,
         \/ tasks' = [tasks EXCEPT ![t].manager = Manager]
         \/ tasks' = [tasks EXCEPT ![t].registry = Registry]
  PROVE  Carries
  <1>1. tasks[t] \in Task
    BY DEF TaskTypes
  <1>2. CASE tasks' = [tasks EXCEPT ![t].manager = Manager]
    <2> DEFINE new == [tasks[t] EXCEPT !.manager = Manager]
    <2>1. new \in Task /\ new.manager = Manager /\ new.registry = tasks[t].registry
          /\ new.kind = tasks[t].kind /\ new.profile = tasks[t].profile
      BY <1>1, PartsTyped DEF Task
    <2>2. tasks' = [tasks EXCEPT ![t] = new]
      BY <1>2 DEF TaskTypes
    <2> HIDE DEF new
    <2> QED BY <2>1, <2>2 DEF PanelTypes, TaskTypes, Carries
  <1>3. CASE tasks' = [tasks EXCEPT ![t].registry = Registry]
    <2> DEFINE new == [tasks[t] EXCEPT !.registry = Registry]
    <2>1. new \in Task /\ new.registry = Registry /\ new.manager = tasks[t].manager
          /\ new.kind = tasks[t].kind /\ new.profile = tasks[t].profile
      BY <1>1, PartsTyped DEF Task
    <2>2. tasks' = [tasks EXCEPT ![t] = new]
      BY <1>3 DEF TaskTypes
    <2> HIDE DEF new
    <2> QED BY <2>1, <2>2 DEF PanelTypes, TaskTypes, Carries
  <1> QED BY <1>2, <1>3

\* Nothing new is shown: a task that is waited for under the next epoch has
\* read nothing yet, and one that reads now reads what there is.
LEMMA FreshStays ==
  ASSUME PanelTypes, TaskTypes, Fresh, Carries, Later, shown' = shown
  PROVE  Fresh'
  <1>1. ShownIsPast'
    <2>1. CASE shown = None
      BY <2>1 DEF ShownIsPast
    <2>2. CASE shown # None
      <3>1. shown.manager.version \in Nat /\ shown.registry.version \in Nat
        BY <2>2 DEF PanelTypes, Snapshot, ManagerPart, RegistryPart
      <3>2. version \in [{"manager", "registry"} -> Nat]
        BY DEF PanelTypes
      <3> QED BY <2>2, <3>1, <3>2 DEF Fresh, ShownIsPast, Later
    <2> QED BY <2>1, <2>2
  <1>2. ASSUME NEW u \in DOMAIN tasks' PROVE TaskFresh(u)'
    <2>1. CASE tasks'[u].manager = None /\ tasks'[u].registry = None
      BY <2>1 DEF TaskFresh
    <2>2. CASE /\ u \in DOMAIN tasks
               /\ tasks'[u].manager \in {tasks[u].manager, Manager}
               /\ tasks'[u].registry \in {tasks[u].registry, Registry}
      <3>1. tasks[u] \in Task /\ u \in 1..epoch
        BY <2>2 DEF TaskTypes
      <3>2. u = epoch' => u = epoch
        BY <3>1 DEF Carries, PanelTypes
      <3>3. /\ tasks[u].manager # None => tasks[u].manager.version \in Nat
            /\ tasks[u].registry # None => tasks[u].registry.version \in Nat
        BY <3>1 DEF Task, ManagerPart, RegistryPart
      <3>4. /\ shown # None => shown.manager.version \in Nat /\ shown.registry.version \in Nat
            /\ version["manager"] \in Nat /\ version["registry"] \in Nat
        BY DEF PanelTypes, Snapshot, ManagerPart, RegistryPart
      <3>5. /\ version'["manager"] \in Nat /\ version'["registry"] \in Nat
            /\ version'["manager"] >= version["manager"]
            /\ version'["registry"] >= version["registry"]
        BY DEF Later
      <3>6. TaskFresh(u) /\ ShownIsPast
        BY <2>2 DEF Fresh
      <3>7. tasks'[u].manager # None =>
              /\ tasks'[u].manager.version <= version'["manager"]
              /\ u = epoch' /\ shown # None => shown.manager.version <= tasks'[u].manager.version
        BY <2>2, <3>2, <3>3, <3>4, <3>5, <3>6, PartsTyped DEF TaskFresh, ShownIsPast
      <3>8. tasks'[u].registry # None =>
              /\ tasks'[u].registry.version <= version'["registry"]
              /\ u = epoch' /\ shown # None => shown.registry.version <= tasks'[u].registry.version
        BY <2>2, <3>2, <3>3, <3>4, <3>5, <3>6, PartsTyped DEF TaskFresh, ShownIsPast
      <3> QED BY <3>7, <3>8 DEF TaskFresh
    <2> QED BY <2>1, <2>2 DEF Carries
  <1> QED BY <1>1, <1>2 DEF Fresh

\* The result of the task that is waited for is shown: nothing older comes
\* to the screen, and no other task is waited for any more.
LEMMA FreshShown ==
  ASSUME PanelTypes, TaskTypes, Fresh, NEW t \in DOMAIN tasks, t = epoch, Read(t),
         shown' = Result(t), tasks' = Remove(tasks, t), epoch' = epoch, version' = version
  PROVE  /\ Fresh' /\ shown' \in Snapshot
         /\ shown # None => /\ shown' # None
                            /\ shown'.manager.version >= shown.manager.version
                            /\ shown'.registry.version >= shown.registry.version
  <1>1. tasks[t] \in Task
    BY DEF TaskTypes
  <1>2. tasks[t].manager \in ManagerPart /\ tasks[t].registry \in RegistryPart
    BY <1>1 DEF Task, Read
  <1>3. /\ shown' \in Snapshot /\ shown'.manager = tasks[t].manager
        /\ shown'.registry = tasks[t].registry
    BY <1>2 DEF Result, Snapshot
  <1>4. shown' # None
    BY <1>3, NoneAssumption
  <1>5. TaskFresh(t)
    BY DEF Fresh
  <1>6. ShownIsPast'
    BY <1>3, <1>5 DEF ShownIsPast, TaskFresh, Read
  <1>7. shown # None => /\ shown.manager.version <= tasks[t].manager.version
                        /\ shown.registry.version <= tasks[t].registry.version
    BY <1>5 DEF TaskFresh, Read
  <1>8. /\ tasks[t].manager.version \in Nat /\ tasks[t].registry.version \in Nat
        /\ shown # None => shown.manager.version \in Nat /\ shown.registry.version \in Nat
    BY <1>2 DEF PanelTypes, Snapshot, ManagerPart, RegistryPart
  <1>9. ASSUME NEW u \in DOMAIN tasks' PROVE TaskFresh(u)'
    <2>1. u \in DOMAIN tasks \ {epoch} /\ tasks'[u] = tasks[u]
      BY DEF Remove, TaskTypes
    <2>2. TaskFresh(u)
      BY <2>1 DEF Fresh
    <2> QED BY <2>1, <2>2 DEF TaskFresh
  <1> QED BY <1>3, <1>4, <1>6, <1>7, <1>8, <1>9 DEF Fresh

\* StartLoad changes the list of one profile at most, to one of its session.
LEMMA StartLoadLists ==
  ASSUME ListTypes, NEW current \in [Profiles -> List], NEW p \in Profiles, NEW s \in Nat,
         StartLoad(current, p, s)
  PROVE  /\ ListTypes'
         /\ \A q \in Profiles : \/ lists'[q] = current[q]
                                \/ q = p /\ s # 0 /\ lists'[q].session = s
  <1>1. CASE s = 0 \/ current[p].session = s
    BY <1>1 DEF StartLoad, ListTypes
  <1>2. CASE ~(s = 0 \/ current[p].session = s)
    <2> DEFINE new == [state |-> "loading", session |-> s, request |-> requests + 1]
               load == [profile |-> p, session |-> s, got |-> None]
    <2>1. new \in List /\ new.session = s /\ load \in Load
      BY DEF ListTypes, List, Load
    <2>2. /\ requests' = requests + 1 /\ lists' = [current EXCEPT ![p] = new]
          /\ loads' = Add(loads, requests + 1, load)
      BY <1>2 DEF StartLoad
    <2> HIDE DEF new, load
    <2>3. loads' \in [DOMAIN loads' -> Load]
      BY <2>1, <2>2 DEF ListTypes, Add
    <2>4. lists' \in [Profiles -> List] /\ requests' \in Nat
      BY <2>1, <2>2 DEF ListTypes
    <2>5. s # 0 /\ \A q \in Profiles : lists'[q] = IF q = p THEN new ELSE current[q]
      BY <1>2, <2>2
    <2> QED BY <2>1, <2>3, <2>4, <2>5 DEF ListTypes
  <1> QED BY <1>1, <1>2

\* What replace_snapshot keeps belongs to the new snapshot.
LEMMA KeptListsFit ==
  ASSUME ListTypes, NEW snapshot
  PROVE  /\ KeptLists(snapshot) \in [Profiles -> List]
         /\ \A p \in Profiles : KeptLists(snapshot)[p].state # "none" =>
              KeptLists(snapshot)[p].session = SessionIn(snapshot, p)
  <1>1. NoList \in List /\ NoList.state = "none"
    BY DEF NoList, List
  <1> HIDE DEF NoList
  <1> QED BY <1>1 DEF KeptLists, ListTypes

-----------------------------------------------------------------------------
(* The steps *)

\* One step of ShownNeverGoesBack.
NeverBack ==
  shown # None => /\ shown' # None
                  /\ shown'.manager.version >= shown.manager.version
                  /\ shown'.registry.version >= shown.registry.version

\* A step that shows nothing new.
LEMMA NothingShown ==
  ASSUME Inv, PanelTypes', ListTypes', Carries, Later, shown' = shown,
         \A p \in Profiles : lists'[p].state # "none" => lists'[p].session = ShownSession(p)
  PROVE  Inv' /\ NeverBack
  <1>1. Fresh'
    BY FreshStays DEF Inv
  <1>2. TaskTypes'
    BY DEF Carries, TaskTypes
  <1>3. ListsBelongToShownSession'
    BY DEF ListsBelongToShownSession, ShownSession, SessionIn, ListedIn
  <1>4. NeverBack
    <2>1. shown # None => /\ shown.manager.version \in Nat
                          /\ shown.registry.version \in Nat
      BY DEF Inv, PanelTypes, Snapshot, ManagerPart, RegistryPart
    <2> QED BY <2>1 DEF NeverBack
  <1> QED BY <1>1, <1>2, <1>3, <1>4 DEF Inv

\* A step that shows the result of the task the panel waits for.
LEMMA ResultShown ==
  ASSUME Inv, NEW t \in DOMAIN tasks, t = epoch, Read(t), shown' = Result(t),
         tasks' = Remove(tasks, t), epoch' = epoch,
         UNCHANGED <<session, sessions, usage, version, prompt>>, ListTypes',
         \A p \in Profiles : lists'[p].state # "none" =>
                               lists'[p].session = SessionIn(Result(t), p)
  PROVE  Inv' /\ NeverBack
  <1>1. /\ Fresh' /\ shown' \in Snapshot
        /\ shown # None => /\ shown' # None
                           /\ shown'.manager.version >= shown.manager.version
                           /\ shown'.registry.version >= shown.registry.version
    BY FreshShown DEF Inv
  <1>2. PanelTypes'
    BY <1>1 DEF Inv, PanelTypes
  <1>3. TaskTypes'
    BY DEF Inv, TaskTypes, Remove
  <1>4. ListsBelongToShownSession'
    BY DEF ListsBelongToShownSession, ShownSession, SessionIn, ListedIn
  <1> QED BY <1>1, <1>2, <1>3, <1>4 DEF Inv, NeverBack

\* The lists stay as they are.
LEMMA ListsStay ==
  ASSUME Inv, UNCHANGED listVars
  PROVE  /\ ListTypes'
         /\ \A p \in Profiles : lists'[p].state # "none" => lists'[p].session = ShownSession(p)
  BY DEF Inv, ListTypes, listVars, ListsBelongToShownSession

\* A list is dropped.
LEMMA ListDropped ==
  ASSUME Inv, NEW p \in Profiles, lists' = [lists EXCEPT ![p] = NoList],
         UNCHANGED <<requests, loads>>
  PROVE  /\ ListTypes'
         /\ \A q \in Profiles : lists'[q].state # "none" => lists'[q].session = ShownSession(q)
  <1>1. NoList \in List /\ NoList.state = "none"
    BY DEF NoList, List
  <1> HIDE DEF NoList
  <1> QED BY <1>1 DEF Inv, ListTypes, ListsBelongToShownSession

\* A load of the session that is shown begins, over lists that fit.
LEMMA ListStarted ==
  ASSUME Inv, NEW p \in Profiles, NEW current \in [Profiles -> List],
         \A q \in Profiles : current[q] \in {lists[q], NoList},
         StartLoad(current, p, ShownSession(p))
  PROVE  /\ ListTypes'
         /\ \A q \in Profiles : lists'[q].state # "none" => lists'[q].session = ShownSession(q)
  <1>1. ShownSession(p) \in Nat
    BY SessionTyped DEF Inv, PanelTypes, ShownSession
  <1>2. /\ ListTypes'
        /\ \A q \in Profiles : lists'[q] = current[q]
                               \/ (q = p /\ lists'[q].session = ShownSession(p))
    BY <1>1, StartLoadLists DEF Inv
  <1>3. NoList.state = "none"
    BY DEF NoList
  <1> HIDE DEF NoList
  <1> QED BY <1>2, <1>3 DEF Inv, ListsBelongToShownSession

\* What the App, its tasks and other processes do.
LEMMA BackgroundSteps ==
  ASSUME Inv
  PROVE  /\ \A p \in Profiles : SaveTakesEffect(p) \/ UsageChanges(p) => Inv' /\ NeverBack
         /\ RegistryEmits \/ TaskProgress => Inv' /\ NeverBack
         /\ \A t \in DOMAIN tasks :
              (\/ ConnectSucceeds(t) \/ DisconnectTakesEffect(t) \/ DeleteSucceeds(t)
               \/ OperationFails(t) \/ ReadManager(t) \/ ReadRegistry(t))
              => Inv' /\ NeverBack
  <1> USE DEF appVars, eventVars, dialogVars, snapshotVars
  <1>1. ASSUME NEW p \in Profiles, SaveTakesEffect(p) PROVE Inv' /\ NeverBack
    <2>1. PanelTypes' /\ Later
      BY <1>1 DEF Inv, PanelTypes, Later, SaveTakesEffect, ManagerChanges
    <2>2. Carries
      BY <1>1, SameCarries DEF Inv, SaveTakesEffect
    <2> QED BY <1>1, <2>1, <2>2, ListsStay, NothingShown DEF SaveTakesEffect
  <1>2. ASSUME NEW p \in Profiles, UsageChanges(p) PROVE Inv' /\ NeverBack
    <2>1. PanelTypes' /\ Later
      BY <1>2 DEF Inv, PanelTypes, Later, UsageChanges
    <2>2. Carries
      BY <1>2, SameCarries DEF Inv, UsageChanges
    <2> QED BY <1>2, <2>1, <2>2, ListsStay, NothingShown DEF UsageChanges
  <1>3. ASSUME RegistryEmits \/ TaskProgress PROVE Inv' /\ NeverBack
    <2>1. PanelTypes' /\ Later
      BY <1>3 DEF Inv, PanelTypes, Later, RegistryEmits, TaskProgress
    <2>2. Carries
      BY <1>3, SameCarries DEF Inv, RegistryEmits, TaskProgress
    <2> QED BY <1>3, <2>1, <2>2, ListsStay, NothingShown DEF RegistryEmits, TaskProgress
  <1>4. ASSUME NEW t \in DOMAIN tasks,
               \/ ConnectSucceeds(t) \/ DisconnectTakesEffect(t) \/ DeleteSucceeds(t)
               \/ OperationFails(t)
        PROVE  Inv' /\ NeverBack
    <2>a. /\ session' \in [Profiles -> Nat] /\ sessions' \in Nat
          /\ UNCHANGED <<usage, prompt, shown, epoch>>
      <3>1. session \in [Profiles -> Nat] /\ sessions \in Nat
        BY DEF Inv, PanelTypes
      <3>2. CASE ConnectSucceeds(t)
        <4> DEFINE p == tasks[t].profile
        <4>1. session' = [session EXCEPT ![p] = sessions + 1] /\ sessions' = sessions + 1
          BY <3>2 DEF ConnectSucceeds
        <4>2. UNCHANGED <<usage, prompt, shown, epoch>>
          BY <3>2 DEF ConnectSucceeds
        <4>3. sessions + 1 \in Nat
          BY <3>1
        <4>4. \A q : [session EXCEPT ![q] = sessions + 1] \in [Profiles -> Nat]
          BY <3>1, <4>3
        <4> HIDE DEF p
        <4> QED BY <4>1, <4>2, <4>3, <4>4
      <3>3. CASE DisconnectTakesEffect(t) \/ DeleteSucceeds(t) \/ OperationFails(t)
        <4> DEFINE p == tasks[t].profile
        <4>1. session' = session \/ session' = [session EXCEPT ![p] = 0]
          BY <3>3 DEF DisconnectTakesEffect, DeleteSucceeds, OperationFails
        <4>2. UNCHANGED <<sessions, usage, prompt, shown, epoch>>
          BY <3>3 DEF DisconnectTakesEffect, DeleteSucceeds, OperationFails
        <4> HIDE DEF p
        <4> QED BY <3>1, <4>1, <4>2
      <3> QED BY <1>4, <3>2, <3>3
    <2>b. version' = version \/ version' = [version EXCEPT !["manager"] = @ + 1]
      BY <1>4 DEF ManagerChanges, ConnectSucceeds, DisconnectTakesEffect, DeleteSucceeds,
                  OperationFails
    <2>c. version \in [{"manager", "registry"} -> Nat]
      BY DEF Inv, PanelTypes
    <2>d. Later
      BY <2>b, <2>c DEF Later
    <2>1. PanelTypes' /\ Later
      BY <2>a, <2>d DEF Inv, PanelTypes, Later
    <2>2. Effect(t, TRUE) \/ Effect(t, FALSE)
      BY <1>4 DEF ConnectSucceeds, DisconnectTakesEffect, DeleteSucceeds, OperationFails
    <2>3. shown' = shown /\ epoch' = epoch /\ UNCHANGED listVars
      BY <1>4 DEF ConnectSucceeds, DisconnectTakesEffect, DeleteSucceeds, OperationFails
    <2>4. Carries
      BY <2>2, <2>3, EffectCarries DEF Inv
    <2> QED BY <2>1, <2>3, <2>4, ListsStay, NothingShown
  <1>5. ASSUME NEW t \in DOMAIN tasks, ReadManager(t) \/ ReadRegistry(t)
        PROVE  Inv' /\ NeverBack
    <2>1. PanelTypes' /\ Later
      BY <1>5 DEF Inv, PanelTypes, Later, ReadManager, ReadRegistry
    <2>2. Carries
      BY <1>5, ReadCarries DEF Inv, ReadManager, ReadRegistry
    <2>3. shown' = shown /\ UNCHANGED listVars
      BY <1>5 DEF ReadManager, ReadRegistry
    <2> QED BY <2>1, <2>2, <2>3, ListsStay, NothingShown
  <1> QED BY <1>1, <1>2, <1>3, <1>4, <1>5

\* The results of tasks.
LEMMA TaskResults ==
  ASSUME Inv, NEW t \in DOMAIN tasks
  PROVE  FinishRefresh(t) \/ FinishOperation(t) => Inv' /\ NeverBack
  <1> USE DEF appVars, eventVars, dialogVars, snapshotVars
  <1>a. t \in Nat /\ tasks[t] \in Task
    BY DEF Inv, TaskTypes, PanelTypes
  <1>b. ASSUME NEW result PROVE /\ KeptLists(result) \in [Profiles -> List]
                                /\ \A p \in Profiles : KeptLists(result)[p].state # "none" =>
                                     KeptLists(result)[p].session = SessionIn(result, p)
    BY KeptListsFit DEF Inv
  <1>1. ASSUME FinishRefresh(t) PROVE Inv' /\ NeverBack
    <2>1. /\ UNCHANGED <<session, sessions, usage, version, prompt, epoch, requests, loads>>
          /\ tasks' = Remove(tasks, t)
      BY <1>1 DEF FinishRefresh
    <2>2. CASE t = epoch /\ Succeeds(t, operation) /\ lists' = KeptLists(Result(t))
      <3>1. Read(t) /\ shown' = Result(t)
        BY <2>2 DEF Succeeds
      <3>2. ListTypes'
        BY <1>b, <2>1, <2>2 DEF Inv, ListTypes
      <3> QED BY <1>b, <2>1, <2>2, <3>1, <3>2, ResultShown
    <2>3. CASE shown' = shown /\ UNCHANGED lists
      <3>1. PanelTypes' /\ Later
        BY <2>1, <2>3 DEF Inv, PanelTypes, Later
      <3>2. Carries
        BY <2>1, RemoveCarries DEF Inv
      <3>3. UNCHANGED listVars
        BY <2>1, <2>3 DEF listVars
      <3> QED BY <2>3, <3>1, <3>2, <3>3, ListsStay, NothingShown
    <2> QED BY <1>1, <2>2, <2>3 DEF FinishRefresh, Fails
  <1>2. ASSUME FinishOperation(t) PROVE Inv' /\ NeverBack
    <2> DEFINE p == tasks[t].profile
               ended == [operation EXCEPT ![p] = 0]
               s == IF tasks[t].connected THEN SessionIn(Result(t), p) ELSE 0
    <2>1. UNCHANGED <<session, sessions, usage, version, prompt>>
      BY <1>2 DEF FinishOperation
    <2>2. CASE /\ tasks' = Remove(tasks, t) /\ epoch' = epoch
               /\ shown' = shown /\ UNCHANGED listVars
      <3>1. PanelTypes' /\ Later
        BY <2>1, <2>2 DEF Inv, PanelTypes, Later
      <3>2. Carries
        BY <2>2, RemoveCarries DEF Inv
      <3> QED BY <2>2, <3>1, <3>2, ListsStay, NothingShown
    <2>3. CASE /\ epoch' = epoch + 1 /\ shown' = shown /\ UNCHANGED listVars
               /\ tasks' = Add(Remove(tasks, t), epoch + 1, NewTask("refresh", None))
      <3>1. PanelTypes' /\ Later
        BY <2>1, <2>3 DEF Inv, PanelTypes, Later
      <3>2. Carries
        BY <2>3, AddCarries DEF Inv
      <3> QED BY <2>3, <3>1, <3>2, ListsStay, NothingShown
    <2>4. CASE /\ tasks[t].kind # "refresh" /\ operation[p] = t /\ t = epoch
               /\ tasks' = Remove(tasks, t) /\ epoch' = epoch
               /\ Succeeds(t, ended) /\ StartLoad(KeptLists(Result(t)), p, s)
      <3>1. Read(t) /\ shown' = Result(t)
        BY <2>4 DEF Succeeds
      <3>2. Result(t) \in Snapshot
        BY <1>a, <3>1 DEF Task, Read, Result, Snapshot
      <3>3. CASE p \in Profiles
        <4>1. s \in Nat
          BY <3>2, <3>3, SessionTyped
        <4>2. /\ ListTypes'
              /\ \A q \in Profiles : \/ lists'[q] = KeptLists(Result(t))[q]
                                     \/ q = p /\ s # 0 /\ lists'[q].session = s
          BY <1>b, <2>4, <3>3, <4>1, StartLoadLists DEF Inv
        <4>3. \A q \in Profiles : lists'[q].state # "none" =>
                                    lists'[q].session = SessionIn(Result(t), q)
          BY <1>b, <4>2
        <4> QED BY <2>1, <2>4, <3>1, <4>2, <4>3, ResultShown
      <3> QED BY <2>4, <3>3 DEF Inv, TaskTypes
    <2> QED BY <1>2, <2>2, <2>3, <2>4 DEF FinishOperation, Fails
  <1> QED BY <1>1, <1>2

\* Answers about lists and events.
LEMMA ListAndEventSteps ==
  ASSUME Inv
  PROVE  /\ \A r \in DOMAIN loads : LoadTakesSession(r) \/ FinishLoad(r) => Inv' /\ NeverBack
         /\ ReceiveEvent \/ FormSaved \/ FormFails => Inv' /\ NeverBack
  <1> USE DEF appVars, eventVars, dialogVars, snapshotVars
  <1>1. ASSUME NEW r \in DOMAIN loads, LoadTakesSession(r) PROVE Inv' /\ NeverBack
    <2>1. PanelTypes' /\ Later /\ shown' = shown
      BY <1>1 DEF Inv, PanelTypes, Later, LoadTakesSession
    <2>2. Carries
      BY <1>1, SameCarries DEF Inv, LoadTakesSession
    <2>3. ListTypes'
      <3>1. loads[r] \in Load /\ session[loads[r].profile] \in Nat
        BY DEF Inv, ListTypes, PanelTypes, Load
      <3> DEFINE new == [loads[r] EXCEPT !.got = session[loads[r].profile]]
      <3>2. new \in Load
        BY <3>1 DEF Load
      <3>3. loads' = [loads EXCEPT ![r] = new] /\ UNCHANGED <<lists, requests>>
        BY <1>1 DEF LoadTakesSession
      <3> HIDE DEF new
      <3> QED BY <3>2, <3>3 DEF Inv, ListTypes
    <2>4. lists' = lists
      BY <1>1 DEF LoadTakesSession
    <2> QED BY <2>1, <2>2, <2>3, <2>4, NothingShown DEF Inv, ListsBelongToShownSession
  <1>2. ASSUME NEW r \in DOMAIN loads, FinishLoad(r) PROVE Inv' /\ NeverBack
    <2> DEFINE p == loads[r].profile
    <2>1. PanelTypes' /\ Later /\ shown' = shown
      BY <1>2 DEF Inv, PanelTypes, Later, FinishLoad
    <2>2. Carries
      BY <1>2, SameCarries DEF Inv, FinishLoad
    <2>3. loads' = Remove(loads, r) /\ UNCHANGED requests
      BY <1>2 DEF FinishLoad
    <2>4. loads' \in [DOMAIN loads' -> Load] /\ requests' \in Nat
      BY <2>3 DEF Inv, ListTypes, Remove
    <2>5. \/ lists' = lists
          \/ \E state \in {"ready", "failed"} :
               /\ lists[p].state = "loading"
               /\ lists' = [lists EXCEPT ![p].state = state]
      BY <1>2 DEF FinishLoad
    <2>6. p \in Profiles /\ lists \in [Profiles -> List]
      BY DEF Inv, ListTypes, Load
    <2>7. CASE lists' = lists
      BY <2>1, <2>2, <2>4, <2>6, <2>7, NothingShown DEF Inv, ListTypes, ListsBelongToShownSession
    <2>8. ASSUME NEW state \in {"ready", "failed"}, lists[p].state = "loading",
                 lists' = [lists EXCEPT ![p].state = state]
          PROVE  Inv' /\ NeverBack
      <3>1. lists[p] \in List
        BY <2>6
      <3> DEFINE new == [lists[p] EXCEPT !.state = state]
      <3>2. new \in List /\ new.session = lists[p].session
        BY <3>1 DEF List
      <3>3. lists' = [lists EXCEPT ![p] = new]
        BY <2>8
      <3> HIDE DEF new
      <3>4. lists' \in [Profiles -> List]
        BY <2>6, <3>2, <3>3
      <3>5. \A q \in Profiles : lists'[q].state # "none" => lists'[q].session = ShownSession(q)
        BY <2>6, <2>8, <3>2, <3>3 DEF Inv, ListsBelongToShownSession
      <3> QED BY <2>1, <2>2, <2>4, <3>4, <3>5, NothingShown DEF ListTypes
    <2> QED BY <2>5, <2>7, <2>8
  <1>3. ASSUME ReceiveEvent \/ FormSaved \/ FormFails PROVE Inv' /\ NeverBack
    <2>1. /\ UNCHANGED <<session, sessions, usage, version, prompt, shown>>
          /\ UNCHANGED listVars
          /\ \/ epoch' = epoch /\ tasks' = tasks
             \/ epoch' = epoch + 1 /\ tasks' = Add(tasks, epoch + 1, NewTask("refresh", None))
      BY <1>3 DEF ReceiveEvent, Receive, FormSaved, FormFails, Refresh
    <2>2. Carries
      BY <2>1, AddCarries, SameCarries DEF Inv
    <2>3. PanelTypes' /\ Later
      BY <2>1, <2>2 DEF Inv, PanelTypes, Later, Carries
    <2> QED BY <2>1, <2>2, <2>3, ListsStay, NothingShown
  <1> QED BY <1>1, <1>2, <1>3

\* What users do.
LEMMA UserSteps ==
  ASSUME Inv
  PROVE  /\ PressRefresh \/ OpenForm \/ AnswerDelete => Inv' /\ NeverBack
         /\ \A p \in Profiles :
              /\ PressConnect(p) \/ PressDisconnect(p) \/ PressDelete(p) => Inv' /\ NeverBack
              /\ SelectProfile(p) \/ ReloadDatabases(p) \/ Pick(p) => Inv' /\ NeverBack
         /\ OpenPicker \/ PickerReads \/ ShowPicker \/ ClosePicker => Inv' /\ NeverBack
  <1> USE DEF appVars, eventVars, dialogVars, snapshotVars
  <1> DEFINE Same == UNCHANGED <<session, sessions, usage, version, shown>>
             Begins(kind, q) == /\ epoch' = epoch + 1
                                /\ tasks' = Add(tasks, epoch + 1, NewTask(kind, q))
             Keeps == epoch' = epoch /\ tasks' = tasks
             Operations == {"connect", "disconnect", "delete"}
  <1>0. ASSUME Same, prompt' \in Profiles \cup {None},
               \/ Keeps
               \/ Begins("refresh", None)
               \/ \E kind \in Operations, q \in Profiles : Begins(kind, q),
               ListTypes',
               \A q \in Profiles : lists'[q].state # "none" => lists'[q].session = ShownSession(q)
        PROVE  Inv' /\ NeverBack
    <2>1. Carries
      <3>1. CASE Keeps
        BY <3>1, SameCarries DEF Inv
      <3>2. CASE Begins("refresh", None)
        BY <3>2, AddCarries DEF Inv
      <3>3. CASE \E kind \in Operations, q \in Profiles : Begins(kind, q)
        BY <3>3, AddCarries DEF Inv
      <3> QED BY <1>0, <3>1, <3>2, <3>3
    <2>2. PanelTypes' /\ Later
      BY <1>0, <2>1 DEF Inv, PanelTypes, Later, Carries
    <2> QED BY <1>0, <2>1, <2>2, NothingShown
  <1>p. prompt \in Profiles \cup {None}
    BY DEF Inv, PanelTypes
  <1>1. ASSUME PressRefresh \/ OpenForm \/ AnswerDelete PROVE Inv' /\ NeverBack
    <2>1. Same /\ prompt' \in Profiles \cup {None} /\ UNCHANGED listVars
      BY <1>1, <1>p DEF PressRefresh, OpenForm, AnswerDelete, Refresh, BeginOperation
    <2>2. \/ Keeps \/ Begins("refresh", None)
          \/ \E kind \in Operations, q \in Profiles : Begins(kind, q)
      BY <1>1, <1>p DEF PressRefresh, OpenForm, AnswerDelete, Refresh, BeginOperation
    <2> HIDE DEF Same, Keeps, Begins, Operations
    <2> QED BY <1>0, <2>1, <2>2, ListsStay
  <1>2. ASSUME NEW p \in Profiles, PressConnect(p) \/ PressDelete(p) PROVE Inv' /\ NeverBack
    <2>1. Same /\ prompt' \in Profiles \cup {None} /\ UNCHANGED listVars
      BY <1>2, <1>p DEF PressConnect, PressDelete, BeginOperation
    <2>2. \/ Keeps
          \/ \E kind \in Operations, q \in Profiles : Begins(kind, q)
      BY <1>2 DEF PressConnect, PressDelete, BeginOperation
    <2> HIDE DEF Same, Keeps, Begins, Operations
    <2> QED BY <1>0, <2>1, <2>2, ListsStay
  <1>3. ASSUME NEW p \in Profiles, PressDisconnect(p) PROVE Inv' /\ NeverBack
    <2>1. Same /\ prompt' \in Profiles \cup {None}
      BY <1>3, <1>p DEF PressDisconnect, BeginOperation
    <2>2. \E kind \in Operations, q \in Profiles : Begins(kind, q)
      BY <1>3 DEF PressDisconnect, BeginOperation
    <2>3. lists' = [lists EXCEPT ![p] = NoList] /\ UNCHANGED <<requests, loads>>
      BY <1>3 DEF PressDisconnect
    <2> HIDE DEF Same, Keeps, Begins, Operations
    <2> QED BY <1>0, <2>1, <2>2, <2>3, ListDropped
  <1>4. ASSUME NEW p \in Profiles, SelectProfile(p) \/ ReloadDatabases(p) PROVE Inv' /\ NeverBack
    <2>1. Same /\ Keeps /\ prompt' \in Profiles \cup {None}
      BY <1>4, <1>p DEF SelectProfile, ReloadDatabases
    <2> DEFINE cleared == [lists EXCEPT ![p] = NoList]
    <2>2. /\ lists \in [Profiles -> List] /\ cleared \in [Profiles -> List]
          /\ \A q \in Profiles : cleared[q] \in {lists[q], NoList}
      BY DEF Inv, ListTypes, NoList, List
    <2>3. StartLoad(lists, p, ShownSession(p)) \/ StartLoad(cleared, p, ShownSession(p))
      BY <1>4 DEF SelectProfile, ReloadDatabases
    <2> HIDE DEF cleared
    <2>4. /\ ListTypes'
          /\ \A q \in Profiles : lists'[q].state # "none" => lists'[q].session = ShownSession(q)
      BY <2>2, <2>3, ListStarted
    <2> HIDE DEF Same, Keeps, Begins, Operations
    <2> QED BY <1>0, <2>1, <2>4
  <1>5. ASSUME NEW p \in Profiles, Pick(p) PROVE Inv' /\ NeverBack
    <2>1. Same /\ Keeps /\ prompt' \in Profiles \cup {None}
      BY <1>5, <1>p DEF Pick
    <2> DEFINE new == [state |-> IF picker.sessions[p] = ShownSession(p) THEN "ready" ELSE "loading",
                       session |-> ShownSession(p), request |-> requests + 1]
    <2>2. \/ UNCHANGED listVars
          \/ lists' = [lists EXCEPT ![p] = NoList] /\ UNCHANGED <<requests, loads>>
          \/ lists' = [lists EXCEPT ![p] = new] /\ requests' = requests + 1 /\ UNCHANGED loads
      BY <1>5 DEF Pick
    <2>3. ShownSession(p) \in Nat
      BY SessionTyped DEF Inv, PanelTypes, ShownSession
    <2>4. new \in List /\ new.session = ShownSession(p)
      BY <2>3 DEF Inv, ListTypes, List
    <2> HIDE DEF new
    <2>5. CASE lists' = [lists EXCEPT ![p] = new] /\ requests' = requests + 1 /\ UNCHANGED loads
      <3>1. ListTypes'
        BY <2>4, <2>5 DEF Inv, ListTypes
      <3>2. \A q \in Profiles : lists'[q].state # "none" => lists'[q].session = ShownSession(q)
        BY <2>4, <2>5 DEF Inv, ListTypes, ListsBelongToShownSession
      <3> HIDE DEF Same, Keeps, Begins, Operations
      <3> QED BY <1>0, <2>1, <3>1, <3>2
    <2> HIDE DEF Same, Keeps, Begins, Operations
    <2> QED BY <1>0, <2>1, <2>2, <2>5, ListsStay, ListDropped
  <1>6. ASSUME OpenPicker \/ PickerReads \/ ShowPicker \/ ClosePicker PROVE Inv' /\ NeverBack
    <2>1. Same /\ Keeps /\ prompt' \in Profiles \cup {None} /\ UNCHANGED listVars
      BY <1>6, <1>p DEF OpenPicker, PickerReads, ShowPicker, ClosePicker
    <2> HIDE DEF Same, Keeps, Begins, Operations
    <2> QED BY <1>0, <2>1, ListsStay
  <1> QED BY <1>1, <1>2, <1>3, <1>4, <1>5, <1>6

-----------------------------------------------------------------------------
(* Why a quiet panel is current *)

\* The rest of the types.
QuietTypes ==
  /\ profile \in [Profiles -> {"new", "saved", "deleted"}]
  /\ operation \in [Profiles -> Nat]
  /\ events \in Seq({"mcp", "task"}) /\ lagged \in BOOLEAN /\ unsent \in Nat

Awaited == epoch \in DOMAIN tasks
IsOperation(t) == t \in DOMAIN tasks /\ tasks[t].kind # "refresh"
Owner(t) == operation[tasks[t].profile] = t

\* Whether a part that was read, or none, lists a profile.
Lists(part, p) == part # None /\ part.sessions[p] # None

\* A task reads when its effect is over.  The panel waits for nothing once a
\* failure shows, and an operation it waits for keeps its profile locked.
TasksInOrder ==
  /\ \A t \in DOMAIN tasks : ~tasks[t].done => tasks[t].manager = None /\ tasks[t].registry = None
  /\ view \in {"failed", "stale"} => ~Awaited
  /\ IsOperation(epoch) => Owner(epoch)

\* The version tells what a part holds, and a listed profile was saved.
PartFits(part) ==
  part # None => /\ part.version = version["manager"] => part = Manager
                 /\ \A p \in Profiles : Lists(part, p) => profile[p] # "new"
RegistryFits(part) ==
  part # None => (part.version = version["registry"] => part = Registry)

PartsFit ==
  /\ shown # None => PartFits(shown.manager) /\ RegistryFits(shown.registry)
  /\ \A t \in DOMAIN tasks : PartFits(tasks[t].manager) /\ RegistryFits(tasks[t].registry)

\* An operation without effect so far is on a profile that is still stored,
\* and no snapshot that unlocks the profile is on its way.
Pending(t) ==
  IsOperation(t) /\ ~tasks[t].done =>
    /\ Owner(t) /\ profile[tasks[t].profile] = "saved"
    /\ Awaited /\ tasks[epoch].manager # None => Lists(tasks[epoch].manager, tasks[t].profile)

\* A deleted profile is locked by its operation, or gone from the snapshot
\* that is shown and from the one that is awaited.
Deleting(p) ==
  \E t \in DOMAIN tasks : /\ IsOperation(t) /\ tasks[t].profile = p /\ Owner(t)
                          /\ tasks[t].done /\ ~Lists(tasks[t].manager, p)
Gone(p) ==
  /\ Awaited => ~Lists(tasks[epoch].manager, p)
  /\ view = "idle" => ~ListedIn(shown, p)

ProfilesInOrder ==
  /\ \A t \in DOMAIN tasks : Pending(t)
  /\ \A p \in Profiles : profile[p] = "deleted" => Deleting(p) \/ Gone(p)
  /\ prompt # None => profile[prompt] = "saved" /\ operation[prompt] = 0

\* An operation that is over, of an older epoch: its end makes the panel read
\* again, and the snapshot that is awaited does not unlock its profile.
Owing(t) ==
  /\ IsOperation(t) /\ tasks[t].done /\ Owner(t) /\ t # epoch
  /\ Awaited => Lists(tasks[epoch].manager, tasks[t].profile)

\* A change of either side is shown, is in what the panel waits for, or has
\* something on its way that makes the panel read again.
ManagerCovered ==
  \/ view \in {"failed", "stale"} \/ form = "saved"
  \/ Awaited /\ tasks[epoch].manager \in {None, Manager}
  \/ \E t \in DOMAIN tasks : Owing(t)
  \/ shown # None /\ shown.manager = Manager

MessagePending == unsent > 0 \/ lagged \/ \E i \in DOMAIN events : events[i] = "mcp"

RegistryCovered ==
  \/ view \in {"failed", "stale"} \/ MessagePending
  \/ Awaited /\ tasks[epoch].registry \in {None, Registry}
  \/ shown # None /\ shown.registry = Registry

QuietInv ==
  /\ QuietTypes /\ TasksInOrder /\ PartsFit /\ ProfilesInOrder
  /\ ManagerCovered /\ RegistryCovered

LEMMA TaskFacts ==
  ASSUME Inv, NEW t \in DOMAIN tasks
  PROVE  /\ t \in Nat /\ t # 0 /\ t # epoch + 1
         /\ tasks[t] \in Task /\ tasks[t].done \in BOOLEAN
         /\ IsOperation(t) => tasks[t].profile \in Profiles
  BY DEF Inv, PanelTypes, TaskTypes, Task, IsOperation

\* What a read sees of a profile.
LEMMA ReadSees ==
  ASSUME Inv
  PROVE  /\ Manager # None /\ Registry # None
         /\ \A p \in Profiles : Lists(Manager, p) <=> profile[p] = "saved"
  <1>1. Manager # None /\ Registry # None
    BY PartsTyped, NoneAssumption DEF Inv
  <1>2. ASSUME NEW p \in Profiles
        PROVE  Manager.sessions[p] = IF profile[p] = "saved" THEN session[p] ELSE None
    BY DEF Manager
  <1>3. \A p \in Profiles : session[p] # None
    BY NoneAssumption DEF Inv, PanelTypes
  <1> QED BY <1>1, <1>2, <1>3 DEF Lists

\* What the sides of the App may do in a step: a change of either moves its
\* version, and no profile becomes new again.
SidesMove ==
  /\ \/ version'["manager"] = version["manager"] /\ Manager' = Manager
     \/ version'["manager"] > version["manager"]
  /\ \/ version'["registry"] = version["registry"] /\ Registry' = Registry
     \/ version'["registry"] > version["registry"]
  /\ \A p \in Profiles : profile[p] # "new" => profile'[p] # "new"

LEMMA PartsFitStep ==
  ASSUME Inv, QuietTypes, PartsFit, Carries, SidesMove,
         \/ shown' = shown
         \/ \E t \in DOMAIN tasks : shown' = Result(t)
  PROVE  PartsFit'
  <1> DEFINE
        ManagerWas(m) == m # None =>
          /\ m.version <= version["manager"]
          /\ m.version = version["manager"] => m = Manager
          /\ \A p \in Profiles : Lists(m, p) => profile[p] # "new"
        ManagerIs(m) == m # None =>
          /\ m.version = version'["manager"] => m = Manager'
          /\ \A p \in Profiles : Lists(m, p) => profile'[p] # "new"
        RegistryWas(g) == g # None =>
          /\ g.version <= version["registry"]
          /\ g.version = version["registry"] => g = Registry
        RegistryIs(g) == g # None => (g.version = version'["registry"] => g = Registry')
  <1>v. version["manager"] \in Nat /\ version["registry"] \in Nat
    BY DEF Inv, PanelTypes
  <1>m. Manager.version = version["manager"] /\ Registry.version = version["registry"]
    BY PartsTyped DEF Inv
  <1>1. ASSUME NEW m \in ManagerPart, ManagerWas(m) PROVE ManagerIs(m)
    <2>1. m.version \in Nat
      BY DEF ManagerPart
    <2>2. CASE version'["manager"] = version["manager"] /\ Manager' = Manager
      BY <1>1, <2>2 DEF SidesMove
    <2>3. CASE version'["manager"] > version["manager"]
      <3>1. m # None => m.version # version'["manager"]
        BY <1>1, <1>v, <2>1, <2>3
      <3> QED BY <1>1, <3>1 DEF SidesMove
    <2> QED BY <2>2, <2>3 DEF SidesMove
  <1>2. ASSUME NEW g \in RegistryPart, RegistryWas(g) PROVE RegistryIs(g)
    <2>1. g.version \in Nat
      BY DEF RegistryPart
    <2>2. CASE version'["registry"] = version["registry"] /\ Registry' = Registry
      BY <1>2, <2>2
    <2>3. CASE version'["registry"] > version["registry"]
      BY <1>2, <1>v, <2>1, <2>3
    <2> QED BY <2>2, <2>3 DEF SidesMove
  <1>3. /\ Manager \in ManagerPart /\ ManagerWas(Manager)
        /\ Registry \in RegistryPart /\ RegistryWas(Registry)
    BY <1>m, <1>v, PartsTyped, ReadSees DEF Inv
  <1>4. ASSUME NEW t \in DOMAIN tasks
        PROVE  /\ tasks[t].manager \in ManagerPart \cup {None} /\ ManagerWas(tasks[t].manager)
               /\ tasks[t].registry \in RegistryPart \cup {None}
               /\ RegistryWas(tasks[t].registry)
    <2>1. TaskFresh(t) /\ PartFits(tasks[t].manager) /\ RegistryFits(tasks[t].registry)
      BY DEF Inv, Fresh, PartsFit
    <2> QED BY <2>1, TaskFacts DEF Task, TaskFresh, PartFits, RegistryFits
  <1>b. ASSUME shown # None
        PROVE  /\ shown.manager \in ManagerPart /\ ManagerWas(shown.manager)
               /\ shown.registry \in RegistryPart /\ RegistryWas(shown.registry)
    <2>1. shown \in Snapshot
      BY <1>b DEF Inv, PanelTypes
    <2>2. ShownIsPast /\ PartFits(shown.manager) /\ RegistryFits(shown.registry)
      BY <1>b DEF Inv, Fresh, PartsFit
    <2> QED BY <1>b, <2>1, <2>2 DEF Snapshot, ShownIsPast, PartFits, RegistryFits
  <1>i. /\ \A m \in ManagerPart \cup {None} : ManagerWas(m) => ManagerIs(m)
        /\ \A g \in RegistryPart \cup {None} : RegistryWas(g) => RegistryIs(g)
    <2>1. ManagerIs(None) /\ RegistryIs(None)
      OBVIOUS
    <2> HIDE DEF ManagerWas, ManagerIs, RegistryWas, RegistryIs
    <2> QED BY <1>1, <1>2, <2>1
  <1>c. /\ ManagerIs(Manager) /\ RegistryIs(Registry)
        /\ \A t \in DOMAIN tasks : ManagerIs(tasks[t].manager) /\ RegistryIs(tasks[t].registry)
        /\ shown # None => ManagerIs(shown.manager) /\ RegistryIs(shown.registry)
    <2> HIDE DEF ManagerWas, ManagerIs, RegistryWas, RegistryIs
    <2> QED BY <1>3, <1>4, <1>b, <1>i
  <1>7. shown' # None => PartFits(shown.manager)' /\ RegistryFits(shown.registry)'
    <2>1. CASE shown' = shown
      BY <1>c, <2>1 DEF PartFits, RegistryFits, Lists
    <2>2. CASE \E t \in DOMAIN tasks : shown' = Result(t)
      <3>1. PICK t \in DOMAIN tasks : shown' = Result(t)
        BY <2>2
      <3>2. shown'.manager = tasks[t].manager /\ shown'.registry = tasks[t].registry
        BY <3>1 DEF Result
      <3> QED BY <1>c, <3>2 DEF PartFits, RegistryFits, Lists
    <2> QED BY <2>1, <2>2
  <1>8. ASSUME NEW t \in DOMAIN tasks'
        PROVE  PartFits(tasks[t].manager)' /\ RegistryFits(tasks[t].registry)'
    <2>1. CASE tasks'[t].manager = None /\ tasks'[t].registry = None
      BY <2>1 DEF PartFits, RegistryFits
    <2>2. CASE /\ t \in DOMAIN tasks
               /\ tasks'[t].manager \in {tasks[t].manager, Manager}
               /\ tasks'[t].registry \in {tasks[t].registry, Registry}
      <3>1. PartFits(tasks[t].manager)'
        <4>1. CASE tasks'[t].manager = tasks[t].manager
          BY <1>c, <2>2, <4>1 DEF PartFits, Lists
        <4>2. CASE tasks'[t].manager = Manager
          BY <1>c, <4>2 DEF PartFits, Lists
        <4> QED BY <2>2, <4>1, <4>2
      <3>2. RegistryFits(tasks[t].registry)'
        <4>1. CASE tasks'[t].registry = tasks[t].registry
          BY <1>c, <2>2, <4>1 DEF RegistryFits
        <4>2. CASE tasks'[t].registry = Registry
          BY <1>c, <4>2 DEF RegistryFits
        <4> QED BY <2>2, <4>1, <4>2
      <3> QED BY <3>1, <3>2
    <2> QED BY <2>1, <2>2 DEF Carries
  <1> QED BY <1>7, <1>8 DEF PartsFit

\* A step that leaves the snapshot, the operations and the tasks alone.  A
\* save that takes effect has its form still to answer, a change of the
\* registry its event still to come.
LEMMA SnapshotKept ==
  ASSUME Inv, QuietInv, UNCHANGED snapshotVars, QuietTypes', SidesMove,
         \A p \in Profiles : \/ profile'[p] = profile[p]
                             \/ profile[p] # "deleted" /\ profile'[p] = "saved",
         prompt' # None => profile'[prompt'] = "saved" /\ operation[prompt'] = 0,
         form = "saved" => form' = "saved",
         Manager' = Manager \/ form' = "saved",
         Registry' = Registry \/ unsent' > 0,
         MessagePending => MessagePending'
  PROVE  QuietInv'
  <1>1. UNCHANGED <<view, shown, epoch, operation, tasks>>
    BY DEF snapshotVars
  <1>2. TasksInOrder'
    BY <1>1 DEF QuietInv, TasksInOrder, Awaited, IsOperation, Owner
  <1>3. PartsFit'
    BY <1>1, SameCarries, PartsFitStep DEF Inv, QuietInv
  <1>4. \A t \in DOMAIN tasks : Pending(t)'
    BY <1>1, TaskFacts DEF QuietInv, ProfilesInOrder, Pending, IsOperation, Owner, Awaited
  <1>5. ASSUME NEW p \in Profiles, profile'[p] = "deleted" PROVE Deleting(p)' \/ Gone(p)'
    <2>1. Deleting(p) \/ Gone(p)
      BY <1>5 DEF QuietInv, ProfilesInOrder
    <2> QED BY <1>1, <2>1 DEF Deleting, Gone, IsOperation, Owner, Awaited, ListedIn
  <1>6. ProfilesInOrder'
    BY <1>1, <1>4, <1>5 DEF ProfilesInOrder
  <1>7. ManagerCovered'
    BY <1>1 DEF QuietInv, ManagerCovered, Owing, IsOperation, Owner, Awaited
  <1>8. RegistryCovered'
    BY <1>1 DEF QuietInv, RegistryCovered, Awaited, MessagePending
  <1> QED BY <1>2, <1>3, <1>6, <1>7, <1>8 DEF QuietInv

\* What nobody of the App does in the step of a task or of the panel.
AppKept == UNCHANGED <<profile, session, usage, version, unsent>>

LEMMA AppKeptSides ==
  ASSUME Inv, AppKept
  PROVE  SidesMove /\ Manager' = Manager /\ Registry' = Registry
  BY DEF AppKept, SidesMove, Manager, Registry

\* Two operations in flight that own their profiles are on different ones.
LEMMA OwnersDiffer ==
  ASSUME NEW t, NEW u, t # u, Owner(t), Owner(u)
  PROVE  tasks[t].profile # tasks[u].profile
  BY DEF Owner

\* The tasks there were when another one begins under the next epoch.
LEMMA AddTask ==
  ASSUME Inv, NEW t, NEW others \in {tasks, Remove(tasks, t)}, NEW new,
         epoch' = epoch + 1, tasks' = Add(others, epoch + 1, new)
  PROVE  /\ DOMAIN tasks' = DOMAIN others \cup {epoch'} /\ tasks'[epoch'] = new
         /\ DOMAIN others \subseteq DOMAIN tasks
         /\ \A u \in DOMAIN others : u # epoch' /\ tasks'[u] = tasks[u]
  <1>1. \A u \in DOMAIN tasks : u # epoch + 1
    BY TaskFacts
  <1> QED BY <1>1 DEF Add, Remove

\* The panel reads again, because of an event, a form, the user or the end
\* of an operation that is superseded.
LEMMA RefreshBegins ==
  ASSUME Inv, QuietInv, AppKept, QuietTypes', UNCHANGED <<shown, prompt>>,
         NEW t, NEW others \in {tasks, Remove(tasks, t)},
         \/ others = tasks /\ operation' = operation
         \/ /\ IsOperation(t) /\ tasks[t].done /\ Owner(t) /\ others = Remove(tasks, t)
            /\ operation' = [operation EXCEPT ![tasks[t].profile] = 0],
         epoch' = epoch + 1, tasks' = Add(others, epoch + 1, NewTask("refresh", None)),
         view' \in {"loading", "refreshing"}
  PROVE  QuietInv'
  <1> DEFINE new == NewTask("refresh", None)
  <1>1. new.kind = "refresh" /\ new.done /\ new.manager = None /\ new.registry = None
    BY NewTaskTyped DEF NewTask
  <1> HIDE DEF new
  <1>2. /\ DOMAIN tasks' = DOMAIN others \cup {epoch'} /\ tasks'[epoch'] = new
        /\ DOMAIN others \subseteq DOMAIN tasks
        /\ \A u \in DOMAIN others : u # epoch' /\ tasks'[u] = tasks[u]
    BY AddTask DEF new
  <1>3. Awaited' /\ ~IsOperation(epoch)'
    BY <1>1, <1>2 DEF Awaited, IsOperation
  <1>4. TasksInOrder'
    BY <1>1, <1>2, <1>3 DEF QuietInv, TasksInOrder
  <1>5. Carries
    BY AddCarries DEF Inv
  <1>6. PartsFit'
    BY <1>5, PartsFitStep, AppKeptSides DEF QuietInv
  <1>7. \A u \in DOMAIN others \ {t} : IsOperation(u) /\ Owner(u) =>
          operation'[tasks[u].profile] = u
    BY <1>2, TaskFacts DEF Owner, QuietInv, QuietTypes
  <1>8. ASSUME NEW u \in DOMAIN tasks' PROVE Pending(u)'
    <2>1. CASE u = epoch'
      BY <1>3, <2>1 DEF Pending
    <2>2. CASE u \in DOMAIN others
      <3> SUFFICES ASSUME IsOperation(u)', ~tasks'[u].done PROVE Pending(u)'
        BY DEF Pending
      <3>1. tasks'[u] = tasks[u] /\ IsOperation(u) /\ ~tasks[u].done /\ Pending(u)
        BY <1>2, <2>2 DEF IsOperation, QuietInv, ProfilesInOrder
      <3>2. Owner(u) /\ profile[tasks[u].profile] = "saved"
        BY <3>1 DEF Pending
      <3>3. operation'[tasks[u].profile] = u
        BY <1>7, <2>2, <3>1, <3>2 DEF Owner
      <3> QED BY <1>1, <1>2, <3>1, <3>2, <3>3 DEF Pending, Owner, AppKept
    <2> QED BY <1>2, <2>1, <2>2
  <1>9. \A p \in Profiles : Gone(p)'
    BY <1>1, <1>2 DEF Gone, Lists
  <1>10. prompt' # None => profile'[prompt'] = "saved" /\ operation'[prompt'] = 0
    BY DEF QuietInv, ProfilesInOrder, QuietTypes, AppKept, Inv, PanelTypes
  <1>11. ManagerCovered' /\ RegistryCovered'
    BY <1>1, <1>2, <1>3 DEF ManagerCovered, RegistryCovered
  <1> QED BY <1>4, <1>6, <1>8, <1>9, <1>10, <1>11 DEF QuietInv, ProfilesInOrder

\* An operation begins on a profile that is stored and that no other one has.
LEMMA OperationBegins ==
  ASSUME Inv, QuietInv, AppKept, QuietTypes', prompt' = None,
         NEW kind \in {"connect", "disconnect", "delete"}, NEW p \in Profiles,
         profile[p] = "saved", BeginOperation(kind, p)
  PROVE  QuietInv'
  <1> DEFINE new == NewTask(kind, p)
  <1>1. /\ new.kind = kind /\ ~new.done /\ new.manager = None /\ new.registry = None
        /\ new.profile = p
    BY NewTaskTyped DEF NewTask
  <1> HIDE DEF new
  <1>2. /\ view = "idle" /\ operation[p] = 0 /\ epoch' = epoch + 1
        /\ operation' = [operation EXCEPT ![p] = epoch + 1]
        /\ tasks' = Add(tasks, epoch + 1, new) /\ UNCHANGED <<view, shown>>
    BY DEF BeginOperation, Blocked, new
  <1>3. /\ DOMAIN tasks' = DOMAIN tasks \cup {epoch'} /\ tasks'[epoch'] = new
        /\ \A u \in DOMAIN tasks : u # epoch' /\ tasks'[u] = tasks[u]
    BY <1>2, AddTask
  <1>4. Awaited' /\ IsOperation(epoch)' /\ Owner(epoch)'
    BY <1>1, <1>2, <1>3 DEF Awaited, IsOperation, Owner, QuietInv, QuietTypes
  <1>5. TasksInOrder'
    BY <1>1, <1>2, <1>3, <1>4 DEF QuietInv, TasksInOrder
  <1>6. Carries
    BY <1>2, AddCarries DEF Inv, new
  <1>7. PartsFit'
    BY <1>2, <1>6, PartsFitStep, AppKeptSides DEF QuietInv
  <1>8. \A u \in DOMAIN tasks : Owner(u) => tasks[u].profile # p /\ Owner(u)'
    BY <1>2, <1>3, TaskFacts DEF Owner, QuietInv, QuietTypes
  <1>9. ASSUME NEW u \in DOMAIN tasks' PROVE Pending(u)'
    <2>1. CASE u = epoch'
      BY <1>1, <1>3, <1>4, <2>1 DEF Pending, AppKept, Owner
    <2>2. CASE u \in DOMAIN tasks
      <3>1. tasks'[u] = tasks[u] /\ Pending(u)
        BY <1>3, <2>2 DEF QuietInv, ProfilesInOrder
      <3> QED BY <1>1, <1>3, <1>8, <2>2, <3>1 DEF Pending, IsOperation, AppKept
    <2> QED BY <1>3, <2>1, <2>2
  <1>10. ASSUME NEW q \in Profiles, profile'[q] = "deleted" PROVE Deleting(q)' \/ Gone(q)'
    <2>1. Deleting(q) \/ Gone(q)
      BY <1>10 DEF QuietInv, ProfilesInOrder, AppKept
    <2>2. CASE Deleting(q)
      <3>1. PICK u \in DOMAIN tasks : /\ IsOperation(u) /\ tasks[u].profile = q /\ Owner(u)
                                      /\ tasks[u].done /\ ~Lists(tasks[u].manager, q)
        BY <2>2 DEF Deleting
      <3> QED BY <1>3, <1>8, <3>1 DEF Deleting, IsOperation
    <2>3. CASE Gone(q)
      BY <1>1, <1>2, <1>3, <2>3 DEF Gone, Lists, ListedIn
    <2> QED BY <2>1, <2>2, <2>3
  <1>11. ManagerCovered' /\ RegistryCovered'
    BY <1>1, <1>3, <1>4 DEF ManagerCovered, RegistryCovered
  <1> QED BY <1>5, <1>7, <1>9, <1>10, <1>11 DEF QuietInv, ProfilesInOrder

\* The effect of a task's operation on its profile.
LEMMA EffectHappens ==
  ASSUME Inv, QuietInv, QuietTypes', SidesMove, NEW t \in DOMAIN tasks,
         IsOperation(t), ~tasks[t].done,
         NEW connected \in BOOLEAN, Effect(t, connected),
         UNCHANGED <<form, view, shown, epoch, operation, prompt, events, lagged, unsent>>,
         Registry' = Registry,
         \A p \in Profiles : \/ profile'[p] = profile[p]
                             \/ p = tasks[t].profile /\ profile'[p] = "deleted"
  PROVE  QuietInv'
  <1> DEFINE p == tasks[t].profile
             new == [[tasks[t] EXCEPT !.done = TRUE] EXCEPT !.connected = connected]
  <1>1. tasks[t] \in Task /\ p \in Profiles /\ t # 0
    BY TaskFacts
  <1>2. /\ new.done /\ new.kind = tasks[t].kind /\ new.profile = p
        /\ new.manager = tasks[t].manager /\ new.registry = tasks[t].registry
    BY <1>1 DEF Task
  <1>3. tasks' = [tasks EXCEPT ![t] = new]
    BY <1>1 DEF Effect, Task, Inv, TaskTypes
  <1>4. /\ tasks[t].manager = None /\ tasks[t].registry = None
        /\ Owner(t) /\ profile[p] = "saved"
        /\ Awaited /\ tasks[epoch].manager # None => Lists(tasks[epoch].manager, p)
    BY DEF QuietInv, TasksInOrder, ProfilesInOrder, Pending
  <1> HIDE DEF new
  <1>5. /\ DOMAIN tasks' = DOMAIN tasks /\ tasks'[t] = new
        /\ \A u \in DOMAIN tasks \ {t} : tasks'[u] = tasks[u]
        /\ \A u \in DOMAIN tasks : /\ tasks'[u].manager = tasks[u].manager
                                   /\ tasks'[u].registry = tasks[u].registry
                                   /\ tasks'[u].profile = tasks[u].profile
                                   /\ tasks'[u].kind = tasks[u].kind
    BY <1>2, <1>3
  <1>6. /\ Awaited' = Awaited
        /\ \A u \in DOMAIN tasks : IsOperation(u)' = IsOperation(u) /\ Owner(u)' = Owner(u)
    BY <1>5 DEF Awaited, IsOperation, Owner
  <1>7. TasksInOrder'
    BY <1>4, <1>5, <1>6 DEF QuietInv, TasksInOrder, IsOperation
  <1>8. PartsFit'
    BY EffectCarries, PartsFitStep DEF Inv, QuietInv
  <1>9. ASSUME NEW u \in DOMAIN tasks' PROVE Pending(u)'
    <2>1. CASE u = t
      BY <1>2, <1>5, <2>1 DEF Pending
    <2>2. CASE u # t
      <3> SUFFICES ASSUME IsOperation(u)', ~tasks'[u].done PROVE Pending(u)'
        BY DEF Pending
      <3>1. u \in DOMAIN tasks /\ IsOperation(u) /\ ~tasks[u].done /\ Pending(u)
        BY <1>5, <1>6, <2>2 DEF QuietInv, ProfilesInOrder
      <3>2. /\ Owner(u) /\ profile[tasks[u].profile] = "saved"
            /\ Awaited /\ tasks[epoch].manager # None => Lists(tasks[epoch].manager, tasks[u].profile)
        BY <3>1 DEF Pending
      <3>3. tasks[u].profile # p /\ tasks[u].profile \in Profiles
        BY <1>4, <2>2, <3>1, <3>2, OwnersDiffer, TaskFacts
      <3>4. profile'[tasks[u].profile] = "saved"
        BY <3>2, <3>3
      <3> QED BY <1>5, <1>6, <3>1, <3>2, <3>4 DEF Pending, Awaited
    <2> QED BY <2>1, <2>2
  <1>10. ASSUME NEW q \in Profiles, profile'[q] = "deleted" PROVE Deleting(q)' \/ Gone(q)'
    <2>1. CASE q = p
      <3>1. ~Lists(tasks'[t].manager, q)
        BY <1>4, <1>5 DEF Lists
      <3> QED BY <1>2, <1>4, <1>5, <1>6, <2>1, <3>1 DEF Deleting
    <2>2. CASE q # p
      <3>1. Deleting(q) \/ Gone(q)
        BY <1>10, <2>2 DEF QuietInv, ProfilesInOrder
      <3>2. CASE Deleting(q)
        <4>1. PICK u \in DOMAIN tasks : /\ IsOperation(u) /\ tasks[u].profile = q /\ Owner(u)
                                        /\ tasks[u].done /\ ~Lists(tasks[u].manager, q)
          BY <3>2 DEF Deleting
        <4> QED BY <1>5, <1>6, <4>1 DEF Deleting
      <3>3. CASE Gone(q)
        BY <1>5, <1>6, <3>3 DEF Gone, ListedIn, Awaited
      <3> QED BY <3>1, <3>2, <3>3
    <2> QED BY <2>1, <2>2
  <1>11. prompt' # None => profile'[prompt'] = "saved" /\ operation'[prompt'] = 0
    <2> SUFFICES ASSUME prompt # None PROVE profile'[prompt] = "saved" /\ operation[prompt] = 0
      OBVIOUS
    <2>1. profile[prompt] = "saved" /\ operation[prompt] = 0 /\ prompt \in Profiles
      BY DEF QuietInv, ProfilesInOrder, Inv, PanelTypes
    <2>2. prompt # p
      BY <1>1, <1>4, <2>1 DEF Owner
    <2> QED BY <2>1, <2>2
  <1>12. ManagerCovered'
    <2>1. CASE Awaited /\ tasks[epoch].manager = None
      BY <1>5, <1>6, <2>1 DEF ManagerCovered, Awaited
    <2>2. CASE t = epoch
      BY <1>4, <1>5, <1>6, <2>2 DEF ManagerCovered, Awaited
    <2>3. CASE t # epoch /\ ~(Awaited /\ tasks[epoch].manager = None)
      <3>1. Awaited => Lists(tasks[epoch].manager, p)
        BY <1>4, <2>3
      <3>2. Awaited' => Lists(tasks'[epoch'].manager, tasks'[t].profile)
        BY <1>5, <1>6, <3>1 DEF Awaited
      <3>3. Owing(t)'
        BY <1>2, <1>4, <1>5, <1>6, <2>3, <3>2 DEF Owing
      <3> QED BY <1>5, <3>3 DEF ManagerCovered
    <2> QED BY <2>1, <2>2, <2>3
  <1>13. RegistryCovered'
    BY <1>5, <1>6 DEF QuietInv, RegistryCovered, MessagePending, Awaited
  <1> QED BY <1>7, <1>8, <1>9, <1>10, <1>11, <1>12, <1>13 DEF QuietInv, ProfilesInOrder

\* A task reads one of the two parts.
LEMMA PartRead ==
  ASSUME Inv, QuietInv, AppKept, QuietTypes', NEW t \in DOMAIN tasks, tasks[t].done,
         UNCHANGED <<form, view, shown, epoch, operation, prompt, events, lagged>>,
         \/ tasks' = [tasks EXCEPT ![t].manager = Manager]
         \/ tasks' = [tasks EXCEPT ![t].registry = Registry]
  PROVE  QuietInv'
  <1>1. tasks[t] \in Task
    BY TaskFacts
  <1>2. /\ DOMAIN tasks' = DOMAIN tasks
        /\ \A u \in DOMAIN tasks \ {t} : tasks'[u] = tasks[u]
        /\ \/ tasks'[t].manager = Manager /\ tasks'[t].registry = tasks[t].registry
           \/ tasks'[t].manager = tasks[t].manager /\ tasks'[t].registry = Registry
        /\ tasks'[t].kind = tasks[t].kind /\ tasks'[t].profile = tasks[t].profile
        /\ tasks'[t].done = tasks[t].done
    <2>1. CASE tasks' = [tasks EXCEPT ![t].manager = Manager]
      <3> DEFINE new == [tasks[t] EXCEPT !.manager = Manager]
      <3>1. /\ new.manager = Manager /\ new.registry = tasks[t].registry
            /\ new.kind = tasks[t].kind /\ new.profile = tasks[t].profile
            /\ new.done = tasks[t].done
        BY <1>1 DEF Task
      <3>2. tasks' = [tasks EXCEPT ![t] = new]
        BY <2>1 DEF Inv, TaskTypes
      <3> HIDE DEF new
      <3> QED BY <3>1, <3>2
    <2>2. CASE tasks' = [tasks EXCEPT ![t].registry = Registry]
      <3> DEFINE new == [tasks[t] EXCEPT !.registry = Registry]
      <3>1. /\ new.registry = Registry /\ new.manager = tasks[t].manager
            /\ new.kind = tasks[t].kind /\ new.profile = tasks[t].profile
            /\ new.done = tasks[t].done
        BY <1>1 DEF Task
      <3>2. tasks' = [tasks EXCEPT ![t] = new]
        BY <2>2 DEF Inv, TaskTypes
      <3> HIDE DEF new
      <3> QED BY <3>1, <3>2
    <2> QED BY <2>1, <2>2
  <1>3. /\ Awaited' = Awaited
        /\ \A u \in DOMAIN tasks : IsOperation(u)' = IsOperation(u) /\ Owner(u)' = Owner(u)
    BY <1>2 DEF Awaited, IsOperation, Owner
  <1>4. TasksInOrder'
    BY <1>2, <1>3 DEF QuietInv, TasksInOrder, IsOperation
  <1>5. /\ SidesMove /\ Manager' = Manager /\ Registry' = Registry
        /\ \A q \in Profiles : Lists(Manager, q) <=> profile[q] = "saved"
    BY AppKeptSides, ReadSees
  <1>6. PartsFit'
    BY <1>5, ReadCarries, PartsFitStep DEF Inv, QuietInv
  <1>7. ASSUME NEW q \in Profiles, NEW u \in DOMAIN tasks
        PROVE  /\ profile[q] = "deleted" /\ ~Lists(tasks[u].manager, q)
                    => ~Lists(tasks'[u].manager, q)
               /\ profile[q] = "saved" /\ Lists(tasks[u].manager, q)
                    => Lists(tasks'[u].manager, q)
    BY <1>2, <1>5
  <1>8. ASSUME NEW u \in DOMAIN tasks' PROVE Pending(u)'
    <2> SUFFICES ASSUME IsOperation(u)', ~tasks'[u].done PROVE Pending(u)'
      BY DEF Pending
    <2>1. u \in DOMAIN tasks /\ IsOperation(u) /\ ~tasks[u].done /\ Pending(u)
      BY <1>2, <1>3 DEF QuietInv, ProfilesInOrder
    <2>2. /\ Owner(u) /\ profile[tasks[u].profile] = "saved" /\ tasks[u].profile \in Profiles
          /\ Awaited /\ tasks[epoch].manager # None => Lists(tasks[epoch].manager, tasks[u].profile)
          /\ tasks'[u].profile = tasks[u].profile
      BY <1>2, <2>1, TaskFacts DEF Pending
    <2>3. Awaited /\ tasks'[epoch].manager # None => Lists(tasks'[epoch].manager, tasks[u].profile)
      BY <1>2, <1>5, <2>2 DEF Awaited
    <2> QED BY <1>3, <2>1, <2>2, <2>3 DEF Pending, AppKept
  <1>9. ASSUME NEW q \in Profiles, profile'[q] = "deleted" PROVE Deleting(q)' \/ Gone(q)'
    <2>1. profile[q] = "deleted" /\ (Deleting(q) \/ Gone(q))
      BY <1>9 DEF QuietInv, ProfilesInOrder, AppKept
    <2>2. CASE Deleting(q)
      <3>1. PICK u \in DOMAIN tasks : /\ IsOperation(u) /\ tasks[u].profile = q /\ Owner(u)
                                      /\ tasks[u].done /\ ~Lists(tasks[u].manager, q)
        BY <2>2 DEF Deleting
      <3>2. /\ u \in DOMAIN tasks' /\ ~Lists(tasks'[u].manager, q)
            /\ tasks'[u].profile = q /\ tasks'[u].done
        BY <1>2, <1>7, <2>1, <3>1
      <3> QED BY <1>3, <3>1, <3>2 DEF Deleting
    <2>3. CASE Gone(q)
      BY <1>2, <1>3, <1>7, <2>1, <2>3 DEF Gone, ListedIn, Awaited
    <2> QED BY <2>1, <2>2, <2>3
  <1>10. prompt' # None => profile'[prompt'] = "saved" /\ operation'[prompt'] = 0
    BY DEF QuietInv, ProfilesInOrder, AppKept
  <1>11. ManagerCovered'
    <2>1. CASE \E u \in DOMAIN tasks : Owing(u)
      <3>1. PICK u \in DOMAIN tasks : Owing(u)
        BY <2>1
      <3>2. CASE t = epoch /\ tasks'[epoch].manager = Manager
        BY <1>2, <1>3, <1>5, <3>2 DEF ManagerCovered, Awaited
      <3>3. CASE ~(t = epoch /\ tasks'[epoch].manager = Manager)
        <4>1. Awaited => tasks'[epoch].manager = tasks[epoch].manager
          BY <1>2, <3>3 DEF Awaited
        <4>2. Owing(u)'
          BY <1>2, <1>3, <3>1, <4>1 DEF Owing
        <4> QED BY <1>2, <4>2 DEF ManagerCovered
      <3> QED BY <3>2, <3>3
    <2>2. CASE Awaited /\ tasks[epoch].manager \in {None, Manager}
      BY <1>2, <1>3, <1>5, <2>2 DEF ManagerCovered, Awaited
    <2> QED BY <1>5, <2>1, <2>2 DEF QuietInv, ManagerCovered
  <1>12. RegistryCovered'
    <2>1. CASE Awaited /\ tasks[epoch].registry \in {None, Registry}
      BY <1>2, <1>3, <1>5, <2>1 DEF RegistryCovered, Awaited
    <2> QED BY <1>5, <2>1 DEF QuietInv, RegistryCovered, MessagePending, AppKept
  <1> QED BY <1>4, <1>6, <1>8, <1>9, <1>10, <1>11, <1>12 DEF QuietInv, ProfilesInOrder

\* The tasks that are left when one goes.
LEMMA RemoveTask ==
  ASSUME NEW t, tasks' = Remove(tasks, t)
  PROVE  /\ DOMAIN tasks' = DOMAIN tasks \ {t}
         /\ \A u \in DOMAIN tasks' : u # t /\ u \in DOMAIN tasks /\ tasks'[u] = tasks[u]
  BY DEF Remove

\* A result nobody waits for: a refresh that is superseded, or an operation
\* whose profile is gone from the snapshot.
LEMMA ResultDropped ==
  ASSUME Inv, QuietInv, AppKept, QuietTypes', NEW t \in DOMAIN tasks, t # epoch,
         tasks[t].kind = "refresh" \/ ~Owner(t), tasks' = Remove(tasks, t),
         UNCHANGED <<form, prompt, view, shown, epoch, operation, events, lagged>>
  PROVE  QuietInv'
  <1>1. /\ DOMAIN tasks' = DOMAIN tasks \ {t}
        /\ \A u \in DOMAIN tasks' : u # t /\ u \in DOMAIN tasks /\ tasks'[u] = tasks[u]
    BY RemoveTask
  <1>2. /\ Awaited' = Awaited /\ (Awaited => tasks'[epoch] = tasks[epoch])
        /\ \A u \in DOMAIN tasks' : IsOperation(u)' = IsOperation(u) /\ Owner(u)' = Owner(u)
    BY <1>1 DEF Awaited, IsOperation, Owner
  <1>3. TasksInOrder'
    BY <1>1, <1>2 DEF QuietInv, TasksInOrder, IsOperation, Owner
  <1>4. SidesMove /\ Manager' = Manager /\ Registry' = Registry
    BY AppKeptSides
  <1>5. PartsFit'
    BY <1>4, RemoveCarries, PartsFitStep DEF Inv, QuietInv
  <1>6. ASSUME NEW u \in DOMAIN tasks' PROVE Pending(u)'
    BY <1>1, <1>2 DEF QuietInv, ProfilesInOrder, Pending, AppKept
  <1>7. ASSUME NEW q \in Profiles, profile'[q] = "deleted" PROVE Deleting(q)' \/ Gone(q)'
    <2>1. Deleting(q) \/ Gone(q)
      BY <1>7 DEF QuietInv, ProfilesInOrder, AppKept
    <2>2. CASE Deleting(q)
      <3>1. PICK u \in DOMAIN tasks : /\ IsOperation(u) /\ tasks[u].profile = q /\ Owner(u)
                                      /\ tasks[u].done /\ ~Lists(tasks[u].manager, q)
        BY <2>2 DEF Deleting
      <3>2. u \in DOMAIN tasks'
        BY <1>1, <3>1 DEF IsOperation
      <3> QED BY <1>1, <1>2, <3>1, <3>2 DEF Deleting
    <2>3. CASE Gone(q)
      BY <1>2, <2>3 DEF Gone, ListedIn
    <2> QED BY <2>1, <2>2, <2>3
  <1>8. prompt' # None => profile'[prompt'] = "saved" /\ operation'[prompt'] = 0
    BY DEF QuietInv, ProfilesInOrder, AppKept
  <1>9. ManagerCovered'
    <2>1. CASE \E u \in DOMAIN tasks : Owing(u)
      <3>1. PICK u \in DOMAIN tasks : Owing(u)
        BY <2>1
      <3>2. u \in DOMAIN tasks'
        BY <1>1, <3>1 DEF Owing, IsOperation
      <3>3. Owing(u)'
        BY <1>1, <1>2, <3>1, <3>2 DEF Owing
      <3> QED BY <3>2, <3>3 DEF ManagerCovered
    <2> QED BY <1>2, <1>4, <2>1 DEF QuietInv, ManagerCovered
  <1>10. RegistryCovered'
    BY <1>2, <1>4 DEF QuietInv, RegistryCovered, MessagePending, AppKept
  <1> QED BY <1>3, <1>5, <1>6, <1>7, <1>8, <1>9, <1>10 DEF QuietInv, ProfilesInOrder

\* What the awaited task read is not older than what is shown: when the panel
\* shows what there is, so does the result.
LEMMA ResultNotOlder ==
  ASSUME Inv, QuietInv, NEW t \in DOMAIN tasks, t = epoch, Read(t)
  PROVE  /\ Result(t) \in Snapshot /\ Result(t) # None
         /\ Result(t).manager = tasks[t].manager /\ Result(t).registry = tasks[t].registry
         /\ shown # None /\ shown.manager = Manager => tasks[t].manager = Manager
         /\ shown # None /\ shown.registry = Registry => tasks[t].registry = Registry
  <1>1. tasks[t].manager \in ManagerPart /\ tasks[t].registry \in RegistryPart
    BY TaskFacts DEF Task, Read
  <1>2. Result(t) \in Snapshot /\ Result(t) # None
    BY <1>1, NoneAssumption DEF Result, Snapshot
  <1>3. /\ Manager.version = version["manager"] /\ Registry.version = version["registry"]
        /\ version["manager"] \in Nat /\ version["registry"] \in Nat
    BY PartsTyped DEF Inv, PanelTypes
  <1>4. TaskFresh(t) /\ PartFits(tasks[t].manager) /\ RegistryFits(tasks[t].registry)
    BY DEF Inv, Fresh, QuietInv, PartsFit
  <1>5. tasks[t].manager.version \in Nat /\ tasks[t].registry.version \in Nat
    BY <1>1 DEF ManagerPart, RegistryPart
  <1>6. ASSUME shown # None, shown.manager = Manager PROVE tasks[t].manager = Manager
    <2>1. tasks[t].manager.version = version["manager"]
      BY <1>3, <1>4, <1>5, <1>6 DEF TaskFresh, Read
    <2> QED BY <1>4, <2>1 DEF PartFits, Read
  <1>7. ASSUME shown # None, shown.registry = Registry PROVE tasks[t].registry = Registry
    <2>1. tasks[t].registry.version = version["registry"]
      BY <1>3, <1>4, <1>5, <1>7 DEF TaskFresh, Read
    <2> QED BY <1>4, <2>1 DEF RegistryFits, Read
  <1> QED BY <1>2, <1>6, <1>7 DEF Result

\* The end of a task, as far as the operations are concerned: a refresh has
\* none, and an operation that ends gives its profile free.
Ends(t, running) ==
  \/ tasks[t].kind = "refresh" /\ running = operation
  \/ /\ tasks[t].kind # "refresh" /\ Owner(t)
     /\ running = [operation EXCEPT ![tasks[t].profile] = 0]

\* The operations of all other tasks go on.
LEMMA OthersGoOn ==
  ASSUME Inv, QuietInv, NEW t \in DOMAIN tasks, NEW running, Ends(t, running)
  PROVE  /\ running \in [Profiles -> Nat]
         /\ \A p \in Profiles : operation[p] = 0 => running[p] = 0
         /\ \A u \in DOMAIN tasks : u # t /\ IsOperation(u) /\ Owner(u) =>
              running[tasks[u].profile] = u
  <1>1. \A u \in DOMAIN tasks : IsOperation(u) => tasks[u].profile \in Profiles
    BY TaskFacts
  <1>2. operation \in [Profiles -> Nat]
    BY DEF QuietInv, QuietTypes
  <1> QED BY <1>1, <1>2 DEF Ends, Owner

\* The result of the task the panel waits for is shown.
LEMMA ResultIsShown ==
  ASSUME Inv, QuietInv, AppKept, QuietTypes', NEW t \in DOMAIN tasks, t = epoch, Read(t),
         UNCHANGED <<form, prompt, epoch, events, lagged>>, tasks' = Remove(tasks, t),
         NEW running, Ends(t, running), view' = "idle", shown' = Result(t),
         operation' = KeptOperations(Result(t), running)
  PROVE  QuietInv'
  <1>1. /\ DOMAIN tasks' = DOMAIN tasks \ {t} /\ ~Awaited'
        /\ \A u \in DOMAIN tasks' : u # t /\ u \in DOMAIN tasks /\ tasks'[u] = tasks[u]
    BY RemoveTask DEF Awaited
  <1>2. /\ Awaited /\ view \notin {"failed", "stale"}
        /\ tasks[epoch].manager # None /\ tasks[epoch].registry # None
    BY DEF Awaited, QuietInv, TasksInOrder, Read
  <1>3. /\ shown' # None
        /\ shown'.manager = tasks[t].manager /\ shown'.registry = tasks[t].registry
        /\ shown # None /\ shown.manager = Manager => shown'.manager = Manager
        /\ shown # None /\ shown.registry = Registry => shown'.registry = Registry
    BY ResultNotOlder
  <1>4. \A p \in Profiles : /\ ListedIn(shown', p) <=> Lists(tasks[t].manager, p)
                            /\ operation'[p] = IF Lists(tasks[t].manager, p) THEN running[p] ELSE 0
    BY <1>2, <1>3 DEF KeptOperations, ListedIn, Lists
  <1>5. /\ \A p \in Profiles : operation[p] = 0 => running[p] = 0
        /\ \A u \in DOMAIN tasks : u # t /\ IsOperation(u) /\ Owner(u) =>
             running[tasks[u].profile] = u
    BY OthersGoOn
  <1>6. SidesMove /\ Manager' = Manager /\ Registry' = Registry
    BY AppKeptSides
  <1>7. ASSUME NEW u \in DOMAIN tasks', IsOperation(u), Owner(u),
               Lists(tasks[t].manager, tasks[u].profile)
        PROVE  IsOperation(u)' /\ Owner(u)'
    <2>1. u \in DOMAIN tasks /\ u # t /\ tasks[u].profile \in Profiles /\ tasks'[u] = tasks[u]
      BY <1>1, <1>7, TaskFacts
    <2>2. operation'[tasks[u].profile] = u
      BY <1>4, <1>5, <1>7, <2>1
    <2> QED BY <1>7, <2>1, <2>2 DEF IsOperation, Owner
  <1>8. TasksInOrder'
    BY <1>1 DEF QuietInv, TasksInOrder, IsOperation, Awaited
  <1>9. PartsFit'
    BY <1>6, RemoveCarries, PartsFitStep DEF Inv, QuietInv
  <1>10. ASSUME NEW u \in DOMAIN tasks' PROVE Pending(u)'
    <2> SUFFICES ASSUME IsOperation(u)', ~tasks'[u].done PROVE Pending(u)'
      BY DEF Pending
    <2>1. IsOperation(u) /\ ~tasks[u].done /\ tasks'[u] = tasks[u] /\ Pending(u)
      BY <1>1 DEF IsOperation, QuietInv, ProfilesInOrder
    <2>2. /\ Owner(u) /\ profile[tasks[u].profile] = "saved"
          /\ Lists(tasks[t].manager, tasks[u].profile)
      BY <1>2, <2>1 DEF Pending
    <2>3. Owner(u)'
      BY <1>7, <2>1, <2>2
    <2> QED BY <1>1, <2>1, <2>2, <2>3 DEF Pending, AppKept
  <1>11. ASSUME NEW q \in Profiles, profile'[q] = "deleted" PROVE Deleting(q)' \/ Gone(q)'
    <2>1. Deleting(q) \/ Gone(q)
      BY <1>11 DEF QuietInv, ProfilesInOrder, AppKept
    <2>2. CASE ~Lists(tasks[t].manager, q)
      BY <1>1, <1>4, <2>2 DEF Gone
    <2>3. CASE Lists(tasks[t].manager, q)
      <3>1. Deleting(q)
        BY <1>2, <2>1, <2>3 DEF Gone
      <3>2. PICK u \in DOMAIN tasks : /\ IsOperation(u) /\ tasks[u].profile = q /\ Owner(u)
                                      /\ tasks[u].done /\ ~Lists(tasks[u].manager, q)
        BY <3>1 DEF Deleting
      <3>3. u # t /\ u \in DOMAIN tasks' /\ tasks'[u] = tasks[u]
        BY <1>1, <2>3, <3>2
      <3>4. IsOperation(u)' /\ Owner(u)'
        BY <1>7, <2>3, <3>2, <3>3
      <3> QED BY <3>2, <3>3, <3>4 DEF Deleting
    <2> QED BY <2>2, <2>3
  <1>12. prompt' # None => profile'[prompt'] = "saved" /\ operation'[prompt'] = 0
    BY <1>4, <1>5 DEF QuietInv, ProfilesInOrder, AppKept, Inv, PanelTypes
  <1>13. ManagerCovered'
    <2>1. CASE \E u \in DOMAIN tasks : Owing(u)
      <3>1. PICK u \in DOMAIN tasks : Owing(u)
        BY <2>1
      <3>2. /\ u \in DOMAIN tasks' /\ tasks'[u] = tasks[u] /\ u # epoch
            /\ IsOperation(u) /\ Owner(u) /\ tasks[u].done
            /\ Lists(tasks[t].manager, tasks[u].profile)
        BY <1>1, <1>2, <3>1 DEF Owing
      <3>3. Owing(u)'
        BY <1>1, <1>7, <3>2 DEF Owing
      <3> QED BY <3>2, <3>3 DEF ManagerCovered
    <2> QED BY <1>2, <1>3, <1>6, <2>1 DEF QuietInv, ManagerCovered
  <1>14. RegistryCovered'
    BY <1>2, <1>3, <1>6 DEF QuietInv, RegistryCovered, MessagePending, AppKept
  <1> QED BY <1>8, <1>9, <1>10, <1>11, <1>12, <1>13, <1>14 DEF QuietInv, ProfilesInOrder

\* The task the panel waits for fails, and the panel says so.
LEMMA FailureIsShown ==
  ASSUME Inv, QuietInv, AppKept, QuietTypes', NEW t \in DOMAIN tasks, t = epoch,
         UNCHANGED <<form, prompt, epoch, events, lagged, shown>>, tasks' = Remove(tasks, t),
         NEW running, Ends(t, running), operation' = running, view' \in {"failed", "stale"}
  PROVE  QuietInv'
  <1>1. /\ DOMAIN tasks' = DOMAIN tasks \ {t} /\ ~Awaited'
        /\ \A u \in DOMAIN tasks' : u # t /\ u \in DOMAIN tasks /\ tasks'[u] = tasks[u]
    BY RemoveTask DEF Awaited
  <1>2. /\ \A p \in Profiles : operation[p] = 0 => operation'[p] = 0
        /\ \A u \in DOMAIN tasks' : IsOperation(u) /\ Owner(u) => operation'[tasks[u].profile] = u
    BY <1>1, OthersGoOn
  <1>3. TasksInOrder'
    BY <1>1 DEF QuietInv, TasksInOrder, IsOperation, Awaited
  <1>4. PartsFit'
    BY AppKeptSides, RemoveCarries, PartsFitStep DEF Inv, QuietInv
  <1>5. ASSUME NEW u \in DOMAIN tasks' PROVE Pending(u)'
    <2> SUFFICES ASSUME IsOperation(u)', ~tasks'[u].done PROVE Pending(u)'
      BY DEF Pending
    <2>1. IsOperation(u) /\ ~tasks[u].done /\ tasks'[u] = tasks[u] /\ Pending(u)
      BY <1>1 DEF IsOperation, QuietInv, ProfilesInOrder
    <2>2. Owner(u) /\ profile[tasks[u].profile] = "saved"
      BY <2>1 DEF Pending
    <2>3. Owner(u)'
      BY <1>2, <2>1, <2>2 DEF Owner
    <2> QED BY <1>1, <2>1, <2>2, <2>3 DEF Pending, AppKept
  <1>6. \A q \in Profiles : Gone(q)'
    BY <1>1 DEF Gone
  <1>7. prompt' # None => profile'[prompt'] = "saved" /\ operation'[prompt'] = 0
    BY <1>2 DEF QuietInv, ProfilesInOrder, AppKept, Inv, PanelTypes
  <1>8. ManagerCovered' /\ RegistryCovered'
    BY DEF ManagerCovered, RegistryCovered
  <1> QED BY <1>3, <1>4, <1>5, <1>6, <1>7, <1>8 DEF QuietInv, ProfilesInOrder

\* A profile the user can act on is stored.
LEMMA ListedIsSaved ==
  ASSUME Inv, QuietInv, NEW p \in Profiles, ~Blocked, operation[p] = 0, ListedIn(shown, p)
  PROVE  profile[p] = "saved"
  <1>1. profile[p] # "new"
    <2>1. shown # None /\ shown \in Snapshot /\ PartFits(shown.manager)
      BY DEF ListedIn, Inv, PanelTypes, QuietInv, PartsFit
    <2>2. Lists(shown.manager, p)
      BY <2>1, NoneAssumption DEF Snapshot, ListedIn, Lists
    <2> QED BY <2>1, <2>2 DEF PartFits, Lists
  <1>2. ~Deleting(p)
    BY TaskFacts DEF Deleting, Owner
  <1>3. ~Gone(p)
    BY DEF Gone, Blocked
  <1> QED BY <1>1, <1>2, <1>3 DEF QuietInv, QuietTypes, ProfilesInOrder

\* What the tasks do to the App, and what they read.
LEMMA QuietTaskSteps ==
  ASSUME Inv, QuietInv, NEW t \in DOMAIN tasks
  PROVE  /\ ConnectSucceeds(t) \/ DisconnectTakesEffect(t) \/ DeleteSucceeds(t) => QuietInv'
         /\ OperationFails(t) \/ ReadManager(t) \/ ReadRegistry(t) => QuietInv'
  <1> USE DEF appVars, eventVars, dialogVars
  <1>t. QuietTypes
    BY DEF QuietInv
  <1>v. version \in [{"manager", "registry"} -> Nat]
    BY DEF Inv, PanelTypes
  <1>m. ManagerChanges => /\ version'["manager"] > version["manager"]
                          /\ version'["registry"] = version["registry"]
    BY <1>v DEF ManagerChanges
  <1>1. ASSUME ConnectSucceeds(t) PROVE QuietInv'
    <2>1. /\ IsOperation(t) /\ ~tasks[t].done /\ Effect(t, TRUE) /\ ManagerChanges
          /\ UNCHANGED <<profile, usage, form, view, shown, epoch, operation, prompt>>
          /\ UNCHANGED <<events, lagged, unsent>>
      BY <1>1 DEF ConnectSucceeds, IsOperation
    <2>2. QuietTypes' /\ SidesMove /\ Registry' = Registry
      BY <1>t, <1>m, <2>1 DEF QuietTypes, SidesMove, Registry
    <2> QED BY <2>1, <2>2, EffectHappens
  <1>2. ASSUME DisconnectTakesEffect(t) PROVE QuietInv'
    <2>1. /\ IsOperation(t) /\ ~tasks[t].done /\ Effect(t, FALSE) /\ ManagerChanges
          /\ UNCHANGED <<profile, usage, form, view, shown, epoch, operation, prompt>>
          /\ UNCHANGED <<events, lagged, unsent>>
      BY <1>2 DEF DisconnectTakesEffect, IsOperation
    <2>2. QuietTypes' /\ SidesMove /\ Registry' = Registry
      BY <1>t, <1>m, <2>1 DEF QuietTypes, SidesMove, Registry
    <2> QED BY <2>1, <2>2, EffectHappens
  <1>3. ASSUME DeleteSucceeds(t) PROVE QuietInv'
    <2>1. /\ IsOperation(t) /\ ~tasks[t].done /\ Effect(t, FALSE) /\ ManagerChanges
          /\ profile' = [profile EXCEPT ![tasks[t].profile] = "deleted"]
          /\ UNCHANGED <<usage, form, view, shown, epoch, operation, prompt>>
          /\ UNCHANGED <<events, lagged, unsent>>
      BY <1>3 DEF DeleteSucceeds, IsOperation
    <2>2. /\ profile' \in [Profiles -> {"new", "saved", "deleted"}]
          /\ \A p \in Profiles : \/ profile'[p] = profile[p]
                                 \/ p = tasks[t].profile /\ profile'[p] = "deleted"
      BY <1>t, <2>1 DEF QuietTypes
    <2>3. QuietTypes' /\ SidesMove /\ Registry' = Registry
      BY <1>t, <1>m, <2>1, <2>2 DEF QuietTypes, SidesMove, Registry
    <2> QED BY <2>1, <2>2, <2>3, EffectHappens
  <1>4. ASSUME OperationFails(t) PROVE QuietInv'
    <2>1. /\ IsOperation(t) /\ ~tasks[t].done /\ Effect(t, FALSE) /\ AppKept
          /\ UNCHANGED <<form, view, shown, epoch, operation, prompt, events, lagged, unsent>>
      BY <1>4 DEF OperationFails, IsOperation, AppKept
    <2>2. QuietTypes' /\ SidesMove /\ Registry' = Registry /\ profile' = profile
      BY <1>t, <2>1, AppKeptSides DEF QuietTypes, AppKept
    <2> QED BY <2>1, <2>2, EffectHappens
  <1>5. ASSUME ReadManager(t) \/ ReadRegistry(t) PROVE QuietInv'
    <2>1. /\ tasks[t].done /\ AppKept
          /\ UNCHANGED <<form, view, shown, epoch, operation, prompt, events, lagged>>
          /\ \/ tasks' = [tasks EXCEPT ![t].manager = Manager]
             \/ tasks' = [tasks EXCEPT ![t].registry = Registry]
      BY <1>5 DEF ReadManager, ReadRegistry, AppKept
    <2>2. QuietTypes'
      BY <1>t, <2>1 DEF QuietTypes, AppKept
    <2> QED BY <2>1, <2>2, PartRead
  <1> QED BY <1>1, <1>2, <1>3, <1>4, <1>5

\* The results.
LEMMA QuietResults ==
  ASSUME Inv, QuietInv, NEW t \in DOMAIN tasks
  PROVE  FinishRefresh(t) \/ FinishOperation(t) => QuietInv'
  <1> USE DEF appVars, eventVars, dialogVars
  <1>t. QuietTypes
    BY DEF QuietInv
  <1>e. epoch \in Nat
    BY DEF Inv, PanelTypes
  <1>k. ASSUME NEW running \in [Profiles -> Nat], NEW snapshot
        PROVE  KeptOperations(snapshot, running) \in [Profiles -> Nat]
    BY DEF KeptOperations
  <1>1. ASSUME FinishRefresh(t) PROVE QuietInv'
    <2>1. /\ tasks[t].kind = "refresh" /\ tasks' = Remove(tasks, t) /\ AppKept
          /\ UNCHANGED <<form, prompt, epoch, events, lagged, unsent>>
      BY <1>1 DEF FinishRefresh, AppKept
    <2>2. Ends(t, operation) /\ operation \in [Profiles -> Nat]
      BY <1>t, <2>1 DEF Ends, QuietTypes
    <2>3. CASE t # epoch
      <3>1. UNCHANGED <<view, shown, operation>>
        BY <1>1, <2>3 DEF FinishRefresh
      <3>2. QuietTypes'
        BY <1>t, <2>1, <3>1 DEF QuietTypes, AppKept
      <3> QED BY <2>1, <2>3, <3>1, <3>2, ResultDropped
    <2>4. CASE t = epoch /\ Succeeds(t, operation)
      <3>1. /\ Read(t) /\ view' = "idle" /\ shown' = Result(t)
            /\ operation' = KeptOperations(Result(t), operation)
        BY <2>4 DEF Succeeds
      <3>2. QuietTypes'
        BY <1>t, <1>k, <2>1, <2>2, <3>1 DEF QuietTypes, AppKept
      <3> QED BY <2>1, <2>2, <2>4, <3>1, <3>2, ResultIsShown
    <2>5. CASE t = epoch /\ Fails(t, operation)
      <3>1. view' \in {"failed", "stale"} /\ operation' = operation /\ shown' = shown
        BY <2>5 DEF Fails
      <3>2. QuietTypes'
        BY <1>t, <2>1, <3>1 DEF QuietTypes, AppKept
      <3> QED BY <2>1, <2>2, <2>5, <3>1, <3>2, FailureIsShown
    <2> QED BY <1>1, <2>3, <2>4, <2>5 DEF FinishRefresh
  <1>2. ASSUME FinishOperation(t) PROVE QuietInv'
    <2> DEFINE ended == [operation EXCEPT ![tasks[t].profile] = 0]
    <2>1. /\ tasks[t].kind # "refresh" /\ tasks[t].done /\ AppKept
          /\ UNCHANGED <<form, prompt, events, lagged, unsent>>
      BY <1>2 DEF FinishOperation, AppKept
    <2>2. IsOperation(t) /\ (t = epoch => Owner(t))
      BY <2>1 DEF IsOperation, QuietInv, TasksInOrder
    <2>3. ended \in [Profiles -> Nat]
      BY <1>t DEF QuietTypes
    <2>4. Owner(t) => Ends(t, ended)
      BY <2>1 DEF Ends
    <2>5. CASE /\ ~Owner(t) /\ tasks' = Remove(tasks, t)
               /\ UNCHANGED <<view, shown, epoch, operation>>
      <3>1. QuietTypes'
        BY <1>t, <2>1, <2>5 DEF QuietTypes, AppKept
      <3> QED BY <2>1, <2>2, <2>5, <3>1, ResultDropped
    <2>6. CASE /\ Owner(t) /\ epoch' = epoch + 1 /\ view' = Refreshing /\ operation' = ended
               /\ tasks' = Add(Remove(tasks, t), epoch + 1, NewTask("refresh", None))
               /\ shown' = shown
      <3>1. QuietTypes'
        BY <1>t, <2>1, <2>3, <2>6 DEF QuietTypes, AppKept
      <3>2. view' \in {"loading", "refreshing"}
        BY <2>6 DEF Refreshing
      <3> QED BY <2>1, <2>2, <2>6, <3>1, <3>2, RefreshBegins
    <2>7. CASE /\ Owner(t) /\ t = epoch /\ tasks' = Remove(tasks, t) /\ epoch' = epoch
               /\ Succeeds(t, ended)
      <3>1. /\ Read(t) /\ view' = "idle" /\ shown' = Result(t)
            /\ operation' = KeptOperations(Result(t), ended)
        BY <2>7 DEF Succeeds
      <3> HIDE DEF ended
      <3>2. QuietTypes'
        BY <1>t, <1>k, <2>1, <2>3, <3>1 DEF QuietTypes, AppKept
      <3> QED BY <2>1, <2>4, <2>7, <3>1, <3>2, ResultIsShown
    <2>8. CASE /\ Owner(t) /\ t = epoch /\ tasks' = Remove(tasks, t) /\ epoch' = epoch
               /\ Fails(t, ended)
      <3>1. view' \in {"failed", "stale"} /\ operation' = ended /\ shown' = shown
        BY <2>8 DEF Fails
      <3> HIDE DEF ended
      <3>2. QuietTypes'
        BY <1>t, <2>1, <2>3, <3>1 DEF QuietTypes, AppKept
      <3> QED BY <2>1, <2>4, <2>8, <3>1, <3>2, FailureIsShown
    <2> QED BY <1>2, <2>5, <2>6, <2>7, <2>8 DEF FinishOperation, Owner
  <1> QED BY <1>1, <1>2

\* The sequence of events: what is sent arrives or is known to be lost, and
\* what is received is the first one.
LEMMA EventFacts ==
  ASSUME QuietTypes
  PROVE  /\ \A e \in {"mcp", "task"} : Send(e) =>
              /\ events' \in Seq({"mcp", "task"}) /\ lagged' \in BOOLEAN
              /\ lagged \/ (\E i \in DOMAIN events : events[i] = "mcp") \/ e = "mcp"
                   => lagged' \/ \E i \in DOMAIN events' : events'[i] = "mcp"
         /\ events # <<>> /\ events' = Tail(events) =>
              /\ events' \in Seq({"mcp", "task"}) /\ Head(events) \in {"mcp", "task"}
              /\ (\E i \in DOMAIN events : events[i] = "mcp") /\ Head(events) # "mcp"
                   => \E i \in DOMAIN events' : events'[i] = "mcp"
  <1>t. events \in Seq({"mcp", "task"}) /\ lagged \in BOOLEAN
    BY DEF QuietTypes
  <1>1. ASSUME NEW e \in {"mcp", "task"}, Send(e)
        PROVE  /\ events' \in Seq({"mcp", "task"}) /\ lagged' \in BOOLEAN
               /\ lagged \/ (\E i \in DOMAIN events : events[i] = "mcp") \/ e = "mcp"
                    => lagged' \/ \E i \in DOMAIN events' : events'[i] = "mcp"
    <2>1. CASE Len(events) < EventCapacity
      <3>1. events' = Append(events, e) /\ lagged' = lagged
        BY <1>1, <2>1 DEF Send
      <3>2. /\ DOMAIN events' = 1..(Len(events) + 1) /\ DOMAIN events = 1..Len(events)
            /\ events'[Len(events) + 1] = e
            /\ \A i \in DOMAIN events : i \in DOMAIN events' /\ events'[i] = events[i]
        BY <1>t, <3>1
      <3>3. Len(events) + 1 \in DOMAIN events'
        BY <1>t, <3>2
      <3> QED BY <1>t, <3>1, <3>2, <3>3
    <2>2. CASE ~(Len(events) < EventCapacity)
      <3>1. events' = Append(Tail(events), e) /\ lagged' = TRUE
        BY <1>1, <2>2 DEF Send
      <3>2. events # <<>>
        BY <1>t, <2>2, ConstantsAssumption
      <3>3. Tail(events) \in Seq({"mcp", "task"})
        BY <1>t, <3>2
      <3> QED BY <3>1, <3>3
    <2> QED BY <2>1, <2>2
  <1>2. ASSUME events # <<>>, events' = Tail(events)
        PROVE  /\ events' \in Seq({"mcp", "task"}) /\ Head(events) \in {"mcp", "task"}
               /\ (\E i \in DOMAIN events : events[i] = "mcp") /\ Head(events) # "mcp"
                    => \E i \in DOMAIN events' : events'[i] = "mcp"
    <2>1. /\ events' \in Seq({"mcp", "task"}) /\ Head(events) = events[1]
          /\ Head(events) \in {"mcp", "task"}
          /\ Len(events) \in Nat /\ DOMAIN events = 1..Len(events)
          /\ DOMAIN events' = 1..(Len(events) - 1)
          /\ \A j \in 1..(Len(events) - 1) : events'[j] = events[j + 1]
      BY <1>t, <1>2
    <2>2. ASSUME NEW i \in DOMAIN events, events[i] = "mcp", Head(events) # "mcp"
          PROVE  \E j \in DOMAIN events' : events'[j] = "mcp"
      <3>1. i \in 1..Len(events) /\ i # 1
        BY <2>1, <2>2
      <3>2. i - 1 \in 1..(Len(events) - 1) /\ (i - 1) + 1 = i
        BY <2>1, <3>1
      <3>3. events'[i - 1] = "mcp"
        BY <2>1, <2>2, <3>2
      <3> QED BY <2>1, <3>2, <3>3
    <2> QED BY <2>1, <2>2
  <1> QED BY <1>1, <1>2

\* The panel reads again, and nothing else happens to it.
LEMMA RefreshOnly ==
  ASSUME Inv, QuietInv, AppKept, Refresh(tasks), prompt' = prompt,
         events' \in Seq({"mcp", "task"}), lagged' \in BOOLEAN
  PROVE  QuietInv'
  <1>1. /\ epoch' = epoch + 1 /\ tasks' = Add(tasks, epoch + 1, NewTask("refresh", None))
        /\ view' \in {"loading", "refreshing"} /\ UNCHANGED <<shown, operation>>
    BY DEF Refresh, Refreshing
  <1>2. QuietTypes'
    BY <1>1 DEF QuietInv, QuietTypes, AppKept
  <1> QED BY <1>1, <1>2, RefreshBegins

\* An operation begins, and nothing else happens.
LEMMA OperationOnly ==
  ASSUME Inv, QuietInv, AppKept, prompt' = None, UNCHANGED <<events, lagged>>,
         NEW kind \in {"connect", "disconnect", "delete"}, NEW p \in Profiles,
         profile[p] = "saved", BeginOperation(kind, p)
  PROVE  QuietInv'
  <1>1. operation' = [operation EXCEPT ![p] = epoch + 1]
    BY DEF BeginOperation
  <1>2. operation' \in [Profiles -> Nat]
    BY <1>1 DEF QuietInv, QuietTypes, Inv, PanelTypes
  <1>3. QuietTypes'
    BY <1>2 DEF QuietInv, QuietTypes, AppKept
  <1> QED BY <1>3, OperationBegins

\* The snapshot, what is shown and what there is stay as they are.
LEMMA NothingQuietChanges ==
  ASSUME Inv, QuietInv, AppKept, UNCHANGED <<events, lagged, prompt>>,
         form = "saved" => form' = "saved", UNCHANGED snapshotVars
  PROVE  QuietInv'
  <1>1. operation' = operation
    BY DEF snapshotVars
  <1>2. QuietTypes' /\ (MessagePending => MessagePending')
    BY <1>1 DEF QuietInv, QuietTypes, MessagePending, AppKept
  <1>3. SidesMove /\ Manager' = Manager /\ Registry' = Registry /\ profile' = profile
    BY AppKeptSides DEF AppKept
  <1>4. prompt' # None => profile'[prompt'] = "saved" /\ operation[prompt'] = 0
    BY <1>3 DEF QuietInv, ProfilesInOrder
  <1> QED BY <1>2, <1>3, <1>4, SnapshotKept

\* Forms, events and what other processes do.
LEMMA QuietEventSteps ==
  ASSUME Inv, QuietInv
  PROVE  /\ FormStep \/ RegistryEmits \/ ReceiveEvent \/ TaskProgress => QuietInv'
         /\ \A p \in Profiles : UsageChanges(p) => QuietInv'
  <1> USE DEF appVars, eventVars, dialogVars
  <1>t. QuietTypes
    BY DEF QuietInv
  <1>v. version \in [{"manager", "registry"} -> Nat]
    BY DEF Inv, PanelTypes
  <1>p. prompt # None => profile[prompt] = "saved" /\ operation[prompt] = 0
    BY DEF QuietInv, ProfilesInOrder
  <1>1. ASSUME NEW p \in Profiles, SaveTakesEffect(p) PROVE QuietInv'
    <2>1. /\ profile[p] # "deleted" /\ profile' = [profile EXCEPT ![p] = "saved"]
          /\ version' = [version EXCEPT !["manager"] = @ + 1]
          /\ UNCHANGED <<usage, events, lagged, unsent, prompt, operation>>
          /\ UNCHANGED snapshotVars
          /\ form = "saving" /\ form' = "saved"
      BY <1>1 DEF SaveTakesEffect, ManagerChanges, snapshotVars
    <2>2. /\ profile' \in [Profiles -> {"new", "saved", "deleted"}]
          /\ \A q \in Profiles : profile'[q] = IF q = p THEN "saved" ELSE profile[q]
      BY <1>t, <2>1 DEF QuietTypes
    <2>3. version'["manager"] > version["manager"] /\ version'["registry"] = version["registry"]
      BY <1>v, <2>1
    <2>4. QuietTypes' /\ SidesMove /\ Registry' = Registry
      BY <1>t, <2>1, <2>2, <2>3 DEF QuietTypes, SidesMove, Registry
    <2>5. prompt' # None => profile'[prompt'] = "saved" /\ operation[prompt'] = 0
      BY <1>p, <2>1, <2>2 DEF Inv, PanelTypes
    <2>6. MessagePending => MessagePending'
      BY <2>1 DEF MessagePending
    <2>7. \A q \in Profiles : \/ profile'[q] = profile[q]
                              \/ profile[q] # "deleted" /\ profile'[q] = "saved"
      BY <2>1, <2>2
    <2> QED BY <2>1, <2>4, <2>5, <2>6, <2>7, SnapshotKept
  <1>2. ASSUME FormSaved PROVE QuietInv'
    <2>1. /\ Refresh(tasks) /\ AppKept
          /\ UNCHANGED <<events, lagged, prompt>>
      BY <1>2 DEF FormSaved, AppKept
    <2> QED BY <1>t, <2>1, RefreshOnly DEF QuietTypes
  <1>3. ASSUME FormFails PROVE QuietInv'
    <2>1. /\ form = "saving" /\ AppKept /\ UNCHANGED <<events, lagged, prompt>>
          /\ UNCHANGED snapshotVars
      BY <1>3 DEF FormFails, AppKept
    <2> QED BY <2>1, NothingQuietChanges DEF QuietInv
  <1>4. ASSUME RegistryEmits PROVE QuietInv'
    <2>1. /\ unsent > 0 /\ unsent' = unsent - 1 /\ Send("mcp") /\ UNCHANGED snapshotVars
          /\ UNCHANGED <<profile, session, usage, version, prompt, form, operation>>
      BY <1>4 DEF RegistryEmits, snapshotVars
    <2>2. /\ events' \in Seq({"mcp", "task"}) /\ lagged' \in BOOLEAN
          /\ lagged' \/ \E i \in DOMAIN events' : events'[i] = "mcp"
      BY <1>t, <2>1, EventFacts
    <2>3. QuietTypes' /\ MessagePending'
      BY <1>t, <2>1, <2>2 DEF QuietTypes, MessagePending
    <2>4. SidesMove /\ Manager' = Manager /\ Registry' = Registry
      BY <2>1 DEF SidesMove, Manager, Registry
    <2> QED BY <1>p, <2>1, <2>3, <2>4, SnapshotKept
  <1>5. ASSUME TaskProgress PROVE QuietInv'
    <2>1. /\ Send("task") /\ UNCHANGED snapshotVars
          /\ UNCHANGED <<profile, session, usage, version, prompt, form, operation, unsent>>
      BY <1>5 DEF TaskProgress, snapshotVars
    <2>2. /\ events' \in Seq({"mcp", "task"}) /\ lagged' \in BOOLEAN
          /\ lagged \/ (\E i \in DOMAIN events : events[i] = "mcp")
               => lagged' \/ \E i \in DOMAIN events' : events'[i] = "mcp"
      BY <1>t, <2>1, EventFacts
    <2>3. QuietTypes' /\ (MessagePending => MessagePending')
      BY <1>t, <2>1, <2>2 DEF QuietTypes, MessagePending
    <2>4. SidesMove /\ Manager' = Manager /\ Registry' = Registry
      BY <2>1 DEF SidesMove, Manager, Registry
    <2> QED BY <1>p, <2>1, <2>3, <2>4, SnapshotKept
  <1>6. ASSUME ReceiveEvent PROVE QuietInv'
    <2>1. AppKept /\ UNCHANGED <<prompt, form>>
      BY <1>6 DEF ReceiveEvent, AppKept
    <2>2. CASE lagged' = FALSE /\ Refresh(tasks) /\ UNCHANGED events
      BY <1>t, <2>1, <2>2, RefreshOnly DEF QuietTypes
    <2>3. CASE events # <<>> /\ events' = Tail(events) /\ Refresh(tasks) /\ UNCHANGED lagged
      <3>1. events' \in Seq({"mcp", "task"})
        BY <1>t, <2>3, EventFacts
      <3> QED BY <1>t, <2>1, <2>3, <3>1, RefreshOnly DEF QuietTypes
    <2>4. CASE /\ events # <<>> /\ events' = Tail(events) /\ Head(events) # "mcp"
               /\ UNCHANGED snapshotVars /\ UNCHANGED lagged
      <3>1. /\ events' \in Seq({"mcp", "task"})
            /\ (\E i \in DOMAIN events : events[i] = "mcp")
                 => \E i \in DOMAIN events' : events'[i] = "mcp"
        BY <1>t, <2>4, EventFacts
      <3>2. operation' = operation
        BY <2>4 DEF snapshotVars
      <3>3. QuietTypes' /\ (MessagePending => MessagePending')
        BY <1>t, <2>1, <2>4, <3>1, <3>2 DEF QuietTypes, MessagePending, AppKept
      <3>4. SidesMove /\ Manager' = Manager /\ Registry' = Registry
        BY <2>1, AppKeptSides
      <3> QED BY <1>p, <2>1, <2>4, <3>2, <3>3, <3>4, SnapshotKept DEF AppKept
    <2> QED BY <1>6, <2>2, <2>3, <2>4 DEF ReceiveEvent, Receive
  <1>7. ASSUME NEW p \in Profiles, UsageChanges(p) PROVE QuietInv'
    <2>1. /\ version' = [version EXCEPT !["registry"] = @ + 1] /\ unsent' = unsent + 1
          /\ UNCHANGED <<profile, session, events, lagged, prompt, form, operation>>
          /\ UNCHANGED snapshotVars
      BY <1>7 DEF UsageChanges, snapshotVars
    <2>2. unsent' \in Nat /\ unsent' > 0
      BY <1>t, <2>1 DEF QuietTypes
    <2>3. version'["registry"] > version["registry"] /\ version'["manager"] = version["manager"]
      BY <1>v, <2>1
    <2>4. QuietTypes' /\ MessagePending'
      BY <1>t, <2>1, <2>2 DEF QuietTypes, MessagePending
    <2>5. SidesMove /\ Manager' = Manager
      BY <2>1, <2>3 DEF SidesMove, Manager
    <2> QED BY <1>p, <2>1, <2>2, <2>4, <2>5, SnapshotKept
  <1> QED BY <1>1, <1>2, <1>3, <1>4, <1>5, <1>6, <1>7 DEF FormStep

\* The user, and the lists and the picker, which keep away from the snapshot.
LEMMA QuietUserSteps ==
  ASSUME Inv, QuietInv
  PROVE  /\ PressRefresh \/ OpenForm \/ AnswerDelete => QuietInv'
         /\ \A p \in Profiles :
              /\ PressConnect(p) \/ PressDisconnect(p) \/ PressDelete(p) => QuietInv'
              /\ SelectProfile(p) \/ ReloadDatabases(p) \/ Pick(p) => QuietInv'
         /\ OpenPicker \/ PickerReads \/ ShowPicker \/ ClosePicker => QuietInv'
         /\ \A r \in DOMAIN loads : LoadStep(r) => QuietInv'
         /\ UNCHANGED vars => QuietInv'
  <1> USE DEF appVars, eventVars, dialogVars
  <1>t. QuietTypes
    BY DEF QuietInv
  <1>p. prompt # None => profile[prompt] = "saved" /\ operation[prompt] = 0
    BY DEF QuietInv, ProfilesInOrder
  <1>1. ASSUME PressRefresh PROVE QuietInv'
    <2>1. Refresh(tasks) /\ AppKept /\ UNCHANGED <<events, lagged, prompt>>
      BY <1>1 DEF PressRefresh, AppKept
    <2> QED BY <1>t, <2>1, RefreshOnly DEF QuietTypes
  <1>2. ASSUME OpenForm PROVE QuietInv'
    <2>1. /\ form # "saved" /\ AppKept /\ UNCHANGED <<events, lagged, prompt>>
          /\ UNCHANGED snapshotVars
      BY <1>2 DEF OpenForm, Free, AppKept
    <2> QED BY <2>1, NothingQuietChanges
  <1>3. ASSUME AnswerDelete PROVE QuietInv'
    <2>1. /\ prompt # None /\ prompt \in Profiles /\ prompt' = None /\ profile[prompt] = "saved"
          /\ AppKept /\ UNCHANGED <<events, lagged, form>>
      BY <1>3, <1>p DEF AnswerDelete, AppKept, Inv, PanelTypes
    <2>2. CASE BeginOperation("delete", prompt)
      <3>1. PICK p \in Profiles : p = prompt
        BY <2>1
      <3>2. BeginOperation("delete", p) /\ profile[p] = "saved"
        BY <2>1, <2>2, <3>1
      <3> QED BY <2>1, <3>2, OperationOnly
    <2>3. CASE UNCHANGED snapshotVars
      <3>1. operation' = operation
        BY <2>3 DEF snapshotVars
      <3>2. /\ QuietTypes' /\ (MessagePending => MessagePending')
            /\ SidesMove /\ Manager' = Manager /\ Registry' = Registry
        BY <1>t, <2>1, <3>1, AppKeptSides DEF QuietTypes, MessagePending, AppKept
      <3> QED BY <2>1, <2>3, <3>2, SnapshotKept DEF AppKept
    <2> QED BY <1>3, <2>2, <2>3 DEF AnswerDelete
  <1>4. ASSUME NEW p \in Profiles, PressConnect(p) \/ PressDisconnect(p) PROVE QuietInv'
    <2>1. /\ prompt' = None /\ AppKept /\ UNCHANGED <<events, lagged>>
          /\ ListedIn(shown, p)
          /\ \E kind \in {"connect", "disconnect", "delete"} : BeginOperation(kind, p)
      BY <1>4 DEF PressConnect, PressDisconnect, Selectable, Free, AppKept
    <2>2. PICK kind \in {"connect", "disconnect", "delete"} : BeginOperation(kind, p)
      BY <2>1
    <2>3. ~Blocked /\ operation[p] = 0
      BY <2>2 DEF BeginOperation
    <2>4. profile[p] = "saved"
      BY <2>1, <2>3, ListedIsSaved
    <2> QED BY <2>1, <2>2, <2>4, OperationOnly
  <1>5. ASSUME NEW p \in Profiles, PressDelete(p) PROVE QuietInv'
    <2>1. /\ prompt' = p /\ AppKept /\ UNCHANGED <<events, lagged, form>>
          /\ ListedIn(shown, p) /\ ~Blocked /\ operation[p] = 0
          /\ UNCHANGED snapshotVars
      BY <1>5 DEF PressDelete, Selectable, AppKept
    <2>2. profile[p] = "saved"
      BY <2>1, ListedIsSaved
    <2>3. operation' = operation
      BY <2>1 DEF snapshotVars
    <2>4. /\ QuietTypes' /\ (MessagePending => MessagePending')
          /\ SidesMove /\ Manager' = Manager /\ Registry' = Registry
      BY <1>t, <2>1, <2>3, AppKeptSides DEF QuietTypes, MessagePending, AppKept
    <2> QED BY <2>1, <2>2, <2>4, SnapshotKept DEF AppKept
  <1>6. ASSUME NEW p \in Profiles, SelectProfile(p) \/ ReloadDatabases(p) \/ Pick(p) PROVE QuietInv'
    <2>1. AppKept /\ UNCHANGED <<events, lagged, prompt, form>> /\ UNCHANGED snapshotVars
      BY <1>6 DEF SelectProfile, ReloadDatabases, Pick, AppKept
    <2> QED BY <2>1, NothingQuietChanges
  <1>7. ASSUME OpenPicker \/ PickerReads \/ ShowPicker \/ ClosePicker PROVE QuietInv'
    <2>1. AppKept /\ UNCHANGED <<events, lagged, prompt, form>> /\ UNCHANGED snapshotVars
      BY <1>7 DEF OpenPicker, PickerReads, ShowPicker, ClosePicker, AppKept
    <2> QED BY <2>1, NothingQuietChanges
  <1>8. ASSUME NEW r \in DOMAIN loads, LoadStep(r) PROVE QuietInv'
    <2>1. AppKept /\ UNCHANGED <<events, lagged, prompt, form>> /\ UNCHANGED snapshotVars
      BY <1>8 DEF LoadStep, LoadTakesSession, FinishLoad, AppKept
    <2> QED BY <2>1, NothingQuietChanges
  <1>9. ASSUME UNCHANGED vars PROVE QuietInv'
    <2>1. AppKept /\ UNCHANGED <<events, lagged, prompt, form>> /\ UNCHANGED snapshotVars
      BY <1>9 DEF vars, AppKept
    <2> QED BY <2>1, NothingQuietChanges
  <1> QED BY <1>1, <1>2, <1>3, <1>4, <1>5, <1>6, <1>7, <1>8, <1>9

LEMMA QuietSteps == ASSUME Inv, QuietInv, [Next]_vars PROVE QuietInv'
  <1>1. CASE \E t \in DOMAIN tasks : TaskStep(t)
    BY <1>1, QuietTaskSteps, QuietResults DEF TaskStep
  <1>2. CASE \E r \in DOMAIN loads : LoadStep(r)
    BY <1>2, QuietUserSteps
  <1>3. CASE FormStep \/ RegistryEmits \/ ReceiveEvent \/ TaskProgress
    BY <1>3, QuietEventSteps
  <1>4. CASE \E p \in Profiles : \/ UsageChanges(p) \/ PressConnect(p) \/ PressDisconnect(p)
                                 \/ PressDelete(p) \/ SelectProfile(p) \/ ReloadDatabases(p)
                                 \/ Pick(p)
    BY <1>4, QuietEventSteps, QuietUserSteps
  <1>5. CASE \/ PressRefresh \/ OpenForm \/ AnswerDelete
             \/ OpenPicker \/ PickerReads \/ ShowPicker \/ ClosePicker
             \/ UNCHANGED vars
    BY <1>5, QuietUserSteps
  <1> QED BY <1>1, <1>2, <1>3, <1>4, <1>5 DEF Next

LEMMA InitQuiet == Init => QuietInv
  <1> SUFFICES ASSUME Init PROVE QuietInv
    OBVIOUS
  <1>1. /\ DOMAIN tasks = {1} /\ tasks[1] = NewTask("refresh", None) /\ epoch = 1
        /\ view = "loading" /\ shown = None /\ prompt = None
        /\ \A p \in Profiles : profile[p] # "deleted"
    BY DEF Init
  <1>2. /\ tasks[1].kind = "refresh" /\ tasks[1].done
        /\ tasks[1].manager = None /\ tasks[1].registry = None
    <2> DEFINE new == NewTask("refresh", None)
    <2>1. new.kind = "refresh" /\ new.done /\ new.manager = None /\ new.registry = None
      BY NewTaskTyped DEF NewTask
    <2>2. tasks[1] = new
      BY <1>1
    <2> HIDE DEF new
    <2> QED BY <2>1, <2>2
  <1>3. QuietTypes
    <2>1. profile \in [Profiles -> {"new", "saved"}] /\ operation = [p \in Profiles |-> 0]
      BY DEF Init
    <2>2. profile \in [Profiles -> {"new", "saved", "deleted"}] /\ operation \in [Profiles -> Nat]
      BY <2>1
    <2>3. events = <<>> /\ lagged = FALSE /\ unsent = 0
      BY DEF Init
    <2>4. events \in Seq({"mcp", "task"})
      BY <2>3
    <2>5. lagged \in BOOLEAN /\ unsent \in Nat
      BY <2>3
    <2> QED BY <2>2, <2>4, <2>5 DEF QuietTypes
  <1>4. TasksInOrder /\ Awaited
    BY <1>1, <1>2 DEF TasksInOrder, Awaited, IsOperation
  <1>5. PartsFit
    BY <1>1, <1>2 DEF PartsFit, PartFits, RegistryFits
  <1>6. ProfilesInOrder
    BY <1>1, <1>2 DEF ProfilesInOrder, Pending, IsOperation
  <1>7. ManagerCovered /\ RegistryCovered
    BY <1>1, <1>2, <1>4 DEF ManagerCovered, RegistryCovered
  <1> QED BY <1>3, <1>4, <1>5, <1>6, <1>7 DEF QuietInv

-----------------------------------------------------------------------------
(* The theorems *)

LEMMA NextSteps ==
  ASSUME Inv, [Next]_vars
  PROVE  Inv' /\ NeverBack
  <1>1. CASE \E t \in DOMAIN tasks : TaskStep(t)
    BY <1>1, BackgroundSteps, TaskResults DEF TaskStep
  <1>2. CASE \E r \in DOMAIN loads : LoadStep(r)
    BY <1>2, ListAndEventSteps DEF LoadStep
  <1>3. CASE FormStep \/ RegistryEmits \/ ReceiveEvent \/ TaskProgress
    BY <1>3, BackgroundSteps, ListAndEventSteps DEF FormStep
  <1>4. CASE \E p \in Profiles : \/ UsageChanges(p) \/ PressConnect(p) \/ PressDisconnect(p)
                                 \/ PressDelete(p) \/ SelectProfile(p) \/ ReloadDatabases(p)
                                 \/ Pick(p)
    BY <1>4, BackgroundSteps, UserSteps
  <1>5. CASE \/ PressRefresh \/ OpenForm \/ AnswerDelete
             \/ OpenPicker \/ PickerReads \/ ShowPicker \/ ClosePicker
    BY <1>5, UserSteps
  <1>6. CASE UNCHANGED vars
    <2>1. UNCHANGED <<session, sessions, usage, version, prompt, shown, epoch, tasks>>
          /\ UNCHANGED listVars
      BY <1>6 DEF vars, appVars, dialogVars, snapshotVars
    <2>2. PanelTypes' /\ Later /\ Carries
      BY <2>1, SameCarries DEF Inv, PanelTypes, Later
    <2> QED BY <2>1, <2>2, ListsStay, NothingShown
  <1> QED BY <1>1, <1>2, <1>3, <1>4, <1>5, <1>6 DEF Next

LEMMA InitInv == Init => Inv
  <1> SUFFICES ASSUME Init PROVE Inv
    OBVIOUS
  <1>1. PanelTypes
    BY DEF Init, PanelTypes
  <1>2. NewTask("refresh", None) \in Task /\ NewTask("refresh", None).kind = "refresh"
        /\ NewTask("refresh", None).manager = None /\ NewTask("refresh", None).registry = None
    BY NewTaskTyped
  <1>3. TaskTypes /\ Fresh
    BY <1>2 DEF Init, TaskTypes, Fresh, ShownIsPast, TaskFresh
  <1>4. ListTypes
    BY DEF Init, ListTypes, NoList, List
  <1>5. ListsBelongToShownSession
    BY DEF Init, ListsBelongToShownSession, NoList
  <1> QED BY <1>1, <1>3, <1>4, <1>5 DEF Inv

\* The strengthening: what the awaited task read is never older than what is
\* shown, and neither is newer than what there is.
THEOREM Invariant == Spec => []Inv
  <1>1. Inv /\ [Next]_vars => Inv'
    BY NextSteps
  <1> QED BY <1>1, InitInv, PTL DEF Spec

\* The snapshot on the screen never goes back (apply_snapshot), for any
\* number of profiles, tasks and inputs.
THEOREM NeverShowsOlder == Spec => ShownNeverGoesBack
  <1>1. Inv /\ [Next]_vars => [NeverBack]_vars
    BY NextSteps DEF NeverBack
  <1>2. [][NeverBack]_vars => ShownNeverGoesBack
    BY PTL DEF NeverBack, ShownNeverGoesBack
  <1> QED BY <1>1, <1>2, Invariant, PTL DEF Spec

\* What is listed under a profile belongs to the session that is shown
\* (replace_snapshot, finish_database_load, select_query_context).
THEOREM ListsFitTheSession == Spec => []ListsBelongToShownSession
  <1>1. Inv => ListsBelongToShownSession
    BY DEF Inv
  <1> QED BY <1>1, Invariant, PTL

LEMMA QuietIsCurrent == ASSUME Inv, QuietInv PROVE QuietPanelIsCurrent
  <1> SUFFICES ASSUME Quiet PROVE shown = [manager |-> Manager, registry |-> Registry]
    BY DEF QuietPanelIsCurrent
  <1>1. ~Awaited /\ ~(\E t \in DOMAIN tasks : Owing(t)) /\ form # "saved"
    BY DEF Quiet, Awaited
  <1>2. ~MessagePending
    BY DEF Quiet, MessagePending
  <1>3. shown # None /\ shown.manager = Manager
    BY <1>1 DEF QuietInv, ManagerCovered, Quiet
  <1>4. shown.registry = Registry
    BY <1>1, <1>2 DEF QuietInv, RegistryCovered, Quiet
  <1>5. shown \in Snapshot
    BY <1>3 DEF Inv, PanelTypes
  <1>6. shown = [manager |-> shown.manager, registry |-> shown.registry]
    BY <1>5 DEF Snapshot
  <1> QED BY <1>3, <1>4, <1>6

\* A panel at rest shows the profiles, the sessions and the users of MCP
\* there are (subscribe, begin_refresh, apply_snapshot, finish_operation):
\* however many tasks raced, whatever the channel dropped and whichever
\* results were superseded or came for a profile that is gone.
THEOREM QuietPanelIsTrue == Spec => []QuietPanelIsCurrent
  <1>1. Init => Inv /\ QuietInv
    BY InitInv, InitQuiet
  <1>2. Inv /\ QuietInv /\ [Next]_vars => (Inv /\ QuietInv)'
    BY NextSteps, QuietSteps
  <1>3. Inv /\ QuietInv => QuietPanelIsCurrent
    BY QuietIsCurrent
  <1> QED BY <1>1, <1>2, <1>3, PTL DEF Spec

-----------------------------------------------------------------------------
(***************************************************************************)
(* The database drivers (Drivers).                                         *)
(***************************************************************************)

-----------------------------------------------------------------------------
\* Which programs the operations of each engine have.

Pins == {<<"RUN">>, <<"RUN", "RUN">>, <<"RUN", "RUN", "RUN">>, <<"SCRIPT">>, <<"SERVER">>}
Selects == {<<"USE", "SCRIPT">>, <<"USE", "RUN">>, <<"USE", "RUN", "RUN">>,
            <<"USE", "RUN", "RUN", "RUN">>, <<"USE", "RUN", "RUN", "RUN", "RUN">>,
            <<"NAMED">>, <<"NAMED", "NAMED">>, <<"SERVER">>}
Fitting(op, p) ==
  /\ op = "begin_transaction" =>
       /\ engine # "Redis"
       /\ engine = "PostgreSQL" => p = <<"BEGIN", "ISOLATION">>
       /\ engine = "SQLite" => p = <<"BEGIN">>
       /\ ~Driver!Pinned => p = <<"USE", "ISOLATION", "BEGIN">>
  /\ op = "execute_mutation_batch" =>
       p = IF Driver!Pinned THEN <<"OPEN", "EDIT", "EDIT", "CLOSE">>
           ELSE <<"USE", "OPEN", "EDIT", "EDIT", "CLOSE">>
  /\ op = "explain" =>
       /\ p \in {<<"USE", "PLAN", "PLANNED", "UNPLAN">>, <<"USE", "EXPLAIN">>, <<"EXPLAIN">>}
       /\ Driver!Pinned => p = <<"EXPLAIN">>
       /\ p = <<"EXPLAIN">> => Driver!Pinned \/ Driver!Stateless
  /\ op = "execute_in_schema" => Driver!Pinned /\ p = <<"PATH", "SCRIPT">>
  /\ op \notin {"begin_transaction", "execute_mutation_batch", "explain", "execute_in_schema"} =>
       /\ p \in IF Driver!Pinned THEN Pins ELSE Selects

Fits(programs) == \A o \in programs : Fitting(o[1], o[2])

LEMMA PostgresFits ==
  ASSUME engine = "PostgreSQL" PROVE Fits(Driver!Operations)
<1> USE DEF Driver!Every
<1>1. Fits(Driver!PostgresCatalog) /\ Fits(Driver!PostgresObjects)
    BY DEF Fits, Fitting, Pins, Driver!Pinned, Driver!PostgresCatalog, Driver!PostgresObjects
<1>2. Fits(Driver!PostgresScripts)
    BY DEF Fits, Fitting, Pins, Driver!Pinned, Driver!PostgresScripts
<1>3. Fits(Driver!PostgresBegins) /\ Fits(Driver!PostgresBatch)
    BY DEF Fits, Fitting, Pins, Driver!Pinned, Driver!PostgresBegins, Driver!PostgresBatch
<1>4. Fits(Driver!PostgresDetails) /\ Fits(Driver!PostgresDdl)
    BY DEF Fits, Fitting, Pins, Driver!Pinned, Driver!PostgresDetails, Driver!PostgresDdl
<1>5. Driver!Operations = Driver!PostgresCatalog \cup Driver!PostgresScripts \cup Driver!PostgresBegins \cup Driver!PostgresBatch
                     \cup Driver!PostgresObjects \cup Driver!PostgresDetails \cup Driver!PostgresDdl
    BY DEF Driver!Operations
<1> QED BY <1>1, <1>2, <1>3, <1>4, <1>5 DEF Fits

LEMMA MySqlFits ==
  ASSUME engine = "MySQL" PROVE Fits(Driver!Operations)
<1> USE DEF Driver!Every
<1>1. Fits(Driver!MySqlCatalog)
    BY DEF Fits, Fitting, Selects, Driver!Pinned, Driver!MySqlCatalog
<1>2. Fits(Driver!MySqlScripts)
    BY DEF Fits, Fitting, Selects, Driver!Pinned, Driver!MySqlScripts
<1>3. Fits(Driver!MySqlBegins) /\ Fits(Driver!MySqlBatch)
    BY DEF Fits, Fitting, Selects, Driver!Pinned, Driver!MySqlBegins, Driver!MySqlBatch
<1>4. Fits(Driver!MySqlObjects)
    BY DEF Fits, Fitting, Selects, Driver!Pinned, Driver!MySqlObjects
<1>5. Driver!Operations = Driver!MySqlCatalog \cup Driver!MySqlScripts \cup Driver!MySqlBegins \cup Driver!MySqlBatch \cup Driver!MySqlObjects
    BY DEF Driver!Operations
<1> QED BY <1>1, <1>2, <1>3, <1>4, <1>5 DEF Fits

LEMMA SqliteFits ==
  ASSUME engine = "SQLite" PROVE Fits(Driver!Operations)
<1> USE DEF Driver!Every
<1>1. Fits(Driver!SqliteCatalog)
    BY DEF Fits, Fitting, Pins, Driver!Pinned, Driver!SqliteCatalog
<1>2. Fits(Driver!SqliteScripts)
    BY DEF Fits, Fitting, Pins, Driver!Pinned, Driver!SqliteScripts
<1>3. Fits(Driver!SqliteBatch) /\ Fits(Driver!SqliteObjects)
    BY DEF Fits, Fitting, Pins, Driver!Pinned, Driver!SqliteBatch, Driver!SqliteObjects
<1>4. Driver!Operations = Driver!SqliteCatalog \cup Driver!SqliteScripts \cup Driver!SqliteBatch \cup Driver!SqliteObjects
    BY DEF Driver!Operations
<1> QED BY <1>1, <1>2, <1>3, <1>4 DEF Fits

LEMMA SqlServerFits ==
  ASSUME engine = "SQLServer" PROVE Fits(Driver!Operations)
<1> USE DEF Driver!Every
<1>1. Fits(Driver!SqlServerCatalog) /\ Fits(Driver!SqlServerKeys)
    BY DEF Fits, Fitting, Selects, Driver!Pinned, Driver!SqlServerCatalog, Driver!SqlServerKeys
<1>2. Fits(Driver!SqlServerScripts)
    BY DEF Fits, Fitting, Selects, Driver!Pinned, Driver!SqlServerScripts
<1>3. Fits(Driver!SqlServerBegins) /\ Fits(Driver!SqlServerBatch)
    BY DEF Fits, Fitting, Selects, Driver!Pinned, Driver!SqlServerBegins, Driver!SqlServerBatch
<1>4. Fits(Driver!SqlServerObjects) /\ Fits(Driver!SqlServerDetails)
    BY DEF Fits, Fitting, Selects, Driver!Pinned, Driver!SqlServerObjects, Driver!SqlServerDetails
<1>5. Fits(Driver!SqlServerDdl)
    BY DEF Fits, Fitting, Selects, Driver!Pinned, Driver!SqlServerDdl
<1>6. Driver!Operations = Driver!SqlServerCatalog \cup Driver!SqlServerKeys \cup Driver!SqlServerScripts \cup Driver!SqlServerBegins
                     \cup Driver!SqlServerBatch \cup Driver!SqlServerObjects \cup Driver!SqlServerDetails \cup Driver!SqlServerDdl
    BY DEF Driver!Operations
<1> QED BY <1>1, <1>2, <1>3, <1>4, <1>5, <1>6 DEF Fits

LEMMA OthersFit ==
  ASSUME engine \in {"ClickHouse", "MongoDB", "Redis"} PROVE Fits(Driver!Operations)
<1> USE DEF Driver!Every
<1>1. CASE engine = "ClickHouse"
  <2>1. Fits(Driver!ClickHouseOperations)
      BY <1>1 DEF Fits, Fitting, Selects, Driver!Pinned, Driver!Stateless,
         Driver!ClickHouseOperations
  <2>2. Fits(Driver!ClickHouseObjects)
      BY <1>1 DEF Fits, Fitting, Selects, Driver!Pinned, Driver!Stateless, Driver!ClickHouseObjects
  <2> QED BY <1>1, <2>1, <2>2 DEF Fits, Driver!Operations
<1>2. CASE engine = "MongoDB"
  <2>1. Fits(Driver!MongoCatalog)
      BY <1>2 DEF Fits, Fitting, Selects, Driver!Pinned, Driver!Stateless, Driver!MongoCatalog
  <2>2. Fits(Driver!MongoDocuments)
      BY <1>2 DEF Fits, Fitting, Selects, Driver!Pinned, Driver!Stateless, Driver!MongoDocuments
  <2> QED BY <1>2, <2>1, <2>2 DEF Fits, Driver!Operations
<1>3. CASE engine = "Redis"
  <2>1. Fits(Driver!RedisKeys) /\ Fits(Driver!RedisCommands)
      BY <1>3 DEF Fits, Fitting, Selects, Driver!Pinned, Driver!RedisKeys, Driver!RedisCommands
  <2>2. Fits(Driver!RedisPages) /\ Fits(Driver!RedisTable)
      BY <1>3 DEF Fits, Fitting, Selects, Driver!Pinned, Driver!RedisPages, Driver!RedisTable
  <2>3. Driver!Operations = Driver!RedisKeys \cup Driver!RedisPages \cup Driver!RedisCommands \cup Driver!RedisTable
      BY <1>3 DEF Driver!Operations
  <2> QED BY <2>1, <2>2, <2>3 DEF Fits
<1> QED BY <1>1, <1>2, <1>3

LEMMA ProgramsFit ==
  ASSUME Driver!DriversAssumption, engine \in Engines PROVE Fits(Driver!Operations)
<1>1. engine \in {"PostgreSQL", "MySQL", "SQLite", "SQLServer", "ClickHouse", "MongoDB", "Redis"}
    BY DEF Driver!DriversAssumption
<1> QED BY <1>1, PostgresFits, MySqlFits, SqliteFits, SqlServerFits, OthersFit

-----------------------------------------------------------------------------
\* What a step makes of a session.

LEMMA Selected ==
  ASSUME NEW s \in Driver!Session, NEW d \in Driver!AllDatabases
  PROVE  /\ Driver!Used(s, d) \in Driver!Session
         /\ Driver!Used(s, d).path = s.path /\ Driver!Used(s, d).tx = s.tx /\ Driver!Used(s, d).plan = s.plan
         /\ Driver!Used(s, d).level = s.level
         /\ \A f \in {"path", "tx", "plan"} : f \in Driver!Used(s, d).by <=> f \in s.by
         /\ (Driver!Inert(s) /\ s.by = {}) \/ Driver!Used(s, d).db = d \/ "db" \in Driver!Used(s, d).by
<1>1. CASE Driver!Inert(s)
  <2>1. PICK t : t = [s EXCEPT !.by = IF @ = {} THEN @ ELSE @ \cup {"db"}]
      OBVIOUS
  <2>2. t \in Driver!Session /\ t.path = s.path /\ t.tx = s.tx /\ t.plan = s.plan /\ t.level = s.level
      BY <2>1 DEF Driver!Session
  <2>3. t.by = IF s.by = {} THEN s.by ELSE s.by \cup {"db"}
      BY <2>1 DEF Driver!Session
  <2>4. Driver!Used(s, d) = t
      BY <1>1, <2>1 DEF Driver!Used
  <2> HIDE <2>1
  <2> QED BY <1>1, <2>2, <2>3, <2>4
<1>2. CASE ~Driver!Inert(s)
  <2>1. PICK t : t = [s EXCEPT !.db = d, !.by = @ \ {"db"}]
      OBVIOUS
  <2>2. t \in Driver!Session /\ t.path = s.path /\ t.tx = s.tx /\ t.plan = s.plan /\ t.level = s.level
      BY <2>1 DEF Driver!Session
  <2>3. t.by = s.by \ {"db"} /\ t.db = d
      BY <2>1 DEF Driver!Session
  <2>4. Driver!Used(s, d) = t
      BY <1>2, <2>1 DEF Driver!Used
  <2> HIDE <2>1
  <2> QED BY <1>2, <2>2, <2>3, <2>4
<1> QED BY <1>1, <1>2

LEMMA Levelled ==
  ASSUME NEW s \in Driver!Session, NEW l \in Driver!Levels
  PROVE  /\ Driver!Isolated(s, l) \in Driver!Session
         /\ Driver!Isolated(s, l).by = s.by /\ Driver!Isolated(s, l).db = s.db /\ Driver!Isolated(s, l).path = s.path
         /\ Driver!Isolated(s, l).tx = s.tx /\ Driver!Isolated(s, l).plan = s.plan
         /\ (engine = "PostgreSQL" => s.tx) => l \in {"default", Driver!Isolated(s, l).level}
<1>1. PICK t : t = [s EXCEPT !.level = l]
    OBVIOUS
<1>2. /\ t \in Driver!Session /\ t.path = s.path /\ t.by = s.by /\ t.db = s.db /\ t.tx = s.tx
      /\ t.plan = s.plan /\ t.level = l
    BY <1>1 DEF Driver!Session
<1>3. Driver!Isolated(s, l) = IF l = "default" \/ (engine = "PostgreSQL" /\ ~s.tx) THEN s ELSE t
    BY <1>1 DEF Driver!Isolated
<1> HIDE <1>1
<1> QED BY <1>2, <1>3

LEMMA Began ==
  ASSUME NEW s \in Driver!Session
  PROVE  /\ Driver!Begun(s) \in Driver!Session
         /\ Driver!Begun(s).db = s.db /\ Driver!Begun(s).path = s.path /\ Driver!Begun(s).plan = s.plan
         /\ Driver!Begun(s).tx
         /\ Driver!Begun(s).by \subseteq s.by /\ \A f \in {"db", "path", "plan"} : f \in Driver!Begun(s).by <=> f \in s.by
         /\ engine = "SQLite" => Driver!Begun(s).level = "asked"
         /\ engine \notin {"PostgreSQL", "SQLite"} => Driver!Begun(s).level = s.level
<1>1. CASE engine = "PostgreSQL" /\ s.tx
    BY <1>1 DEF Driver!Begun, Driver!Session
<1>2. CASE ~(engine = "PostgreSQL" /\ s.tx)
  <2> DEFINE l == CASE engine = "PostgreSQL" -> "default"
                    [] engine = "SQLite" -> "asked"
                    [] OTHER -> s.level
  <2>1. PICK t : t = [s EXCEPT !.tx = TRUE, !.by = @ \ {"tx"}, !.level = l]
      OBVIOUS
  <2>2. l \in Driver!Levels /\ (engine = "SQLite" => l = "asked")
        /\ (engine \notin {"PostgreSQL", "SQLite"} => l = s.level)
      BY DEF Driver!Session, Driver!Levels
  <2>3. Driver!Begun(s) = t
      BY <1>2, <2>1 DEF Driver!Begun
  <2> HIDE DEF l
  <2>4. /\ t \in Driver!Session /\ t.path = s.path /\ t.by = s.by \ {"tx"} /\ t.db = s.db /\ t.tx = TRUE
        /\ t.plan = s.plan /\ t.level = l
      BY <2>1, <2>2 DEF Driver!Session
  <2> HIDE <2>1
  <2> QED BY <2>2, <2>3, <2>4
<1> QED BY <1>1, <1>2

LEMMA BatchOpened ==
  ASSUME NEW s \in Driver!Session, Driver!UserPlan(s), Driver!UserTx(s), NEW t \in Driver!Opened(s)
  PROVE  /\ t \in Driver!Session /\ t.db = s.db /\ t.path = s.path /\ t.plan = s.plan /\ t.level = s.level
         /\ \A f \in {"db", "path", "plan"} : f \in t.by <=> f \in s.by
         /\ t.tx \/ "tx" \in t.by
         /\ t.plan => Driver!UserTx(t)
<1>1. CASE s.plan
  <2>1. PICK b : b = IF s.by = {} THEN s.by ELSE s.by \cup {"tx"}
      OBVIOUS
  <2>2. PICK u : u = [s EXCEPT !.by = b]
      OBVIOUS
  <2>3. b \in SUBSET {"db", "path", "tx", "plan"}
      BY <2>1 DEF Driver!Session
  <2>4. /\ u \in Driver!Session /\ u.path = s.path /\ u.by = b /\ u.db = s.db /\ u.tx = s.tx
        /\ u.plan = s.plan /\ u.level = s.level
      BY <2>2, <2>3 DEF Driver!Session
  <2>5. t = u
      BY <1>1, <2>1, <2>2 DEF Driver!Opened
  <2>6. "tx" \in b /\ \A f \in {"db", "path", "plan"} : f \in b <=> f \in s.by
      BY <1>1, <2>1 DEF Driver!UserPlan
  <2> HIDE <2>2, <2>1
  <2> QED BY <2>4, <2>5, <2>6 DEF Driver!UserTx
<1>2. CASE ~s.plan
  <2>1. PICK b : b = IF s.tx /\ engine # "MySQL" THEN s.by ELSE s.by \ {"tx"}
      OBVIOUS
  <2>2. t = [s EXCEPT !.tx = TRUE, !.by = b]
      BY <1>2, <2>1 DEF Driver!Opened
  <2>3. b \in SUBSET {"db", "path", "tx", "plan"}
      BY <2>1 DEF Driver!Session
  <2>4. /\ t \in Driver!Session /\ t.path = s.path /\ t.by = b /\ t.db = s.db /\ t.tx = TRUE
        /\ t.plan = s.plan /\ t.level = s.level
      BY <2>2, <2>3 DEF Driver!Session
  <2>5. \A f \in {"db", "path", "plan"} : f \in b <=> f \in s.by
      BY <2>1
  <2> HIDE <2>2, <2>1
  <2> QED BY <1>2, <2>4, <2>5
<1> QED BY <1>1, <1>2

LEMMA TransactionEnded ==
  ASSUME NEW s \in Driver!Session
  PROVE  /\ Driver!Ended(s) \in Driver!Session
         /\ Driver!Ended(s).db = s.db /\ Driver!Ended(s).path = s.path /\ Driver!Ended(s).plan = s.plan
         /\ Driver!Ended(s).level = s.level
         /\ \A f \in {"db", "path", "plan"} : f \in Driver!Ended(s).by <=> f \in s.by
         /\ s.plan => Driver!Ended(s) = s
         /\ ~s.plan => ~Driver!Ended(s).tx
<1>1. CASE s.plan
    BY <1>1 DEF Driver!Ended
<1>2. CASE ~s.plan
  <2>1. Driver!Ended(s) = [s EXCEPT !.tx = FALSE, !.by = @ \ {"tx"}]
      BY <1>2 DEF Driver!Ended
  <2>2. PICK b : b = s.by \ {"tx"}
      OBVIOUS
  <2>3. Driver!Ended(s) = [s EXCEPT !.tx = FALSE, !.by = b]
      BY <2>1, <2>2
  <2>4. b \in SUBSET {"db", "path", "tx", "plan"}
      BY <2>2 DEF Driver!Session
  <2>5. /\ Driver!Ended(s) \in Driver!Session /\ Driver!Ended(s).path = s.path /\ Driver!Ended(s).by = b /\ Driver!Ended(s).db = s.db
        /\ Driver!Ended(s).tx = FALSE /\ Driver!Ended(s).plan = s.plan /\ Driver!Ended(s).level = s.level
      BY <2>3, <2>4 DEF Driver!Session
  <2> QED BY <1>2, <2>2, <2>5
<1> QED BY <1>1, <1>2

LEMMA ScriptRan ==
  ASSUME NEW s \in Driver!Session, Driver!UserTx(s), Driver!UserPlan(s), Driver!DriversAssumption,
         NEW step \in Driver!UserSteps, NEW t \in Driver!UserEffects(s, step)
  PROVE  /\ t \in Driver!Session /\ Driver!UserTx(t) /\ Driver!UserPlan(t)
         /\ t.path = s.path \/ "path" \in t.by
         /\ "path" \in s.by => "path" \in t.by
         /\ step # "user_use" => t.db = s.db /\ ("db" \in s.by => "db" \in t.by)
<1>1. CASE step = "write"
  <2>1. t = s
      BY <1>1 DEF Driver!UserEffects
  <2> QED BY <1>1, <2>1
<1>2. CASE step = "user_use"
  <2>1. PICK d \in Driver!AllDatabases : t = Driver!Used(s, d)
      BY <1>2 DEF Driver!UserEffects
  <2>2. /\ t \in Driver!Session /\ t.path = s.path /\ t.tx = s.tx /\ t.plan = s.plan
        /\ \A f \in {"path", "tx", "plan"} : f \in t.by <=> f \in s.by
      BY <2>1, Selected
  <2>3. ("tx" \in t.by <=> "tx" \in s.by) /\ ("plan" \in t.by <=> "plan" \in s.by)
        /\ ("path" \in t.by <=> "path" \in s.by)
      BY <2>2
  <2> QED BY <1>2, <2>2, <2>3 DEF Driver!UserTx, Driver!UserPlan
<1>3. CASE step = "user_path"
  <2>1. PICK b : b = s.by \cup {"path"}
      OBVIOUS
  <2>2. t = [s EXCEPT !.path = Schema, !.by = b]
      BY <1>3, <2>1 DEF Driver!UserEffects
  <2>3. b \in SUBSET {"db", "path", "tx", "plan"}
      BY <2>1 DEF Driver!Session
  <2>4. t \in Driver!Session /\ t.by = b /\ t.db = s.db /\ t.tx = s.tx /\ t.plan = s.plan
      BY <2>2, <2>3 DEF Driver!Session
  <2> QED BY <1>3, <2>1, <2>4 DEF Driver!UserTx, Driver!UserPlan
<1>4. CASE step = "user_begin"
  <2>1. CASE s.plan
    <3>1. t = s
        BY <1>4, <2>1 DEF Driver!UserEffects
    <3> QED BY <1>4, <3>1
  <2>2. CASE ~s.plan
    <3>1. PICK b : b = s.by \cup {"tx"}
        OBVIOUS
    <3>2. t = [s EXCEPT !.tx = TRUE, !.by = b]
        BY <1>4, <2>2, <3>1 DEF Driver!UserEffects
    <3>3. b \in SUBSET {"db", "path", "tx", "plan"}
        BY <3>1 DEF Driver!Session
    <3>4. t \in Driver!Session /\ t.by = b /\ t.db = s.db /\ t.path = s.path /\ t.plan = s.plan
        BY <3>2, <3>3 DEF Driver!Session
    <3> QED BY <1>4, <3>1, <3>4 DEF Driver!UserTx, Driver!UserPlan
  <2> QED BY <2>1, <2>2
<1>5. CASE step = "user_commit"
  <2>1. CASE s.plan
    <3>1. t = s
        BY <1>5, <2>1 DEF Driver!UserEffects
    <3> QED BY <1>5, <3>1
  <2>2. CASE ~s.plan
    <3>1. PICK b : b = s.by \ {"tx"}
        OBVIOUS
    <3>2. t = [s EXCEPT !.tx = FALSE, !.by = b]
        BY <1>5, <2>2, <3>1 DEF Driver!UserEffects
    <3>3. b \in SUBSET {"db", "path", "tx", "plan"}
        BY <3>1 DEF Driver!Session
    <3>4. /\ t \in Driver!Session /\ t.by = b /\ t.db = s.db /\ t.path = s.path /\ t.plan = s.plan
          /\ t.tx = FALSE
        BY <3>2, <3>3 DEF Driver!Session
    <3> QED BY <1>5, <3>1, <3>4 DEF Driver!UserTx, Driver!UserPlan
  <2> QED BY <2>1, <2>2
<1>6. CASE step = "user_plan"
  <2>1. PICK b : b = IF s.plan THEN s.by \ {"plan"} ELSE s.by \cup {"plan"}
      OBVIOUS
  <2>2. t = [s EXCEPT !.plan = ~@, !.by = b]
      BY <1>6, <2>1 DEF Driver!UserEffects
  <2>3. PICK v : v = ~s.plan
      OBVIOUS
  <2>4. v \in BOOLEAN /\ b \in SUBSET {"db", "path", "tx", "plan"}
      BY <2>1, <2>3 DEF Driver!Session
  <2>5. t = [s EXCEPT !.plan = v, !.by = b]
      BY <2>2, <2>3
  <2>6. /\ t \in Driver!Session /\ t.by = b /\ t.db = s.db /\ t.path = s.path /\ t.tx = s.tx
        /\ t.plan = v
      BY <2>4, <2>5 DEF Driver!Session
  <2> QED BY <1>6, <2>1, <2>3, <2>6 DEF Driver!UserTx, Driver!UserPlan, Driver!Session
<1> QED BY <1>1, <1>2, <1>3, <1>4, <1>5, <1>6 DEF Driver!UserSteps

-----------------------------------------------------------------------------
\* A step of a call.

Sent(c, s) == [c EXCEPT !.session = s, !.todo = Tail(@),
                        !.asked = IF Head(c.todo) = "user_use" THEN [@ EXCEPT !.db = NoValue] ELSE @]

LEMMA SentFields ==
  ASSUME NEW c, Driver!CallShape(c), c.todo # <<>>, NEW s \in Driver!Session
  PROVE  /\ Driver!CallShape(Sent(c, s))
         /\ Sent(c, s).op = c.op /\ Sent(c, s).pool = c.pool /\ Sent(c, s).session = s
         /\ Sent(c, s).todo = Tail(c.todo)
         /\ Sent(c, s).asked.db = IF Head(c.todo) = "user_use" THEN NoValue ELSE c.asked.db
         /\ Sent(c, s).asked.path = c.asked.path /\ Sent(c, s).asked.tx = c.asked.tx
         /\ Sent(c, s).asked.plan = c.asked.plan /\ Sent(c, s).asked.level = c.asked.level
<1>1. PICK v : v = [c.asked EXCEPT !.db = NoValue]
    OBVIOUS
<1>2. /\ v \in Driver!Asked /\ v.db = NoValue /\ v.path = c.asked.path /\ v.tx = c.asked.tx
      /\ v.plan = c.asked.plan /\ v.level = c.asked.level
    BY <1>1 DEF Driver!CallShape, Driver!Asked
<1>3. PICK a : a = IF Head(c.todo) = "user_use" THEN v ELSE c.asked
    OBVIOUS
<1>4. /\ a \in Driver!Asked /\ a.path = c.asked.path /\ a.tx = c.asked.tx
      /\ a.db = IF Head(c.todo) = "user_use" THEN NoValue ELSE c.asked.db
      /\ a.plan = c.asked.plan /\ a.level = c.asked.level
    BY <1>2, <1>3 DEF Driver!CallShape
<1>5. Tail(c.todo) \in Seq(Driver!AllSteps)
    BY DEF Driver!CallShape
<1>6. PICK n : n = [c EXCEPT !.session = s, !.todo = Tail(@), !.asked = a]
    OBVIOUS
<1> DEFINE Calls == [op : {c.op}, pool : {c.pool}, session : Driver!Session, asked : Driver!Asked,
                     todo : Seq(Driver!AllSteps)]
<1>7. c \in Calls
    BY DEF Driver!CallShape
<1>8. /\ n \in Calls /\ n.op = c.op /\ n.pool = c.pool /\ n.session = s /\ n.asked = a
      /\ n.todo = Tail(c.todo)
    BY <1>4, <1>5, <1>6, <1>7
<1>9. n = [op |-> n.op, pool |-> n.pool, session |-> n.session, asked |-> n.asked, todo |-> n.todo]
    BY <1>8
<1>10. Driver!CallShape(n)
    BY <1>4, <1>5, <1>8, <1>9 DEF Driver!CallShape
<1>11. Sent(c, s) = n
    BY <1>1, <1>3, <1>6 DEF Sent
<1> HIDE <1>1, <1>3, <1>6, <1>7
<1> QED BY <1>4, <1>8, <1>10, <1>11

\* A statement meets what was asked for.
AsAsked(r) ==
  /\ r.asked.db \in {NoValue, r.had.db} \/ "db" \in r.by
  /\ \A f \in {"path", "tx", "plan"} : r.had[f] = r.asked[f] \/ f \in r.by
  /\ r.asked.level = "default" \/ r.had.level = r.asked.level

LEMMA RanAsAsked ==
  ASSUME NEW step, NEW s \in Driver!Session, NEW a \in Driver!Asked,
         step \in {"SERVER", "NAMED"} \/ Driver!Stateless \/ a.db \in {NoValue, s.db} \/ "db" \in s.by,
         s.path = a.path \/ "path" \in s.by,
         s.tx = a.tx \/ "tx" \in s.by,
         (s.plan \/ step = "EXPLAIN") = a.plan \/ "plan" \in s.by,
         a.level \in {"default", s.level}
  PROVE  AsAsked(Driver!Ran(step, s, a))
<1>1. PICK b : b = [a EXCEPT !.db = IF step = "SERVER" THEN NoValue ELSE @]
    OBVIOUS
<1>2. /\ b.db = IF step = "SERVER" THEN NoValue ELSE a.db
      /\ b.path = a.path /\ b.tx = a.tx /\ b.plan = a.plan /\ b.level = a.level
    BY <1>1 DEF Driver!Asked
<1>3. PICK h : h = [db |-> IF step = "NAMED" \/ Driver!Stateless THEN a.db ELSE s.db, path |-> s.path,
                    tx |-> s.tx, plan |-> s.plan \/ step = "EXPLAIN", level |-> s.level]
    OBVIOUS
<1>4. /\ h.db = IF step = "NAMED" \/ Driver!Stateless THEN a.db ELSE s.db
      /\ h.path = s.path /\ h.tx = s.tx /\ h.plan = (s.plan \/ step = "EXPLAIN") /\ h.level = s.level
      /\ h["path"] = h.path /\ h["tx"] = h.tx /\ h["plan"] = h.plan
      /\ b["path"] = b.path /\ b["tx"] = b.tx /\ b["plan"] = b.plan
    BY <1>3
<1>5. PICK r : r = [asked |-> b, had |-> h, by |-> s.by]
    OBVIOUS
<1>6. r.asked = b /\ r.had = h /\ r.by = s.by
    BY <1>5
<1>7. Driver!Ran(step, s, a) = r
    BY <1>1, <1>3, <1>5 DEF Driver!Ran
<1> HIDE <1>1, <1>3, <1>5
<1> QED BY <1>2, <1>4, <1>6, <1>7 DEF AsAsked

-----------------------------------------------------------------------------
\* The steps of a call, one class of operations at a time.

\* What a class does not look at.
LEMMA CallKept ==
  ASSUME NEW c, NEW n, Driver!CallInv(c), n.op = c.op, n.pool = c.pool, n.asked.path = c.asked.path,
         n.asked.tx = c.asked.tx, n.asked.plan = c.asked.plan, n.asked.level = c.asked.level,
         Driver!Pinned => n.session.db = c.session.db,
         ~Driver!First(n, {"USE"}),
         Driver!AtPath(n),
         n.op = "begin_transaction" => Driver!BeginInv(n),
         n.op = "execute_mutation_batch" => Driver!BatchInv(n),
         n.op = "explain" => Driver!ExplainInv(n),
         n.op \notin {"begin_transaction", "execute_mutation_batch", "explain"} => Driver!PlainInv(n)
  PROVE  Driver!CallInv(n)
BY DEF Driver!CallInv

\* What is left of a program, by the steps that are left.
UseIsolateBegin == <<"USE", "ISOLATION", "BEGIN">>
IsolateBegin == <<"ISOLATION", "BEGIN">>
JustBegin == <<"BEGIN">>
BeginIsolate == <<"BEGIN", "ISOLATION">>
JustIsolate == <<"ISOLATION">>
Done == <<>>

LEMMA BeginLefts ==
  /\ Head(UseIsolateBegin) = "USE" /\ Tail(UseIsolateBegin) = IsolateBegin
  /\ Head(IsolateBegin) = "ISOLATION" /\ Tail(IsolateBegin) = JustBegin
  /\ Head(JustBegin) = "BEGIN" /\ Tail(JustBegin) = Done
  /\ Head(BeginIsolate) = "BEGIN" /\ Tail(BeginIsolate) = JustIsolate
  /\ Head(JustIsolate) = "ISOLATION" /\ Tail(JustIsolate) = Done
  /\ UseIsolateBegin # Done /\ IsolateBegin # Done /\ JustBegin # Done
  /\ BeginIsolate # Done /\ JustIsolate # Done
<1>1. Head(UseIsolateBegin) = "USE" /\ Tail(UseIsolateBegin) = IsolateBegin
    BY DEF UseIsolateBegin, IsolateBegin
<1>2. Head(IsolateBegin) = "ISOLATION" /\ Tail(IsolateBegin) = JustBegin
    BY DEF IsolateBegin, JustBegin
<1>3. Head(JustBegin) = "BEGIN" /\ Tail(JustBegin) = Done
    BY DEF JustBegin, Done
<1>4. Head(BeginIsolate) = "BEGIN" /\ Tail(BeginIsolate) = JustIsolate
    BY DEF BeginIsolate, JustIsolate
<1>5. Head(JustIsolate) = "ISOLATION" /\ Tail(JustIsolate) = Done
    BY DEF JustIsolate, Done
<1>6. UseIsolateBegin # Done /\ IsolateBegin # Done /\ JustBegin # Done
    BY DEF UseIsolateBegin, IsolateBegin, JustBegin, Done
<1>7. BeginIsolate # Done /\ JustIsolate # Done
    BY DEF BeginIsolate, JustIsolate, Done
<1> QED BY <1>1, <1>2, <1>3, <1>4, <1>5, <1>6, <1>7

\* The invariant of begin_transaction, said with those names.
Beginning(c) ==
  /\ engine # "Redis"
  /\ engine = "PostgreSQL" => c.todo \in {BeginIsolate, JustIsolate, Done}
  /\ engine = "SQLite" => c.todo \in {JustBegin, Done}
  /\ ~Driver!Pinned => c.todo \in {UseIsolateBegin, IsolateBegin, JustBegin, Done}
  /\ Driver!AtDatabase(c) /\ Driver!UserPlan(c.session)
  /\ c.todo = Done \/ (engine = "PostgreSQL" /\ c.todo = JustIsolate) => c.session.tx
  /\ c.todo = Done \/ (~Driver!Pinned /\ c.todo = JustBegin) =>
       c.asked.level \in {"default", c.session.level}

LEMMA Begins ==
  ASSUME NEW c
  PROVE  Beginning(c) /\ ~Driver!First(c, {"PATH"}) <=> Driver!BeginInv(c)
BY DEF Beginning, Driver!BeginInv, UseIsolateBegin, IsolateBegin, JustBegin, BeginIsolate,
   JustIsolate, Done

LEMMA BeginSent ==
  ASSUME Driver!DriversAssumption, NEW c, Driver!CallShape(c), Driver!CallInv(c), c.op = "begin_transaction", c.todo # <<>>,
         NEW s \in Driver!Effects(Head(c.todo), c.session, c.asked)
  PROVE  s \in Driver!Session /\ Driver!CallInv(Sent(c, s)) /\ Head(c.todo) \notin Driver!Statements
<1>1. Beginning(c) /\ c.todo # Done /\ c.session \in Driver!Session /\ c.asked \in Driver!Asked /\ ~Driver!First(c, {"PATH"})
    BY Begins DEF Driver!CallInv, Driver!CallShape, Done
<1>2. c.session.path = c.asked.path \/ "path" \in c.session.by
    BY <1>1 DEF Driver!CallInv, Driver!AtPath
<1>3. PICK n : n = Sent(c, s)
    OBVIOUS
<1> DEFINE first == Head(c.todo)
<1>8. /\ engine = "PostgreSQL" =>
           \/ first = "BEGIN" /\ Tail(c.todo) = JustIsolate
           \/ first = "ISOLATION" /\ Tail(c.todo) = Done /\ c.session.tx
      /\ engine = "SQLite" => first = "BEGIN" /\ Tail(c.todo) = Done
      /\ ~Driver!Pinned =>
           \/ first = "USE" /\ Tail(c.todo) = IsolateBegin
           \/ first = "ISOLATION" /\ Tail(c.todo) = JustBegin
           \/ /\ first = "BEGIN" /\ Tail(c.todo) = Done
              /\ c.asked.level \in {"default", c.session.level}
    BY <1>1, BeginLefts DEF Beginning, Driver!Pinned
<1>4. CASE Head(c.todo) = "USE"
  <2>1. /\ ~Driver!Pinned /\ Tail(c.todo) = IsolateBegin /\ c.asked.db \in Driver!AllDatabases
        /\ engine # "Redis" /\ Driver!UserPlan(c.session)
      BY <1>1, <1>4, <1>8 DEF Beginning, Driver!Pinned, Driver!CallInv, Driver!First
  <2>2. s = Driver!Used(c.session, c.asked.db)
      BY <1>4 DEF Driver!Effects
  <2>3. /\ s \in Driver!Session /\ s.path = c.session.path /\ s.plan = c.session.plan
        /\ \A f \in {"path", "tx", "plan"} : f \in s.by <=> f \in c.session.by
        /\ (Driver!Inert(c.session) /\ c.session.by = {}) \/ s.db = c.asked.db \/ "db" \in s.by
      BY <1>1, <2>1, <2>2, Selected
  <2>4. s.db = c.asked.db \/ "db" \in s.by
      BY <2>1, <2>3 DEF Driver!Inert, Driver!UserPlan
  <2>5. /\ n.op = c.op /\ n.pool = c.pool /\ n.session = s /\ n.todo = IsolateBegin
        /\ n.asked.db = c.asked.db
        /\ n.asked.path = c.asked.path /\ n.asked.tx = c.asked.tx
        /\ n.asked.plan = c.asked.plan /\ n.asked.level = c.asked.level
      BY <1>3, <1>4, <2>1, <2>3, SentFields
  <2>6. Driver!AtDatabase(n) /\ Driver!AtPath(n)
      BY <1>2, <2>3, <2>4, <2>5 DEF Driver!AtDatabase, Driver!AtPath
  <2>7. Beginning(n) /\ ~Driver!First(n, {"PATH"}) /\ ~Driver!First(n, {"USE"})
      BY <2>1, <2>3, <2>5, <2>6, BeginLefts DEF Beginning, Driver!Pinned, Driver!First,
         Driver!UserPlan
  <2>8. Driver!CallInv(n)
      BY <2>1, <2>5, <2>6, <2>7, CallKept, Begins
  <2> QED BY <1>3, <1>4, <2>3, <2>8 DEF Driver!Statements
<1>5. CASE Head(c.todo) = "BEGIN"
  <2>1. s = Driver!Begun(c.session) /\ ~(engine = "SQLite" /\ c.session.tx)
      BY <1>5 DEF Driver!Effects
  <2>2. /\ s \in Driver!Session /\ s.db = c.session.db /\ s.path = c.session.path /\ s.plan = c.session.plan
        /\ s.tx /\ \A f \in {"db", "path", "plan"} : f \in s.by <=> f \in c.session.by
        /\ engine = "SQLite" => s.level = "asked"
        /\ engine \notin {"PostgreSQL", "SQLite"} => s.level = c.session.level
      BY <1>1, <2>1, Began
  <2>3. /\ n.op = c.op /\ n.pool = c.pool /\ n.session = s /\ n.todo = Tail(c.todo)
        /\ n.asked.db = c.asked.db
        /\ n.asked.path = c.asked.path /\ n.asked.tx = c.asked.tx
        /\ n.asked.plan = c.asked.plan /\ n.asked.level = c.asked.level
      BY <1>3, <1>5, <2>2, SentFields
  <2>4. n.todo = IF engine = "PostgreSQL" THEN JustIsolate ELSE Done
      BY <1>5, <1>8, <2>3 DEF Driver!Pinned
  <2>5. Driver!AtDatabase(n) /\ Driver!AtPath(n)
      BY <1>1, <1>2, <1>5, <2>2, <2>3 DEF Driver!AtDatabase, Driver!AtPath, Driver!First, Beginning
  <2>6. n.asked.level \in {"default", "asked"}
      BY <1>1, <2>3 DEF Driver!Asked, Driver!Levels
  <2>7. ~Driver!Pinned => c.asked.level \in {"default", c.session.level}
      BY <1>5, <1>8
  <2>8. n.todo = Done => n.asked.level \in {"default", n.session.level}
      BY <2>2, <2>3, <2>4, <2>6, <2>7, BeginLefts DEF Driver!Pinned
  <2>11. ~Driver!First(n, {"PATH"}) /\ ~Driver!First(n, {"USE"})
      BY <2>4, BeginLefts DEF Driver!First, Done
  <2>12. engine # "Redis" /\ Driver!UserPlan(n.session) /\ n.session.tx
      BY <1>1, <2>2, <2>3 DEF Beginning, Driver!UserPlan
  <2>9. Beginning(n) /\ ~Driver!First(n, {"PATH"}) /\ ~Driver!First(n, {"USE"})
      BY <2>4, <2>5, <2>8, <2>11, <2>12, BeginLefts DEF Beginning, Driver!Pinned
  <2>10. Driver!CallInv(n)
      BY <2>2, <2>3, <2>4, <2>5, <2>9, CallKept, Begins
  <2> QED BY <1>3, <1>5, <2>2, <2>10 DEF Driver!Statements
<1>6. CASE Head(c.todo) = "ISOLATION"
  <2>1. s = Driver!Isolated(c.session, c.asked.level)
      BY <1>6 DEF Driver!Effects
  <2>2. c.asked.level \in Driver!Levels
      BY <1>1 DEF Driver!Asked
  <2>3. engine = "PostgreSQL" => c.session.tx
      BY <1>6, <1>8
  <2>4. /\ s \in Driver!Session /\ s.by = c.session.by /\ s.db = c.session.db /\ s.path = c.session.path
        /\ s.tx = c.session.tx /\ s.plan = c.session.plan
        /\ c.asked.level \in {"default", s.level}
      BY <1>1, <2>1, <2>2, <2>3, Levelled
  <2>5. /\ n.op = c.op /\ n.pool = c.pool /\ n.session = s /\ n.todo = Tail(c.todo)
        /\ n.asked.db = c.asked.db
        /\ n.asked.path = c.asked.path /\ n.asked.tx = c.asked.tx
        /\ n.asked.plan = c.asked.plan /\ n.asked.level = c.asked.level
      BY <1>3, <1>6, <2>4, SentFields
  <2>6. n.todo = IF engine = "PostgreSQL" THEN Done ELSE JustBegin
      BY <1>6, <1>8, <2>5 DEF Driver!Pinned
  <2>7. Driver!AtDatabase(n) /\ Driver!AtPath(n)
      BY <1>1, <1>2, <1>6, <2>4, <2>5 DEF Driver!AtDatabase, Driver!AtPath, Driver!First, Beginning
  <2>8. engine # "SQLite"
      BY <1>6, <1>8
  <2>11. ~Driver!First(n, {"PATH"}) /\ ~Driver!First(n, {"USE"})
      BY <2>6, BeginLefts DEF Driver!First, Done
  <2>12. engine # "Redis" /\ Driver!UserPlan(n.session) /\ (engine = "PostgreSQL" => n.session.tx)
      BY <1>1, <2>3, <2>4, <2>5 DEF Beginning, Driver!UserPlan
  <2>13. n.asked.level \in {"default", n.session.level}
      BY <2>4, <2>5
  <2>9. Beginning(n) /\ ~Driver!First(n, {"PATH"}) /\ ~Driver!First(n, {"USE"})
      BY <2>6, <2>7, <2>8, <2>11, <2>12, <2>13, BeginLefts DEF Beginning, Driver!Pinned
  <2>10. Driver!CallInv(n)
      BY <2>4, <2>5, <2>6, <2>7, <2>9, CallKept, Begins
  <2> QED BY <1>3, <1>6, <2>4, <2>10 DEF Driver!Statements
<1>7. Head(c.todo) \in {"USE", "BEGIN", "ISOLATION"}
    BY <1>8 DEF Driver!Pinned
<1> QED BY <1>4, <1>5, <1>6, <1>7

UseBatch == <<"USE", "OPEN", "EDIT", "EDIT", "CLOSE">>
OpenBatch == <<"OPEN", "EDIT", "EDIT", "CLOSE">>
EditTwice == <<"EDIT", "EDIT", "CLOSE">>
EditOnce == <<"EDIT", "CLOSE">>
JustClose == <<"CLOSE">>
JustUndo == <<"UNDO">>

LEMMA BatchLefts ==
  /\ Head(UseBatch) = "USE" /\ Tail(UseBatch) = OpenBatch
  /\ Head(OpenBatch) = "OPEN" /\ Tail(OpenBatch) = EditTwice
  /\ Head(EditTwice) = "EDIT" /\ Tail(EditTwice) = EditOnce
  /\ Head(EditOnce) = "EDIT" /\ Tail(EditOnce) = JustClose
  /\ Head(JustClose) = "CLOSE" /\ Tail(JustClose) = Done
  /\ Head(JustUndo) = "UNDO" /\ Tail(JustUndo) = Done
  /\ UseBatch # Done /\ OpenBatch # Done /\ EditTwice # Done /\ EditOnce # Done
  /\ JustClose # Done /\ JustUndo # Done
<1>1. Head(UseBatch) = "USE" /\ Tail(UseBatch) = OpenBatch
    BY DEF UseBatch, OpenBatch
<1>2. Head(OpenBatch) = "OPEN" /\ Tail(OpenBatch) = EditTwice
    BY DEF OpenBatch, EditTwice
<1>3. Head(EditTwice) = "EDIT" /\ Tail(EditTwice) = EditOnce
    BY DEF EditTwice, EditOnce
<1>4. Head(EditOnce) = "EDIT" /\ Tail(EditOnce) = JustClose
    BY DEF EditOnce, JustClose
<1>5. Head(JustClose) = "CLOSE" /\ Tail(JustClose) = Done
    BY DEF JustClose, Done
<1>6. Head(JustUndo) = "UNDO" /\ Tail(JustUndo) = Done
    BY DEF JustUndo, Done
<1>7. UseBatch # Done /\ OpenBatch # Done /\ EditTwice # Done
    BY DEF UseBatch, OpenBatch, EditTwice, Done
<1>8. EditOnce # Done /\ JustClose # Done /\ JustUndo # Done
    BY DEF EditOnce, JustClose, JustUndo, Done
<1> QED BY <1>1, <1>2, <1>3, <1>4, <1>5, <1>6, <1>7, <1>8

\* The invariant of a batch, said with those names.
Batching(c) ==
  /\ c.todo \in {UseBatch, OpenBatch, EditTwice, EditOnce, JustClose, JustUndo, Done}
  /\ Driver!Pinned => c.todo # UseBatch
  /\ Driver!AtDatabase(c) /\ Driver!UserPlan(c.session)
  /\ c.session.plan \/ c.todo \in {Done, UseBatch, OpenBatch} => Driver!UserTx(c.session)
  /\ c.todo \in {EditTwice, EditOnce, JustClose} => c.session.tx \/ "tx" \in c.session.by

LEMMA BatchIs ==
  ASSUME NEW c
  PROVE  Batching(c) <=> Driver!BatchInv(c)
<1> DEFINE Lefts == {UseBatch, OpenBatch, EditTwice, EditOnce, JustClose, JustUndo, Done}
<1>1. /\ Driver!BatchInv(c) => c.todo \in Lefts
      /\ Batching(c) => c.todo \in Lefts
    BY DEF Batching, Driver!BatchInv, UseBatch, OpenBatch, EditTwice, EditOnce, JustClose,
       JustUndo, Done
<1>2. ASSUME c.todo \in Lefts
      PROVE  /\ Driver!First(c, {"USE"}) <=> c.todo = UseBatch
             /\ c.todo = <<>> \/ Driver!First(c, {"USE", "OPEN"}) <=> c.todo \in {Done, UseBatch, OpenBatch}
             /\ Driver!First(c, {"EDIT", "CLOSE"}) <=> c.todo \in {EditTwice, EditOnce, JustClose}
  <2>1. Driver!First(c, {"USE"}) <=> c.todo # Done /\ Head(c.todo) = "USE"
      BY DEF Driver!First, Done
  <2>2. Driver!First(c, {"USE", "OPEN"}) <=> c.todo # Done /\ Head(c.todo) \in {"USE", "OPEN"}
      BY DEF Driver!First, Done
  <2>3. Driver!First(c, {"EDIT", "CLOSE"}) <=> c.todo # Done /\ Head(c.todo) \in {"EDIT", "CLOSE"}
      BY DEF Driver!First, Done
  <2>4. c.todo = <<>> <=> c.todo = Done
      BY DEF Done
  <2> QED BY <1>2, <2>1, <2>2, <2>3, <2>4, BatchLefts
<1>3. c.todo \in Lefts <=>
        c.todo \in {<<"USE", "OPEN", "EDIT", "EDIT", "CLOSE">>, <<"OPEN", "EDIT", "EDIT", "CLOSE">>,
                    <<"EDIT", "EDIT", "CLOSE">>, <<"EDIT", "CLOSE">>, <<"CLOSE">>, <<"UNDO">>, <<>>}
    BY DEF UseBatch, OpenBatch, EditTwice, EditOnce, JustClose, JustUndo, Done
<1> HIDE DEF Lefts
<1>4. ASSUME Batching(c) PROVE Driver!BatchInv(c)
    BY <1>1, <1>2, <1>3, <1>4 DEF Batching, Driver!BatchInv
<1>5. ASSUME Driver!BatchInv(c) PROVE Batching(c)
  <2>1. c.todo \in Lefts
      BY <1>1, <1>5
  <2> QED BY <1>2, <1>5, <2>1 DEF Batching, Driver!BatchInv, Lefts
<1> QED BY <1>4, <1>5

\* What every class needs of a step: USE, and one that leaves the session where it is.
LEMMA UseSent ==
  ASSUME NEW c, Driver!CallShape(c), Driver!CallInv(c), c.todo # <<>>, Head(c.todo) = "USE",
         Driver!UserPlan(c.session), Driver!UserTx(c.session),
         NEW s \in Driver!Effects(Head(c.todo), c.session, c.asked)
  PROVE  /\ s \in Driver!Session /\ Driver!UserTx(s) /\ Driver!UserPlan(s)
         /\ Driver!AtDatabase(Sent(c, s)) /\ Driver!AtPath(Sent(c, s))
<1>1. c.session \in Driver!Session /\ c.asked.db \in Driver!AllDatabases
    BY DEF Driver!CallShape, Driver!CallInv, Driver!First
<1>2. s = Driver!Used(c.session, c.asked.db)
    BY DEF Driver!Effects
<1>3. /\ s \in Driver!Session /\ s.path = c.session.path /\ s.plan = c.session.plan /\ s.tx = c.session.tx
      /\ \A f \in {"path", "tx", "plan"} : f \in s.by <=> f \in c.session.by
      /\ (Driver!Inert(c.session) /\ c.session.by = {}) \/ s.db = c.asked.db \/ "db" \in s.by
    BY <1>1, <1>2, Selected
<1>4. s.db = c.asked.db \/ "db" \in s.by
    BY <1>3 DEF Driver!Inert, Driver!UserPlan, Driver!UserTx
<1>5. Driver!UserTx(s) /\ Driver!UserPlan(s)
    BY <1>3 DEF Driver!UserTx, Driver!UserPlan
<1>6. PICK n : n = Sent(c, s)
    OBVIOUS
<1>7. /\ n.session = s /\ n.asked.db = c.asked.db /\ n.asked.path = c.asked.path
      /\ n.op = c.op
    BY <1>3, <1>6, SentFields
<1>8. c.session.path = c.asked.path \/ "path" \in c.session.by
    BY DEF Driver!CallInv, Driver!AtPath, Driver!First
<1>9. Driver!AtDatabase(n) /\ Driver!AtPath(n)
    BY <1>3, <1>4, <1>7, <1>8 DEF Driver!AtDatabase, Driver!AtPath
<1> QED BY <1>3, <1>5, <1>6, <1>9

LEMMA StaySent ==
  ASSUME NEW c, Driver!CallShape(c), Driver!CallInv(c), c.todo # <<>>,
         Head(c.todo) \notin {"USE", "PATH", "user_use"}, NEW s \in Driver!Session,
         s.db = c.session.db, s.path = c.session.path,
         "db" \in c.session.by => "db" \in s.by, "path" \in c.session.by => "path" \in s.by
  PROVE  Driver!AtPath(Sent(c, s)) /\ (Driver!AtDatabase(c) => Driver!AtDatabase(Sent(c, s)))
<1>1. PICK n : n = Sent(c, s)
    OBVIOUS
<1>2. /\ n.session = s /\ n.asked.db = c.asked.db /\ n.asked.path = c.asked.path
    BY <1>1, SentFields
<1>3. c.session.path = c.asked.path \/ "path" \in c.session.by
    BY DEF Driver!CallInv, Driver!AtPath, Driver!First
<1>4. Driver!AtPath(n)
    BY <1>2, <1>3 DEF Driver!AtPath
<1>5. Driver!AtDatabase(c) => Driver!AtDatabase(n)
    BY <1>2 DEF Driver!AtDatabase, Driver!First
<1> QED BY <1>1, <1>4, <1>5

LEMMA BatchSent ==
  ASSUME Driver!DriversAssumption, NEW c, Driver!CallShape(c), Driver!CallInv(c), c.op = "execute_mutation_batch",
         c.todo # <<>>, NEW s \in Driver!Effects(Head(c.todo), c.session, c.asked)
  PROVE  /\ s \in Driver!Session /\ Driver!CallInv(Sent(c, s))
         /\ Head(c.todo) \in Driver!Statements => AsAsked(Driver!Ran(Head(c.todo), c.session, c.asked))
<1>1. /\ Batching(c) /\ c.todo # Done /\ c.session \in Driver!Session /\ c.asked \in Driver!Asked
      /\ c.asked.tx /\ ~c.asked.plan /\ c.asked.path = NoValue /\ c.asked.level = "default"
    BY BatchIs DEF Driver!CallInv, Driver!CallShape, Done, Driver!Asked
<1>2. PICK n : n = Sent(c, s)
    OBVIOUS
<1> DEFINE Fields == /\ n.op = c.op /\ n.pool = c.pool /\ n.session = s /\ n.todo = Tail(c.todo)
                     /\ n.asked.path = c.asked.path /\ n.asked.tx = c.asked.tx
                     /\ n.asked.plan = c.asked.plan /\ n.asked.level = c.asked.level
<1>3. s \in Driver!Session => Fields
    BY <1>2, SentFields
\* What is left to show in each case.
<1>4. ASSUME s \in Driver!Session, Driver!AtDatabase(n), Driver!AtPath(n), n.todo # UseBatch,
             Driver!Pinned => s.db = c.session.db,
             Batching(n)
      PROVE  s \in Driver!Session /\ Driver!CallInv(n)
  <2>1. ~Driver!First(n, {"USE"})
      BY <1>4, BatchLefts DEF Driver!First, Batching, Done
  <2> QED BY <1>1, <1>3, <1>4, <2>1, CallKept, BatchIs
<1> HIDE DEF Fields
<1>5. CASE Head(c.todo) = "USE"
  <2>1. c.todo = UseBatch /\ ~Driver!Pinned /\ Driver!UserPlan(c.session) /\ Driver!UserTx(c.session)
      BY <1>1, <1>5, BatchLefts DEF Batching
  <2>2. s \in Driver!Session /\ Driver!UserTx(s) /\ Driver!UserPlan(s) /\ Driver!AtDatabase(n) /\ Driver!AtPath(n)
      BY <1>2, <1>5, <2>1, UseSent
  <2>3. n.todo = OpenBatch /\ n.session = s
      BY <1>3, <2>1, <2>2, BatchLefts DEF Fields
  <2>4. Batching(n) /\ n.todo # UseBatch
      BY <2>2, <2>3, BatchLefts DEF Batching
  <2> QED BY <1>2, <1>4, <1>5, <2>1, <2>2, <2>4 DEF Driver!Statements
<1>6. CASE Head(c.todo) = "OPEN"
  <2>1. c.todo = OpenBatch /\ Driver!UserPlan(c.session) /\ Driver!UserTx(c.session) /\ Driver!AtDatabase(c)
      BY <1>1, <1>6, BatchLefts DEF Batching
  <2>2. s \in Driver!Opened(c.session)
      BY <1>6 DEF Driver!Effects
  <2>3. /\ s \in Driver!Session /\ s.db = c.session.db /\ s.path = c.session.path /\ s.plan = c.session.plan
        /\ \A f \in {"db", "path", "plan"} : f \in s.by <=> f \in c.session.by
        /\ s.tx \/ "tx" \in s.by
        /\ s.plan => Driver!UserTx(s)
      BY <1>1, <2>1, <2>2, BatchOpened
  <2>4. Driver!AtDatabase(n) /\ Driver!AtPath(n)
      BY <1>2, <1>6, <2>1, <2>3, StaySent
  <2>5. n.todo = EditTwice /\ n.session = s
      BY <1>3, <2>1, <2>3, BatchLefts DEF Fields
  <2>6. Batching(n) /\ n.todo # UseBatch
      BY <2>1, <2>3, <2>4, <2>5, BatchLefts DEF Batching, Driver!UserPlan
  <2> QED BY <1>2, <1>4, <1>6, <2>3, <2>4, <2>6 DEF Driver!Statements
<1>7. CASE Head(c.todo) = "EDIT"
  <2>1. c.todo \in {EditTwice, EditOnce} /\ Driver!AtDatabase(c)
      BY <1>1, <1>7, BatchLefts DEF Batching
  <2>2. s = c.session
      BY <1>7 DEF Driver!Effects, Driver!UserEffects
  <2>3. Driver!AtDatabase(n) /\ Driver!AtPath(n)
      BY <1>1, <1>2, <1>7, <2>1, <2>2, StaySent
  <2>4. n.todo \in {EditOnce, JustClose} /\ n.session = s
      BY <1>1, <1>3, <2>1, <2>2, BatchLefts DEF Fields
  <2>5. Batching(n) /\ n.todo # UseBatch
      BY <1>1, <2>1, <2>2, <2>3, <2>4, BatchLefts DEF Batching
  <2>6. AsAsked(Driver!Ran(Head(c.todo), c.session, c.asked))
    <3>1. c.asked.db \in {NoValue, c.session.db} \/ "db" \in c.session.by
        BY <1>7, <2>1 DEF Driver!AtDatabase, Driver!First
    <3>2. c.session.path = c.asked.path \/ "path" \in c.session.by
        BY <1>7 DEF Driver!CallInv, Driver!AtPath, Driver!First
    <3>3. c.session.tx \/ "tx" \in c.session.by
        BY <1>1, <2>1 DEF Batching
    <3>4. c.session.tx = c.asked.tx \/ "tx" \in c.session.by
        BY <1>1, <3>3 DEF Driver!Session, Driver!Asked
    <3>5. (c.session.plan \/ Head(c.todo) = "EXPLAIN") = c.asked.plan \/ "plan" \in c.session.by
        BY <1>1, <1>7 DEF Driver!Session, Driver!Asked, Batching, Driver!UserPlan
    <3> QED BY <1>1, <3>1, <3>2, <3>4, <3>5, RanAsAsked
  <2> QED BY <1>1, <1>2, <1>4, <2>2, <2>3, <2>5, <2>6
<1>8. CASE Head(c.todo) = "CLOSE"
  <2>1. c.todo = JustClose /\ Driver!AtDatabase(c) /\ Driver!UserPlan(c.session)
      BY <1>1, <1>8, BatchLefts DEF Batching
  <2>2. s = IF engine = "SQLServer" /\ "tx" \in c.session.by THEN c.session ELSE Driver!Ended(c.session)
      BY <1>8 DEF Driver!Effects, Driver!ClosedBatch
  <2>3. /\ s \in Driver!Session /\ s.db = c.session.db /\ s.path = c.session.path /\ s.plan = c.session.plan
        /\ \A f \in {"db", "path", "plan"} : f \in s.by <=> f \in c.session.by
        /\ Driver!UserTx(s)
      BY <1>1, <2>2, TransactionEnded DEF Driver!UserTx, Batching
  <2>4. Driver!AtDatabase(n) /\ Driver!AtPath(n)
      BY <1>2, <1>8, <2>1, <2>3, StaySent
  <2>5. n.todo = Done /\ n.session = s
      BY <1>3, <2>1, <2>3, BatchLefts DEF Fields
  <2>6. Batching(n) /\ n.todo # UseBatch
      BY <2>1, <2>3, <2>4, <2>5, BatchLefts DEF Batching, Driver!UserPlan
  <2> QED BY <1>2, <1>4, <1>8, <2>3, <2>4, <2>6 DEF Driver!Statements
<1>9. CASE Head(c.todo) = "UNDO"
  <2>1. c.todo = JustUndo /\ Driver!AtDatabase(c) /\ Driver!UserPlan(c.session)
      BY <1>1, <1>9, BatchLefts DEF Batching
  <2>2. s = Driver!Ended(c.session)
      BY <1>9 DEF Driver!Effects
  <2>3. /\ s \in Driver!Session /\ s.db = c.session.db /\ s.path = c.session.path /\ s.plan = c.session.plan
        /\ \A f \in {"db", "path", "plan"} : f \in s.by <=> f \in c.session.by
        /\ Driver!UserTx(s)
      BY <1>1, <2>2, TransactionEnded DEF Driver!UserTx, Batching
  <2>4. Driver!AtDatabase(n) /\ Driver!AtPath(n)
      BY <1>2, <1>9, <2>1, <2>3, StaySent
  <2>5. n.todo = Done /\ n.session = s
      BY <1>3, <2>1, <2>3, BatchLefts DEF Fields
  <2>6. Batching(n) /\ n.todo # UseBatch
      BY <2>1, <2>3, <2>4, <2>5, BatchLefts DEF Batching, Driver!UserPlan
  <2> QED BY <1>2, <1>4, <1>9, <2>3, <2>4, <2>6 DEF Driver!Statements
<1>10. Head(c.todo) \in {"USE", "OPEN", "EDIT", "CLOSE", "UNDO"}
    BY <1>1, BatchLefts DEF Batching
<1> QED BY <1>5, <1>6, <1>7, <1>8, <1>9, <1>10

UsePlanRun == <<"USE", "PLAN", "PLANNED", "UNPLAN">>
PlanRun == <<"PLAN", "PLANNED", "UNPLAN">>
RunPlanned == <<"PLANNED", "UNPLAN">>
JustUnplan == <<"UNPLAN">>
UseExplain == <<"USE", "EXPLAIN">>
JustExplain == <<"EXPLAIN">>

LEMMA ExplainLefts ==
  /\ Head(UsePlanRun) = "USE" /\ Tail(UsePlanRun) = PlanRun
  /\ Head(PlanRun) = "PLAN" /\ Tail(PlanRun) = RunPlanned
  /\ Head(RunPlanned) = "PLANNED" /\ Tail(RunPlanned) = JustUnplan
  /\ Head(JustUnplan) = "UNPLAN" /\ Tail(JustUnplan) = Done
  /\ Head(UseExplain) = "USE" /\ Tail(UseExplain) = JustExplain
  /\ Head(JustExplain) = "EXPLAIN" /\ Tail(JustExplain) = Done
  /\ UsePlanRun # Done /\ PlanRun # Done /\ RunPlanned # Done /\ JustUnplan # Done
  /\ UseExplain # Done /\ JustExplain # Done
<1>1. Head(UsePlanRun) = "USE" /\ Tail(UsePlanRun) = PlanRun
    BY DEF UsePlanRun, PlanRun
<1>2. Head(PlanRun) = "PLAN" /\ Tail(PlanRun) = RunPlanned
    BY DEF PlanRun, RunPlanned
<1>3. Head(RunPlanned) = "PLANNED" /\ Tail(RunPlanned) = JustUnplan
    BY DEF RunPlanned, JustUnplan
<1>4. Head(JustUnplan) = "UNPLAN" /\ Tail(JustUnplan) = Done
    BY DEF JustUnplan, Done
<1>5. Head(UseExplain) = "USE" /\ Tail(UseExplain) = JustExplain
    BY DEF UseExplain, JustExplain
<1>6. Head(JustExplain) = "EXPLAIN" /\ Tail(JustExplain) = Done
    BY DEF JustExplain, Done
<1>7. UsePlanRun # Done /\ PlanRun # Done /\ RunPlanned # Done
    BY DEF UsePlanRun, PlanRun, RunPlanned, Done
<1>8. JustUnplan # Done /\ UseExplain # Done /\ JustExplain # Done
    BY DEF JustUnplan, UseExplain, JustExplain, Done
<1> QED BY <1>1, <1>2, <1>3, <1>4, <1>5, <1>6, <1>7, <1>8

\* The invariant of explain, said with those names.
Explaining(c) ==
  /\ c.todo \in {UsePlanRun, PlanRun, RunPlanned, JustUnplan, UseExplain, JustExplain, Done}
  /\ Driver!Pinned => c.todo \notin {UsePlanRun, UseExplain}
  /\ Driver!Stateless \/ Driver!AtDatabase(c)
  /\ Driver!UserTx(c.session)
  /\ c.todo \in {Done, UsePlanRun, UseExplain, PlanRun, JustExplain} => Driver!UserPlan(c.session)
  /\ c.todo = RunPlanned => c.session.plan

LEMMA ExplainIs ==
  ASSUME NEW c
  PROVE  Explaining(c) <=> Driver!ExplainInv(c)
<1> DEFINE Lefts == {UsePlanRun, PlanRun, RunPlanned, JustUnplan, UseExplain, JustExplain, Done}
<1>1. /\ Driver!ExplainInv(c) => c.todo \in Lefts
      /\ Explaining(c) => c.todo \in Lefts
    BY DEF Explaining, Driver!ExplainInv, UsePlanRun, PlanRun, RunPlanned, JustUnplan, UseExplain,
       JustExplain, Done
<1>2. ASSUME c.todo \in Lefts
      PROVE  /\ Driver!First(c, {"USE"}) <=> c.todo \in {UsePlanRun, UseExplain}
             /\ c.todo = <<>> \/ Driver!First(c, {"USE", "PLAN", "EXPLAIN"})
                  <=> c.todo \in {Done, UsePlanRun, UseExplain, PlanRun, JustExplain}
             /\ Driver!First(c, {"PLANNED"}) <=> c.todo = RunPlanned
  <2>1. Driver!First(c, {"USE"}) <=> c.todo # Done /\ Head(c.todo) = "USE"
      BY DEF Driver!First, Done
  <2>2. Driver!First(c, {"USE", "PLAN", "EXPLAIN"})
          <=> c.todo # Done /\ Head(c.todo) \in {"USE", "PLAN", "EXPLAIN"}
      BY DEF Driver!First, Done
  <2>3. Driver!First(c, {"PLANNED"}) <=> c.todo # Done /\ Head(c.todo) = "PLANNED"
      BY DEF Driver!First, Done
  <2>4. c.todo = <<>> <=> c.todo = Done
      BY DEF Done
  <2> QED BY <1>2, <2>1, <2>2, <2>3, <2>4, ExplainLefts
<1>3. c.todo \in Lefts <=>
        c.todo \in {<<"USE", "PLAN", "PLANNED", "UNPLAN">>, <<"PLAN", "PLANNED", "UNPLAN">>,
                    <<"PLANNED", "UNPLAN">>, <<"UNPLAN">>, <<>>, <<"EXPLAIN">>, <<"USE", "EXPLAIN">>}
    BY DEF UsePlanRun, PlanRun, RunPlanned, JustUnplan, UseExplain, JustExplain, Done
<1> HIDE DEF Lefts
<1>4. ASSUME Explaining(c) PROVE Driver!ExplainInv(c)
  <2>1. c.todo \in Lefts
      BY <1>1, <1>4
  <2> QED BY <1>2, <1>3, <1>4, <2>1 DEF Explaining, Driver!ExplainInv
<1>5. ASSUME Driver!ExplainInv(c) PROVE Explaining(c)
  <2>1. c.todo \in Lefts
      BY <1>1, <1>5
  <2> QED BY <1>2, <1>5, <2>1 DEF Explaining, Driver!ExplainInv, Lefts
<1> QED BY <1>4, <1>5

LEMMA PlanSet ==
  ASSUME NEW s \in Driver!Session, NEW step \in {"PLAN", "UNPLAN"}, NEW a,
         NEW t \in Driver!Effects(step, s, a)
  PROVE  /\ t \in Driver!Session /\ t.db = s.db /\ t.path = s.path /\ t.tx = s.tx
         /\ t.plan = (step = "PLAN")
         /\ \A f \in {"db", "path", "tx"} : f \in t.by <=> f \in s.by
<1>1. PICK by : by = s.by \ {"plan"}
    OBVIOUS
<1>2. by \in SUBSET {"db", "path", "tx", "plan"} /\ \A f \in {"db", "path", "tx"} : f \in by <=> f \in s.by
    BY <1>1 DEF Driver!Session
<1>3. CASE step = "PLAN"
  <2>1. t = [s EXCEPT !.plan = TRUE, !.by = by]
      BY <1>1, <1>3 DEF Driver!Effects
  <2>2. /\ t \in Driver!Session /\ t.by = by /\ t.db = s.db /\ t.path = s.path /\ t.tx = s.tx /\ t.plan = TRUE
      BY <1>2, <2>1 DEF Driver!Session
  <2> QED BY <1>2, <1>3, <2>2
<1>4. CASE step = "UNPLAN"
  <2>1. t = [s EXCEPT !.plan = FALSE, !.by = by]
      BY <1>1, <1>4 DEF Driver!Effects
  <2>2. /\ t \in Driver!Session /\ t.by = by /\ t.db = s.db /\ t.path = s.path /\ t.tx = s.tx /\ t.plan = FALSE
      BY <1>2, <2>1 DEF Driver!Session
  <2> QED BY <1>2, <1>4, <2>2
<1> QED BY <1>3, <1>4

LEMMA ExplainSent ==
  ASSUME Driver!DriversAssumption, NEW c, Driver!CallShape(c), Driver!CallInv(c), c.op = "explain",
         c.todo # <<>>, NEW s \in Driver!Effects(Head(c.todo), c.session, c.asked)
  PROVE  /\ s \in Driver!Session /\ Driver!CallInv(Sent(c, s))
         /\ Head(c.todo) \in Driver!Statements => AsAsked(Driver!Ran(Head(c.todo), c.session, c.asked))
<1>1. /\ Explaining(c) /\ c.todo # Done /\ c.session \in Driver!Session /\ c.asked \in Driver!Asked
      /\ ~c.asked.tx /\ c.asked.plan /\ c.asked.path = NoValue /\ c.asked.level = "default"
    BY ExplainIs DEF Driver!CallInv, Driver!CallShape, Done, Driver!Asked
<1>2. PICK n : n = Sent(c, s)
    OBVIOUS
<1> DEFINE Fields == /\ n.op = c.op /\ n.pool = c.pool /\ n.session = s /\ n.todo = Tail(c.todo)
                     /\ n.asked.path = c.asked.path /\ n.asked.tx = c.asked.tx
                     /\ n.asked.plan = c.asked.plan /\ n.asked.level = c.asked.level
<1>3. s \in Driver!Session => Fields
    BY <1>2, SentFields
<1>4. ASSUME s \in Driver!Session, Driver!AtPath(n), n.todo \notin {UsePlanRun, UseExplain},
             Driver!Pinned => s.db = c.session.db,
             Explaining(n)
      PROVE  s \in Driver!Session /\ Driver!CallInv(n)
  <2>1. ~Driver!First(n, {"USE"})
      BY <1>4, ExplainLefts DEF Driver!First, Explaining, Done
  <2> QED BY <1>1, <1>3, <1>4, <2>1, CallKept, ExplainIs
<1> HIDE DEF Fields
<1>5. CASE Head(c.todo) = "USE"
  <2>1. c.todo \in {UsePlanRun, UseExplain} /\ ~Driver!Pinned /\ Driver!UserPlan(c.session) /\ Driver!UserTx(c.session)
      BY <1>1, <1>5, ExplainLefts DEF Explaining
  <2>2. s \in Driver!Session /\ Driver!UserTx(s) /\ Driver!UserPlan(s) /\ Driver!AtDatabase(n) /\ Driver!AtPath(n)
      BY <1>2, <1>5, <2>1, UseSent
  <2>3. n.todo \in {PlanRun, JustExplain} /\ n.session = s
      BY <1>3, <2>1, <2>2, ExplainLefts DEF Fields
  <2>4. Explaining(n) /\ n.todo \notin {UsePlanRun, UseExplain}
      BY <2>2, <2>3, ExplainLefts DEF Explaining
  <2> QED BY <1>2, <1>4, <1>5, <2>1, <2>2, <2>4 DEF Driver!Statements
<1>6. CASE Head(c.todo) \in {"PLAN", "UNPLAN"}
  <2>1. c.todo = IF Head(c.todo) = "PLAN" THEN PlanRun ELSE JustUnplan
      BY <1>1, <1>6, ExplainLefts DEF Explaining
  <2>2. /\ s \in Driver!Session /\ s.db = c.session.db /\ s.path = c.session.path /\ s.tx = c.session.tx
        /\ s.plan = (Head(c.todo) = "PLAN")
        /\ \A f \in {"db", "path", "tx"} : f \in s.by <=> f \in c.session.by
      BY <1>1, <1>6, PlanSet
  <2>3. Driver!AtPath(n) /\ (Driver!AtDatabase(c) => Driver!AtDatabase(n))
      BY <1>2, <1>6, <2>2, StaySent
  <2>4. n.todo = (IF Head(c.todo) = "PLAN" THEN RunPlanned ELSE Done) /\ n.session = s
    <3>1. Fields
        BY <1>3, <2>2
    <3> QED BY <2>1, <3>1, ExplainLefts DEF Fields
  <2>5. Driver!UserTx(s) /\ (Head(c.todo) # "PLAN" => Driver!UserPlan(s))
      BY <1>1, <2>2 DEF Explaining, Driver!UserTx, Driver!UserPlan
  <2>7. Driver!Stateless \/ Driver!AtDatabase(n)
      BY <1>1, <2>3 DEF Explaining
  <2>6. Explaining(n) /\ n.todo \notin {UsePlanRun, UseExplain}
    <3>1. CASE Head(c.todo) = "PLAN"
        BY <2>2, <2>4, <2>5, <2>7, <3>1, ExplainLefts DEF Explaining
    <3>2. CASE Head(c.todo) # "PLAN"
        BY <2>4, <2>5, <2>7, <3>2, ExplainLefts DEF Explaining
    <3> QED BY <3>1, <3>2
  <2> QED BY <1>2, <1>4, <1>6, <2>2, <2>3, <2>6 DEF Driver!Statements
<1>7. CASE Head(c.todo) \in {"PLANNED", "EXPLAIN"}
  <2>1. c.todo \in {RunPlanned, UseExplain, JustExplain} /\ c.todo # UseExplain
      BY <1>1, <1>7, ExplainLefts DEF Explaining
  <2>2. s = c.session
      BY <1>7 DEF Driver!Effects, Driver!UserEffects
  <2>3. Driver!AtPath(n) /\ (Driver!AtDatabase(c) => Driver!AtDatabase(n))
      BY <1>1, <1>2, <1>7, <2>2, StaySent
  <2>4. n.todo = (IF c.todo = RunPlanned THEN JustUnplan ELSE Done) /\ n.session = s
      BY <1>1, <1>3, <2>1, <2>2, ExplainLefts DEF Fields
  <2>5. Explaining(n) /\ n.todo \notin {UsePlanRun, UseExplain}
      BY <1>1, <2>1, <2>2, <2>3, <2>4, ExplainLefts DEF Explaining
  <2>6. AsAsked(Driver!Ran(Head(c.todo), c.session, c.asked))
    <3>1. Driver!Stateless \/ c.asked.db \in {NoValue, c.session.db} \/ "db" \in c.session.by
        BY <1>1, <1>7, <2>1 DEF Driver!AtDatabase, Driver!First, Explaining
    <3>2. c.session.path = c.asked.path \/ "path" \in c.session.by
        BY <1>7 DEF Driver!CallInv, Driver!AtPath, Driver!First
    <3>3. c.session.tx = c.asked.tx \/ "tx" \in c.session.by
        BY <1>1 DEF Driver!Session, Driver!Asked, Explaining, Driver!UserTx
    <3>4. Head(c.todo) = "EXPLAIN" \/ c.session.plan
        BY <1>1, <1>7, <2>1, ExplainLefts DEF Explaining
    <3>5. (c.session.plan \/ Head(c.todo) = "EXPLAIN") = c.asked.plan \/ "plan" \in c.session.by
        BY <1>1, <3>4 DEF Driver!Session, Driver!Asked
    <3> QED BY <1>1, <3>1, <3>2, <3>3, <3>5, RanAsAsked
  <2> QED BY <1>1, <1>2, <1>4, <2>2, <2>3, <2>5, <2>6
<1>8. Head(c.todo) \in {"USE", "PLAN", "UNPLAN", "PLANNED", "EXPLAIN"}
    BY <1>1, ExplainLefts DEF Explaining
<1> QED BY <1>5, <1>6, <1>7, <1>8

\* The other operations: what is left after the first step.
LEMMA PlainLeft ==
  ASSUME NEW c, Driver!CallShape(c), c.todo # <<>>, Driver!PlainInv(c), NEW n, n.todo = Tail(c.todo)
  PROVE  /\ ~Driver!First(n, {"USE", "PATH"})
         /\ Driver!First(n, {"USE", "PATH", "RUN", "NAMED", "SERVER"} \cup Driver!UserSteps) \/ n.todo = <<>>
         /\ \A i \in 2..Len(n.todo) : n.todo[i] \in {"RUN", "NAMED", "SERVER"} \cup Driver!UserSteps
         /\ Driver!Pinned => \A i \in 1..Len(n.todo) : n.todo[i] \notin {"USE", "user_use"}
         /\ (\A i \in 1..Len(c.todo) : c.todo[i] \in {"NAMED", "SERVER"}) =>
              \A i \in 1..Len(n.todo) : n.todo[i] \in {"NAMED", "SERVER"}
<1>1. c.todo \in Seq(Driver!AllSteps) /\ Len(c.todo) \in Nat \ {0}
    BY DEF Driver!CallShape
<1>2. Len(n.todo) = Len(c.todo) - 1 /\ \A i \in 1..Len(n.todo) : n.todo[i] = c.todo[i + 1]
    BY <1>1
<1>3. n.todo \in Seq(Driver!AllSteps)
    BY <1>1
<1>4. \A i \in 1..Len(n.todo) : n.todo[i] \in {"RUN", "NAMED", "SERVER"} \cup Driver!UserSteps
  <2>1. TAKE i \in 1..Len(n.todo)
  <2>2. i + 1 \in 2..Len(c.todo) /\ n.todo[i] = c.todo[i + 1]
      BY <1>1, <1>2
  <2> QED BY <2>2 DEF Driver!PlainInv
<1>5. \A i \in 1..Len(n.todo) : i + 1 \in 1..Len(c.todo)
    BY <1>1, <1>2
<1>6. Driver!Pinned => \A i \in 1..Len(n.todo) : n.todo[i] \notin {"USE", "user_use"}
    BY <1>2, <1>5 DEF Driver!PlainInv
<1>7. (\A i \in 1..Len(c.todo) : c.todo[i] \in {"NAMED", "SERVER"}) =>
        \A i \in 1..Len(n.todo) : n.todo[i] \in {"NAMED", "SERVER"}
    BY <1>2, <1>5
<1>8. n.todo # <<>> => Head(n.todo) = n.todo[1] /\ 1 \in 1..Len(n.todo)
    BY <1>3
<1>9. n.todo # <<>> => Head(n.todo) \in {"RUN", "NAMED", "SERVER"} \cup Driver!UserSteps
    BY <1>4, <1>8
<1>10. \A i \in 2..Len(n.todo) : i \in 1..Len(n.todo)
    BY <1>1, <1>2
<1>11. {"RUN", "NAMED", "SERVER"} \cup Driver!UserSteps \subseteq
         {"USE", "PATH", "RUN", "NAMED", "SERVER"} \cup Driver!UserSteps
       /\ "USE" \notin {"RUN", "NAMED", "SERVER"} \cup Driver!UserSteps
       /\ "PATH" \notin {"RUN", "NAMED", "SERVER"} \cup Driver!UserSteps
    BY DEF Driver!UserSteps
<1> QED BY <1>4, <1>6, <1>7, <1>9, <1>10, <1>11 DEF Driver!First

LEMMA PathSet ==
  ASSUME NEW s \in Driver!Session, NEW a \in Driver!Asked, NEW t \in Driver!Effects("PATH", s, a)
  PROVE  /\ t \in Driver!Session /\ t.db = s.db /\ t.path = a.path /\ t.tx = s.tx /\ t.plan = s.plan
         /\ \A f \in {"db", "tx", "plan"} : f \in t.by <=> f \in s.by
<1>1. PICK by : by = s.by \ {"path"}
    OBVIOUS
<1>2. by \in SUBSET {"db", "path", "tx", "plan"} /\ \A f \in {"db", "tx", "plan"} : f \in by <=> f \in s.by
    BY <1>1 DEF Driver!Session
<1>3. t = [s EXCEPT !.path = a.path, !.by = by]
    BY <1>1 DEF Driver!Effects
<1>4. PICK p : p = a.path
    OBVIOUS
<1>5. t = [s EXCEPT !.path = p, !.by = by] /\ p \in {NoValue, Schema}
    BY <1>3, <1>4 DEF Driver!Asked
<1>6. /\ t \in Driver!Session /\ t.by = by /\ t.db = s.db /\ t.tx = s.tx /\ t.plan = s.plan /\ t.path = p
    BY <1>2, <1>5 DEF Driver!Session
<1> HIDE <1>3, <1>5
<1> QED BY <1>2, <1>4, <1>6

LEMMA PlainSent ==
  ASSUME Driver!DriversAssumption, NEW c, Driver!CallShape(c), Driver!CallInv(c),
         c.op \notin {"begin_transaction", "execute_mutation_batch", "explain"},
         c.todo # <<>>, NEW s \in Driver!Effects(Head(c.todo), c.session, c.asked)
  PROVE  /\ s \in Driver!Session /\ Driver!CallInv(Sent(c, s))
         /\ Head(c.todo) \in Driver!Statements => AsAsked(Driver!Ran(Head(c.todo), c.session, c.asked))
<1>1. /\ Driver!PlainInv(c) /\ c.session \in Driver!Session /\ c.asked \in Driver!Asked /\ Driver!UserTx(c.session)
      /\ Driver!UserPlan(c.session)
      /\ ~c.asked.tx /\ ~c.asked.plan /\ c.asked.level = "default"
    BY DEF Driver!CallInv, Driver!CallShape, Driver!Asked, Driver!PlainInv
<1>2. PICK n : n = Sent(c, s)
    OBVIOUS
<1> DEFINE Fields == /\ n.op = c.op /\ n.pool = c.pool /\ n.session = s /\ n.todo = Tail(c.todo)
                     /\ n.asked.path = c.asked.path /\ n.asked.tx = c.asked.tx
                     /\ n.asked.plan = c.asked.plan /\ n.asked.level = c.asked.level
                     /\ n.asked.db = IF Head(c.todo) = "user_use" THEN NoValue ELSE c.asked.db
<1>3. s \in Driver!Session => Fields
    BY <1>2, SentFields
<1> DEFINE OnlyNamed(d) == \A i \in 1..Len(d.todo) : d.todo[i] \in {"NAMED", "SERVER"}
<1>4. ASSUME s \in Driver!Session, Driver!AtPath(n), Driver!UserTx(s), Driver!UserPlan(s), Driver!Pinned => s.db = c.session.db,
             Driver!AtDatabase(n) \/ Driver!Stateless \/ OnlyNamed(c)
      PROVE  s \in Driver!Session /\ Driver!CallInv(n)
  <2>1. Fields
      BY <1>3, <1>4
  <2>2. /\ ~Driver!First(n, {"USE", "PATH"})
        /\ Driver!First(n, {"USE", "PATH", "RUN", "NAMED", "SERVER"} \cup Driver!UserSteps) \/ n.todo = <<>>
        /\ \A i \in 2..Len(n.todo) : n.todo[i] \in {"RUN", "NAMED", "SERVER"} \cup Driver!UserSteps
        /\ Driver!Pinned => \A i \in 1..Len(n.todo) : n.todo[i] \notin {"USE", "user_use"}
        /\ OnlyNamed(c) => OnlyNamed(n)
      BY <1>1, <2>1, PlainLeft
  <2>3. Driver!PlainInv(n)
      BY <1>4, <2>1, <2>2 DEF Driver!PlainInv
  <2>4. ~Driver!First(n, {"USE"})
      BY <2>2 DEF Driver!First
  <2> HIDE DEF Fields, OnlyNamed
  <2>5. /\ n.op = c.op /\ n.pool = c.pool /\ n.session = s
        /\ n.asked.path = c.asked.path /\ n.asked.tx = c.asked.tx
        /\ n.asked.plan = c.asked.plan /\ n.asked.level = c.asked.level
      BY <2>1 DEF Fields
  <2> QED BY <1>4, <2>3, <2>4, <2>5, CallKept
<1> HIDE DEF Fields
<1>5. 1 \in 1..Len(c.todo) /\ Head(c.todo) = c.todo[1]
    BY DEF Driver!CallShape
<1>6. Driver!AtDatabase(c) \/ Driver!Stateless \/ OnlyNamed(c)
    BY <1>1 DEF Driver!PlainInv
<1>7. OnlyNamed(c) => Head(c.todo) \in {"NAMED", "SERVER"}
    BY <1>5
<1>8. Driver!Pinned => Head(c.todo) \notin {"USE", "user_use"}
    BY <1>1, <1>5 DEF Driver!PlainInv
<1> HIDE DEF OnlyNamed
<1>9. CASE Head(c.todo) = "USE"
  <2>1. s \in Driver!Session /\ Driver!UserTx(s) /\ Driver!UserPlan(s) /\ Driver!AtDatabase(n) /\ Driver!AtPath(n)
      BY <1>1, <1>2, <1>9, UseSent
  <2> QED BY <1>2, <1>4, <1>8, <1>9, <2>1 DEF Driver!Statements
<1>10. CASE Head(c.todo) = "PATH"
  <2>1. /\ s \in Driver!Session /\ s.db = c.session.db /\ s.path = c.asked.path /\ s.tx = c.session.tx
        /\ s.plan = c.session.plan
        /\ \A f \in {"db", "tx", "plan"} : f \in s.by <=> f \in c.session.by
      BY <1>1, <1>10, PathSet
  <2>2. /\ n.session = s /\ n.asked.path = c.asked.path /\ n.asked.db = c.asked.db
      BY <1>3, <1>10, <2>1 DEF Fields
  <2>3. Driver!AtPath(n) /\ (Driver!AtDatabase(c) => Driver!AtDatabase(n))
      BY <1>10, <2>1, <2>2 DEF Driver!AtPath, Driver!AtDatabase, Driver!First
  <2>4. Driver!UserTx(s) /\ Driver!UserPlan(s)
      BY <1>1, <2>1 DEF Driver!UserTx, Driver!UserPlan
  <2> QED BY <1>2, <1>4, <1>6, <1>10, <2>1, <2>3, <2>4 DEF Driver!Statements
<1>11. CASE Head(c.todo) \in {"RUN", "NAMED", "SERVER", "write"}
  <2>1. s = c.session
      BY <1>11 DEF Driver!Effects, Driver!UserEffects
  <2>2. Driver!AtPath(n) /\ (Driver!AtDatabase(c) => Driver!AtDatabase(n))
      BY <1>1, <1>2, <1>11, <2>1, StaySent
  <2>3. s \in Driver!Session /\ Driver!CallInv(n)
      BY <1>1, <1>4, <1>6, <2>1, <2>2
  <2>4. AsAsked(Driver!Ran(Head(c.todo), c.session, c.asked))
    <3>1. Head(c.todo) \in {"SERVER", "NAMED"} \/ Driver!Stateless
            \/ c.asked.db \in {NoValue, c.session.db} \/ "db" \in c.session.by
        BY <1>6, <1>7, <1>11 DEF Driver!AtDatabase, Driver!First
    <3>2. c.session.path = c.asked.path \/ "path" \in c.session.by
        BY <1>11 DEF Driver!CallInv, Driver!AtPath, Driver!First
    <3>3. c.session.tx = c.asked.tx \/ "tx" \in c.session.by
        BY <1>1 DEF Driver!Session, Driver!Asked, Driver!UserTx
    <3>4. (c.session.plan \/ Head(c.todo) = "EXPLAIN") = c.asked.plan \/ "plan" \in c.session.by
        BY <1>1, <1>11 DEF Driver!Session, Driver!Asked, Driver!UserPlan
    <3> QED BY <1>1, <3>1, <3>2, <3>3, <3>4, RanAsAsked
  <2> QED BY <1>2, <2>3, <2>4
<1>12. CASE Head(c.todo) \in Driver!UserSteps /\ Head(c.todo) # "write"
  <2>1. s \in Driver!UserEffects(c.session, Head(c.todo))
      BY <1>12 DEF Driver!Effects, Driver!UserSteps
  <2>2. /\ s \in Driver!Session /\ Driver!UserTx(s) /\ Driver!UserPlan(s)
        /\ s.path = c.session.path \/ "path" \in s.by
        /\ "path" \in c.session.by => "path" \in s.by
        /\ Head(c.todo) # "user_use" =>
             s.db = c.session.db /\ ("db" \in c.session.by => "db" \in s.by)
      BY <1>1, <1>12, <2>1, ScriptRan
  <2>3. /\ n.session = s /\ n.asked.path = c.asked.path
        /\ n.asked.db = IF Head(c.todo) = "user_use" THEN NoValue ELSE c.asked.db
      BY <1>3, <2>2 DEF Fields
  <2>4. ~Driver!First(c, {"USE"}) /\ ~Driver!First(c, {"PATH"}) /\ Head(c.todo) \notin Driver!Statements
        /\ Head(c.todo) \notin {"NAMED", "SERVER"}
      BY <1>12 DEF Driver!First, Driver!UserSteps, Driver!Statements
  <2>5. Driver!AtPath(n)
      BY <2>2, <2>3, <2>4 DEF Driver!AtPath, Driver!CallInv
  <2>6. Driver!AtDatabase(c) => Driver!AtDatabase(n)
      BY <2>2, <2>3, <2>4 DEF Driver!AtDatabase
  <2>7. Driver!Pinned => s.db = c.session.db
      BY <1>8, <2>2
  <2>8. Driver!AtDatabase(n) \/ Driver!Stateless
      BY <1>6, <1>7, <2>4, <2>6
  <2> QED BY <1>2, <1>4, <2>2, <2>4, <2>5, <2>7, <2>8
<1>13. Head(c.todo) \in {"USE", "PATH", "RUN", "NAMED", "SERVER"} \cup Driver!UserSteps
    BY <1>1 DEF Driver!PlainInv, Driver!First
<1> QED BY <1>9, <1>10, <1>11, <1>12, <1>13

-----------------------------------------------------------------------------
\* What a call is when it starts.

LEMMA Scripts ==
  ASSUME Driver!DriversAssumption, NEW op, NEW script \in Driver!ScriptsOf(op)
  PROVE  /\ script \in Seq(Driver!UserSteps) /\ Len(script) \in Nat \ {0}
         /\ Driver!Pinned => \A i \in 1..Len(script) : script[i] # "user_use"
<1>1. Driver!UserStatements \subseteq Driver!UserSteps
    BY DEF Driver!UserStatements, Driver!UserSteps
<1>2. Driver!Pinned => "user_use" \notin Driver!UserStatements
    BY DEF Driver!UserStatements, Driver!Pinned
<1>3. PICK n \in Nat \ {0} : script \in [1..n -> Driver!UserStatements]
    BY DEF Driver!ScriptsOf, Driver!DriversAssumption
<1> QED BY <1>1, <1>2, <1>3

Plain(t) ==
  /\ t \in Seq(Driver!AllSteps) /\ t # <<>>
  /\ Head(t) \in {"USE", "PATH", "RUN", "NAMED", "SERVER"} \cup Driver!UserSteps
  /\ \A i \in 2..Len(t) : t[i] \in {"RUN", "NAMED", "SERVER"} \cup Driver!UserSteps
  /\ Driver!Pinned => \A i \in 2..Len(t) : t[i] # "user_use"

LEMMA PlainProgram ==
  ASSUME NEW op, NEW script, NEW p, p \in Pins \cup Selects, Driver!Last(p) # "SCRIPT"
  PROVE  /\ Plain(Driver!Steps(p, script))
         /\ Head(Driver!Steps(p, script)) \in {"USE", "RUN", "NAMED", "SERVER"}
         /\ p \in Pins => Head(Driver!Steps(p, script)) \in {"RUN", "SERVER"}
         /\ p \in Selects => \/ Head(Driver!Steps(p, script)) = "USE"
                             \/ \A i \in 1..Len(Driver!Steps(p, script)) : Driver!Steps(p, script)[i] \in {"NAMED", "SERVER"}
         /\ Head(Driver!Steps(p, script)) = "SERVER" => p = <<"SERVER">>
<1>1. Driver!Steps(p, script) = p
    BY DEF Driver!Steps
<1>2. CASE p = <<"RUN">>
    BY <1>1, <1>2 DEF Plain, Driver!AllSteps, Driver!UserSteps, Selects
<1>3. CASE p = <<"RUN", "RUN">>
    BY <1>1, <1>3 DEF Plain, Driver!AllSteps, Driver!UserSteps, Selects
<1>4. CASE p = <<"RUN", "RUN", "RUN">>
    BY <1>1, <1>4 DEF Plain, Driver!AllSteps, Driver!UserSteps, Selects
<1>5. CASE p = <<"SERVER">>
    BY <1>1, <1>5 DEF Plain, Driver!AllSteps, Driver!UserSteps
<1>6. CASE p = <<"USE", "RUN">>
    BY <1>1, <1>6 DEF Plain, Driver!AllSteps, Driver!UserSteps, Pins
<1>7. CASE p = <<"USE", "RUN", "RUN">>
    BY <1>1, <1>7 DEF Plain, Driver!AllSteps, Driver!UserSteps, Pins
<1>8. CASE p = <<"USE", "RUN", "RUN", "RUN">>
    BY <1>1, <1>8 DEF Plain, Driver!AllSteps, Driver!UserSteps, Pins
<1>9. CASE p = <<"USE", "RUN", "RUN", "RUN", "RUN">>
    BY <1>1, <1>9 DEF Plain, Driver!AllSteps, Driver!UserSteps, Pins
<1>10. CASE p = <<"NAMED">>
    BY <1>1, <1>10 DEF Plain, Driver!AllSteps, Driver!UserSteps, Pins
<1>11. CASE p = <<"NAMED", "NAMED">>
    BY <1>1, <1>11 DEF Plain, Driver!AllSteps, Driver!UserSteps, Pins
<1>12. p # <<"SCRIPT">> /\ p # <<"USE", "SCRIPT">>
    BY DEF Driver!Last
<1> QED
    BY <1>2, <1>3, <1>4, <1>5, <1>6, <1>7, <1>8, <1>9, <1>10, <1>11, <1>12 DEF Pins, Selects

LEMMA Prefixed ==
  ASSUME NEW A, NEW x \in A, NEW s \in Seq(A), NEW t, t = <<x>> \o s
  PROVE  /\ t \in Seq(A) /\ Len(t) = Len(s) + 1 /\ t[1] = x
         /\ \A i \in 2..Len(t) : t[i] = s[i - 1] /\ i - 1 \in 1..Len(s)
<1>1. PICK f : f = <<x>>
    OBVIOUS
<1>2. f \in Seq(A) /\ Len(f) = 1 /\ f[1] = x
    BY <1>1
<1>3. t = f \o s
    BY <1>1
<1> HIDE <1>1
<1>4. t \in Seq(A) /\ Len(t) = Len(s) + 1
    BY <1>2, <1>3
<1>5. t[1] = x
    BY <1>2, <1>3
<1>6. ASSUME NEW i \in 2..Len(t)
      PROVE  t[i] = s[i - 1] /\ i - 1 \in 1..Len(s)
    BY <1>2, <1>3, <1>4
<1> QED BY <1>4, <1>5, <1>6

LEMMA ScriptProgram ==
  ASSUME NEW script \in Seq(Driver!UserSteps), Len(script) \in Nat \ {0},
         Driver!Pinned => \A i \in 1..Len(script) : script[i] # "user_use",
         NEW p \in {<<"SCRIPT">>, <<"USE", "SCRIPT">>, <<"PATH", "SCRIPT">>}
  PROVE  /\ Plain(Driver!Steps(p, script))
         /\ p = <<"SCRIPT">> => Head(Driver!Steps(p, script)) \in Driver!UserSteps
                                /\ (Driver!Pinned => Head(Driver!Steps(p, script)) # "user_use")
         /\ p = <<"USE", "SCRIPT">> => Head(Driver!Steps(p, script)) = "USE"
         /\ p = <<"PATH", "SCRIPT">> => Head(Driver!Steps(p, script)) = "PATH"
<1>1. CASE p = <<"SCRIPT">>
  <2>1. Driver!Steps(p, script) = <<>> \o script
      BY <1>1 DEF Driver!Steps, Driver!Last, Driver!Front
  <2>2. Driver!Steps(p, script) = script
      BY <2>1
  <2>3. Head(script) = script[1] /\ 1 \in 1..Len(script) /\ script # <<>>
      OBVIOUS
  <2>4. script \in Seq(Driver!AllSteps)
      BY DEF Driver!AllSteps
  <2>5. \A i \in 2..Len(script) : i \in 1..Len(script)
      OBVIOUS
  <2>6. Plain(script)
      BY <2>3, <2>4, <2>5 DEF Plain
  <2> QED BY <1>1, <2>2, <2>3, <2>6
<1>2. ASSUME NEW x \in {"USE", "PATH"}, p = <<x, "SCRIPT">>
      PROVE  Plain(Driver!Steps(p, script)) /\ Head(Driver!Steps(p, script)) = x
  <2>1. Driver!Steps(p, script) = <<x>> \o script
      BY <1>2 DEF Driver!Steps, Driver!Last, Driver!Front
  <2>2. PICK t : t = <<x>> \o script
      OBVIOUS
  <2>3. x \in Driver!AllSteps /\ Driver!UserSteps \subseteq Driver!AllSteps
      BY DEF Driver!AllSteps
  <2>4. /\ t \in Seq(Driver!AllSteps) /\ Len(t) = Len(script) + 1 /\ t[1] = x
        /\ \A i \in 2..Len(t) : t[i] = script[i - 1] /\ i - 1 \in 1..Len(script)
    <3>1. script \in Seq(Driver!AllSteps)
        BY DEF Driver!AllSteps
    <3> QED BY <2>2, <2>3, <3>1, Prefixed
  <2>5. Head(t) = x /\ t # <<>>
      BY <2>4
  <2>6. Plain(t)
      BY <2>4, <2>5 DEF Plain
  <2> QED BY <2>1, <2>2, <2>5, <2>6
<1> QED BY <1>1, <1>2

LEMMA FreshSession ==
  ASSUME Driver!DriversAssumption, NEW d \in Driver!AllDatabases
  PROVE  /\ Driver!Fresh(d) \in Driver!Session /\ Driver!Fresh(d).db = d
         /\ Driver!UserPath(Driver!Fresh(d)) /\ Driver!UserTx(Driver!Fresh(d)) /\ Driver!UserPlan(Driver!Fresh(d))
BY DEF Driver!Fresh, Driver!Session, Driver!Levels, Driver!UserPath, Driver!UserTx, Driver!UserPlan

Taken(op, pool) ==
  IF (engine = "SQLServer" /\ op = "begin_transaction") \/ Driver!Stateless \/ (idle[pool] = {} /\ ~Driver!OneClient)
  THEN {Driver!Fresh(pool)} ELSE idle[pool]
NewCall(op, pool, s, db, level, todo) ==
  [op |-> op, pool |-> pool, session |-> s,
   asked |-> [db |-> db, path |-> IF op = "execute_in_schema" THEN Schema ELSE NoValue,
              tx |-> op = "execute_mutation_batch", plan |-> op = "explain", level |-> level],
   todo |-> todo]

LEMMA NewFields ==
  ASSUME Driver!DriversAssumption, NEW op, NEW pool \in Driver!AllDatabases, NEW s \in Driver!Session, NEW db \in Driver!AllDatabases,
         NEW level \in Driver!Levels, NEW todo \in Seq(Driver!AllSteps), NEW n, n = NewCall(op, pool, s, db, level, todo)
  PROVE  /\ Driver!CallShape(n) /\ n.op = op /\ n.pool = pool /\ n.session = s /\ n.todo = todo
         /\ n.asked.db = db /\ n.asked.path = (IF op = "execute_in_schema" THEN Schema ELSE NoValue)
         /\ n.asked.tx = (op = "execute_mutation_batch") /\ n.asked.plan = (op = "explain")
         /\ n.asked.level = level
<1>1. PICK a : a = [db |-> db, path |-> IF op = "execute_in_schema" THEN Schema ELSE NoValue,
                    tx |-> op = "execute_mutation_batch", plan |-> op = "explain", level |-> level]
    OBVIOUS
<1>2. /\ a.db = db /\ a.path = (IF op = "execute_in_schema" THEN Schema ELSE NoValue)
      /\ a.tx = (op = "execute_mutation_batch") /\ a.plan = (op = "explain") /\ a.level = level
    BY <1>1
<1>3. a \in Driver!Asked
    BY <1>1 DEF Driver!Asked
<1>4. n = [op |-> op, pool |-> pool, session |-> s, asked |-> a, todo |-> todo]
    BY <1>1 DEF NewCall
<1>5. n.op = op /\ n.pool = pool /\ n.session = s /\ n.asked = a /\ n.todo = todo
    BY <1>4
<1>6. n = [op |-> n.op, pool |-> n.pool, session |-> n.session, asked |-> n.asked, todo |-> n.todo]
    BY <1>4, <1>5
<1>7. Driver!CallShape(n)
    BY <1>3, <1>5, <1>6 DEF Driver!CallShape
<1> HIDE <1>1, <1>4
<1> QED BY <1>2, <1>5, <1>7

LEMMA FixedProgram ==
  ASSUME NEW script, NEW p \in {BeginIsolate, JustBegin, UseIsolateBegin, OpenBatch, UseBatch,
                                UsePlanRun, UseExplain, JustExplain}
  PROVE  Driver!Steps(p, script) = p /\ p \in Seq(Driver!AllSteps) /\ p # <<"SERVER">>
<1>1. CASE p = BeginIsolate
  <2>1. Driver!Last(p) # "SCRIPT" /\ p # <<"SERVER">>
      BY <1>1 DEF Driver!Last, BeginIsolate
  <2>2. p \in Seq(Driver!AllSteps)
      BY <1>1 DEF Driver!AllSteps, Driver!UserSteps, BeginIsolate
  <2> QED BY <2>1, <2>2 DEF Driver!Steps
<1>2. CASE p = JustBegin
  <2>1. Driver!Last(p) # "SCRIPT" /\ p # <<"SERVER">>
      BY <1>2 DEF Driver!Last, JustBegin
  <2>2. p \in Seq(Driver!AllSteps)
      BY <1>2 DEF Driver!AllSteps, Driver!UserSteps, JustBegin
  <2> QED BY <2>1, <2>2 DEF Driver!Steps
<1>3. CASE p = UseIsolateBegin
  <2>1. Driver!Last(p) # "SCRIPT" /\ p # <<"SERVER">>
      BY <1>3 DEF Driver!Last, UseIsolateBegin
  <2>2. p \in Seq(Driver!AllSteps)
      BY <1>3 DEF Driver!AllSteps, Driver!UserSteps, UseIsolateBegin
  <2> QED BY <2>1, <2>2 DEF Driver!Steps
<1>4. CASE p = OpenBatch
  <2>1. Driver!Last(p) # "SCRIPT" /\ p # <<"SERVER">>
      BY <1>4 DEF Driver!Last, OpenBatch
  <2>2. p \in Seq(Driver!AllSteps)
      BY <1>4 DEF Driver!AllSteps, Driver!UserSteps, OpenBatch
  <2> QED BY <2>1, <2>2 DEF Driver!Steps
<1>5. CASE p = UseBatch
  <2>1. Driver!Last(p) # "SCRIPT" /\ p # <<"SERVER">>
      BY <1>5 DEF Driver!Last, UseBatch
  <2>2. p \in Seq(Driver!AllSteps)
      BY <1>5 DEF Driver!AllSteps, Driver!UserSteps, UseBatch
  <2> QED BY <2>1, <2>2 DEF Driver!Steps
<1>6. CASE p = UsePlanRun
  <2>1. Driver!Last(p) # "SCRIPT" /\ p # <<"SERVER">>
      BY <1>6 DEF Driver!Last, UsePlanRun
  <2>2. p \in Seq(Driver!AllSteps)
      BY <1>6 DEF Driver!AllSteps, Driver!UserSteps, UsePlanRun
  <2> QED BY <2>1, <2>2 DEF Driver!Steps
<1>7. CASE p = UseExplain
  <2>1. Driver!Last(p) # "SCRIPT" /\ p # <<"SERVER">>
      BY <1>7 DEF Driver!Last, UseExplain
  <2>2. p \in Seq(Driver!AllSteps)
      BY <1>7 DEF Driver!AllSteps, Driver!UserSteps, UseExplain
  <2> QED BY <2>1, <2>2 DEF Driver!Steps
<1>8. CASE p = JustExplain
  <2>1. Driver!Last(p) # "SCRIPT" /\ p # <<"SERVER">>
      BY <1>8 DEF Driver!Last, JustExplain
  <2>2. p \in Seq(Driver!AllSteps)
      BY <1>8 DEF Driver!AllSteps, Driver!UserSteps, JustExplain
  <2> QED BY <2>1, <2>2 DEF Driver!Steps
<1> QED BY <1>1, <1>2, <1>3, <1>4, <1>5, <1>6, <1>7, <1>8

LEMMA StartedCall ==
  ASSUME Driver!DriversAssumption, engine \in Engines, Driver!IdleInv, idle \in [Driver!AllDatabases -> SUBSET Driver!Session],
         NEW op, NEW p, Fitting(op, p),
         NEW db \in (IF engine = "SQLite" THEN {MainDb} ELSE Driver!AllDatabases),
         NEW script \in Driver!ScriptsOf(op),
         NEW level \in (IF op = "begin_transaction" THEN {"default", "asked"} ELSE {"default"}),
         NEW s \in Taken(op, Driver!Pool(p, db)),
         NEW n, n = NewCall(op, Driver!Pool(p, db), s, db, level, Driver!Steps(p, script))
  PROVE  Driver!CallShape(n) /\ Driver!CallInv(n)
<1> DEFINE pool == Driver!Pool(p, db)
<1>1. /\ pool \in Driver!AllDatabases /\ db \in Driver!AllDatabases
      /\ Driver!Pinned /\ p # <<"SERVER">> => pool = db
    BY DEF Driver!Pool, Driver!AllDatabases, Driver!Pinned
<1>2. s \in Driver!Session /\ Driver!UserPath(s) /\ Driver!UserTx(s) /\ Driver!UserPlan(s) /\ (Driver!Pinned => s.db = pool)
    BY <1>1, FreshSession DEF Taken, Driver!IdleInv
<1>3. level \in Driver!Levels /\ (op # "begin_transaction" => level = "default")
    BY DEF Driver!Levels
<1> DEFINE todo == Driver!Steps(p, script)
<1> DEFINE Fields == /\ Driver!CallShape(n) /\ n.op = op /\ n.pool = pool /\ n.session = s /\ n.todo = todo
                     /\ n.asked.db = db /\ n.asked.path = (IF op = "execute_in_schema" THEN Schema ELSE NoValue)
                     /\ n.asked.tx = (op = "execute_mutation_batch") /\ n.asked.plan = (op = "explain")
                     /\ n.asked.level = level
<1>4. todo \in Seq(Driver!AllSteps) => Fields
    BY <1>1, <1>2, <1>3, NewFields
<1> HIDE DEF pool, Fields
\* What is left to show in each case.
<1>5. ASSUME Fields, Driver!AtPath(n),
             op = "begin_transaction" => Driver!BeginInv(n),
             op = "execute_mutation_batch" => Driver!BatchInv(n),
             op = "explain" => Driver!ExplainInv(n),
             op \notin {"begin_transaction", "execute_mutation_batch", "explain"} => Driver!PlainInv(n)
      PROVE  Driver!CallShape(n) /\ Driver!CallInv(n)
    BY <1>1, <1>2, <1>3, <1>5 DEF Driver!CallInv, Fields
<1>6. ASSUME Fields, op # "execute_in_schema" PROVE Driver!AtPath(n)
    BY <1>2, <1>6 DEF Driver!AtPath, Fields, Driver!UserPath
<1>7. ASSUME Fields, (Driver!Pinned /\ p # <<"SERVER">>) \/ Driver!First(n, {"USE"}) PROVE Driver!AtDatabase(n)
    BY <1>1, <1>2, <1>7 DEF Driver!AtDatabase, Fields
<1>8. CASE op = "begin_transaction"
  <2>1. /\ engine # "Redis"
        /\ engine = "PostgreSQL" => p = BeginIsolate
        /\ engine = "SQLite" => p = JustBegin
        /\ ~Driver!Pinned => p = UseIsolateBegin
      BY <1>8 DEF Fitting, BeginIsolate, JustBegin, UseIsolateBegin
  <2>2. p \in {BeginIsolate, JustBegin, UseIsolateBegin}
      BY <2>1 DEF Driver!Pinned
  <2>3. todo = p /\ p # <<"SERVER">> /\ Fields
      BY <1>4, <2>2, FixedProgram
  <2>4. Driver!AtPath(n)
      BY <1>6, <1>8, <2>3
  <2>5. n.todo = p /\ Driver!UserPlan(n.session)
      BY <1>2, <2>3 DEF Fields
  <2>6. ~Driver!Pinned => Driver!First(n, {"USE"})
      BY <2>1, <2>5, BeginLefts DEF Driver!First, Done
  <2>7. Driver!AtDatabase(n)
      BY <1>7, <2>3, <2>6
  <2>8. ~Driver!First(n, {"PATH"})
      BY <2>2, <2>5, BeginLefts DEF Driver!First, Done
  <2>9. Beginning(n)
      BY <2>1, <2>2, <2>5, <2>7, BeginLefts DEF Beginning, Driver!Pinned
  <2> QED BY <1>5, <1>8, <2>3, <2>4, <2>8, <2>9, Begins
<1>9. CASE op = "execute_mutation_batch"
  <2>1. p = IF Driver!Pinned THEN OpenBatch ELSE UseBatch
      BY <1>9 DEF Fitting, OpenBatch, UseBatch
  <2>2. todo = p /\ p # <<"SERVER">> /\ Fields
      BY <1>4, <2>1, FixedProgram
  <2>3. Driver!AtPath(n)
      BY <1>6, <1>9, <2>2
  <2>4. n.todo = p /\ Driver!UserPlan(n.session) /\ Driver!UserTx(n.session)
      BY <1>2, <2>2 DEF Fields
  <2>5. ~Driver!Pinned => Driver!First(n, {"USE"})
      BY <2>1, <2>4, BatchLefts DEF Driver!First, Done
  <2>6. Driver!AtDatabase(n)
      BY <1>7, <2>2, <2>5
  <2>7. Batching(n)
      BY <2>1, <2>4, <2>6, BatchLefts DEF Batching
  <2> QED BY <1>5, <1>9, <2>2, <2>3, <2>7, BatchIs
<1>10. CASE op = "explain"
  <2>1. /\ p \in {UsePlanRun, UseExplain, JustExplain}
        /\ Driver!Pinned => p = JustExplain
        /\ p = JustExplain => Driver!Pinned \/ Driver!Stateless
      BY <1>10 DEF Fitting, UsePlanRun, UseExplain, JustExplain
  <2>2. todo = p /\ p # <<"SERVER">> /\ Fields
      BY <1>4, <2>1, FixedProgram
  <2>3. Driver!AtPath(n)
      BY <1>6, <1>10, <2>2
  <2>4. n.todo = p /\ Driver!UserPlan(n.session) /\ Driver!UserTx(n.session)
      BY <1>2, <2>2 DEF Fields
  <2>5. p # JustExplain => Driver!First(n, {"USE"})
      BY <2>1, <2>4, ExplainLefts DEF Driver!First, Done
  <2>6. Driver!Stateless \/ Driver!AtDatabase(n)
      BY <1>7, <2>1, <2>2, <2>5
  <2>7. Explaining(n)
      BY <2>1, <2>4, <2>6, ExplainLefts DEF Explaining
  <2> QED BY <1>5, <1>10, <2>2, <2>3, <2>7, ExplainIs
<1>11. script \in Seq(Driver!UserSteps) /\ Len(script) \in Nat \ {0}
       /\ (Driver!Pinned => \A i \in 1..Len(script) : script[i] # "user_use")
    BY Scripts
<1> DEFINE OnlyNamed == \A i \in 1..Len(n.todo) : n.todo[i] \in {"NAMED", "SERVER"}
<1>12. ASSUME Plain(todo), Driver!Pinned => Head(todo) \notin {"USE", "user_use"},
              Driver!AtDatabase(n) \/ Driver!Stateless \/ OnlyNamed, Fields
       PROVE  Driver!PlainInv(n)
  <2>1. n.todo = todo /\ Driver!UserTx(n.session) /\ Driver!UserPlan(n.session)
      BY <1>2, <1>12 DEF Fields
  <2>2. Driver!First(n, {"USE", "PATH", "RUN", "NAMED", "SERVER"} \cup Driver!UserSteps)
      BY <1>12, <2>1 DEF Plain, Driver!First
  <2>3. \A i \in 1..Len(todo) : i = 1 \/ i \in 2..Len(todo)
      BY <1>12 DEF Plain
  <2>4. "USE" \notin {"RUN", "NAMED", "SERVER"} \cup Driver!UserSteps
      BY DEF Driver!UserSteps
  <2>5. Head(todo) = todo[1]
      BY <1>12 DEF Plain
  <2> HIDE DEF todo
  <2>6. Driver!Pinned => \A i \in 1..Len(todo) : todo[i] \notin {"USE", "user_use"}
      BY <1>12, <2>3, <2>4, <2>5 DEF Plain
  <2>7. \A i \in 2..Len(n.todo) : n.todo[i] \in {"RUN", "NAMED", "SERVER"} \cup Driver!UserSteps
      BY <1>12, <2>1 DEF Plain
  <2> QED BY <1>12, <2>1, <2>2, <2>6, <2>7 DEF Driver!PlainInv
<1>13. CASE op = "execute_in_schema"
  <2>1. Driver!Pinned /\ p = <<"PATH", "SCRIPT">>
      BY <1>13 DEF Fitting
  <2>2. Plain(todo) /\ Head(todo) = "PATH"
      BY <1>11, <2>1, ScriptProgram
  <2>3. Fields
      BY <1>4, <2>2 DEF Plain
  <2>4. Driver!First(n, {"PATH"}) /\ n.op = op
      BY <2>2, <2>3 DEF Driver!First, Fields, Plain
  <2>5. Driver!AtPath(n)
      BY <1>13, <2>4 DEF Driver!AtPath
  <2>6. Driver!AtDatabase(n)
    <3>1. p # <<"SERVER">>
        BY <2>1
    <3> QED BY <1>7, <2>1, <2>3, <3>1
  <2>7. Driver!PlainInv(n)
      BY <1>12, <2>2, <2>3, <2>6
  <2> QED BY <1>5, <1>13, <2>3, <2>5, <2>7
<1>14. CASE op \notin {"begin_transaction", "execute_mutation_batch", "explain", "execute_in_schema"}
  <2>1. p \in IF Driver!Pinned THEN Pins ELSE Selects
      BY <1>14 DEF Fitting
  <2>2. CASE p \in {<<"SCRIPT">>, <<"USE", "SCRIPT">>}
    <3>1. p # <<"SERVER">> /\ (Driver!Pinned => p = <<"SCRIPT">>) /\ (~Driver!Pinned => p = <<"USE", "SCRIPT">>)
      <4>1. <<"USE", "SCRIPT">> \notin Pins
          BY DEF Pins
      <4>2. <<"SCRIPT">> \notin Selects
          BY DEF Selects
      <4>3. <<"SERVER">> # <<"SCRIPT">> /\ <<"SERVER">> # <<"USE", "SCRIPT">>
          OBVIOUS
      <4> QED BY <2>1, <2>2, <4>1, <4>2, <4>3
    <3>2. /\ Plain(todo) /\ (Driver!Pinned => Head(todo) \notin {"USE", "user_use"})
          /\ ~Driver!Pinned => Head(todo) = "USE"
        BY <1>11, <2>2, <3>1, ScriptProgram DEF Driver!UserSteps
    <3>3. Fields
        BY <1>4, <3>2 DEF Plain
    <3>4. ~Driver!Pinned => Driver!First(n, {"USE"})
        BY <3>2, <3>3 DEF Driver!First, Fields, Plain
    <3>5. Driver!AtDatabase(n)
        BY <1>7, <3>1, <3>3, <3>4
    <3> QED BY <1>5, <1>6, <1>12, <1>14, <3>2, <3>3, <3>5
  <2>3. CASE p \notin {<<"SCRIPT">>, <<"USE", "SCRIPT">>}
    <3>1. Driver!Last(p) # "SCRIPT" /\ p \in Pins \cup Selects
      <4>1. p \in Pins \cup Selects
          BY <2>1
      <4>2. CASE p = <<"RUN">>
          BY <4>1, <4>2 DEF Driver!Last
      <4>3. CASE p = <<"RUN", "RUN">>
          BY <4>1, <4>3 DEF Driver!Last
      <4>4. CASE p = <<"RUN", "RUN", "RUN">>
          BY <4>1, <4>4 DEF Driver!Last
      <4>5. CASE p = <<"SERVER">>
          BY <4>1, <4>5 DEF Driver!Last
      <4>6. CASE p = <<"NAMED">>
          BY <4>1, <4>6 DEF Driver!Last
      <4>7. CASE p = <<"NAMED", "NAMED">>
          BY <4>1, <4>7 DEF Driver!Last
      <4>8. CASE p = <<"USE", "RUN">>
          BY <4>1, <4>8 DEF Driver!Last
      <4>9. CASE p = <<"USE", "RUN", "RUN">>
          BY <4>1, <4>9 DEF Driver!Last
      <4>10. CASE p = <<"USE", "RUN", "RUN", "RUN">>
          BY <4>1, <4>10 DEF Driver!Last
      <4>11. CASE p = <<"USE", "RUN", "RUN", "RUN", "RUN">>
          BY <4>1, <4>11 DEF Driver!Last
      <4> QED BY <2>3, <4>1, <4>2, <4>3, <4>4, <4>5, <4>6, <4>7, <4>8, <4>9, <4>10, <4>11
             DEF Pins, Selects
    <3>2. /\ Plain(todo)
          /\ p \in Pins => Head(todo) \in {"RUN", "SERVER"}
          /\ p \in Selects => Head(todo) = "USE" \/ \A i \in 1..Len(todo) : todo[i] \in {"NAMED", "SERVER"}
          /\ Head(todo) = "SERVER" => p = <<"SERVER">>
        BY <3>1, PlainProgram
    <3>3. Fields
        BY <1>4, <3>2 DEF Plain
    <3>4. n.todo = todo
        BY <3>3 DEF Fields
    <3>5. Head(todo) = "USE" => Driver!First(n, {"USE"})
        BY <3>2, <3>4 DEF Driver!First, Plain
    <3>6. Driver!AtDatabase(n) \/ OnlyNamed
      <4>1. CASE p = <<"SERVER">>
        <5>1. todo = <<"SERVER">>
            BY <3>1, <4>1 DEF Driver!Steps
        <5> QED BY <3>4, <5>1
      <4>2. CASE p # <<"SERVER">> /\ Driver!Pinned
          BY <1>7, <3>3, <4>2
      <4>3. CASE ~Driver!Pinned
          BY <1>7, <2>1, <3>2, <3>3, <3>4, <3>5, <4>3
      <4> QED BY <4>1, <4>2, <4>3
    <3>7. Driver!Pinned => Head(todo) \notin {"USE", "user_use"}
        BY <2>1, <3>2
    <3> QED BY <1>5, <1>6, <1>12, <1>14, <3>2, <3>3, <3>6, <3>7
  <2> QED BY <2>2, <2>3
<1> QED BY <1>8, <1>9, <1>10, <1>13, <1>14

-----------------------------------------------------------------------------
\* The invariant after a step.

LEMMA CallInvNext ==
  ASSUME engine' = engine, NEW n, n = dcall', Driver!CallInv(n)
  PROVE  Driver!CallInv(dcall)'
<1>1. (Driver!Pinned' <=> Driver!Pinned) /\ (Driver!Stateless' <=> Driver!Stateless)
    BY DEF Driver!Pinned, Driver!Stateless
<1>2. Driver!AtDatabase(dcall)' <=> Driver!AtDatabase(n)
    BY DEF Driver!AtDatabase, Driver!First
<1>3. Driver!AtPath(dcall)' <=> Driver!AtPath(n)
    BY DEF Driver!AtPath, Driver!First
<1>4. Driver!BeginInv(dcall)' <=> Driver!BeginInv(n)
    BY <1>1, <1>2 DEF Driver!BeginInv, Driver!First, Driver!UserPlan
<1>5. Driver!BatchInv(dcall)' <=> Driver!BatchInv(n)
    BY <1>1, <1>2 DEF Driver!BatchInv, Driver!First, Driver!UserPlan, Driver!UserTx
<1>6. Driver!ExplainInv(dcall)' <=> Driver!ExplainInv(n)
    BY <1>1, <1>2 DEF Driver!ExplainInv, Driver!First, Driver!UserPlan, Driver!UserTx
<1>7. Driver!PlainInv(dcall)' <=> Driver!PlainInv(n)
    BY <1>1, <1>2 DEF Driver!PlainInv, Driver!First, Driver!UserPlan, Driver!UserTx
<1>8. Driver!First(dcall, {"USE"})' <=> Driver!First(n, {"USE"})
    BY DEF Driver!First
<1> QED BY <1>1, <1>3, <1>4, <1>5, <1>6, <1>7, <1>8 DEF Driver!CallInv, Driver!AllDatabases

LEMMA CallShapeNext ==
  ASSUME NEW n, n = dcall'
  PROVE  Driver!CallShape(dcall)' <=> Driver!CallShape(n)
BY DEF Driver!CallShape

LEMMA IdleNext ==
  ASSUME engine' = engine, idle' = idle, Driver!IdleInv PROVE Driver!IdleInv'
BY DEF Driver!IdleInv, Driver!Pinned, Driver!UserPath, Driver!UserTx, Driver!UserPlan,
   Driver!AllDatabases

\* A step of the manual transaction.
LEMMA ManualKeeps ==
  ASSUME Driver!DriverInv, UNCHANGED <<engine, idle, dcall>>, Driver!Open, manual' \in Driver!Manual,
         Driver!ManualInv(manual', replies', durable'), replies' \in [Batches -> Driver!Answers],
         durable' \subseteq Batches \X Nat,
         ran' = ran \/ (ran' # NoValue => AsAsked(ran'))
  PROVE  Driver!DriverInv'
<1>1. Driver!DriverTypes'
  <2>1. dcall # NoValue => Driver!CallShape(dcall)
      BY DEF Driver!DriverInv, Driver!DriverTypes
  <2>2. dcall' # NoValue => Driver!CallShape(dcall)'
      BY <2>1, CallShapeNext
  <2> QED BY <2>2 DEF Driver!DriverInv, Driver!DriverTypes, Driver!AllDatabases, Driver!Session,
             Driver!Levels, Driver!Manual, Driver!Outcomes, Driver!Answers
<1>2. Driver!IdleInv'
    BY IdleNext DEF Driver!DriverInv
<1>3. dcall' # NoValue => Driver!CallInv(dcall)'
    BY CallInvNext DEF Driver!DriverInv
<1>4. dcall = NoValue \/ dcall.op # "begin_transaction"
    BY DEF Driver!DriverInv, Driver!Open
<1>5. Driver!RunsAsAsked'
    BY DEF Driver!RunsAsAsked, AsAsked, Driver!DriverInv
<1>6. manual' # NoValue => Driver!ManualInv(manual, replies, durable)'
    BY DEF Driver!ManualInv, Driver!OpenInv, Driver!Agreed, Driver!Batched, Driver!LengthOf,
       Driver!UserPath, Driver!UserPlan
<1> QED BY <1>1, <1>2, <1>3, <1>4, <1>5, <1>6 DEF Driver!DriverInv

\* What the steps of a manual transaction start from.
LEMMA ManualHas ==
  ASSUME Driver!DriversAssumption, Driver!DriverInv, Driver!Open
  PROVE  /\ manual \in Driver!Manual /\ durable = {} /\ Driver!OpenInv(manual, replies)
         /\ replies \in [Batches -> Driver!Answers] /\ manual.session \in Driver!Session
         /\ BatchSize \in Nat \ {0} /\ NoValue \notin Batches /\ NoValue \notin {"ok", "refused"}
<1>1. manual \in Driver!Manual \cup {NoValue} /\ manual # NoValue /\ replies \in [Batches -> Driver!Answers]
    BY DEF Driver!DriverInv, Driver!DriverTypes, Driver!Open
<1>2. durable = {} /\ Driver!OpenInv(manual, replies)
    BY DEF Driver!DriverInv, Driver!ManualInv, Driver!Open
<1>3. BatchSize \in Nat \ {0} /\ NoValue \notin Batches /\ NoValue \notin {"ok", "refused"}
    BY DEF Driver!DriversAssumption
<1> QED BY <1>1, <1>2, <1>3 DEF Driver!Manual

LEMMA BatchStartKeeps ==
  ASSUME Driver!DriversAssumption, Driver!DriverInv, Driver!BatchStart PROVE Driver!DriverInv'
<1>1. Driver!Open /\ manual.step = "idle" /\ ~manual.aborted
    BY DEF Driver!BatchStart
<1>2. /\ manual \in Driver!Manual /\ durable = {} /\ Driver!OpenInv(manual, replies)
      /\ replies \in [Batches -> Driver!Answers] /\ manual.session \in Driver!Session
      /\ BatchSize \in Nat \ {0} /\ NoValue \notin Batches
    BY <1>1, ManualHas
<1>3. PICK b \in {x \in Batches : replies[x] = NoValue} \cup {NoValue} :
        manual' = [manual EXCEPT !.step = "run", !.batch = b, !.at = 1, !.saved = {manual.written}]
    BY DEF Driver!BatchStart
<1>4. PICK z : z = {manual.written}
    OBVIOUS
<1>5. z \in SUBSET SUBSET (Batches \X Nat) /\ manual.written = Driver!Agreed(replies)
  <2>1. manual.written \in SUBSET (Batches \X Nat)
      BY <1>2 DEF Driver!Manual
  <2> QED BY <1>1, <1>2, <1>4, <2>1 DEF Driver!OpenInv
<1>6. PICK n : n = [manual EXCEPT !.step = "run", !.batch = b, !.at = 1, !.saved = z]
    OBVIOUS
<1>7. /\ n \in Driver!Manual /\ n.session = manual.session /\ n.db = manual.db /\ n.level = manual.level
      /\ n.step = "run" /\ n.batch = b /\ n.at = 1 /\ n.aborted = manual.aborted
      /\ n.written = manual.written /\ n.saved = z /\ n.outcome = manual.outcome
    BY <1>2, <1>5, <1>6 DEF Driver!Manual
<1>8. manual' = n
    BY <1>3, <1>4, <1>6
<1>9. z # {} /\ z = {Driver!Agreed(replies)}
    BY <1>4, <1>5
<1> HIDE <1>3, <1>4, <1>6
<1>10. Driver!Batched(n, n.at - 1) = {}
    BY <1>7 DEF Driver!Batched
<1>11. n.at \in 1..Driver!LengthOf(n) + 1
    BY <1>2, <1>7 DEF Driver!LengthOf
<1>12. Driver!OpenInv(n, replies)
    BY <1>1, <1>2, <1>5, <1>7, <1>9, <1>10, <1>11 DEF Driver!OpenInv
<1>13. Driver!ManualInv(n, replies, durable)
    BY <1>1, <1>2, <1>7, <1>12 DEF Driver!ManualInv, Driver!Open
<1>14. UNCHANGED <<engine, idle, dcall, ran, replies, durable>>
    BY DEF Driver!BatchStart
<1> QED BY <1>1, <1>2, <1>7, <1>8, <1>13, <1>14, ManualKeeps

LEMMA BatchRunsKeeps ==
  ASSUME Driver!DriversAssumption, Driver!DriverInv, Driver!BatchRuns PROVE Driver!DriverInv'
<1>1. Driver!Open /\ manual.step = "run" /\ manual.at <= Driver!Length
    BY DEF Driver!BatchRuns
<1>2. /\ manual \in Driver!Manual /\ durable = {} /\ Driver!OpenInv(manual, replies)
      /\ replies \in [Batches -> Driver!Answers] /\ manual.session \in Driver!Session
      /\ BatchSize \in Nat \ {0} /\ NoValue \notin Batches
    BY <1>1, ManualHas
<1>3. manual.session.tx
    BY <1>1, <1>2 DEF Driver!OpenInv
<1>4. PICK e : e = IF manual.batch = NoValue THEN {} ELSE {<<manual.batch, manual.at>>}
    OBVIOUS
<1>5. PICK w : w = manual.written \cup e
    OBVIOUS
<1>6. PICK k \in Nat : k = manual.at + 1
    BY <1>2 DEF Driver!Manual
<1>7. PICK n : n = [manual EXCEPT !.at = k, !.written = w]
    OBVIOUS
<1>8. manual' = n /\ durable' = durable /\ ran' = Driver!RanManual
    BY <1>3, <1>4, <1>5, <1>6, <1>7 DEF Driver!BatchRuns
<1>9. w \subseteq Batches \X Nat
    BY <1>2, <1>4, <1>5 DEF Driver!Manual
<1>10. /\ n \in Driver!Manual /\ n.session = manual.session /\ n.db = manual.db /\ n.level = manual.level
       /\ n.step = manual.step /\ n.batch = manual.batch /\ n.at = k /\ n.aborted = manual.aborted
       /\ n.written = w /\ n.saved = manual.saved /\ n.outcome = manual.outcome
    BY <1>2, <1>7, <1>9 DEF Driver!Manual
<1> HIDE <1>7
<1>11. manual.at \in 1..Driver!LengthOf(manual) + 1 /\ manual.at <= Driver!LengthOf(manual)
       /\ Driver!LengthOf(manual) \in Nat \ {0}
    BY <1>1, <1>2 DEF Driver!OpenInv, Driver!Length, Driver!LengthOf
<1>12. k \in 1..Driver!LengthOf(n) + 1 /\ Driver!LengthOf(n) = Driver!LengthOf(manual)
    BY <1>6, <1>10, <1>11 DEF Driver!LengthOf
<1>13. w = Driver!Agreed(replies) \cup Driver!Batched(n, k - 1)
  <2>1. manual.written = Driver!Agreed(replies) \cup Driver!Batched(manual, manual.at - 1)
      BY <1>1, <1>2 DEF Driver!OpenInv
  <2>2. k - 1 = manual.at /\ manual.at \in Nat \ {0}
      BY <1>6, <1>11
  <2>3. 1..manual.at = (1..manual.at - 1) \cup {manual.at}
      BY <2>2
  <2>4. Driver!Batched(n, manual.at) = Driver!Batched(manual, manual.at - 1) \cup e
      BY <1>4, <1>10, <2>3 DEF Driver!Batched
  <2> QED BY <1>5, <2>1, <2>2, <2>4
<1>14. Driver!OpenInv(n, replies)
    BY <1>1, <1>2, <1>10, <1>12, <1>13 DEF Driver!OpenInv
<1>15. Driver!ManualInv(n, replies, durable)
    BY <1>1, <1>2, <1>10, <1>14 DEF Driver!ManualInv, Driver!Open
<1>16. UNCHANGED <<engine, idle, dcall, replies>>
    BY DEF Driver!BatchRuns
<1>17. AsAsked(Driver!RanManual)
  <2>1. PICK a : a = Driver!AskedOfManual
      OBVIOUS
  <2>2. a \in Driver!Asked /\ a.db = manual.db /\ a.path = NoValue /\ a.tx = TRUE /\ a.plan = FALSE
        /\ a.level = manual.level
      BY <1>2, <2>1 DEF Driver!AskedOfManual, Driver!Asked, Driver!Manual
  <2> HIDE <2>1
  <2>3. a.db \in {NoValue, manual.session.db} \/ "db" \in manual.session.by
      BY <1>2, <2>2 DEF Driver!OpenInv
  <2>4. manual.session.path = a.path \/ "path" \in manual.session.by
      BY <1>2, <2>2 DEF Driver!OpenInv, Driver!UserPath
  <2>5. manual.session.tx = a.tx \/ "tx" \in manual.session.by
      BY <1>2, <1>3, <2>2 DEF Driver!Session
  <2>6. (manual.session.plan \/ "RUN" = "EXPLAIN") = a.plan \/ "plan" \in manual.session.by
      BY <1>2, <2>2 DEF Driver!OpenInv, Driver!UserPlan, Driver!Session
  <2>7. a.level \in {"default", manual.session.level}
      BY <1>2, <2>2 DEF Driver!OpenInv
  <2>8. AsAsked(Driver!Ran("RUN", manual.session, a))
      BY <1>2, <2>2, <2>3, <2>4, <2>5, <2>6, <2>7, RanAsAsked
  <2> QED BY <2>1, <2>8 DEF Driver!RanManual
<1> QED BY <1>1, <1>2, <1>8, <1>10, <1>15, <1>16, <1>17, ManualKeeps

LEMMA BatchFailsKeeps ==
  ASSUME Driver!DriversAssumption, Driver!DriverInv, Driver!BatchFails PROVE Driver!DriverInv'
<1>1. Driver!Open /\ manual.step = "run"
    BY DEF Driver!BatchFails
<1>2. /\ manual \in Driver!Manual /\ durable = {} /\ Driver!OpenInv(manual, replies)
      /\ replies \in [Batches -> Driver!Answers] /\ manual.session \in Driver!Session
      /\ BatchSize \in Nat \ {0} /\ NoValue \notin Batches
    BY <1>1, ManualHas
<1>3. UNCHANGED <<engine, idle, dcall, ran, replies, durable>>
    BY DEF Driver!BatchFails
<1>4. CASE manual' = [manual EXCEPT !.step = "recover", !.aborted = engine = "PostgreSQL"]
  <2>1. PICK a \in BOOLEAN : a = (engine = "PostgreSQL")
      OBVIOUS
  <2>2. PICK n : n = [manual EXCEPT !.step = "recover", !.aborted = a]
      OBVIOUS
  <2>3. manual' = n
      BY <1>4, <2>1, <2>2
  <2>4. /\ n \in Driver!Manual /\ n.session = manual.session /\ n.db = manual.db /\ n.level = manual.level
        /\ n.step = "recover" /\ n.batch = manual.batch /\ n.saved = manual.saved
        /\ n.outcome = manual.outcome
      BY <1>2, <2>2 DEF Driver!Manual
  <2> HIDE <1>4, <2>2
  <2>5. Driver!OpenInv(n, replies)
      BY <1>1, <1>2, <2>4 DEF Driver!OpenInv
  <2>6. Driver!ManualInv(n, replies, durable)
      BY <1>1, <1>2, <2>4, <2>5 DEF Driver!ManualInv, Driver!Open
  <2> QED BY <1>1, <1>2, <1>3, <2>3, <2>4, <2>6, ManualKeeps
<1>5. CASE manual' = [manual EXCEPT !.step = "recover", !.session = [@ EXCEPT !.tx = FALSE],
                                    !.written = {}, !.saved = {}]
  <2>1. PICK u : u = [manual.session EXCEPT !.tx = FALSE]
      OBVIOUS
  <2>2. /\ u \in Driver!Session /\ u.by = manual.session.by /\ u.db = manual.session.db
        /\ u.path = manual.session.path /\ u.plan = manual.session.plan /\ u.level = manual.session.level
      BY <1>2, <2>1 DEF Driver!Session
  <2>3. PICK n : n = [manual EXCEPT !.step = "recover", !.session = u, !.written = {}, !.saved = {}]
      OBVIOUS
  <2>4. manual' = n
      BY <1>5, <2>1, <2>3
  <2>5. /\ n \in Driver!Manual /\ n.session = u /\ n.db = manual.db /\ n.level = manual.level
        /\ n.step = "recover" /\ n.batch = manual.batch /\ n.aborted = manual.aborted /\ n.saved = {}
        /\ n.outcome = manual.outcome
      BY <1>2, <2>2, <2>3 DEF Driver!Manual
  <2> HIDE <1>5, <2>1, <2>3
  <2>6. Driver!OpenInv(n, replies)
      BY <1>1, <1>2, <2>2, <2>5 DEF Driver!OpenInv, Driver!UserPath, Driver!UserPlan
  <2>7. Driver!ManualInv(n, replies, durable)
      BY <1>1, <1>2, <2>5, <2>6 DEF Driver!ManualInv, Driver!Open
  <2> QED BY <1>1, <1>2, <1>3, <2>4, <2>5, <2>7, ManualKeeps
<1> QED BY <1>4, <1>5 DEF Driver!BatchFails

LEMMA BatchRecoversKeeps ==
  ASSUME Driver!DriversAssumption, Driver!DriverInv, Driver!BatchRecovers PROVE Driver!DriverInv'
<1>1. Driver!Open /\ manual.step = "recover" /\ manual.saved # {} /\ manual' = Driver!Recovered(manual)
    BY DEF Driver!BatchRecovers
<1>2. /\ manual \in Driver!Manual /\ durable = {} /\ Driver!OpenInv(manual, replies)
      /\ replies \in [Batches -> Driver!Answers] /\ manual.session \in Driver!Session
    BY <1>1, ManualHas
<1>3. UNCHANGED <<engine, idle, dcall, ran, replies, durable>>
    BY DEF Driver!BatchRecovers
<1>4. PICK t \in {"refused", "releasing"} : t = IF engine = "SQLServer" THEN "refused" ELSE "releasing"
    OBVIOUS
<1>5. PICK w : w = UNION manual.saved
    OBVIOUS
<1>6. w = Driver!Agreed(replies) /\ w \subseteq Batches \X Nat
  <2>1. manual.saved = {Driver!Agreed(replies)} /\ manual.saved \subseteq SUBSET (Batches \X Nat)
      BY <1>1, <1>2 DEF Driver!OpenInv, Driver!Manual
  <2> QED BY <1>5, <2>1
<1>7. PICK n : n = [manual EXCEPT !.written = w, !.aborted = FALSE, !.step = t]
    OBVIOUS
<1>8. manual' = n
    BY <1>1, <1>4, <1>5, <1>7 DEF Driver!Recovered
<1>9. /\ n \in Driver!Manual /\ n.session = manual.session /\ n.db = manual.db /\ n.level = manual.level
      /\ n.step = t /\ n.batch = manual.batch /\ n.aborted = FALSE /\ n.written = w
      /\ n.saved = manual.saved /\ n.outcome = manual.outcome
    BY <1>2, <1>6, <1>7 DEF Driver!Manual
<1> HIDE <1>5, <1>7, <1>8
<1>10. Driver!OpenInv(n, replies)
    BY <1>1, <1>2, <1>6, <1>9 DEF Driver!OpenInv
<1>11. Driver!ManualInv(n, replies, durable)
    BY <1>1, <1>2, <1>9, <1>10 DEF Driver!ManualInv, Driver!Open
<1> QED BY <1>1, <1>2, <1>3, <1>8, <1>9, <1>11, ManualKeeps

\* The transaction is over.
LEMMA Dropped ==
  ASSUME Driver!DriversAssumption, Driver!DriverInv, Driver!Open, NEW o \in Driver!Outcomes \ {"open"}, Driver!Drop(o),
         replies' = replies, durable' \subseteq Batches \X Nat,
         o = "committed" => durable' = Driver!Agreed(replies), o = "undone" => durable' = {},
         o = "unknown" => durable' \in {{}, Driver!Agreed(replies)}
  PROVE  Driver!DriverInv'
<1>1. manual \in Driver!Manual /\ replies \in [Batches -> Driver!Answers]
    BY ManualHas
<1>2. Driver!Fresh(MainDb) \in Driver!Session
    BY FreshSession DEF Driver!AllDatabases
<1>3. PICK r : r = Driver!Rest(manual)
    OBVIOUS
<1>4. r \in Driver!Manual
    BY <1>1, <1>3 DEF Driver!Rest, Driver!Manual
<1>5. PICK f : f = Driver!Fresh(MainDb)
    OBVIOUS
<1>6. PICK n : n = [r EXCEPT !.outcome = o, !.written = {}, !.saved = {}, !.session = f,
                             !.level = "default", !.aborted = FALSE]
    OBVIOUS
<1>7. manual' = n /\ UNCHANGED <<engine, idle, dcall, ran>>
    BY <1>3, <1>5, <1>6 DEF Driver!Drop
<1>8. n \in Driver!Manual /\ n.outcome = o
    BY <1>2, <1>4, <1>5, <1>6 DEF Driver!Manual, Driver!Levels, Driver!Outcomes
<1> HIDE <1>3, <1>5, <1>6
<1>9. Driver!ManualInv(n, replies, durable')
    BY <1>8 DEF Driver!ManualInv, Driver!Outcomes
<1> QED BY <1>1, <1>7, <1>8, <1>9, ManualKeeps

LEMMA BatchLostKeeps ==
  ASSUME Driver!DriversAssumption, Driver!DriverInv, Driver!BatchLost PROVE Driver!DriverInv'
<1>1. Driver!Open /\ Driver!Drop("undone") /\ UNCHANGED <<replies, durable>>
    BY DEF Driver!BatchLost
<1>2. durable = {}
    BY <1>1, ManualHas
<1> QED BY <1>1, <1>2, Dropped DEF Driver!Outcomes

LEMMA RollbackKeeps ==
  ASSUME Driver!DriversAssumption, Driver!DriverInv, Driver!Rollback PROVE Driver!DriverInv'
<1>1. Driver!Open /\ Driver!Drop("undone") /\ UNCHANGED <<replies, durable>>
    BY DEF Driver!Rollback
<1>2. durable = {}
    BY <1>1, ManualHas
<1> QED BY <1>1, <1>2, Dropped DEF Driver!Outcomes

LEMMA CommitKeeps ==
  ASSUME Driver!DriversAssumption, Driver!DriverInv, Driver!Commit PROVE Driver!DriverInv'
<1>1. Driver!Open /\ manual.step = "idle" /\ replies' = replies
    BY DEF Driver!Commit
<1>2. /\ manual \in Driver!Manual /\ durable = {} /\ Driver!OpenInv(manual, replies)
    BY <1>1, ManualHas
<1>3. ~manual.aborted /\ manual.written = Driver!Agreed(replies) /\ manual.written \subseteq Batches \X Nat
    BY <1>1, <1>2 DEF Driver!OpenInv, Driver!Manual
<1>4. CASE /\ durable' = IF manual.aborted THEN durable ELSE durable \cup manual.written
           /\ \E outcome \in {"committed", "unknown"} : Driver!Drop(outcome)
  <2>1. PICK outcome \in {"committed", "unknown"} : Driver!Drop(outcome)
      BY <1>4
  <2>2. durable' = Driver!Agreed(replies)
      BY <1>2, <1>3, <1>4
  <2>3. durable' \subseteq Batches \X Nat
      BY <1>3, <2>2
  <2>4. outcome \in Driver!Outcomes \ {"open"} /\ outcome # "undone"
      BY DEF Driver!Outcomes
  <2> QED BY <1>1, <2>1, <2>2, <2>3, <2>4, Dropped
<1>5. CASE durable' = durable /\ Driver!Drop("unknown")
  <2>1. durable' = {}
      BY <1>2, <1>5
  <2> QED BY <1>1, <1>5, <2>1, Dropped DEF Driver!Outcomes
<1> QED BY <1>4, <1>5 DEF Driver!Commit

LEMMA BatchReturnsKeeps ==
  ASSUME Driver!DriversAssumption, Driver!DriverInv, Driver!BatchReturns PROVE Driver!DriverInv'
<1>1. /\ Driver!Open /\ UNCHANGED <<engine, idle, dcall, ran, durable>>
      /\ manual.step \in {"refused", "releasing"} \/ (manual.step = "run" /\ manual.at > Driver!Length)
      /\ Driver!Told(IF manual.step = "run" THEN "ok" ELSE "refused")
      /\ manual' = [Driver!Rest(manual) EXCEPT !.saved = IF engine = "SQLServer" THEN @ ELSE {}]
    BY DEF Driver!BatchReturns
<1>2. /\ manual \in Driver!Manual /\ durable = {} /\ Driver!OpenInv(manual, replies)
      /\ replies \in [Batches -> Driver!Answers] /\ manual.session \in Driver!Session
      /\ BatchSize \in Nat \ {0} /\ NoValue \notin Batches /\ NoValue \notin {"ok", "refused"}
    BY <1>1, ManualHas
<1>3. PICK r : r = Driver!Rest(manual)
    OBVIOUS
<1>4. /\ r \in Driver!Manual /\ r.session = manual.session /\ r.db = manual.db /\ r.level = manual.level
      /\ r.step = "idle" /\ r.batch = NoValue /\ r.aborted = manual.aborted
      /\ r.written = manual.written /\ r.saved = manual.saved /\ r.outcome = manual.outcome
    BY <1>2, <1>3 DEF Driver!Rest, Driver!Manual
<1>5. PICK z : z = IF engine = "SQLServer" THEN r.saved ELSE {}
    OBVIOUS
<1>6. z \in SUBSET SUBSET (Batches \X Nat)
    BY <1>4, <1>5 DEF Driver!Manual
<1>7. PICK n : n = [r EXCEPT !.saved = z]
    OBVIOUS
<1>8. manual' = n
  <2>1. manual' = [r EXCEPT !.saved = IF engine = "SQLServer" THEN @ ELSE {}]
      BY <1>1, <1>3
  <2> QED BY <1>4, <1>5, <1>7, <2>1 DEF Driver!Manual
<1>9. /\ n \in Driver!Manual /\ n.session = manual.session /\ n.db = manual.db /\ n.level = manual.level
      /\ n.step = "idle" /\ n.batch = NoValue /\ n.aborted = manual.aborted
      /\ n.written = manual.written /\ n.outcome = manual.outcome
    BY <1>4, <1>6, <1>7 DEF Driver!Manual
<1> HIDE <1>3, <1>5, <1>7
<1> DEFINE reply == IF manual.step = "run" THEN "ok" ELSE "refused"
<1>10. replies' = IF manual.batch = NoValue THEN replies ELSE [replies EXCEPT ![manual.batch] = reply]
    BY <1>1 DEF Driver!Told
<1>11. reply \in Driver!Answers /\ (reply = "ok" <=> manual.step = "run")
    BY DEF Driver!Answers
<1>12. manual.batch \in Batches \cup {NoValue}
    BY <1>2 DEF Driver!Manual
<1> HIDE DEF reply
<1>13. replies' \in [Batches -> Driver!Answers]
    BY <1>2, <1>10, <1>11, <1>12
<1>14. manual.batch # NoValue => replies[manual.batch] = NoValue
    BY <1>1, <1>2 DEF Driver!OpenInv
<1>15. manual.written = Driver!Agreed(replies')
  <2>1. CASE manual.step \in {"refused", "releasing"}
    <3>1. manual.written = Driver!Agreed(replies)
        BY <1>2, <2>1 DEF Driver!OpenInv
    <3>2. \A b \in Batches : replies'[b] = "ok" <=> replies[b] = "ok"
        BY <1>2, <1>10, <1>11, <1>12, <1>14, <2>1
    <3> QED BY <3>1, <3>2 DEF Driver!Agreed
  <2>2. CASE manual.step = "run" /\ manual.at > Driver!Length
    <3>1. manual.written = Driver!Agreed(replies) \cup Driver!Batched(manual, manual.at - 1)
          /\ manual.at \in 1..Driver!LengthOf(manual) + 1
        BY <1>2, <2>2 DEF Driver!OpenInv
    <3>2. Driver!LengthOf(manual) = Driver!Length /\ Driver!Length \in Nat
        BY <1>2 DEF Driver!LengthOf, Driver!Length
    <3>3. manual.at - 1 = Driver!LengthOf(manual)
        BY <2>2, <3>1, <3>2
    <3>4. CASE manual.batch = NoValue
      <4>1. Driver!Batched(manual, manual.at - 1) = {} /\ replies' = replies
          BY <1>10, <3>4 DEF Driver!Batched
      <4> QED BY <3>1, <4>1
    <3>5. CASE manual.batch # NoValue
      <4>1. Driver!Batched(manual, manual.at - 1) = {manual.batch} \X (1..BatchSize)
          BY <3>3, <3>5 DEF Driver!Batched, Driver!LengthOf
      <4>2. \A b \in Batches : replies'[b] = "ok" <=> replies[b] = "ok" \/ b = manual.batch
          BY <1>2, <1>10, <1>11, <1>12, <2>2, <3>5
      <4>3. {b \in Batches : replies'[b] = "ok"}
              = {b \in Batches : replies[b] = "ok"} \cup {manual.batch}
          BY <1>12, <3>5, <4>2
      <4> QED BY <3>1, <4>1, <4>3 DEF Driver!Agreed
    <3> QED BY <3>4, <3>5
  <2> QED BY <1>1, <2>1, <2>2
<1>16. ~manual.aborted /\ manual.session.tx
    BY <1>1, <1>2 DEF Driver!OpenInv
<1>17. Driver!OpenInv(n, replies')
    BY <1>2, <1>9, <1>15, <1>16 DEF Driver!OpenInv
<1>18. Driver!ManualInv(n, replies', durable)
    BY <1>1, <1>2, <1>9, <1>17 DEF Driver!ManualInv, Driver!Open
<1>19. durable' = durable /\ durable \subseteq Batches \X Nat
    BY <1>1, <1>2
<1> QED BY <1>1, <1>8, <1>9, <1>13, <1>18, <1>19, ManualKeeps

LEMMA TransactionKeeps ==
  ASSUME Driver!DriversAssumption, Driver!DriverInv, Driver!Transaction PROVE Driver!DriverInv'
BY BatchStartKeeps, BatchRunsKeeps, BatchFailsKeeps, BatchRecoversKeeps, BatchLostKeeps,
   BatchReturnsKeeps, CommitKeeps, RollbackKeeps DEF Driver!Transaction

\* A step of the driver that leaves the manual transaction alone.
LEMMA CallKeeps ==
  ASSUME Driver!DriverInv, UNCHANGED <<engine, manual, replies, durable>>, Driver!IdleInv',
         idle' \in [Driver!AllDatabases -> SUBSET Driver!Session],
         dcall' # NoValue => Driver!CallShape(dcall') /\ Driver!CallInv(dcall'),
         dcall' # NoValue /\ dcall'.op = "begin_transaction" => dcall # NoValue /\ dcall.op = "begin_transaction",
         ran' = ran \/ (ran' # NoValue => AsAsked(ran'))
  PROVE  Driver!DriverInv'
<1>1. PICK n : n = dcall'
    OBVIOUS
<1>2. dcall' # NoValue => Driver!CallShape(dcall)' /\ Driver!CallInv(dcall)'
    BY <1>1, CallShapeNext, CallInvNext
<1>3. Driver!DriverTypes'
    BY <1>2 DEF Driver!DriverInv, Driver!DriverTypes, Driver!AllDatabases, Driver!Session,
       Driver!Levels, Driver!Manual, Driver!Outcomes, Driver!Answers
<1>4. Driver!RunsAsAsked'
    BY DEF Driver!RunsAsAsked, AsAsked, Driver!DriverInv
<1>5. manual' # NoValue => Driver!ManualInv(manual, replies, durable)'
    BY DEF Driver!DriverInv, Driver!ManualInv, Driver!OpenInv, Driver!Agreed, Driver!Batched,
       Driver!LengthOf, Driver!UserPath, Driver!UserPlan
<1>6. dcall' # NoValue /\ dcall'.op = "begin_transaction" =>
        manual' = NoValue /\ durable' = {} /\ \A b \in Batches : replies'[b] = NoValue
    BY DEF Driver!DriverInv
<1> QED BY <1>2, <1>3, <1>4, <1>5, <1>6 DEF Driver!DriverInv

LEMMA CallSent ==
  ASSUME Driver!DriversAssumption, NEW c, Driver!CallShape(c), Driver!CallInv(c), c.todo # <<>>,
         NEW s \in Driver!Effects(Head(c.todo), c.session, c.asked)
  PROVE  /\ s \in Driver!Session /\ Driver!CallInv(Sent(c, s)) /\ Driver!CallShape(Sent(c, s)) /\ Sent(c, s).op = c.op
         /\ Head(c.todo) \in Driver!Statements => AsAsked(Driver!Ran(Head(c.todo), c.session, c.asked))
<1>1. /\ s \in Driver!Session /\ Driver!CallInv(Sent(c, s))
      /\ Head(c.todo) \in Driver!Statements => AsAsked(Driver!Ran(Head(c.todo), c.session, c.asked))
    BY BeginSent, BatchSent, ExplainSent, PlainSent
<1> QED BY <1>1, SentFields

LEMMA ExecuteKeeps ==
  ASSUME Driver!DriversAssumption, Driver!DriverInv, Driver!Execute PROVE Driver!DriverInv'
<1>1. dcall # NoValue /\ dcall.todo # <<>> /\ UNCHANGED <<engine, idle, manual, replies, durable>>
    BY DEF Driver!Execute
<1>2. Driver!CallShape(dcall) /\ Driver!CallInv(dcall)
    BY <1>1 DEF Driver!DriverInv, Driver!DriverTypes
<1>3. PICK s \in Driver!Effects(Head(dcall.todo), dcall.session, dcall.asked) :
        /\ dcall' = Sent(dcall, s)
        /\ ran' = IF Head(dcall.todo) \in Driver!Statements THEN Driver!Ran(Head(dcall.todo), dcall.session, dcall.asked) ELSE ran
    BY DEF Driver!Execute, Sent
<1>4. /\ Driver!CallInv(dcall') /\ Driver!CallShape(dcall') /\ dcall'.op = dcall.op
      /\ Head(dcall.todo) \in Driver!Statements => AsAsked(Driver!Ran(Head(dcall.todo), dcall.session, dcall.asked))
  <2>1. PICK c : c = dcall
      OBVIOUS
  <2> QED BY <1>1, <1>2, <1>3, <2>1, CallSent
<1>5. ran' = ran \/ AsAsked(ran')
    BY <1>3, <1>4
<1>6. Driver!IdleInv' /\ idle' \in [Driver!AllDatabases -> SUBSET Driver!Session]
    BY <1>1, IdleNext DEF Driver!DriverInv, Driver!DriverTypes
<1> QED BY <1>1, <1>4, <1>5, <1>6, CallKeeps

LEMMA LoseKeeps ==
  ASSUME Driver!DriversAssumption, Driver!DriverInv, Driver!Lose PROVE Driver!DriverInv'
<1>1. CASE dcall' = NoValue /\ ran' = NoValue /\ UNCHANGED <<engine, idle, manual, replies, durable>>
  <2>1. Driver!IdleInv' /\ idle' \in [Driver!AllDatabases -> SUBSET Driver!Session]
      BY <1>1, IdleNext DEF Driver!DriverInv, Driver!DriverTypes
  <2> QED BY <1>1, <2>1, CallKeeps
<1>2. CASE /\ dcall = NoValue
           /\ \E d \in Driver!AllDatabases : \E s \in idle[d] : idle' = [idle EXCEPT ![d] = @ \ {s}]
           /\ UNCHANGED <<engine, dcall, ran, manual, replies, durable>>
  <2>1. idle \in [Driver!AllDatabases -> SUBSET Driver!Session] /\ Driver!IdleInv
      BY DEF Driver!DriverInv, Driver!DriverTypes
  <2>5. PICK d \in Driver!AllDatabases : \E s \in idle[d] : idle' = [idle EXCEPT ![d] = @ \ {s}]
      BY <1>2
  <2>2. PICK s \in idle[d] : idle' = [idle EXCEPT ![d] = @ \ {s}]
      BY <2>5
  <2>3. idle' \in [Driver!AllDatabases -> SUBSET Driver!Session] /\ \A x \in Driver!AllDatabases : idle'[x] \subseteq idle[x]
      BY <2>1, <2>2
  <2>4. Driver!IdleInv'
      BY <1>2, <2>1, <2>3 DEF Driver!IdleInv, Driver!Pinned, Driver!UserPath, Driver!UserTx,
         Driver!UserPlan, Driver!AllDatabases
  <2> QED BY <1>2, <2>3, <2>4, CallKeeps
<1> QED BY <1>1, <1>2 DEF Driver!Lose

\* The call is over, and its session goes back.
Returnable(s) == Driver!UserPath(s) /\ Driver!UserTx(s) /\ Driver!UserPlan(s) /\ (Driver!Pinned => s.db = dcall.pool)

LEMMA IdleReturned ==
  ASSUME Driver!DriverInv, dcall # NoValue, engine' = engine, NEW s \in Driver!Session,
         ~Driver!Detached(dcall.op) /\ ~Driver!Stateless => Returnable(s),
         idle' = IF Driver!Detached(dcall.op) \/ Driver!Stateless THEN idle
                 ELSE [idle EXCEPT ![dcall.pool] = @ \cup {s}]
  PROVE  Driver!IdleInv' /\ idle' \in [Driver!AllDatabases -> SUBSET Driver!Session]
<1>1. idle \in [Driver!AllDatabases -> SUBSET Driver!Session] /\ Driver!IdleInv /\ dcall.pool \in Driver!AllDatabases
    BY DEF Driver!DriverInv, Driver!DriverTypes, Driver!CallShape
<1>2. CASE Driver!Detached(dcall.op) \/ Driver!Stateless
    BY <1>1, <1>2, IdleNext
<1>3. CASE ~(Driver!Detached(dcall.op) \/ Driver!Stateless)
  <2>1. idle' = [idle EXCEPT ![dcall.pool] = @ \cup {s}]
      BY <1>3
  <2>2. idle' \in [Driver!AllDatabases -> SUBSET Driver!Session]
      BY <1>1, <2>1
  <2>3. \A d \in Driver!AllDatabases : \A t \in idle'[d] : t \in idle[d] \/ (t = s /\ d = dcall.pool)
      BY <1>1, <2>1
  <2>4. Driver!IdleInv'
      BY <1>1, <1>3, <2>3 DEF Driver!IdleInv, Returnable, Driver!Pinned, Driver!UserPath,
         Driver!UserTx, Driver!UserPlan, Driver!AllDatabases
  <2> QED BY <2>2, <2>4
<1> QED BY <1>2, <1>3

LEMMA CallEnds ==
  ASSUME Driver!DriverInv, dcall # NoValue, NEW s \in Driver!Session, Driver!End(FALSE, s),
         ~Driver!Detached(dcall.op) /\ ~Driver!Stateless => Returnable(s)
  PROVE  Driver!DriverInv'
<1>1. /\ dcall' = NoValue /\ ran' = NoValue /\ UNCHANGED <<engine, manual, replies, durable>>
      /\ idle' = IF Driver!Detached(dcall.op) \/ Driver!Stateless THEN idle
                 ELSE [idle EXCEPT ![dcall.pool] = @ \cup {s}]
    BY DEF Driver!End
<1>2. Driver!IdleInv' /\ idle' \in [Driver!AllDatabases -> SUBSET Driver!Session]
    BY <1>1, IdleReturned
<1> QED BY <1>1, <1>2, CallKeeps

\* When a session may go back: what its class of operations says.
LEMMA PathReturned ==
  ASSUME Driver!CallInv(dcall), ~Driver!Detached(dcall.op) PROVE Driver!UserPath(dcall.session)
BY DEF Driver!CallInv, Driver!AtPath, Driver!UserPath, Driver!Detached

LEMMA AbandonKeeps ==
  ASSUME Driver!DriversAssumption, Driver!DriverInv, Driver!Abandon PROVE Driver!DriverInv'
<1>1. dcall # NoValue /\ dcall.op \in Driver!Droppable /\ Driver!End(FALSE, dcall.session)
    BY DEF Driver!Abandon
<1>2. Driver!CallInv(dcall) /\ dcall.session \in Driver!Session
    BY <1>1 DEF Driver!DriverInv, Driver!DriverTypes, Driver!CallShape
<1>3. Driver!PlainInv(dcall) /\ ~Driver!Detached(dcall.op)
    BY <1>1, <1>2 DEF Driver!CallInv, Driver!Droppable, Driver!Detached
<1>4. Returnable(dcall.session)
    BY <1>2, <1>3, PathReturned DEF Returnable, Driver!PlainInv, Driver!CallInv
<1> QED BY <1>1, <1>2, <1>4, CallEnds

LEMMA ReturnKeeps ==
  ASSUME Driver!DriversAssumption, Driver!DriverInv, Driver!Return PROVE Driver!DriverInv'
<1>1. /\ dcall # NoValue /\ dcall.todo = <<>>
      /\ Driver!End(dcall.op = "begin_transaction", dcall.session)
    BY DEF Driver!Return
<1>2. Driver!CallInv(dcall) /\ Driver!CallShape(dcall) /\ dcall.session \in Driver!Session /\ dcall.asked \in Driver!Asked
    BY <1>1 DEF Driver!DriverInv, Driver!DriverTypes, Driver!CallShape
<1>3. CASE dcall.op # "begin_transaction"
  <2>1. ASSUME ~Driver!Detached(dcall.op) PROVE Returnable(dcall.session)
    <3>1. CASE dcall.op = "execute_mutation_batch"
        BY <1>1, <1>2, <2>1, <3>1, PathReturned DEF Returnable, Driver!CallInv, Driver!BatchInv
    <3>2. CASE dcall.op = "explain"
        BY <1>1, <1>2, <2>1, <3>2, PathReturned DEF Returnable, Driver!CallInv, Driver!ExplainInv
    <3>3. CASE dcall.op \notin {"begin_transaction", "execute_mutation_batch", "explain"}
        BY <1>2, <2>1, <3>3, PathReturned DEF Returnable, Driver!CallInv, Driver!PlainInv
    <3> QED BY <1>3, <3>1, <3>2, <3>3
  <2>2. Driver!End(FALSE, dcall.session)
      BY <1>1, <1>3 DEF Driver!End
  <2> QED BY <1>1, <1>2, <2>1, <2>2, CallEnds
<1>4. CASE dcall.op = "begin_transaction"
  <2>1. /\ Driver!BeginInv(dcall) /\ manual = NoValue /\ durable = {} /\ \A b \in Batches : replies[b] = NoValue
        /\ replies \in [Batches -> Driver!Answers]
      BY <1>1, <1>2, <1>4 DEF Driver!CallInv, Driver!DriverInv, Driver!DriverTypes
  <2>2. /\ dcall' = NoValue /\ ran' = NoValue /\ UNCHANGED <<engine, replies, durable>>
        /\ idle' = IF Driver!Detached(dcall.op) \/ Driver!Stateless THEN idle
                   ELSE [idle EXCEPT ![dcall.pool] = @ \cup {dcall.session}]
        /\ manual' = [session |-> dcall.session, db |-> dcall.asked.db, level |-> dcall.asked.level,
                      step |-> "idle", batch |-> NoValue, at |-> 0, aborted |-> FALSE,
                      written |-> {}, saved |-> {}, outcome |-> "open"]
      BY <1>1, <1>4 DEF Driver!End
  <2>3. Driver!Detached(dcall.op)
      BY <1>4 DEF Driver!Detached
  <2>4. Driver!IdleInv' /\ idle' \in [Driver!AllDatabases -> SUBSET Driver!Session]
      BY <1>1, <1>2, <2>2, <2>3, IdleReturned
  <2>5. PICK a : a = dcall.asked
      OBVIOUS
  <2>6. PICK s : s = dcall.session
      OBVIOUS
  <2>7. a.db \in Driver!AllDatabases \cup {NoValue} /\ a.level \in Driver!Levels /\ s \in Driver!Session
      BY <1>2, <2>5, <2>6 DEF Driver!Asked
  <2>8. PICK n : n = [session |-> s, db |-> a.db, level |-> a.level,
                      step |-> "idle", batch |-> NoValue, at |-> 0, aborted |-> FALSE,
                      written |-> {}, saved |-> {}, outcome |-> "open"]
      OBVIOUS
  <2>9. /\ n \in Driver!Manual /\ n.session = s /\ n.db = a.db /\ n.level = a.level /\ n.step = "idle"
        /\ n.aborted = FALSE /\ n.written = {} /\ n.outcome = "open"
      BY <2>7, <2>8 DEF Driver!Manual, Driver!Outcomes
  <2>10. manual' = n
      BY <2>2, <2>5, <2>6, <2>8
  <2>11. Driver!Agreed(replies) = {}
    <3>1. \A b \in Batches : replies[b] # "ok"
        BY <2>1 DEF Driver!DriversAssumption
    <3> QED BY <3>1 DEF Driver!Agreed
  <2>12. /\ Driver!UserPlan(s) /\ s.tx /\ a.level \in {"default", s.level}
         /\ a.db \in {NoValue, s.db} \/ "db" \in s.by
      BY <1>1, <2>1, <2>5, <2>6 DEF Driver!BeginInv, Driver!AtDatabase, Driver!First
  <2>13. Driver!UserPath(s)
      BY <1>1, <1>2, <1>4, <2>6 DEF Driver!CallInv, Driver!AtPath, Driver!UserPath, Driver!First
  <2> HIDE <2>5, <2>6, <2>8
  <2>14. Driver!OpenInv(n, replies)
      BY <2>9, <2>11, <2>12, <2>13 DEF Driver!OpenInv
  <2>15. Driver!ManualInv(n, replies, durable)
      BY <2>1, <2>9, <2>14 DEF Driver!ManualInv
  <2>16. Driver!DriverTypes'
      BY <2>2, <2>4, <2>9, <2>10 DEF Driver!DriverInv, Driver!DriverTypes, Driver!AllDatabases,
         Driver!Session, Driver!Levels, Driver!Manual, Driver!Outcomes, Driver!Answers
  <2>17. Driver!RunsAsAsked'
      BY <2>2 DEF Driver!RunsAsAsked
  <2>18. manual' # NoValue => Driver!ManualInv(manual, replies, durable)'
      BY <2>2, <2>10, <2>15 DEF Driver!ManualInv, Driver!OpenInv, Driver!Agreed, Driver!Batched,
         Driver!LengthOf, Driver!UserPath, Driver!UserPlan
  <2> QED BY <2>2, <2>4, <2>16, <2>17, <2>18 DEF Driver!DriverInv
<1> QED BY <1>3, <1>4

\* Which class a step belongs to.
LEMMA HeadsApart ==
  ASSUME NEW c, Driver!CallInv(c), c.todo # <<>>
  PROVE  /\ c.op = "begin_transaction" => Beginning(c) /\ Head(c.todo) \in {"USE", "ISOLATION", "BEGIN"}
         /\ c.op = "execute_mutation_batch" =>
              Batching(c) /\ Head(c.todo) \in {"USE", "OPEN", "EDIT", "CLOSE", "UNDO"}
         /\ c.op = "explain" =>
              Explaining(c) /\ Head(c.todo) \in {"USE", "PLAN", "PLANNED", "UNPLAN", "EXPLAIN"}
         /\ c.op \notin {"begin_transaction", "execute_mutation_batch", "explain"} =>
              Driver!PlainInv(c) /\ Head(c.todo) \notin {"EDIT", "PLANNED", "CLOSE", "UNDO", "UNPLAN"}
<1>1. c.todo # Done
    BY DEF Done
<1>2. CASE c.op = "begin_transaction"
  <2>1. Beginning(c)
      BY <1>2, Begins DEF Driver!CallInv
  <2> QED BY <1>1, <1>2, <2>1, BeginLefts DEF Beginning, Driver!Pinned
<1>3. CASE c.op = "execute_mutation_batch"
  <2>1. Batching(c)
      BY <1>3, BatchIs DEF Driver!CallInv
  <2> QED BY <1>1, <1>3, <2>1, BatchLefts DEF Batching
<1>4. CASE c.op = "explain"
  <2>1. Explaining(c)
      BY <1>4, ExplainIs DEF Driver!CallInv
  <2> QED BY <1>1, <1>4, <2>1, ExplainLefts DEF Explaining
<1>5. CASE c.op \notin {"begin_transaction", "execute_mutation_batch", "explain"}
  <2>1. Driver!PlainInv(c)
      BY <1>5 DEF Driver!CallInv
  <2>2. Head(c.todo) \in {"USE", "PATH", "RUN", "NAMED", "SERVER"} \cup Driver!UserSteps
      BY <2>1 DEF Driver!PlainInv, Driver!First
  <2> QED BY <1>5, <2>1, <2>2 DEF Driver!UserSteps
<1> QED BY <1>2, <1>3, <1>4, <1>5

LEMMA FailedSession ==
  ASSUME NEW s \in Driver!Session, NEW step
  PROVE  /\ Driver!Failed(s, step) \in Driver!Session /\ Driver!Failed(s, step).db = s.db /\ Driver!Failed(s, step).path = s.path
         /\ Driver!Failed(s, step).plan = s.plan
         /\ \A f \in {"db", "path", "plan"} : f \in Driver!Failed(s, step).by <=> f \in s.by
         /\ step # "CLOSE" => Driver!Failed(s, step) = s
         /\ step = "CLOSE" /\ ~s.plan => Driver!UserTx(Driver!Failed(s, step))
         /\ Driver!UserTx(s) => Driver!UserTx(Driver!Failed(s, step))
<1>1. CASE step # "CLOSE"
  <2>1. Driver!Failed(s, step) = s
      BY <1>1 DEF Driver!Failed
  <2> QED BY <1>1, <2>1
<1>2. CASE step = "CLOSE" /\ engine = "SQLite"
  <2>1. PICK by : by = s.by \cup {"tx"}
      OBVIOUS
  <2>2. by \in SUBSET {"db", "path", "tx", "plan"} /\ \A f \in {"db", "path", "plan"} : f \in by <=> f \in s.by
      BY <2>1 DEF Driver!Session
  <2>3. PICK t : t = [s EXCEPT !.by = by]
      OBVIOUS
  <2>4. Driver!Failed(s, step) = t
      BY <1>2, <2>1, <2>3 DEF Driver!Failed
  <2>5. /\ t \in Driver!Session /\ t.by = by /\ t.db = s.db /\ t.path = s.path /\ t.plan = s.plan /\ t.tx = s.tx
      BY <2>2, <2>3 DEF Driver!Session
  <2>6. "tx" \in t.by
      BY <2>1, <2>5
  <2> HIDE <2>1, <2>3
  <2> QED BY <1>2, <2>2, <2>4, <2>5, <2>6 DEF Driver!UserTx
<1>3. CASE step = "CLOSE" /\ engine # "SQLite"
  <2>1. Driver!Failed(s, step) = Driver!Ended(s)
      BY <1>3 DEF Driver!Failed
  <2> QED BY <1>3, <2>1, TransactionEnded DEF Driver!UserTx
<1> QED BY <1>1, <1>2, <1>3

LEMMA FailKeeps ==
  ASSUME Driver!DriversAssumption, Driver!DriverInv, Driver!Fail PROVE Driver!DriverInv'
<1>1. dcall # NoValue /\ dcall.todo # <<>> /\ Head(dcall.todo) \notin {"UNPLAN", "UNDO"}
    BY DEF Driver!Fail
<1>2. Driver!CallInv(dcall) /\ Driver!CallShape(dcall) /\ dcall.session \in Driver!Session /\ dcall.asked \in Driver!Asked
    BY <1>1 DEF Driver!DriverInv, Driver!DriverTypes, Driver!CallShape
<1> DEFINE rest == Driver!AfterFailure(dcall.todo)
<1>3. CASE rest = <<>>
  <2>1. PICK s : s = Driver!Failed(dcall.session, Head(dcall.todo))
      OBVIOUS
  <2>2. Driver!End(FALSE, s)
      BY <1>3, <2>1 DEF Driver!Fail
  <2>3. /\ s \in Driver!Session /\ s.db = dcall.session.db /\ s.path = dcall.session.path
        /\ s.plan = dcall.session.plan
        /\ \A f \in {"db", "path", "plan"} : f \in s.by <=> f \in dcall.session.by
        /\ Head(dcall.todo) = "CLOSE" /\ ~dcall.session.plan => Driver!UserTx(s)
        /\ Driver!UserTx(dcall.session) => Driver!UserTx(s)
      BY <1>2, <2>1, FailedSession
  <2>4. Head(dcall.todo) \notin {"EDIT", "PLANNED"}
    <3>1. ASSUME Head(dcall.todo) = "EDIT" PROVE rest # <<>>
        BY <3>1 DEF Driver!AfterFailure
    <3>2. ASSUME Head(dcall.todo) = "PLANNED" PROVE rest # <<>>
      <4>1. dcall.todo = RunPlanned
          BY <1>1, <1>2, <3>2, HeadsApart, ExplainLefts DEF Explaining, Done
      <4>2. rest = Tail(dcall.todo)
          BY <3>2 DEF Driver!AfterFailure
      <4> QED BY <4>1, <4>2, ExplainLefts DEF Done
    <3> QED BY <1>3, <3>1, <3>2
  <2>5. ASSUME ~Driver!Detached(dcall.op), ~Driver!Stateless PROVE Returnable(s)
    <3>1. Driver!UserPath(s)
        BY <1>2, <2>3, <2>5, PathReturned DEF Driver!UserPath
    <3>2. Driver!Pinned => s.db = dcall.pool
        BY <1>2, <2>3 DEF Driver!CallInv
    <3>3. Driver!UserPlan(dcall.session) => Driver!UserPlan(s)
        BY <2>3 DEF Driver!UserPlan
    <3>4. CASE dcall.op = "execute_mutation_batch"
      <4>1. Batching(dcall) /\ Head(dcall.todo) \in {"USE", "OPEN", "CLOSE"}
          BY <1>1, <1>2, <2>4, <3>4, HeadsApart
      <4>2. Driver!UserPlan(dcall.session) /\ (dcall.todo = JustClose \/ Driver!UserTx(dcall.session))
          BY <4>1, <1>1, BatchLefts DEF Batching, Done
      <4>3. dcall.session.plan => Driver!UserTx(dcall.session)
          BY <4>1 DEF Batching
      <4>4. Driver!UserTx(s)
          BY <2>3, <4>2, <4>3, BatchLefts
      <4> QED BY <3>1, <3>2, <3>3, <4>2, <4>4 DEF Returnable
    <3>5. CASE dcall.op = "explain"
      <4>1. Explaining(dcall) /\ Head(dcall.todo) \in {"USE", "PLAN", "EXPLAIN"}
          BY <1>1, <1>2, <2>4, <3>5, HeadsApart
      <4>2. Driver!UserPlan(dcall.session) /\ Driver!UserTx(dcall.session)
          BY <4>1, <1>1, ExplainLefts DEF Explaining, Done
      <4> QED BY <2>3, <3>1, <3>2, <3>3, <4>2 DEF Returnable
    <3>6. CASE dcall.op \notin {"begin_transaction", "execute_mutation_batch", "explain"}
      <4>1. Driver!UserPlan(dcall.session) /\ Driver!UserTx(dcall.session)
          BY <1>1, <1>2, <3>6, HeadsApart DEF Driver!PlainInv
      <4> QED BY <2>3, <3>1, <3>2, <3>3, <4>1 DEF Returnable
    <3>7. dcall.op # "begin_transaction"
        BY <2>5 DEF Driver!Detached
    <3> QED BY <3>4, <3>5, <3>6, <3>7
  <2> QED BY <1>1, <2>2, <2>3, <2>5, CallEnds
<1>4. CASE rest # <<>>
  <2>1. dcall' = [dcall EXCEPT !.todo = rest] /\ UNCHANGED <<engine, idle, ran, manual, replies, durable>>
      BY <1>4 DEF Driver!Fail
  <2>2. \/ dcall.op = "explain" /\ dcall.todo = RunPlanned /\ rest = JustUnplan
        \/ dcall.op = "execute_mutation_batch" /\ dcall.todo \in {EditTwice, EditOnce} /\ rest = JustUndo
    <3>1. CASE Head(dcall.todo) = "PLANNED"
      <4>1. dcall.op = "explain" /\ dcall.todo = RunPlanned
          BY <1>1, <1>2, <3>1, HeadsApart, ExplainLefts DEF Explaining, Done
      <4>2. rest = Tail(dcall.todo)
          BY <3>1 DEF Driver!AfterFailure
      <4> QED BY <4>1, <4>2, ExplainLefts
    <3>2. CASE Head(dcall.todo) = "EDIT"
      <4>1. dcall.op = "execute_mutation_batch" /\ dcall.todo \in {EditTwice, EditOnce}
          BY <1>1, <1>2, <3>2, HeadsApart, BatchLefts DEF Batching, Done
      <4>2. rest = JustUndo
          BY <3>2 DEF Driver!AfterFailure, JustUndo
      <4> QED BY <4>1, <4>2
    <3>3. CASE Head(dcall.todo) \notin {"PLANNED", "EDIT"}
        BY <1>4, <3>3 DEF Driver!AfterFailure
    <3> QED BY <3>1, <3>2, <3>3
  <2>3. PICK t : t = rest
      OBVIOUS
  <2>4. t \in Seq(Driver!AllSteps)
    <3>1. JustUnplan \in Seq(Driver!AllSteps)
        BY DEF JustUnplan, Driver!AllSteps
    <3>2. JustUndo \in Seq(Driver!AllSteps)
        BY DEF JustUndo, Driver!AllSteps
    <3> QED BY <2>2, <2>3, <3>1, <3>2
  <2>5. PICK n : n = [dcall EXCEPT !.todo = t]
      OBVIOUS
  <2> DEFINE Calls == [op : {dcall.op}, pool : {dcall.pool}, session : Driver!Session, asked : Driver!Asked,
                       todo : Seq(Driver!AllSteps)]
  <2>6. dcall \in Calls
      BY <1>2 DEF Driver!CallShape
  <2>7. /\ n \in Calls /\ n.op = dcall.op /\ n.pool = dcall.pool /\ n.session = dcall.session
        /\ n.asked = dcall.asked /\ n.todo = t
      BY <2>4, <2>5, <2>6
  <2>8. n = [op |-> n.op, pool |-> n.pool, session |-> n.session, asked |-> n.asked, todo |-> n.todo]
      BY <2>7
  <2>9. Driver!CallShape(n)
      BY <1>2, <2>7, <2>8 DEF Driver!CallShape
  <2>10. dcall' = n
      BY <2>1, <2>3, <2>5
  <2> HIDE <2>5 DEF Calls
  <2>11. ~Driver!First(dcall, {"USE", "PATH"}) /\ ~Driver!First(n, {"USE", "PATH"})
    <3>1. /\ Head(dcall.todo) \in {"PLANNED", "EDIT"}
          /\ Head(n.todo) \in {"UNPLAN", "UNDO"}
        BY <2>2, <2>3, <2>7, ExplainLefts, BatchLefts
    <3> QED BY <3>1 DEF Driver!First
  <2> HIDE <2>3 DEF rest
  <2>17. /\ n.asked.path = dcall.asked.path /\ n.asked.tx = dcall.asked.tx
         /\ n.asked.plan = dcall.asked.plan /\ n.asked.level = dcall.asked.level
         /\ n.op = dcall.op /\ n.pool = dcall.pool /\ n.session.db = dcall.session.db
      BY <2>7
  <2>12. Driver!AtPath(n) /\ (Driver!AtDatabase(dcall) => Driver!AtDatabase(n)) /\ ~Driver!First(n, {"USE"})
      BY <1>2, <2>7, <2>11 DEF Driver!AtPath, Driver!AtDatabase, Driver!First, Driver!CallInv
  <2>13. ASSUME dcall.op = "explain" PROVE Driver!CallInv(n)
    <3>1. Explaining(dcall) /\ n.todo = JustUnplan
        BY <1>1, <1>2, <2>2, <2>3, <2>7, <2>13, HeadsApart
    <3>2. Explaining(n)
        BY <2>7, <2>12, <3>1, ExplainLefts DEF Explaining
    <3>3. Driver!ExplainInv(n)
        BY <3>2, ExplainIs
    <3> QED BY <1>2, <2>12, <2>13, <2>17, <3>3, CallKept
  <2>14. ASSUME dcall.op = "execute_mutation_batch" PROVE Driver!CallInv(n)
    <3>1. Batching(dcall) /\ n.todo = JustUndo
        BY <1>1, <1>2, <2>2, <2>3, <2>7, <2>14, HeadsApart
    <3>2. Batching(n)
        BY <2>7, <2>12, <3>1, BatchLefts DEF Batching
    <3>3. Driver!BatchInv(n)
        BY <3>2, BatchIs
    <3> QED BY <1>2, <2>12, <2>14, <2>17, <3>3, CallKept
  <2>15. Driver!IdleInv' /\ idle' \in [Driver!AllDatabases -> SUBSET Driver!Session]
      BY <2>1, IdleNext DEF Driver!DriverInv, Driver!DriverTypes
  <2>16. Driver!CallInv(n)
      BY <2>2, <2>13, <2>14
  <2>18. /\ UNCHANGED <<engine, manual, replies, durable>> /\ ran' = ran
         /\ dcall'.op = dcall.op /\ Driver!CallShape(dcall') /\ Driver!CallInv(dcall')
      BY <2>1, <2>9, <2>10, <2>16, <2>17
  <2> QED BY <1>1, <2>15, <2>18, CallKeeps
<1> QED BY <1>3, <1>4

\* The session a call takes leaves the pool.
LEMMA IdleTaken ==
  ASSUME Driver!DriverInv, engine' = engine, NEW d \in Driver!AllDatabases, NEW s,
         idle' = idle \/ idle' = [idle EXCEPT ![d] = @ \ {s}]
  PROVE  Driver!IdleInv' /\ idle' \in [Driver!AllDatabases -> SUBSET Driver!Session]
<1>1. idle \in [Driver!AllDatabases -> SUBSET Driver!Session] /\ Driver!IdleInv
    BY DEF Driver!DriverInv, Driver!DriverTypes
<1>2. idle' \in [Driver!AllDatabases -> SUBSET Driver!Session] /\ \A x \in Driver!AllDatabases : idle'[x] \subseteq idle[x]
    BY <1>1
<1>3. Driver!IdleInv'
    BY <1>1, <1>2 DEF Driver!IdleInv, Driver!Pinned, Driver!UserPath, Driver!UserTx,
       Driver!UserPlan, Driver!AllDatabases
<1> QED BY <1>2, <1>3

LEMMA StartKeeps ==
  ASSUME Driver!DriversAssumption, Driver!DriverInv, NEW o \in Driver!Operations, Driver!Start(o[1], o[2])
  PROVE  Driver!DriverInv'
<1> DEFINE op == o[1]  p == o[2]
<1>1. /\ engine \in Engines /\ Driver!IdleInv /\ idle \in [Driver!AllDatabases -> SUBSET Driver!Session]
      /\ Fitting(op, p)
    BY ProgramsFit DEF Driver!DriverInv, Driver!DriverTypes, Fits
<1> HIDE DEF op, p
<1>2. /\ dcall = NoValue /\ ran' = ran /\ engine' = engine
      /\ Driver!Open => op # "begin_transaction" /\ UNCHANGED <<manual, replies, durable>>
      /\ ~Driver!Open => manual' = NoValue /\ replies' = [b \in Batches |-> NoValue] /\ durable' = {}
    BY DEF Driver!Start, op, p
<1>3. PICK db \in (IF engine = "SQLite" THEN {MainDb} ELSE Driver!AllDatabases), script \in Driver!ScriptsOf(op),
           level \in (IF op = "begin_transaction" THEN {"default", "asked"} ELSE {"default"}) :
        LET pool == Driver!Pool(p, db)
            own == engine = "SQLServer" /\ op = "begin_transaction"
        IN  \E s \in (IF own \/ Driver!Stateless \/ (idle[pool] = {} /\ ~Driver!OneClient)
                      THEN {Driver!Fresh(pool)} ELSE idle[pool]) :
              /\ idle' = IF own THEN idle ELSE [idle EXCEPT ![pool] = @ \ {s}]
              /\ dcall' = [op |-> op, pool |-> pool, session |-> s,
                          asked |-> [db |-> db, path |-> IF op = "execute_in_schema" THEN Schema ELSE NoValue,
                                     tx |-> op = "execute_mutation_batch", plan |-> op = "explain", level |-> level],
                          todo |-> Driver!Steps(p, script)]
    BY DEF Driver!Start, op, p
<1>4. \E s \in Taken(op, Driver!Pool(p, db)) :
         /\ idle' = IF engine = "SQLServer" /\ op = "begin_transaction" THEN idle
                    ELSE [idle EXCEPT ![Driver!Pool(p, db)] = @ \ {s}]
         /\ dcall' = NewCall(op, Driver!Pool(p, db), s, db, level, Driver!Steps(p, script))
    BY <1>3, Zenon DEF Taken, NewCall
<1>5. PICK s \in Taken(op, Driver!Pool(p, db)) :
        /\ idle' = IF engine = "SQLServer" /\ op = "begin_transaction" THEN idle
                   ELSE [idle EXCEPT ![Driver!Pool(p, db)] = @ \ {s}]
        /\ dcall' = NewCall(op, Driver!Pool(p, db), s, db, level, Driver!Steps(p, script))
    BY <1>4
<1>6. Driver!Pool(p, db) \in Driver!AllDatabases
    BY DEF Driver!Pool, Driver!AllDatabases
<1>7. Driver!IdleInv' /\ idle' \in [Driver!AllDatabases -> SUBSET Driver!Session]
    BY <1>2, <1>5, <1>6, IdleTaken
<1>8. PICK n : n = NewCall(op, Driver!Pool(p, db), s, db, level, Driver!Steps(p, script))
    OBVIOUS
<1>9. Driver!CallShape(n) /\ Driver!CallInv(n)
    BY <1>1, <1>8, StartedCall
<1>10. n.op = op
    BY <1>8 DEF NewCall
<1>11. dcall' = n
    BY <1>5, <1>8
<1> HIDE <1>5, <1>8
<1>12. CASE Driver!Open
    BY <1>2, <1>7, <1>9, <1>10, <1>11, <1>12, CallKeeps
<1>13. CASE ~Driver!Open
  <2>1. Driver!CallShape(dcall)' /\ Driver!CallInv(dcall)'
      BY <1>2, <1>9, <1>11, CallShapeNext, CallInvNext
  <2>2. manual' = NoValue /\ durable' = {} /\ \A b \in Batches : replies'[b] = NoValue
      BY <1>2, <1>13
  <2>3. replies' \in [Batches -> Driver!Answers]
      BY <1>2, <1>13 DEF Driver!Answers
  <2>4. Driver!DriverTypes'
      BY <1>1, <1>2, <1>7, <2>1, <2>2, <2>3
      DEF Driver!DriverTypes, Driver!AllDatabases, Driver!Session, Driver!Levels, Driver!Manual, Driver!Outcomes, Driver!Answers
  <2>5. Driver!RunsAsAsked'
      BY <1>2 DEF Driver!RunsAsAsked, Driver!DriverInv
  <2> QED BY <1>7, <2>1, <2>2, <2>4, <2>5 DEF Driver!DriverInv
<1> QED BY <1>12, <1>13

LEMMA StartsTrue ==
  ASSUME Driver!DriversAssumption, Driver!Init PROVE Driver!DriverInv
<1>1. /\ engine \in Engines /\ dcall = NoValue /\ ran = NoValue /\ manual = NoValue /\ durable = {}
      /\ replies = [b \in Batches |-> NoValue]
      /\ idle = [d \in Driver!AllDatabases |-> IF d = MainDb THEN {Driver!Fresh(d)} ELSE {}]
    BY DEF Driver!Init
<1>2. idle \in [Driver!AllDatabases -> SUBSET Driver!Session]
    BY <1>1, FreshSession
<1>3. Driver!IdleInv
    BY <1>1, FreshSession DEF Driver!IdleInv
<1>4. Driver!DriverTypes
    BY <1>1, <1>2 DEF Driver!DriverTypes, Driver!Answers
<1> QED BY <1>1, <1>3, <1>4 DEF Driver!DriverInv, Driver!RunsAsAsked

LEMMA StuttersTrue ==
  ASSUME Driver!DriverInv, UNCHANGED Driver!vars PROVE Driver!DriverInv'
<1>1. UNCHANGED <<engine, idle, dcall, ran, manual, replies, durable>>
    BY DEF Driver!vars
<1>2. Driver!IdleInv' /\ idle' \in [Driver!AllDatabases -> SUBSET Driver!Session]
    BY <1>1, IdleNext DEF Driver!DriverInv, Driver!DriverTypes
<1>3. dcall # NoValue => Driver!CallShape(dcall) /\ Driver!CallInv(dcall)
    BY DEF Driver!DriverInv, Driver!DriverTypes
<1> QED BY <1>1, <1>2, <1>3, CallKeeps

LEMMA BatchesTold ==
  ASSUME Driver!DriverInv PROVE Driver!BatchesAreAtomic
<1>1. manual # NoValue => Driver!ManualInv(manual, replies, durable) /\ manual \in Driver!Manual
    BY DEF Driver!DriverInv, Driver!DriverTypes
<1>2. ASSUME manual # NoValue PROVE manual.outcome \in Driver!Outcomes
    BY <1>1, <1>2 DEF Driver!Manual
<1> QED BY <1>1, <1>2 DEF Driver!BatchesAreAtomic, Driver!ManualInv, Driver!OpenInv,
           Driver!Agreed, Driver!Outcomes

(* The invariant of the drivers, for every choice of engines, databases, *)
(* batches and bounds.                                                    *)
THEOREM DriversHold == Driver!Spec => []Driver!DriverInv
<1>1. Driver!Init => Driver!DriverInv
    BY DriversAssumption, StartsTrue
<1>2. Driver!DriverInv /\ [Driver!Next]_Driver!vars => Driver!DriverInv'
    BY DriversAssumption, StartKeeps, ExecuteKeeps, FailKeeps, ReturnKeeps, AbandonKeeps, LoseKeeps,
       TransactionKeeps, StuttersTrue DEF Driver!Next
<1> QED BY <1>1, <1>2, PTL DEF Driver!Spec

(* Whatever calls, failures, timeouts and scripts went before it, a         *)
(* statement meets the session that its caller asked for; and a batch of a  *)
(* manual transaction is durable as a whole, when and only when the         *)
(* transaction was committed.                                               *)
THEOREM DriversAreTrue == Driver!Spec => []DriversKeepTheirWord
<1>1. Driver!DriverInv => DriversKeepTheirWord
    BY BatchesTold DEF Driver!DriverInv, DriversKeepTheirWord
<1> QED BY <1>1, DriversHold, PTL

=============================================================================
