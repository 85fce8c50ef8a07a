------------------------- MODULE ConnectionWorkspace -------------------------
(***************************************************************************)
(* The connection panel: the snapshot of profiles and sessions it shows,   *)
(* the operations it starts, the lists of databases it loads, and the      *)
(* events, forms and pickers that make it read again.                      *)
(*                                                                         *)
(* Everything the panel does runs on one thread; the tasks it starts run   *)
(* elsewhere and their results come back in any order.  A task is named by *)
(* the epoch it was begun at; the generation the code gives an operation   *)
(* is unique in the same way and is not kept besides.  The lists of        *)
(* objects follow the rules of the database lists and are left out.        *)
(***************************************************************************)
EXTENDS Naturals, Sequences

CONSTANTS Profiles, None,
          EventCapacity,  \* events kept for a slow subscriber
          MaxInputs,      \* what users and other processes do in a behaviour
          HasPicker       \* whether a query tab offers the context picker

ASSUME ConstantsAssumption ==
  /\ EventCapacity \in Nat \ {0} /\ MaxInputs \in Nat /\ HasPicker \in BOOLEAN

VARIABLES
  profile,   \* "new", "saved" or "deleted", for each profile
  session,   \* its installed session, 0 is none
  sessions,  \* the last generation given to a session
  usage,     \* the profiles in use by MCP sessions
  version,   \* how often the App's side and the registry's side have changed
  events,    \* the broadcast channel of the panel
  lagged,    \* the channel dropped something the panel has not received
  unsent,    \* registry changes whose event is still to be sent
  form,      \* the modal form: "none", "saving" or "saved"
  prompt,    \* the profile a deletion asks the user about
  view,      \* "loading", "failed", "idle", "refreshing" or "stale"
  shown,     \* the snapshot on the screen
  epoch,     \* snapshot_epoch
  operation, \* the running operation of each profile, 0 is none
  tasks,     \* the tasks in flight, by epoch
  lists,     \* the database list of each profile
  requests,  \* database_request_generation
  loads,     \* the list loads in flight, by request
  picker,    \* the context picker of a query tab
  inputs     \* inputs so far

appVars == <<profile, session, sessions, usage, version>>
eventVars == <<events, lagged, unsent>>
dialogVars == <<form, prompt>>
snapshotVars == <<view, shown, epoch, operation, tasks>>
listVars == <<lists, requests, loads>>
vars == <<appVars, eventVars, dialogVars, snapshotVars, listVars, picker, inputs>>

\* Every input begins one task at most, every operation one refresh after it.
MaxEpoch == 2 * MaxInputs + 1
SessionMaps == [Profiles -> Nat \cup {None}]  \* None is not listed, 0 no session
ManagerPart == [sessions : SessionMaps, version : Nat]
RegistryPart == [used : SUBSET Profiles, version : Nat]
Snapshot == [manager : ManagerPart, registry : RegistryPart]
Task == [kind : {"refresh", "connect", "disconnect", "delete"},
         profile : Profiles \cup {None}, done : BOOLEAN, connected : BOOLEAN,
         manager : ManagerPart \cup {None}, registry : RegistryPart \cup {None}]
List == [state : {"none", "loading", "ready", "failed"}, session : Nat, request : Nat]
Load == [profile : Profiles, session : Nat, got : Nat \cup {None}]
Picker == [step : {"closed", "reading", "read", "menu"}, sessions : SessionMaps]

NoList == [state |-> "none", session |-> 0, request |-> 0]
NoSessions == [p \in Profiles |-> None]
Closed == [step |-> "closed", sessions |-> NoSessions]

ASSUME NoneAssumption ==
  /\ None \notin Profiles /\ None \notin Nat
  /\ None \notin Snapshot /\ None \notin ManagerPart /\ None \notin RegistryPart

TypeOK ==
  /\ profile \in [Profiles -> {"new", "saved", "deleted"}]
  /\ sessions \in 0..MaxInputs /\ session \in [Profiles -> 0..sessions]
  /\ usage \subseteq Profiles
  /\ version \in [{"manager", "registry"} -> Nat]
  /\ events \in Seq({"mcp", "task"}) /\ Len(events) <= EventCapacity
  /\ lagged \in BOOLEAN /\ unsent \in Nat
  /\ form \in {"none", "saving", "saved"} /\ prompt \in Profiles \cup {None}
  /\ view \in {"loading", "failed", "idle", "refreshing", "stale"}
  /\ shown \in Snapshot \cup {None}
  /\ shown = None <=> view \in {"loading", "failed"}
  /\ epoch \in 1..MaxEpoch
  /\ operation \in [Profiles -> 0..MaxEpoch]
  /\ DOMAIN tasks \subseteq 1..epoch /\ \A t \in DOMAIN tasks : tasks[t] \in Task
  /\ lists \in [Profiles -> List] /\ requests \in Nat
  /\ DOMAIN loads \subseteq 1..requests /\ \A r \in DOMAIN loads : loads[r] \in Load
  /\ picker \in Picker /\ inputs \in 0..MaxInputs

Add(f, x, v) == [y \in DOMAIN f \cup {x} |-> IF y = x THEN v ELSE f[y]]
Remove(f, x) == [y \in DOMAIN f \ {x} |-> f[y]]

\* A snapshot joins what the two sides read at moments of their own.
Manager == [sessions |-> [p \in Profiles |-> IF profile[p] = "saved" THEN session[p] ELSE None],
            version |-> version["manager"]]
Registry == [used |-> usage, version |-> version["registry"]]

NewTask(kind, p) == [kind |-> kind, profile |-> p, done |-> kind = "refresh",
                     connected |-> FALSE, manager |-> None, registry |-> None]

Init ==
  /\ profile \in [Profiles -> {"new", "saved"}]
  /\ session = [p \in Profiles |-> 0] /\ sessions = 0 /\ usage = {}
  /\ version = [side \in {"manager", "registry"} |-> 0]
  /\ events = <<>> /\ lagged = FALSE /\ unsent = 0
  /\ form = "none" /\ prompt = None
  /\ view = "loading" /\ shown = None /\ epoch = 1
  /\ operation = [p \in Profiles |-> 0]
  /\ tasks = [t \in {1} |-> NewTask("refresh", None)]
  /\ lists = [p \in Profiles |-> NoList] /\ requests = 0 /\ loads = [r \in {} |-> None]
  /\ picker = Closed /\ inputs = 0

Input == inputs < MaxInputs /\ inputs' = inputs + 1
Free == form = "none" /\ prompt = None /\ picker.step # "menu"

-----------------------------------------------------------------------------
(* What the panel shows *)

Blocked == view # "idle"
ListedIn(snapshot, p) == snapshot # None /\ snapshot.manager.sessions[p] # None
SessionIn(snapshot, p) == IF ListedIn(snapshot, p) THEN snapshot.manager.sessions[p] ELSE 0
ShownSession(p) == SessionIn(shown, p)

Refreshing == IF shown = None THEN "loading" ELSE "refreshing"

\* begin_refresh, with the tasks that are in flight besides
Refresh(others) ==
  /\ epoch' = epoch + 1
  /\ tasks' = Add(others, epoch + 1, NewTask("refresh", None))
  /\ view' = Refreshing
  /\ UNCHANGED <<shown, operation>>

BeginOperation(kind, p) ==
  /\ ~Blocked /\ operation[p] = 0
  /\ epoch' = epoch + 1
  /\ operation' = [operation EXCEPT ![p] = epoch + 1]
  /\ tasks' = Add(tasks, epoch + 1, NewTask(kind, p))
  /\ UNCHANGED <<view, shown>>

\* begin_database_load, given the lists and the snapshot there are
StartLoad(current, p, s) ==
  IF s = 0 \/ current[p].session = s
  THEN lists' = current /\ UNCHANGED <<requests, loads>>
  ELSE /\ requests' = requests + 1
       /\ lists' = [current EXCEPT ![p] = [state |-> "loading", session |-> s,
                                           request |-> requests + 1]]
       /\ loads' = Add(loads, requests + 1, [profile |-> p, session |-> s, got |-> None])

\* Mutant: a list is kept as long as its profile is shown.
KeptListsOfAnySession(snapshot) ==
  [p \in Profiles |-> IF ListedIn(snapshot, p) THEN lists[p] ELSE NoList]

\* replace_snapshot
KeptLists(snapshot) ==
  [p \in Profiles |-> IF lists[p].session = SessionIn(snapshot, p) THEN lists[p] ELSE NoList]
KeptOperations(snapshot, running) ==
  [p \in Profiles |-> IF ListedIn(snapshot, p) THEN running[p] ELSE 0]

Result(t) == [manager |-> tasks[t].manager, registry |-> tasks[t].registry]
Read(t) == tasks[t].manager # None /\ tasks[t].registry # None

\* Mutant: a failure leaves the panel as it is.
FailsSilently(t, running) ==
  /\ tasks[t].done /\ tasks[t].manager = None
  /\ operation' = running /\ UNCHANGED <<view, shown>>

\* apply_snapshot for a task that is not superseded.  Only the repository,
\* on the manager's side, can fail.
Succeeds(t, running) ==
  /\ Read(t)
  /\ view' = "idle" /\ shown' = Result(t)
  /\ operation' = KeptOperations(Result(t), running)
Fails(t, running) ==
  /\ tasks[t].done /\ tasks[t].manager = None
  /\ view' = IF shown = None THEN "failed" ELSE "stale"
  /\ operation' = running /\ UNCHANGED shown

-----------------------------------------------------------------------------
(* The App, the MCP sessions and the tasks of the background *)

ManagerChanges == version' = [version EXCEPT !["manager"] = @ + 1]

\* A save keeps the lifecycle lock until the old session is retired.
SaveTakesEffect(p) ==
  /\ form = "saving" /\ profile[p] # "deleted" /\ p \notin usage
  /\ profile' = [profile EXCEPT ![p] = "saved"]
  /\ session' = [session EXCEPT ![p] = 0]
  /\ ManagerChanges /\ form' = "saved"
  /\ UNCHANGED <<sessions, usage, eventVars, prompt, snapshotVars, listVars, picker, inputs>>

UsageChanges(p) ==
  /\ Input
  /\ IF p \in usage THEN usage' = usage \ {p}
     ELSE profile[p] = "saved" /\ usage' = usage \cup {p}
  /\ version' = [version EXCEPT !["registry"] = @ + 1]
  /\ unsent' = unsent + 1
  /\ UNCHANGED <<profile, session, sessions, events, lagged, dialogVars, snapshotVars,
                 listVars, picker>>

\* The oldest event is dropped when a subscriber is too slow.
Send(event) ==
  IF Len(events) < EventCapacity
  THEN events' = Append(events, event) /\ UNCHANGED lagged
  ELSE events' = Append(Tail(events), event) /\ lagged' = TRUE

RegistryEmits ==
  /\ unsent > 0 /\ unsent' = unsent - 1 /\ Send("mcp")
  /\ UNCHANGED <<appVars, dialogVars, snapshotVars, listVars, picker, inputs>>

TaskProgress ==
  /\ Input /\ Send("task")
  /\ UNCHANGED <<appVars, unsent, dialogVars, snapshotVars, listVars, picker>>

Effect(t, connected) ==
  tasks' = [tasks EXCEPT ![t].done = TRUE, ![t].connected = connected]

ConnectSucceeds(t) ==
  LET p == tasks[t].profile IN
  /\ tasks[t].kind = "connect" /\ ~tasks[t].done /\ profile[p] = "saved"
  /\ sessions' = sessions + 1 /\ session' = [session EXCEPT ![p] = sessions + 1]
  /\ ManagerChanges /\ Effect(t, TRUE)
  /\ UNCHANGED <<profile, usage, eventVars, dialogVars, view, shown, epoch, operation,
                 listVars, picker, inputs>>

DisconnectTakesEffect(t) ==
  LET p == tasks[t].profile IN
  /\ tasks[t].kind = "disconnect" /\ ~tasks[t].done
  /\ session' = [session EXCEPT ![p] = 0]
  /\ ManagerChanges /\ Effect(t, FALSE)
  /\ UNCHANGED <<profile, sessions, usage, eventVars, dialogVars, view, shown, epoch,
                 operation, listVars, picker, inputs>>

DeleteSucceeds(t) ==
  LET p == tasks[t].profile IN
  /\ tasks[t].kind = "delete" /\ ~tasks[t].done
  /\ profile[p] = "saved" /\ p \notin usage
  /\ profile' = [profile EXCEPT ![p] = "deleted"]
  /\ session' = [session EXCEPT ![p] = 0]
  /\ ManagerChanges /\ Effect(t, FALSE)
  /\ UNCHANGED <<sessions, usage, eventVars, dialogVars, view, shown, epoch, operation,
                 listVars, picker, inputs>>

\* The server refuses, a later intent wins, the profile is in use or another.
OperationFails(t) ==
  /\ tasks[t].kind \in {"connect", "delete"} /\ ~tasks[t].done
  /\ Effect(t, FALSE)
  /\ UNCHANGED <<appVars, eventVars, dialogVars, view, shown, epoch, operation, listVars,
                 picker, inputs>>

ReadManager(t) ==
  /\ tasks[t].done /\ tasks[t].manager = None
  /\ tasks' = [tasks EXCEPT ![t].manager = Manager]
  /\ UNCHANGED <<appVars, eventVars, dialogVars, view, shown, epoch, operation, listVars,
                 picker, inputs>>

ReadRegistry(t) ==
  /\ tasks[t].done /\ tasks[t].registry = None
  /\ tasks' = [tasks EXCEPT ![t].registry = Registry]
  /\ UNCHANGED <<appVars, eventVars, dialogVars, view, shown, epoch, operation, listVars,
                 picker, inputs>>

\* driver_session: the generation of what is installed now, or an error.
LoadTakesSession(r) ==
  /\ loads[r].got = None
  /\ loads' = [loads EXCEPT ![r].got = session[loads[r].profile]]
  /\ UNCHANGED <<appVars, eventVars, dialogVars, snapshotVars, lists, requests, picker, inputs>>

-----------------------------------------------------------------------------
(* The results, on the panel's thread *)

\* Mutant: the epoch is not compared.
FinishRefreshOfAnyEpoch(t) ==
  /\ tasks[t].kind = "refresh"
  /\ \/ Succeeds(t, operation) /\ lists' = KeptLists(Result(t))
     \/ Fails(t, operation) /\ UNCHANGED lists
  /\ tasks' = Remove(tasks, t)
  /\ UNCHANGED <<appVars, eventVars, dialogVars, epoch, requests, loads, picker, inputs>>

\* A task that is superseded changes nothing.
FinishRefresh(t) ==
  /\ tasks[t].kind = "refresh"
  /\ IF t = epoch
     THEN \/ Succeeds(t, operation) /\ lists' = KeptLists(Result(t))
          \/ Fails(t, operation) /\ UNCHANGED lists
     ELSE (Read(t) \/ tasks[t].manager = None) /\ UNCHANGED <<view, shown, operation, lists>>
  /\ tasks' = Remove(tasks, t)
  /\ UNCHANGED <<appVars, eventVars, dialogVars, epoch, requests, loads, picker, inputs>>

\* Without its operation (a newer snapshot has no such profile) a result is
\* discarded; a superseded one makes the panel read again; a connect whose
\* snapshot is shown loads the databases.
FinishOperation(t) ==
  LET p == tasks[t].profile
      ended == [operation EXCEPT ![p] = 0]
      others == Remove(tasks, t) IN
  /\ tasks[t].kind # "refresh" /\ tasks[t].done
  /\ Read(t) \/ tasks[t].manager = None
  /\ \/ /\ operation[p] # t /\ tasks' = others
        /\ UNCHANGED <<view, shown, epoch, operation, listVars>>
     \/ /\ operation[p] = t /\ t # epoch
        /\ epoch' = epoch + 1 /\ tasks' = Add(others, epoch + 1, NewTask("refresh", None))
        /\ view' = Refreshing /\ operation' = ended
        /\ UNCHANGED <<shown, listVars>>
     \/ /\ operation[p] = t /\ t = epoch /\ tasks' = others
        /\ Succeeds(t, ended)
        /\ StartLoad(KeptLists(Result(t)), p,
                     IF tasks[t].connected THEN SessionIn(Result(t), p) ELSE 0)
        /\ UNCHANGED epoch
     \/ /\ operation[p] = t /\ t = epoch /\ tasks' = others
        /\ Fails(t, ended)
        /\ UNCHANGED <<epoch, listVars>>
  /\ UNCHANGED <<appVars, eventVars, dialogVars, picker, inputs>>

\* finish_database_load: an answer for another session than the request's is
\* dropped and leaves the list as it is.
FinishLoad(r) ==
  LET load == loads[r]
      current == /\ ShownSession(load.profile) = load.session
                 /\ lists[load.profile] = [state |-> "loading", session |-> load.session,
                                           request |-> r]
      Settle(state) == lists' = [lists EXCEPT ![load.profile].state = state] IN
  /\ load.got # None
  /\ \/ current /\ load.got = load.session /\ Settle("ready")
     \/ current /\ Settle("failed")      \* no session, or a query that fails
     \/ (~current \/ load.got \notin {load.session, 0}) /\ UNCHANGED lists
  /\ loads' = Remove(loads, r)
  /\ UNCHANGED <<appVars, eventVars, dialogVars, snapshotVars, requests, picker, inputs>>

\* Mutant: a subscriber that lagged goes on with what is left.
ReceiveIgnoringLag ==
  \/ /\ lagged /\ lagged' = FALSE /\ UNCHANGED <<events, snapshotVars>>
  \/ /\ ~lagged /\ events # <<>> /\ events' = Tail(events)
     /\ IF Head(events) = "mcp" THEN Refresh(tasks) ELSE UNCHANGED snapshotVars
     /\ UNCHANGED lagged

\* The subscription: events in order, and a refresh for those that were lost.
Receive ==
  \/ /\ lagged /\ lagged' = FALSE
     /\ Refresh(tasks) /\ UNCHANGED events
  \/ /\ ~lagged /\ events # <<>> /\ events' = Tail(events)
     /\ IF Head(events) = "mcp" THEN Refresh(tasks) ELSE UNCHANGED snapshotVars
     /\ UNCHANGED lagged

ReceiveEvent ==
  /\ Receive
  /\ UNCHANGED <<appVars, unsent, dialogVars, listVars, picker, inputs>>

\* profile_saved
FormSaved ==
  /\ form = "saved" /\ form' = "none" /\ Refresh(tasks)
  /\ UNCHANGED <<appVars, eventVars, prompt, listVars, picker, inputs>>

FormFails ==
  /\ form = "saving" /\ form' = "none"
  /\ UNCHANGED <<appVars, eventVars, prompt, snapshotVars, listVars, picker, inputs>>

-----------------------------------------------------------------------------
(* The user *)

UsedIn(p) == shown # None /\ p \in shown.registry.used
Selectable(p) == Free /\ ListedIn(shown, p)

PressRefresh ==
  /\ Input /\ Free /\ Refresh(tasks)
  /\ UNCHANGED <<appVars, eventVars, dialogVars, listVars, picker>>

PressConnect(p) ==
  /\ Input /\ Selectable(p) /\ ShownSession(p) = 0
  /\ BeginOperation("connect", p)
  /\ UNCHANGED <<appVars, eventVars, dialogVars, listVars, picker>>

PressDisconnect(p) ==
  /\ Input /\ Selectable(p) /\ ShownSession(p) # 0 /\ ~UsedIn(p)
  /\ BeginOperation("disconnect", p)
  /\ lists' = [lists EXCEPT ![p] = NoList]
  /\ UNCHANGED <<appVars, eventVars, dialogVars, requests, loads, picker>>

PressDelete(p) ==
  /\ Input /\ Selectable(p) /\ ~Blocked /\ operation[p] = 0 /\ ~UsedIn(p)
  /\ prompt' = p
  /\ UNCHANGED <<appVars, eventVars, form, snapshotVars, listVars, picker>>

\* While the prompt was open the panel went on; delete_profile looks again
\* whether it is blocked and whether an operation runs.
AnswerDelete ==
  /\ prompt # None /\ prompt' = None
  /\ \/ BeginOperation("delete", prompt)
     \/ UNCHANGED snapshotVars
  /\ UNCHANGED <<appVars, eventVars, form, listVars, picker, inputs>>

\* Create or edit: one form at a time, and a busy one cannot be dismissed.
OpenForm ==
  /\ Input /\ Free /\ ~Blocked /\ form' = "saving"
  /\ UNCHANGED <<appVars, eventVars, prompt, snapshotVars, listVars, picker>>

\* Selecting a profile loads its databases, once for each session.
SelectProfile(p) ==
  /\ Input /\ Selectable(p)
  /\ StartLoad(lists, p, ShownSession(p))
  /\ UNCHANGED <<appVars, eventVars, dialogVars, snapshotVars, picker>>

\* refresh_profile_databases, when the cache has been invalidated
ReloadDatabases(p) ==
  /\ Input /\ ListedIn(shown, p)
  /\ StartLoad([lists EXCEPT ![p] = NoList], p, ShownSession(p))
  /\ UNCHANGED <<appVars, eventVars, dialogVars, snapshotVars, picker>>

\* The context picker of a query tab takes a snapshot of its own and offers
\* its sessions when their databases are loaded.
OpenPicker ==
  /\ HasPicker /\ Input /\ Free /\ picker = Closed
  /\ picker' = [Closed EXCEPT !.step = "reading"]
  /\ UNCHANGED <<appVars, eventVars, dialogVars, snapshotVars, listVars>>

PickerReads ==
  /\ picker.step = "reading"
  /\ picker' = [step |-> "read", sessions |-> Manager.sessions]
  /\ UNCHANGED <<appVars, eventVars, dialogVars, snapshotVars, listVars, inputs>>

ShowPicker ==
  /\ picker.step = "read" /\ form = "none" /\ prompt = None
  /\ picker' \in {[picker EXCEPT !.step = "menu"], Closed}
  /\ UNCHANGED <<appVars, eventVars, dialogVars, snapshotVars, listVars, inputs>>

\* select_query_context
Pick(p) ==
  LET target == picker.sessions[p]
      live == lists[p].state = "ready" /\ lists[p].session = target
              /\ ShownSession(p) = target IN
  /\ picker.step = "menu" /\ target \notin {0, None}
  /\ IF live THEN UNCHANGED listVars
     ELSE IF ShownSession(p) = 0
     THEN lists' = [lists EXCEPT ![p] = NoList] /\ UNCHANGED <<requests, loads>>
     ELSE /\ requests' = requests + 1
          /\ lists' = [lists EXCEPT ![p] =
                [state |-> IF target = ShownSession(p) THEN "ready" ELSE "loading",
                 session |-> ShownSession(p), request |-> requests + 1]]
          /\ UNCHANGED loads
  /\ picker' = Closed
  /\ UNCHANGED <<appVars, eventVars, dialogVars, snapshotVars, inputs>>

ClosePicker ==
  /\ picker.step = "menu" /\ picker' = Closed
  /\ UNCHANGED <<appVars, eventVars, dialogVars, snapshotVars, listVars, inputs>>

-----------------------------------------------------------------------------
TaskStep(t) ==
  /\ t \in DOMAIN tasks
  /\ \/ ConnectSucceeds(t) \/ DisconnectTakesEffect(t) \/ DeleteSucceeds(t)
     \/ OperationFails(t) \/ ReadManager(t) \/ ReadRegistry(t)
     \/ FinishRefresh(t) \/ FinishOperation(t)
LoadStep(r) == r \in DOMAIN loads /\ (LoadTakesSession(r) \/ FinishLoad(r))
FormStep == (\E p \in Profiles : SaveTakesEffect(p)) \/ FormSaved \/ FormFails

Next ==
  \/ \E t \in DOMAIN tasks : TaskStep(t)
  \/ \E r \in DOMAIN loads : LoadStep(r)
  \/ FormStep \/ RegistryEmits \/ ReceiveEvent \/ TaskProgress
  \/ PressRefresh \/ OpenForm \/ AnswerDelete
  \/ \E p \in Profiles : \/ UsageChanges(p) \/ PressConnect(p) \/ PressDisconnect(p)
                         \/ PressDelete(p) \/ SelectProfile(p) \/ ReloadDatabases(p)
                         \/ Pick(p)
  \/ OpenPicker \/ PickerReads \/ ShowPicker \/ ClosePicker

\* Tasks and the panel's thread go on; a user need not do anything.
Fairness ==
  /\ \A t \in 1..MaxEpoch : WF_vars(TaskStep(t))
  /\ \A r \in 1..MaxEpoch : WF_vars(LoadStep(r))
  /\ WF_vars(FormStep) /\ WF_vars(RegistryEmits) /\ WF_vars(ReceiveEvent)

Spec == Init /\ [][Next]_vars
FairSpec == Spec /\ Fairness

-----------------------------------------------------------------------------
(* Properties *)

\* Nothing that would still change the panel is on its way.
Quiet ==
  /\ view = "idle" /\ DOMAIN tasks = {} /\ form = "none"
  /\ events = <<>> /\ ~lagged /\ unsent = 0

\* When nothing is on its way and the panel does not ask for a refresh, it
\* shows the profiles, sessions and MCP users there are: whatever order the
\* results of refreshes and operations came in, whatever was dropped.
QuietPanelIsCurrent == Quiet => shown = [manager |-> Manager, registry |-> Registry]

\* No result, however late, puts something on the screen that is older than
\* what is already there (apply_snapshot).
ShownNeverGoesBack ==
  [][shown # None => /\ shown' # None
                     /\ shown'.manager.version >= shown.manager.version
                     /\ shown'.registry.version >= shown.registry.version]_vars

\* What the panel lists under a profile belongs to the session it shows, so
\* a tab opened from the list never works on another one.
ListsBelongToShownSession ==
  \A p \in Profiles : lists[p].state # "none" => lists[p].session = ShownSession(p)

\* The panel does not stay busy: in the end it shows the truth or says that
\* it needs a refresh, and an operation never stays on its profile, which it
\* locks for the user.
PanelSettles ==
  /\ <>[](Quiet \/ view \in {"failed", "stale"})
  /\ \A p \in Profiles : operation[p] # 0 ~> operation[p] = 0
=============================================================================
