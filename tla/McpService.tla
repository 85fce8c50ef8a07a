------------------------------ MODULE McpService ------------------------------
(***************************************************************************)
(* The App's HTTP sidecar (mcp_runtime/): starting, stopping and           *)
(* restarting a child process together with the synchronization server it  *)
(* talks to, while the process may end, stay silent or refuse to be killed *)
(* and the calls that wait for it time out.                                *)
(*                                                                         *)
(* A call is never cancelled: the tab it comes from (ui/mcp_service_item)  *)
(* runs it as a task of its own and may be closed and opened again         *)
(* meanwhile, so any calls may overlap.                                    *)
(*                                                                         *)
(* The state has a mutex of its own that is never held across an await: an *)
(* action is a stretch of code between two awaits.  The cleanup mutex is   *)
(* held across them.  A process and its server are named by the generation *)
(* they were started for.                                                  *)
(***************************************************************************)
EXTENDS Naturals

CONSTANTS Calls,        \* tasks that run a call
          None,
          KillMayFail,  \* the operating system may refuse to kill a process
          MaxRequests   \* bound: starts and stops asked for, a restart is both

ASSUME ConstantsAssumption ==
  /\ None \notin Calls /\ None \notin Nat /\ Calls \cap Nat = {}
  /\ KillMayFail \in BOOLEAN /\ MaxRequests \in Nat

\* A start may use two generations.
Generations == 1..2 * MaxRequests

VARIABLES
  state,    \* RuntimeState: phase, generation and the process it owns
  cleanup,  \* who holds the cleanup mutex: a call, or the monitor of a process
  life,     \* each process: none, running, killed (signalled) or dead
  ready,    \* processes whose readiness a start has yet to learn of
  servers,  \* synchronization servers that accept requests
  monitor,  \* the task that watches each process
  call,     \* calls under way
  requests  \* starts and stops asked for so far

serviceVars == <<state, cleanup>>
processVars == <<life, ready, servers>>
vars == <<serviceVars, processVars, monitor, call, requests>>

Stopped(g) == [phase |-> "stopped", generation |-> g, process |-> 0, watched |-> FALSE]
FailedClean(g) == [Stopped(g) EXCEPT !.phase = "failed"]

IdleCall == [step |-> "idle", op |-> "none", generation |-> 0, process |-> 0,
             refused |-> FALSE, fault |-> FALSE, ok |-> FALSE]

Phases == {"stopped", "starting", "running", "stopping", "failed"}

TypeOK ==
  /\ state \in [phase : Phases \cup {"preparing"}, generation : 0..2 * MaxRequests,
                process : 0..2 * MaxRequests, watched : BOOLEAN]
  /\ cleanup \in Calls \cup Generations \cup {None}
  /\ life \in [Generations -> {"none", "running", "killed", "dead"}]
  /\ ready \subseteq Generations
  /\ servers \subseteq Generations
  /\ monitor \in [Generations -> [step : {"none", "watch", "lock", "record", "done"},
                                  was : {"none", "serving", "stopping", "failed"}]]
  /\ call \in [Calls -> [step : {"idle", "startLock", "server", "spawn", "undo", "await", "fail",
                                 "failServer", "stopLock", "halt", "poll", "done"},
                         op : {"none", "start", "stop", "restart"}, generation : 0..2 * MaxRequests,
                         process : 0..2 * MaxRequests, refused : BOOLEAN, fault : BOOLEAN, ok : BOOLEAN]]
  /\ requests \in 0..MaxRequests

Init ==
  /\ state = Stopped(0) /\ cleanup = None
  /\ life = [p \in Generations |-> "none"]
  /\ ready = {}
  /\ servers = {}
  /\ monitor = [p \in Generations |-> [step |-> "none", was |-> "none"]]
  /\ call = [k \in Calls |-> IdleCall]
  /\ requests = 0

-----------------------------------------------------------------------------
(* Building blocks *)

At(k, step) == call[k].step = step
GoTo(k, step) == call' = [call EXCEPT ![k].step = step]
Generation(k) == call[k].generation

\* The call is over; what it was for is kept until the task makes another.
Answer(k, ok) ==
  call' = [call EXCEPT ![k] = [IdleCall EXCEPT !.step = "done", !.op = call[k].op,
                                               !.process = call[k].process, !.ok = ok]]

\* A restart goes on with its start once the stop succeeded.
StopAnswer(k, ok) ==
  IF ok /\ call[k].op = "restart" THEN GoTo(k, "startLock") ELSE Answer(k, ok)

\* SidecarControl::terminate of process p; refused is whether it reports an error.
Terminate(p, refused) ==
  /\ refused => KillMayFail /\ life[p] \in {"running", "killed"}
  /\ life' = IF life[p] = "running" /\ ~refused THEN [life EXCEPT ![p] = "killed"] ELSE life

-----------------------------------------------------------------------------
(* start *)

\* A service that starts or runs answers as it is, one that stops or still owns
\* a process refuses, any other is prepared under the next generation.
StartBegins(k) ==
  /\ At(k, "startLock") /\ cleanup = None
  /\ IF state.phase \in {"stopped", "failed"} /\ state.process = 0
     THEN /\ state' = [Stopped(state.generation + 1) EXCEPT !.phase = "preparing"]
          /\ cleanup' = k
          /\ call' = [call EXCEPT ![k].step = "server", ![k].generation = state.generation + 1]
     ELSE /\ Answer(k, state.phase \in {"starting", "running"})
          /\ UNCHANGED serviceVars
  /\ UNCHANGED <<processVars, monitor, requests>>

StartServer(k) ==
  /\ At(k, "server")
  /\ servers' = servers \cup {Generation(k)}
  /\ GoTo(k, "spawn")
  /\ UNCHANGED <<serviceVars, life, ready, monitor, requests>>

StartServerFails(k) ==
  /\ At(k, "server")
  /\ state' = FailedClean(Generation(k)) /\ cleanup' = None
  /\ Answer(k, FALSE)
  /\ UNCHANGED <<processVars, monitor, requests>>

\* The process runs, its monitor too, and the cleanup mutex is given up.
Spawn(k) ==
  LET p == Generation(k)
  IN /\ At(k, "spawn")
     /\ life' = [life EXCEPT ![p] = "running"]
     /\ state' = [phase |-> "starting", generation |-> p, process |-> p, watched |-> TRUE]
     /\ monitor' = [monitor EXCEPT ![p].step = "watch"]
     /\ cleanup' = None
     /\ GoTo(k, "await")
     /\ UNCHANGED <<ready, servers, requests>>

SpawnFails(k) ==
  /\ At(k, "spawn")
  /\ state' = FailedClean(Generation(k))
  /\ GoTo(k, "undo")
  /\ UNCHANGED <<cleanup, processVars, monitor, requests>>

UndoServer(k) ==
  /\ At(k, "undo")
  /\ servers' = servers \ {Generation(k)} /\ cleanup' = None
  /\ Answer(k, FALSE)
  /\ UNCHANGED <<state, life, ready, monitor, requests>>

\* The process reported readiness; it may have ended, or been stopped, since.
ReadyOk(k) ==
  LET p == Generation(k)
      mine == state.phase = "starting" /\ state.generation = p
  IN /\ At(k, "await") /\ p \in ready
     /\ state' = IF mine THEN [state EXCEPT !.phase = "running"] ELSE state
     /\ ready' = ready \ {p}
     /\ Answer(k, TRUE)
     /\ UNCHANGED <<cleanup, life, servers, monitor, requests>>

\* It reported a failure, or ended, or five seconds passed.
ReadyFails(k) ==
  /\ At(k, "await") /\ Generation(k) \notin ready
  /\ GoTo(k, "fail")
  /\ UNCHANGED <<serviceVars, processVars, monitor, requests>>

\* fail_and_terminate: only a service that still starts this process fails;
\* it gets a new generation, so that the end of the process means nothing to it.
FailBegins(k) ==
  LET p == Generation(k)
  IN /\ At(k, "fail") /\ cleanup = None
     /\ IF state.phase = "starting" /\ state.generation = p
        THEN /\ state' = FailedClean(p + 1) /\ cleanup' = k
             /\ \E refused \in BOOLEAN :
                  /\ Terminate(p, refused)
                  /\ call' = [call EXCEPT ![k].step = "failServer", ![k].refused = refused]
        ELSE Answer(k, TRUE) /\ UNCHANGED <<serviceVars, life>>
     /\ UNCHANGED <<ready, servers, monitor, requests>>

\* Mutant: a process that could not be killed is forgotten.
FailEndsClean(k) ==
  /\ At(k, "failServer")
  /\ servers' = servers \ {Generation(k)} /\ cleanup' = None
  /\ Answer(k, FALSE)
  /\ UNCHANGED <<state, life, ready, monitor, requests>>

\* A process that could not be killed stays with the failed service.
FailEnds(k) ==
  /\ At(k, "failServer")
  /\ servers' = servers \ {Generation(k)} /\ cleanup' = None
  /\ state' = IF call[k].refused THEN [state EXCEPT !.process = Generation(k)] ELSE state
  /\ Answer(k, FALSE)
  /\ UNCHANGED <<life, ready, monitor, requests>>

-----------------------------------------------------------------------------
(* stop *)

\* Whoever owns a process is stopping from now on; the process is signalled.
\* Nothing is prepared while the cleanup mutex is free.
StopBegins(k) ==
  /\ At(k, "stopLock") /\ cleanup = None
  /\ IF state.process = 0
     THEN /\ state' = Stopped(state.generation)
          /\ StopAnswer(k, TRUE)
          /\ UNCHANGED <<cleanup, life>>
     ELSE /\ state' = [state EXCEPT !.phase = "stopping"] /\ cleanup' = k
          /\ \E refused \in BOOLEAN :
               /\ Terminate(state.process, refused)
               /\ call' = [call EXCEPT ![k].step = "halt", ![k].refused = refused,
                                       ![k].generation = state.generation,
                                       ![k].process = state.process]
  /\ UNCHANGED <<ready, servers, monitor, requests>>

\* Mutant: a refused signal is not an error when nobody watches the process.
FinishDetachedAlways(k, fault) ==
  IF state.phase # "stopping" THEN StopAnswer(k, ~fault) /\ UNCHANGED state
  ELSE state' = Stopped(state.generation) /\ StopAnswer(k, TRUE)

\* finish_detached_stop: nobody watches the process, so its end is taken for
\* granted once the signal was accepted.
FinishDetached(k, fault) ==
  IF state.phase # "stopping" THEN StopAnswer(k, ~fault) /\ UNCHANGED state
  ELSE /\ state' = CASE call[k].refused -> [state EXCEPT !.phase = "failed"]
                     [] ~call[k].refused /\ fault -> FailedClean(state.generation)
                     [] OTHER -> Stopped(state.generation)
       /\ StopAnswer(k, ~call[k].refused /\ ~fault)

\* The server goes, with or without an error; then the end is awaited.
Halt(k) ==
  /\ At(k, "halt")
  /\ servers' = servers \ {state.process} /\ cleanup' = None
  /\ \E fault \in BOOLEAN :
       /\ fault => state.process \in servers
       /\ IF state.watched
          THEN call' = [call EXCEPT ![k].step = "poll", ![k].fault = fault] /\ UNCHANGED state
          ELSE FinishDetached(k, fault)
  /\ UNCHANGED <<life, ready, monitor, requests>>

\* Something else was started, or nothing runs.
Gone(k) == state.generation # Generation(k) \/ state.phase = "stopped"

Poll(k) ==
  /\ At(k, "poll") /\ Gone(k)
  /\ StopAnswer(k, ~call[k].fault)
  /\ UNCHANGED <<serviceVars, processVars, monitor, requests>>

\* Two seconds passed: the process stays with the failed service.
Deadline(k) ==
  /\ At(k, "poll") /\ ~Gone(k)
  /\ state' = IF state.phase = "stopping" THEN [state EXCEPT !.phase = "failed"] ELSE state
  /\ Answer(k, FALSE)
  /\ UNCHANGED <<cleanup, processVars, monitor, requests>>

-----------------------------------------------------------------------------
(* The process and its monitor *)

\* It ends, of its own accord or because it was killed.
Exit(p) ==
  /\ life[p] \in {"running", "killed"}
  /\ life' = [life EXCEPT ![p] = "dead"]
  /\ UNCHANGED <<serviceVars, ready, servers, monitor, call, requests>>

\* The readiness line arrives, in time for the start.
Report(p) ==
  /\ monitor[p].step = "watch" /\ \E k \in Calls : At(k, "await") /\ Generation(k) = p
  /\ ready' = ready \cup {p}
  /\ UNCHANGED <<serviceVars, life, servers, monitor, call, requests>>

\* The end is seen, as an event or because the event channel closed.
SeeExit(p) ==
  /\ monitor[p].step = "watch" /\ life[p] = "dead"
  /\ monitor' = [monitor EXCEPT ![p].step = "lock"]
  /\ UNCHANGED <<serviceVars, processVars, call, requests>>

\* record_termination takes the state of this generation if it owns the
\* process, and leaves "stopped" in its place until the server has gone.
RecordBegins(p) ==
  /\ monitor[p].step = "lock" /\ cleanup = None
  /\ IF state.generation = p /\ state.process = p /\ state.watched
     THEN /\ monitor' = [monitor EXCEPT ![p] = [step |-> "record",
                            was |-> IF state.phase \in {"starting", "running"} THEN "serving" ELSE state.phase]]
          /\ state' = Stopped(p) /\ cleanup' = p
     ELSE monitor' = [monitor EXCEPT ![p].step = "done"] /\ UNCHANGED serviceVars
  /\ UNCHANGED <<processVars, call, requests>>

\* Mutant: the cleanup mutex is kept.
RecordEndsLocked(p) ==
  /\ monitor[p].step = "record"
  /\ servers' = servers \ {p} /\ UNCHANGED cleanup
  /\ state' = IF monitor[p].was = "stopping" THEN Stopped(p) ELSE FailedClean(p)
  /\ monitor' = [monitor EXCEPT ![p] = [step |-> "done", was |-> "none"]]
  /\ UNCHANGED <<life, ready, call, requests>>

RecordEnds(p) ==
  /\ monitor[p].step = "record"
  /\ servers' = IF monitor[p].was = "serving" THEN servers \ {p} ELSE servers
  /\ cleanup' = None
  /\ state' = IF monitor[p].was = "stopping" THEN Stopped(p) ELSE FailedClean(p)
  /\ monitor' = [monitor EXCEPT ![p] = [step |-> "done", was |-> "none"]]
  /\ UNCHANGED <<life, ready, call, requests>>

-----------------------------------------------------------------------------
(* The calls of McpRuntime *)

Request(k, op) ==
  /\ call[k].step \in {"idle", "done"}
  /\ requests' = requests + IF op = "restart" THEN 2 ELSE 1
  /\ requests' <= MaxRequests
  /\ call' = [call EXCEPT ![k] = [IdleCall EXCEPT !.op = op,
                                   !.step = IF op = "start" THEN "startLock" ELSE "stopLock"]]
  /\ UNCHANGED <<serviceVars, processVars, monitor>>

-----------------------------------------------------------------------------

StartStep(k) ==
  \/ StartServer(k) \/ StartServerFails(k) \/ Spawn(k) \/ SpawnFails(k) \/ UndoServer(k)
  \/ ReadyOk(k) \/ ReadyFails(k) \/ FailEnds(k)
StopStep(k) == Halt(k) \/ Poll(k) \/ Deadline(k)
Acquire(k) == StartBegins(k) \/ StopBegins(k) \/ FailBegins(k)

Next ==
  \/ \E k \in Calls : \/ \E op \in {"start", "stop", "restart"} : Request(k, op)
                      \/ Acquire(k) \/ StartStep(k) \/ StopStep(k)
  \/ \E p \in Generations : Exit(p) \/ Report(p) \/ SeeExit(p) \/ RecordBegins(p) \/ RecordEnds(p)

\* A task goes on when it can, and a tokio mutex serves its waiters in order.
\* Timers fire.  No process has to end and nobody has to call.
Fairness ==
  /\ \A k \in Calls : /\ WF_vars(StartStep(k) \/ StopStep(k))
                      /\ SF_vars(Acquire(k))
  /\ \A p \in Generations : WF_vars(SeeExit(p) \/ RecordEnds(p)) /\ SF_vars(RecordBegins(p))

Spec == Init /\ [][Next]_vars
FairSpec == Spec /\ Fairness

-----------------------------------------------------------------------------
(* Properties *)

\* A process that runs and was not told to end, and a server that accepts
\* requests, belong to the service or to a call that is about to see to them:
\* whatever fails, the next stop finds them.
NothingUnowned ==
  LET Held(p) == \E k \in Calls : cleanup = k /\ Generation(k) = p
  IN /\ \A p \in Generations : life[p] = "running" => state.process = p \/ Held(p)
     /\ \A p \in servers : Held(p) \/ cleanup = p
                           \/ (state.process = p /\ state.phase \in {"starting", "running", "stopping"})

\* Never do two processes serve at once, not even after a failed stop.
OneService == \A p, q \in Generations : life[p] = "running" /\ life[q] = "running" => p = q

\* There is one service at most, and somebody owns it.
OneOwnedService == NothingUnowned /\ OneService

\* When a stop succeeds the process it was for has been told to end or has
\* ended, and so has its server.
SuccessMeansStopped ==
  \A k \in Calls : At(k, "done") /\ call[k].op = "stop" /\ call[k].ok
    => /\ \A p \in Generations : call[k].process = p => life[p] # "running"
       /\ call[k].process \notin servers

\* Every call returns, and the service does not go on showing a process that
\* has ended.
CallsEnd ==
  LET ShowsDead == \E p \in Generations : state.process = p /\ state.watched /\ life[p] = "dead"
  IN /\ \A k \in Calls : call[k].step \notin {"idle", "done"} ~> At(k, "done")
     /\ []<>~ShowsDead
=============================================================================
