--------------------------- MODULE McpServiceProofs ---------------------------
(***************************************************************************)
(* Theorems about McpService, for any number of calls and any bound, and,  *)
(* in the second half, about the background tasks and the task center      *)
(* (Transfers and TaskManager, through BackgroundTasks) for any tasks,     *)
(* sessions and limits.                                                    *)
(***************************************************************************)
EXTENDS McpService, BackgroundTasks, Integers, Sequences, TLAPS

ServiceState == [phase : Phases \cup {"preparing"}, generation : Nat, process : Nat, watched : BOOLEAN]
CallState == [step : {"idle", "startLock", "server", "spawn", "undo", "await", "fail",
                      "failServer", "stopLock", "halt", "poll", "done"},
              op : {"none", "start", "stop", "restart"}, generation : Nat, process : Nat,
              refused : BOOLEAN, fault : BOOLEAN, ok : BOOLEAN]
MonitorState == [step : {"none", "watch", "lock", "record", "done"},
                 was : {"none", "serving", "stopping", "failed"}]

\* Types without the bound on generations.
TypeInv ==
  /\ state \in ServiceState
  /\ cleanup \in Calls \cup Generations \cup {None}
  /\ life \in [Generations -> {"none", "running", "killed", "dead"}]
  /\ servers \subseteq Nat
  /\ monitor \in [Generations -> MonitorState]
  /\ call \in [Calls -> CallState]

Busy(k) == call[k].step \in {"server", "spawn", "undo", "failServer", "halt"}
Running(p) == p \in Generations /\ life[p] = "running"

\* The cleanup mutex is held by whoever is between its acquisition and release.
LockInv ==
  /\ \A k \in Calls : Busy(k) <=> cleanup = k
  /\ \A p \in Generations : monitor[p].step = "record" <=> cleanup = p

\* A service that starts or runs is cleaned up by nobody; a watched process is
\* that of the current generation, any other is from before.
StateInv ==
  /\ state.phase \in {"starting", "running"} => cleanup = None /\ state.watched
  /\ state.watched => state.process = state.generation /\ state.process # 0
  /\ state.process # 0 => state.phase \notin {"stopped", "preparing"}
  /\ state.process # 0 /\ ~state.watched => state.process < state.generation

\* Monitors go on when their process is dead, and nothing overtakes a record.
MonitorInv ==
  \A p \in Generations :
    /\ monitor[p].step \in {"lock", "record", "done"} => life[p] = "dead"
    /\ monitor[p].step = "record" => state.generation = p /\ state.process = 0

\* What a start and its failure know of the service.
StartInv ==
  \A k \in Calls :
    /\ call[k].step \in {"startLock", "server", "spawn", "undo", "await", "fail", "failServer"} =>
         call[k].op # "stop"
    /\ call[k].step \in {"server", "spawn"} => Generation(k) = state.generation /\ Generation(k) # 0
    /\ call[k].step \in {"server", "spawn", "undo", "failServer"} => state.process = 0
    /\ At(k, "failServer") =>
         /\ state.phase = "failed"
         /\ Generation(k) < state.generation /\ Generation(k) # 0
         /\ ~call[k].refused => ~Running(Generation(k))
         /\ \A j \in Calls : At(j, "poll") => Generation(j) < state.generation
    /\ call[k].process <= state.generation
    /\ call[k].step \in {"server", "spawn"} => \A j \in Calls : call[j].process < state.generation

\* What a stop knows.  Only the deadline of a stop whose process is watched
\* passes, so a stop of any other finds the service as it left it.
StopInv ==
  \A k \in Calls :
    /\ At(k, "halt") => /\ state.process # 0 /\ call[k].process = state.process
                        /\ Generation(k) = state.generation
                        /\ ~call[k].refused => ~Running(state.process)
                        /\ ~state.watched => state.phase = "stopping"
    /\ At(k, "poll") => /\ call[k].process \notin servers
                        /\ Generation(k) <= state.generation
                        /\ state.process # 0 /\ ~state.watched => Generation(k) < state.generation
                        /\ Running(call[k].process) => /\ state.process = call[k].process
                                                       /\ Generation(k) = state.generation
                                                       /\ state.phase \in {"stopping", "failed"}

\* A running process is the service's or that of a start that failed.
OwnInv ==
  \A p \in Generations : life[p] = "running" =>
    \/ state.process = p
    \/ \E k \in Calls : At(k, "failServer") /\ Generation(k) = p

\* A server is that of a service that starts or runs, or its end is under way.
ServerInv ==
  \A p \in servers :
    \/ state.phase \in {"starting", "running"} /\ state.process = p
    \/ \E k \in Calls : /\ Generation(k) = p
                        /\ \/ call[k].step \in {"spawn", "undo", "failServer"}
                           \/ At(k, "halt") /\ call[k].process = p
    \/ p \in Generations /\ monitor[p] = [step |-> "record", was |-> "serving"]

\* Everything but the types.
RestInv ==
  /\ LockInv /\ StateInv /\ MonitorInv /\ StartInv /\ StopInv /\ OwnInv /\ ServerInv
  /\ SuccessMeansStopped

IInv == TypeInv /\ RestInv

-----------------------------------------------------------------------------
(* Types *)

Steps == {"idle", "startLock", "server", "spawn", "undo", "await", "fail",
          "failServer", "stopLock", "halt", "poll", "done"}

\* A change of one call gives it the new record and leaves the others.
LEMMA CallUpdated ==
  ASSUME call \in [Calls -> CallState], NEW k \in Calls, NEW r \in CallState,
         call' = [call EXCEPT ![k] = r]
  PROVE  /\ call' \in [Calls -> CallState]
         /\ call'[k] = r
         /\ \A j \in Calls : j # k => call'[j] = call[j]
BY DEF CallState

\* Moving a call to another step changes only its step.
LEMMA GoToEffect ==
  ASSUME call \in [Calls -> CallState], NEW k \in Calls, NEW s \in Steps, GoTo(k, s)
  PROVE  /\ call' \in [Calls -> CallState]
         /\ call'[k] = [call[k] EXCEPT !.step = s]
         /\ \A j \in Calls : j # k => call'[j] = call[j]
<1> DEFINE r == [call[k] EXCEPT !.step = s]
<1>1. r \in CallState BY DEF CallState, Steps
<1>2. call' = [call EXCEPT ![k] = r] BY DEF GoTo
<1> HIDE DEF r
<1>3. QED BY <1>1, <1>2, CallUpdated DEF r

\* A call that is over keeps what it was for.
LEMMA AnswerEffect ==
  ASSUME call \in [Calls -> CallState], NEW k \in Calls, NEW ok \in BOOLEAN, Answer(k, ok)
  PROVE  /\ call' \in [Calls -> CallState]
         /\ call'[k].step = "done" /\ call'[k].ok = ok
         /\ call'[k].op = call[k].op /\ call'[k].process = call[k].process
         /\ \A j \in Calls : j # k => call'[j] = call[j]
<1> DEFINE r == [IdleCall EXCEPT !.step = "done", !.op = call[k].op,
                                 !.process = call[k].process, !.ok = ok]
<1>1. r \in CallState BY DEF CallState, IdleCall
<1>2. r.step = "done" /\ r.ok = ok /\ r.op = call[k].op /\ r.process = call[k].process
  BY DEF IdleCall
<1>3. call' = [call EXCEPT ![k] = r] BY DEF Answer
<1> HIDE DEF r
<1>4. QED BY <1>1, <1>2, <1>3, CallUpdated

\* The answer of a stop, or the start that a restart goes on with.
LEMMA StopAnswerEffect ==
  ASSUME call \in [Calls -> CallState], NEW k \in Calls, NEW ok \in BOOLEAN, StopAnswer(k, ok)
  PROVE  /\ call' \in [Calls -> CallState]
         /\ \/ call'[k].step = "startLock" /\ call[k].op = "restart"
            \/ call'[k].step = "done" /\ call'[k].ok = ok
         /\ call'[k].op = call[k].op /\ call'[k].process = call[k].process
         /\ \A j \in Calls : j # k => call'[j] = call[j]
<1>1. CASE ok /\ call[k].op = "restart"
  <2>1. GoTo(k, "startLock") BY <1>1 DEF StopAnswer
  <2>2. "startLock" \in Steps BY DEF Steps
  <2>3. call'[k] = [call[k] EXCEPT !.step = "startLock"]
        /\ call' \in [Calls -> CallState] /\ \A j \in Calls : j # k => call'[j] = call[j]
    BY <2>1, <2>2, GoToEffect
  <2>4. QED BY <1>1, <2>3 DEF CallState
<1>2. CASE ~(ok /\ call[k].op = "restart")
  BY <1>2, AnswerEffect DEF StopAnswer
<1>3. QED BY <1>1, <1>2

\* The states without a process.
LEMMA CleanStates ==
  ASSUME NEW g \in Nat
  PROVE  /\ Stopped(g) \in ServiceState /\ FailedClean(g) \in ServiceState
         /\ [Stopped(g) EXCEPT !.phase = "preparing"] \in ServiceState
<1> DEFINE s == Stopped(g)
<1>1. s \in ServiceState BY DEF Stopped, ServiceState, Phases
<1>2. FailedClean(g) = [s EXCEPT !.phase = "failed"] BY DEF FailedClean
<1> HIDE DEF s
<1>3. [s EXCEPT !.phase = "failed"] \in ServiceState /\ [s EXCEPT !.phase = "preparing"] \in ServiceState
  BY <1>1 DEF ServiceState, Phases
<1>4. QED BY <1>1, <1>2, <1>3 DEF s

\* What is in them.
LEMMA CleanFields ==
  ASSUME NEW g \in Nat, NEW phase \in Phases \cup {"preparing"},
         NEW s, s = [Stopped(g) EXCEPT !.phase = phase]
  PROVE  s.phase = phase /\ s.generation = g /\ s.process = 0 /\ s.watched = FALSE
<1> DEFINE t == Stopped(g)
<1>1. t \in ServiceState BY CleanStates
<1>2. t.generation = g /\ t.process = 0 /\ t.watched = FALSE BY DEF Stopped
<1>3. s = [t EXCEPT !.phase = phase] OBVIOUS
<1> HIDE DEF t
<1>4. QED BY <1>1, <1>2, <1>3 DEF ServiceState

\* A step keeps the types of everything.
LEMMA Typed ==
  ASSUME TypeInv, StateInv, [Next]_vars PROVE TypeInv'
<1> USE DEF TypeInv
<1>0. CASE UNCHANGED vars BY <1>0 DEF vars, serviceVars, processVars
<1>1. ASSUME NEW k \in Calls, StartServer(k) PROVE TypeInv'
  <2>1. "spawn" \in Steps BY DEF Steps
  <2>2. call' \in [Calls -> CallState] BY <1>1, <2>1, GoToEffect DEF StartServer
  <2>3. Generation(k) \in Nat BY DEF Generation, CallState
  <2>4. QED BY <1>1, <2>2, <2>3 DEF StartServer, serviceVars
<1>2. ASSUME NEW k \in Calls, StartServerFails(k) PROVE TypeInv'
  <2>1. call' \in [Calls -> CallState] BY <1>2, AnswerEffect DEF StartServerFails
  <2>2. state' \in ServiceState BY <1>2, CleanStates DEF StartServerFails, Generation, CallState
  <2>3. QED BY <1>2, <2>1, <2>2 DEF StartServerFails, processVars
<1>3. ASSUME NEW k \in Calls, Spawn(k) PROVE TypeInv'
  <2>1. "await" \in Steps BY DEF Steps
  <2>2. call' \in [Calls -> CallState] BY <1>3, <2>1, GoToEffect DEF Spawn
  <2>3. state' \in ServiceState BY <1>3 DEF Spawn, Generation, CallState, ServiceState, Phases
  <2>4. monitor' \in [Generations -> MonitorState] BY <1>3 DEF Spawn, MonitorState
  <2>5. QED BY <1>3, <2>2, <2>3, <2>4 DEF Spawn
<1>4. ASSUME NEW k \in Calls, SpawnFails(k) PROVE TypeInv'
  <2>1. "undo" \in Steps BY DEF Steps
  <2>2. call' \in [Calls -> CallState] BY <1>4, <2>1, GoToEffect DEF SpawnFails
  <2>3. state' \in ServiceState BY <1>4, CleanStates DEF SpawnFails, Generation, CallState
  <2>4. QED BY <1>4, <2>2, <2>3 DEF SpawnFails, processVars
<1>5. ASSUME NEW k \in Calls, UndoServer(k) PROVE TypeInv'
  <2>1. call' \in [Calls -> CallState] BY <1>5, AnswerEffect DEF UndoServer
  <2>2. QED BY <1>5, <2>1 DEF UndoServer
<1>6. ASSUME NEW k \in Calls, ReadyOk(k) PROVE TypeInv'
  <2>1. call' \in [Calls -> CallState] BY <1>6, AnswerEffect DEF ReadyOk
  <2>2. state' \in ServiceState BY <1>6 DEF ReadyOk, ServiceState, Phases
  <2>3. QED BY <1>6, <2>1, <2>2 DEF ReadyOk
<1>7. ASSUME NEW k \in Calls, ReadyFails(k) PROVE TypeInv'
  <2>1. "fail" \in Steps BY DEF Steps
  <2>2. call' \in [Calls -> CallState] BY <1>7, <2>1, GoToEffect DEF ReadyFails
  <2>3. QED BY <1>7, <2>2 DEF ReadyFails, serviceVars, processVars
<1>8. ASSUME NEW k \in Calls, FailEnds(k) PROVE TypeInv'
  <2>1. call' \in [Calls -> CallState] BY <1>8, AnswerEffect DEF FailEnds
  <2>2. state' \in ServiceState BY <1>8 DEF FailEnds, ServiceState, Generation, CallState
  <2>3. QED BY <1>8, <2>1, <2>2 DEF FailEnds
<1>9. ASSUME NEW k \in Calls, StartBegins(k) PROVE TypeInv'
  <2>1. CASE state.phase \in {"stopped", "failed"} /\ state.process = 0
    <3> DEFINE r == [call[k] EXCEPT !.step = "server", !.generation = state.generation + 1]
    <3>1. state.generation + 1 \in Nat BY DEF ServiceState
    <3>2. r \in CallState BY <3>1 DEF CallState
    <3>3. call' = [call EXCEPT ![k] = r] BY <1>9, <2>1 DEF StartBegins
    <3> HIDE DEF r
    <3>4. call' \in [Calls -> CallState] BY <3>2, <3>3, CallUpdated
    <3>5. state' \in ServiceState BY <1>9, <2>1, <3>1, CleanStates DEF StartBegins
    <3>6. QED BY <1>9, <2>1, <3>4, <3>5 DEF StartBegins, processVars
  <2>2. CASE ~(state.phase \in {"stopped", "failed"} /\ state.process = 0)
    <3> DEFINE ok == state.phase \in {"starting", "running"}
    <3>0. ok \in BOOLEAN /\ Answer(k, ok) BY <1>9, <2>2 DEF StartBegins
    <3> HIDE DEF ok
    <3>1. call' \in [Calls -> CallState] BY <3>0, AnswerEffect
    <3>2. QED BY <1>9, <2>2, <3>1 DEF StartBegins, serviceVars, processVars
  <2>3. QED BY <2>1, <2>2
<1>10. ASSUME NEW k \in Calls, FailBegins(k) PROVE TypeInv'
  <2>1. CASE state.phase = "starting" /\ state.generation = Generation(k)
    <3>1. PICK refused \in BOOLEAN :
            /\ Terminate(Generation(k), refused)
            /\ call' = [call EXCEPT ![k].step = "failServer", ![k].refused = refused]
      BY <1>10, <2>1 DEF FailBegins
    <3> DEFINE r == [call[k] EXCEPT !.step = "failServer", !.refused = refused]
    <3>2. r \in CallState BY DEF CallState
    <3>3. call' = [call EXCEPT ![k] = r] BY <3>1
    <3> HIDE DEF r
    <3>4. call' \in [Calls -> CallState] BY <3>2, <3>3, CallUpdated
    <3>5. life' \in [Generations -> {"none", "running", "killed", "dead"}] BY <3>1 DEF Terminate
    <3>6. Generation(k) + 1 \in Nat BY DEF Generation, CallState
    <3>7. state' \in ServiceState BY <1>10, <2>1, <3>6, CleanStates DEF FailBegins
    <3>8. QED BY <1>10, <2>1, <3>4, <3>5, <3>7 DEF FailBegins
  <2>2. CASE ~(state.phase = "starting" /\ state.generation = Generation(k))
    <3>1. call' \in [Calls -> CallState] BY <1>10, <2>2, AnswerEffect DEF FailBegins
    <3>2. QED BY <1>10, <2>2, <3>1 DEF FailBegins, serviceVars
  <2>3. QED BY <2>1, <2>2
<1>11. ASSUME NEW k \in Calls, StopBegins(k) PROVE TypeInv'
  <2>1. CASE state.process = 0
    <3>1. call' \in [Calls -> CallState] BY <1>11, <2>1, StopAnswerEffect DEF StopBegins
    <3>2. state' \in ServiceState BY <1>11, <2>1, CleanStates DEF StopBegins, ServiceState
    <3>3. QED BY <1>11, <2>1, <3>1, <3>2 DEF StopBegins
  <2>2. CASE state.process # 0
    <3>1. PICK refused \in BOOLEAN :
            /\ Terminate(state.process, refused)
            /\ call' = [call EXCEPT ![k].step = "halt", ![k].refused = refused,
                                    ![k].generation = state.generation, ![k].process = state.process]
      BY <1>11, <2>2 DEF StopBegins
    <3> DEFINE r == [call[k] EXCEPT !.step = "halt", !.refused = refused,
                                    !.generation = state.generation, !.process = state.process]
    <3>2. r \in CallState
      <4>1. state.generation \in Nat /\ state.process \in Nat
        BY DEF ServiceState
      <4>2. call[k] \in CallState
        OBVIOUS
      <4>3. QED BY <4>1, <4>2 DEF CallState
    <3>3. call' = [call EXCEPT ![k] = r] BY <3>1
    <3> HIDE DEF r
    <3>4. call' \in [Calls -> CallState] BY <3>2, <3>3, CallUpdated
    <3>5. life' \in [Generations -> {"none", "running", "killed", "dead"}] BY <3>1 DEF Terminate
    <3>6. state' \in ServiceState BY <1>11, <2>2 DEF StopBegins, ServiceState, Phases
    <3>7. QED BY <1>11, <2>2, <3>4, <3>5, <3>6 DEF StopBegins
  <2>3. QED BY <2>1, <2>2
<1>12. ASSUME NEW k \in Calls, Halt(k) PROVE TypeInv'
  <2>1. PICK fault \in BOOLEAN :
          IF state.watched
          THEN call' = [call EXCEPT ![k].step = "poll", ![k].fault = fault] /\ UNCHANGED state
          ELSE FinishDetached(k, fault)
    BY <1>12 DEF Halt
  <2>2. CASE state.watched
    <3> DEFINE r == [call[k] EXCEPT !.step = "poll", !.fault = fault]
    <3>1. r \in CallState BY DEF CallState
    <3>2. call' = [call EXCEPT ![k] = r] BY <2>1, <2>2
    <3> HIDE DEF r
    <3>3. call' \in [Calls -> CallState] BY <3>1, <3>2, CallUpdated
    <3>4. QED BY <1>12, <2>1, <2>2, <3>3 DEF Halt
  <2>3. CASE ~state.watched
    <3>1. FinishDetached(k, fault) BY <2>1, <2>3
    <3>2. call' \in [Calls -> CallState] BY <3>1, StopAnswerEffect DEF FinishDetached, CallState
    <3>3. state' \in ServiceState BY <3>1, CleanStates DEF FinishDetached, ServiceState, Phases
    <3>4. QED BY <1>12, <3>2, <3>3 DEF Halt
  <2>4. QED BY <2>2, <2>3
<1>13. ASSUME NEW k \in Calls, Poll(k) PROVE TypeInv'
  <2>1. call' \in [Calls -> CallState] BY <1>13, StopAnswerEffect DEF Poll, CallState
  <2>2. QED BY <1>13, <2>1 DEF Poll, serviceVars, processVars
<1>14. ASSUME NEW k \in Calls, Deadline(k) PROVE TypeInv'
  <2>1. call' \in [Calls -> CallState] BY <1>14, AnswerEffect DEF Deadline
  <2>2. state' \in ServiceState BY <1>14 DEF Deadline, ServiceState, Phases
  <2>3. QED BY <1>14, <2>1, <2>2 DEF Deadline, processVars
<1>15. ASSUME NEW k \in Calls, NEW op \in {"start", "stop", "restart"}, Request(k, op) PROVE TypeInv'
  <2> DEFINE r == [IdleCall EXCEPT !.op = op, !.step = IF op = "start" THEN "startLock" ELSE "stopLock"]
  <2>1. r \in CallState BY DEF CallState, IdleCall
  <2>2. call' = [call EXCEPT ![k] = r] BY <1>15 DEF Request
  <2> HIDE DEF r
  <2>3. call' \in [Calls -> CallState] BY <2>1, <2>2, CallUpdated
  <2>4. QED BY <1>15, <2>3 DEF Request, serviceVars, processVars
<1>16. ASSUME NEW p \in Generations, Exit(p) PROVE TypeInv'
  BY <1>16 DEF Exit, serviceVars
<1>17. ASSUME NEW p \in Generations, Report(p) PROVE TypeInv'
  BY <1>17 DEF Report, serviceVars
<1>18. ASSUME NEW p \in Generations, SeeExit(p) PROVE TypeInv'
  <2>1. monitor' \in [Generations -> MonitorState] BY <1>18 DEF SeeExit, MonitorState
  <2>2. QED BY <1>18, <2>1 DEF SeeExit, serviceVars, processVars
<1>19. ASSUME NEW p \in Generations, RecordBegins(p) PROVE TypeInv'
  <2>1. CASE state.generation = p /\ state.process = p /\ state.watched
    <3> DEFINE w == IF state.phase \in {"starting", "running"} THEN "serving" ELSE state.phase
    <3>0. w \in {"serving", "stopping", "failed"}
      BY <2>1 DEF StateInv, ServiceState, Phases, Generations
    <3>1. monitor' = [monitor EXCEPT ![p] = [step |-> "record", was |-> w]]
      BY <1>19, <2>1 DEF RecordBegins
    <3> HIDE DEF w
    <3>2. monitor' \in [Generations -> MonitorState] BY <3>0, <3>1 DEF MonitorState
    <3>3. state' \in ServiceState
      <4>1. state' = Stopped(p) /\ p \in Nat
        BY <1>19, <2>1 DEF RecordBegins, Generations
      <4> HIDE DEF TypeInv
      <4>2. QED BY <4>1, CleanStates
    <3>4. cleanup' \in Calls \cup Generations \cup {None} /\ UNCHANGED <<call, life, servers>>
      BY <1>19, <2>1 DEF RecordBegins, processVars
    <3>5. QED BY <3>2, <3>3, <3>4
  <2>2. CASE ~(state.generation = p /\ state.process = p /\ state.watched)
    <3>1. monitor' \in [Generations -> MonitorState] BY <1>19, <2>2 DEF RecordBegins, MonitorState
    <3>2. QED BY <1>19, <2>2, <3>1 DEF RecordBegins, serviceVars, processVars
  <2>3. QED BY <2>1, <2>2
<1>20. ASSUME NEW p \in Generations, RecordEnds(p) PROVE TypeInv'
  <2>1. monitor' \in [Generations -> MonitorState] BY <1>20 DEF RecordEnds, MonitorState
  <2>2. p \in Nat BY DEF Generations
  <2>3. state' \in ServiceState BY <1>20, <2>2, CleanStates DEF RecordEnds
  <2>4. QED BY <1>20, <2>1, <2>3 DEF RecordEnds
<1>21. QED
  BY <1>0, <1>1, <1>2, <1>3, <1>4, <1>5, <1>6, <1>7, <1>8, <1>9, <1>10, <1>11, <1>12, <1>13,
     <1>14, <1>15, <1>16, <1>17, <1>18, <1>19, <1>20 DEF Next, StartStep, StopStep, Acquire

-----------------------------------------------------------------------------
(* What a step leaves alone *)

\* Those who may hold the cleanup mutex are told apart.
LEMMA Apart ==
  /\ \A p \in Generations : p \in Nat /\ p # 0 /\ p # None /\ \A k \in Calls : p # k
  /\ \A k \in Calls : k # None
BY ConstantsAssumption DEF Generations

\* MonitorInv is about processes and monitors, and about the service only
\* while it has lost its process.
LEMMA MonitorFrame ==
  ASSUME MonitorInv, UNCHANGED monitor, \A p \in Generations : life[p] = "dead" => life'[p] = "dead",
         state'.generation = state.generation, state.process = 0 => state'.process = 0
  PROVE  MonitorInv'
BY DEF MonitorInv

\* The same for StartInv when nobody is busy and a call that is not goes on.
LEMMA StartFrame ==
  ASSUME StartInv, NEW k \in Calls,
         \A j \in Calls : j # k => ~Busy(j) /\ call'[j] = call[j],
         call'[k].step \in {"startLock", "halt", "poll", "done"},
         call'[k].step = "startLock" => call'[k].op # "stop",
         call'[k].process <= state'.generation,
         state'.generation = state.generation
  PROVE  StartInv'
BY DEF StartInv, Busy, At

\* A stop that is over leaves what the others are about to do.
LEMMA StopFrame ==
  ASSUME StopInv, NEW k \in Calls,
         \A j \in Calls : j # k => ~Busy(j) /\ call'[j] = call[j],
         call'[k].step \in {"startLock", "done"},
         servers' \subseteq servers, UNCHANGED life,
         state'.generation = state.generation,
         state'.process # 0 /\ ~state'.watched => state.process # 0 /\ ~state.watched,
         \A j \in Calls : At(j, "poll") /\ j # k /\ Running(call[j].process) =>
            state'.process = state.process /\ state'.phase \in {"stopping", "failed"}
  PROVE  StopInv'
BY DEF StopInv, Busy, At, Running, Generation

-----------------------------------------------------------------------------
(* The invariant *)

LEMMA StartServerKeeps ==
  ASSUME NEW k \in Calls, TypeInv, RestInv, TypeInv', StartServer(k) PROVE RestInv'
<1> USE ConstantsAssumption DEF TypeInv, RestInv, StartServer, GoTo, serviceVars, At, Generation,
        Busy, Running, Generations, ServiceState, CallState, MonitorState, Phases
<1>1. LockInv' BY DEF LockInv
<1>2. StateInv' BY DEF StateInv
<1>3. MonitorInv' BY DEF MonitorInv
<1>4. StartInv' BY DEF StartInv
<1>5. StopInv' BY DEF StopInv, StartInv
<1>6. OwnInv' BY DEF OwnInv
<1>7. ServerInv' BY DEF ServerInv
<1>8. SuccessMeansStopped' BY DEF SuccessMeansStopped, StartInv
<1>9. QED BY <1>1, <1>2, <1>3, <1>4, <1>5, <1>6, <1>7, <1>8 DEF RestInv

LEMMA StartServerFailsKeeps ==
  ASSUME NEW k \in Calls, TypeInv, RestInv, TypeInv', StartServerFails(k) PROVE RestInv'
<1> USE ConstantsAssumption DEF TypeInv, RestInv, StartServerFails, Answer, IdleCall, Stopped,
        FailedClean, processVars, At, Generation, Busy, Running, Generations, ServiceState,
        CallState, MonitorState, Phases
<1>1. LockInv' BY DEF LockInv
<1>2. StateInv' BY DEF StateInv
<1>3. MonitorInv' BY DEF MonitorInv, LockInv
<1>4. StartInv' BY DEF StartInv
<1>5. StopInv' BY DEF StopInv, StartInv
<1>6. OwnInv' BY DEF OwnInv, StartInv
<1>7. ServerInv' BY DEF ServerInv, LockInv, StateInv, StartInv
<1>8. SuccessMeansStopped' BY DEF SuccessMeansStopped
<1>9. QED BY <1>1, <1>2, <1>3, <1>4, <1>5, <1>6, <1>7, <1>8 DEF RestInv

LEMMA SpawnKeeps ==
  ASSUME NEW k \in Calls, TypeInv, RestInv, TypeInv', Spawn(k) PROVE RestInv'
<1> USE ConstantsAssumption DEF TypeInv, RestInv, Spawn, GoTo, At, Generation, Busy, Running,
        Generations, ServiceState, CallState, MonitorState, Phases
<1>1. state.process = 0 /\ cleanup = k /\ call'[k].step = "await" BY DEF LockInv, StartInv
<1>2. /\ \A p \in Generations : life'[p] = "running" => p = Generation(k) \/ life[p] = "running"
      /\ \A j \in Calls : ~At(j, "failServer")
  BY <1>1 DEF LockInv
<1>3. LockInv' BY <1>1, <1>2 DEF LockInv
<1>4. StateInv' BY <1>1, <1>2 DEF StateInv
<1>5. MonitorInv' BY <1>1, <1>2 DEF MonitorInv, LockInv
<1>6. StartInv' BY <1>1, <1>2 DEF StartInv, LockInv
<1>7. StopInv' BY <1>1, <1>2 DEF StopInv, StartInv
<1>8. OwnInv' BY <1>1, <1>2 DEF OwnInv, StateInv
<1>9. ServerInv' BY <1>1, <1>2 DEF ServerInv, StateInv
<1>10. SuccessMeansStopped' BY <1>1, <1>2 DEF SuccessMeansStopped, StartInv
<1>11. QED BY <1>3, <1>4, <1>5, <1>6, <1>7, <1>8, <1>9, <1>10 DEF RestInv

LEMMA SpawnFailsKeeps ==
  ASSUME NEW k \in Calls, TypeInv, RestInv, TypeInv', SpawnFails(k) PROVE RestInv'
<1> USE ConstantsAssumption DEF TypeInv, RestInv, SpawnFails, GoTo, Stopped, FailedClean,
        processVars, At, Generation, Busy, Running, Generations, ServiceState, CallState,
        MonitorState, Phases
<1>1. LockInv' BY DEF LockInv
<1>2. StateInv' BY DEF StateInv
<1>3. MonitorInv' BY DEF MonitorInv, LockInv
<1>4. StartInv' BY DEF StartInv
<1>5. StopInv' BY DEF StopInv, StartInv
<1>6. OwnInv' BY DEF OwnInv, StartInv
<1>7. ServerInv' BY DEF ServerInv, LockInv, StateInv
<1>8. SuccessMeansStopped' BY DEF SuccessMeansStopped
<1>9. QED BY <1>1, <1>2, <1>3, <1>4, <1>5, <1>6, <1>7, <1>8 DEF RestInv

LEMMA UndoServerKeeps ==
  ASSUME NEW k \in Calls, TypeInv, RestInv, TypeInv', UndoServer(k) PROVE RestInv'
<1> USE ConstantsAssumption DEF TypeInv, RestInv, UndoServer, Answer, IdleCall, At, Generation,
        Busy, Running, Generations, ServiceState, CallState, MonitorState, Phases
<1>1. LockInv' BY DEF LockInv
<1>2. StateInv' BY DEF StateInv
<1>3. MonitorInv' BY DEF MonitorInv
<1>4. StartInv' BY DEF StartInv
<1>5. StopInv' BY DEF StopInv
<1>6. OwnInv' BY DEF OwnInv
<1>7. ServerInv' BY DEF ServerInv
<1>8. SuccessMeansStopped' BY DEF SuccessMeansStopped
<1>9. QED BY <1>1, <1>2, <1>3, <1>4, <1>5, <1>6, <1>7, <1>8 DEF RestInv

LEMMA ReadyOkKeeps ==
  ASSUME NEW k \in Calls, TypeInv, RestInv, TypeInv', ReadyOk(k) PROVE RestInv'
<1> USE ConstantsAssumption DEF TypeInv, RestInv, ReadyOk, Answer, IdleCall, At, Generation, Busy,
        Running, Generations, ServiceState, CallState, MonitorState, Phases
<1>1. LockInv' BY DEF LockInv
<1>2. StateInv' BY DEF StateInv
<1>3. MonitorInv' BY DEF MonitorInv
<1>4. StartInv' BY DEF StartInv
<1>5. StopInv' BY DEF StopInv
<1>6. OwnInv' BY DEF OwnInv
<1>7. ServerInv' BY DEF ServerInv
<1>8. SuccessMeansStopped' BY DEF SuccessMeansStopped, StartInv
<1>9. QED BY <1>1, <1>2, <1>3, <1>4, <1>5, <1>6, <1>7, <1>8 DEF RestInv

LEMMA ReadyFailsKeeps ==
  ASSUME NEW k \in Calls, TypeInv, RestInv, TypeInv', ReadyFails(k) PROVE RestInv'
<1> USE ConstantsAssumption DEF TypeInv, RestInv, ReadyFails, GoTo, serviceVars, processVars, At,
        Generation, Busy, Running, Generations, ServiceState, CallState, MonitorState, Phases
<1>1. LockInv' BY DEF LockInv
<1>2. StateInv' BY DEF StateInv
<1>3. MonitorInv' BY DEF MonitorInv
<1>4. StartInv' BY DEF StartInv
<1>5. StopInv' BY DEF StopInv
<1>6. OwnInv' BY DEF OwnInv
<1>7. ServerInv' BY DEF ServerInv
<1>8. SuccessMeansStopped' BY DEF SuccessMeansStopped
<1>9. QED BY <1>1, <1>2, <1>3, <1>4, <1>5, <1>6, <1>7, <1>8 DEF RestInv

LEMMA FailEndsKeeps ==
  ASSUME NEW k \in Calls, TypeInv, RestInv, TypeInv', FailEnds(k) PROVE RestInv'
<1> USE ConstantsAssumption DEF TypeInv, RestInv, FailEnds, Answer, IdleCall, At, Generation, Busy,
        Running, Generations, ServiceState, CallState, MonitorState, Phases
<1>1. /\ state'.phase = "failed" /\ state'.generation = state.generation /\ ~state'.watched
      /\ state'.process = IF call[k].refused THEN call[k].generation ELSE 0
  BY DEF StartInv, StateInv
<1>2. LockInv' BY <1>1 DEF LockInv
<1>3. StateInv' BY <1>1 DEF StateInv, StartInv
<1>4. MonitorInv' BY <1>1 DEF MonitorInv, LockInv
<1>5. StartInv' BY <1>1 DEF StartInv, LockInv
<1>6. StopInv' BY <1>1 DEF StopInv, StartInv
<1>7. OwnInv' BY <1>1 DEF OwnInv, LockInv, StateInv, StartInv
<1>8. ServerInv' BY <1>1 DEF ServerInv
<1>9. SuccessMeansStopped' BY <1>1 DEF SuccessMeansStopped
<1>10. QED BY <1>2, <1>3, <1>4, <1>5, <1>6, <1>7, <1>8, <1>9 DEF RestInv

LEMMA StartBeginsKeeps ==
  ASSUME NEW k \in Calls, TypeInv, RestInv, TypeInv', StartBegins(k) PROVE RestInv'
<1> USE ConstantsAssumption DEF TypeInv, RestInv, At, Generation, Busy, Running, Generations,
        ServiceState, CallState, MonitorState, Phases
<1>1. CASE state.phase \in {"stopped", "failed"} /\ state.process = 0
  <2>1. /\ At(k, "startLock") /\ cleanup = None /\ cleanup' = k
        /\ state' = [Stopped(state.generation + 1) EXCEPT !.phase = "preparing"]
        /\ call' = [call EXCEPT ![k].step = "server", ![k].generation = state.generation + 1]
        /\ UNCHANGED <<life, servers, monitor>>
    BY <1>1 DEF StartBegins, processVars
  <2>2. /\ state'.phase = "preparing" /\ state'.generation = state.generation + 1
        /\ state'.process = 0 /\ ~state'.watched
    <3> DEFINE t == Stopped(state.generation + 1)
    <3>1. state.generation + 1 \in Nat BY DEF ServiceState
    <3>2. t \in ServiceState BY <3>1, CleanStates
    <3>3. t.generation = state.generation + 1 /\ t.process = 0 /\ t.watched = FALSE BY DEF Stopped
    <3>4. state' = [t EXCEPT !.phase = "preparing"] BY <2>1
    <3> HIDE DEF t
    <3>5. QED BY <3>2, <3>3, <3>4
  <2>3. /\ call'[k].step = "server" /\ call'[k].process = call[k].process
        /\ call'[k].generation = state.generation + 1
        /\ \A j \in Calls : j # k => call'[j] = call[j]
    BY <2>1
  <2>4. LockInv' BY <1>1, <2>1, <2>2, <2>3 DEF LockInv
  <2>5. StateInv'
    <3> HIDE DEF TypeInv, RestInv
    <3>1. QED BY <2>2 DEF StateInv
  <2>6. MonitorInv' BY <1>1, <2>1, <2>2, <2>3 DEF MonitorInv, LockInv
  <2>7. StartInv'
    <3>1. call[k].op # "stop" /\ state.generation \in Nat
      BY <2>1 DEF StartInv
    <3>2. \A j \in Calls : ~Busy(j) /\ call[j].process <= state.generation /\ call[j].process \in Nat
      BY <2>1 DEF LockInv, StartInv
    <3>3. call'[k].op = call[k].op
      BY <2>1
    <3>4. \A j \in Calls : call'[j].process < state'.generation /\ call'[j].process <= state'.generation
      <4>1. \A j \in Calls : call'[j].process = call[j].process
        BY <2>3
      <4>2. state'.generation = state.generation + 1
        BY <2>2
      <4> HIDE DEF TypeInv, RestInv, Busy, Running, ServiceState, CallState, MonitorState
      <4>3. QED BY <3>1, <3>2, <4>1, <4>2
    <3>5. \A j \in Calls : j # k => call'[j].step \notin {"server", "spawn", "undo", "failServer"}
      BY <2>3, <3>2 DEF Busy
    <3>6. \A j \in Calls : j # k /\ call'[j].step \in {"startLock", "await", "fail"} => call'[j].op # "stop"
      BY <2>3 DEF StartInv
    <3>7. state'.generation # 0
      BY <2>2, <3>1
    <3> HIDE DEF TypeInv, RestInv, Busy, Running, ServiceState, CallState, MonitorState
    <3>8. QED BY <2>2, <2>3, <3>1, <3>3, <3>4, <3>5, <3>6, <3>7 DEF StartInv
  <2>8. StopInv'
    <3>1. \A j \in Calls : At(j, "poll") =>
             /\ j # k /\ call[j].process \notin servers
             /\ Generation(j) < state'.generation /\ Generation(j) <= state'.generation
             /\ ~Running(call[j].process)
      <4>1. \A j \in Calls : At(j, "poll") =>
               /\ call[j].process \notin servers /\ Generation(j) <= state.generation
               /\ Running(call[j].process) => state.phase \in {"stopping", "failed"} /\ state.process = call[j].process
        BY DEF StopInv
      <4>2. \A j \in Calls : At(j, "poll") => ~Running(call[j].process)
        BY <1>1, <4>1
      <4>3. \A j \in Calls : At(j, "poll") => j # k /\ Generation(j) \in Nat
        BY <2>1
      <4>4. state'.generation = state.generation + 1 /\ state.generation \in Nat
        BY <2>2
      <4> HIDE DEF TypeInv, RestInv, Busy, Running, At, Generation, ServiceState, CallState, MonitorState
      <4>5. QED BY <4>1, <4>2, <4>3, <4>4
    <3>2. \A j \in Calls : call'[j].step = "poll" => At(j, "poll") /\ call'[j] = call[j]
      BY <2>3
    <3>3. \A j \in Calls : call'[j].step # "halt"
      <4>1. \A j \in Calls : call[j].step # "halt"
        BY <2>1 DEF LockInv
      <4> HIDE DEF TypeInv, RestInv, Busy, Running, ServiceState, CallState, MonitorState
      <4>2. QED BY <2>3, <4>1
    <3>4. UNCHANGED <<life, servers>>
      BY <2>1
    <3> HIDE DEF TypeInv, RestInv, Busy, ServiceState, CallState, MonitorState
    <3>5. QED BY <3>1, <3>2, <3>3, <3>4 DEF StopInv
  <2>9. OwnInv' BY <1>1, <2>1, <2>2, <2>3 DEF OwnInv, LockInv
  <2>10. ServerInv'
    <3>1. \A j \in Calls : call[j].step \notin {"spawn", "undo", "failServer", "halt"}
      BY <2>1 DEF LockInv
    <3>2. \A p \in servers : p \in Generations /\ monitor[p] = [step |-> "record", was |-> "serving"]
      BY <1>1, <3>1 DEF ServerInv
    <3>3. UNCHANGED <<monitor, servers>>
      BY <2>1
    <3> HIDE DEF TypeInv, RestInv, Busy, Running, ServiceState, CallState, MonitorState
    <3>4. QED BY <3>2, <3>3 DEF ServerInv
  <2>11. SuccessMeansStopped'
    <3>1. SuccessMeansStopped
      OBVIOUS
    <3>2. UNCHANGED <<life, servers>>
      BY <2>1
    <3> HIDE DEF TypeInv, RestInv, Busy, Running, ServiceState, CallState, MonitorState
    <3>3. QED BY <2>3, <3>1, <3>2 DEF SuccessMeansStopped
  <2>12. QED BY <2>4, <2>5, <2>6, <2>7, <2>8, <2>9, <2>10, <2>11 DEF RestInv
<1>2. CASE ~(state.phase \in {"stopped", "failed"} /\ state.process = 0)
  <2>1. /\ At(k, "startLock") /\ Answer(k, state.phase \in {"starting", "running"})
        /\ UNCHANGED <<state, cleanup, life, servers, monitor>>
    BY <1>2 DEF StartBegins, serviceVars, processVars
  <2>2. LockInv' BY <2>1 DEF Answer, IdleCall, LockInv
  <2>3. StateInv' BY <2>1 DEF Answer, IdleCall, StateInv
  <2>4. MonitorInv' BY <2>1 DEF Answer, IdleCall, MonitorInv
  <2>5. StartInv' BY <2>1 DEF Answer, IdleCall, StartInv
  <2>6. StopInv' BY <2>1 DEF Answer, IdleCall, StopInv
  <2>7. OwnInv' BY <2>1 DEF Answer, IdleCall, OwnInv
  <2>8. ServerInv' BY <2>1 DEF Answer, IdleCall, ServerInv
  <2>9. SuccessMeansStopped' BY <2>1 DEF Answer, IdleCall, SuccessMeansStopped, StartInv
  <2>10. QED BY <2>2, <2>3, <2>4, <2>5, <2>6, <2>7, <2>8, <2>9 DEF RestInv
<1>3. QED BY <1>1, <1>2

LEMMA FailBeginsKeeps ==
  ASSUME NEW k \in Calls, TypeInv, RestInv, TypeInv', FailBegins(k) PROVE RestInv'
<1> USE ConstantsAssumption DEF TypeInv, RestInv, At, Generation, Busy, Running, Generations,
        ServiceState, CallState, MonitorState, Phases
<1>1. CASE state.phase = "starting" /\ state.generation = Generation(k)
  <2>1. PICK refused \in BOOLEAN :
          /\ Terminate(Generation(k), refused)
          /\ call' = [call EXCEPT ![k].step = "failServer", ![k].refused = refused]
    BY <1>1 DEF FailBegins
  <2>2. /\ At(k, "fail") /\ cleanup = None /\ cleanup' = k
        /\ state' = [Stopped(state.generation + 1) EXCEPT !.phase = "failed"]
        /\ UNCHANGED <<servers, monitor>>
    BY <1>1 DEF FailBegins, FailedClean
  <2>3. /\ state'.phase = "failed" /\ state'.generation = state.generation + 1
        /\ state'.process = 0 /\ ~state'.watched
    <3> DEFINE t == Stopped(state.generation + 1)
    <3>1. state.generation + 1 \in Nat BY DEF ServiceState
    <3>2. t \in ServiceState BY <3>1, CleanStates
    <3>3. t.generation = state.generation + 1 /\ t.process = 0 /\ t.watched = FALSE BY DEF Stopped
    <3>4. state' = [t EXCEPT !.phase = "failed"] BY <2>2
    <3> HIDE DEF t
    <3>5. QED BY <3>2, <3>3, <3>4
  <2>4. LockInv' BY <1>1, <2>1, <2>2, <2>3 DEF Terminate, LockInv
  <2>5. StateInv' BY <1>1, <2>1, <2>2, <2>3 DEF Terminate, StateInv
  <2>6. MonitorInv' BY <1>1, <2>1, <2>2, <2>3 DEF Terminate, MonitorInv, LockInv
  <2>7. StartInv' BY <1>1, <2>1, <2>2, <2>3 DEF Terminate, StartInv, LockInv, StateInv, StopInv
  <2>8. StopInv' BY <1>1, <2>1, <2>2, <2>3 DEF Terminate, StopInv, LockInv, StartInv
  <2>9. OwnInv' BY <1>1, <2>1, <2>2, <2>3 DEF Terminate, OwnInv, LockInv, StateInv
  <2>10. ServerInv' BY <1>1, <2>1, <2>2, <2>3 DEF Terminate, ServerInv, LockInv, StateInv
  <2>11. SuccessMeansStopped' BY <1>1, <2>1, <2>2, <2>3 DEF Terminate, SuccessMeansStopped, StartInv
  <2>12. QED BY <2>4, <2>5, <2>6, <2>7, <2>8, <2>9, <2>10, <2>11 DEF RestInv
<1>2. CASE ~(state.phase = "starting" /\ state.generation = Generation(k))
  <2>1. /\ At(k, "fail") /\ Answer(k, TRUE)
        /\ UNCHANGED <<state, cleanup, life, servers, monitor>>
    BY <1>2 DEF FailBegins, serviceVars
  <2>2. LockInv' BY <2>1 DEF Answer, IdleCall, LockInv
  <2>3. StateInv' BY <2>1 DEF Answer, IdleCall, StateInv
  <2>4. MonitorInv' BY <2>1 DEF Answer, IdleCall, MonitorInv
  <2>5. StartInv' BY <2>1 DEF Answer, IdleCall, StartInv
  <2>6. StopInv' BY <2>1 DEF Answer, IdleCall, StopInv
  <2>7. OwnInv' BY <2>1 DEF Answer, IdleCall, OwnInv
  <2>8. ServerInv' BY <2>1 DEF Answer, IdleCall, ServerInv
  <2>9. SuccessMeansStopped' BY <2>1 DEF Answer, IdleCall, SuccessMeansStopped, StartInv
  <2>10. QED BY <2>2, <2>3, <2>4, <2>5, <2>6, <2>7, <2>8, <2>9 DEF RestInv
<1>3. QED BY <1>1, <1>2

LEMMA StopBeginsKeeps ==
  ASSUME NEW k \in Calls, TypeInv, RestInv, StopBegins(k) PROVE RestInv'
<1> USE DEF RestInv
<1>1. CASE state.process = 0
  <2>1. /\ At(k, "stopLock") /\ cleanup = None /\ state' = Stopped(state.generation)
        /\ StopAnswer(k, TRUE)
        /\ UNCHANGED <<cleanup, life, servers, monitor>>
    BY <1>1 DEF StopBegins
  <2>2. state'.phase = "stopped" /\ state'.generation = state.generation /\ state'.process = 0 /\ ~state'.watched
    BY <2>1 DEF Stopped
  <2>3. /\ \A j \in Calls : ~Busy(j)
        /\ \A p \in Generations : monitor[p].step # "record"
    BY <2>1, Apart DEF LockInv
  <2>4. servers = {}
    <3> SUFFICES ASSUME NEW p \in servers PROVE FALSE OBVIOUS
    <3>1. state.phase \in {"starting", "running"} /\ state.process = p
      BY <2>3 DEF ServerInv, Busy, At
    <3>2. QED BY <1>1, <3>1 DEF StateInv
  <2>5. \A p \in Generations : life[p] # "running" BY <1>1, <2>3 DEF OwnInv, Busy, At, Generations
  <2>6. /\ \/ call'[k].step = "startLock" /\ call'[k].op = "restart"
           \/ call'[k].step = "done"
        /\ call'[k].op = call[k].op /\ call'[k].process = call[k].process
        /\ \A j \in Calls : j # k => call'[j] = call[j]
    BY <2>1, StopAnswerEffect DEF TypeInv
  <2>7. call[k].process <= state.generation BY DEF StartInv
  <2>8. LockInv'
    BY <2>1, <2>3, <2>6 DEF LockInv, Busy
  <2>9. StateInv'
    BY <2>2 DEF StateInv
  <2>10. MonitorInv'
    BY <1>1, <2>1, <2>2, MonitorFrame
  <2>11. StartInv'
    BY <2>2, <2>3, <2>6, <2>7, StartFrame
  <2>12. StopInv'
    BY <2>1, <2>2, <2>3, <2>5, <2>6, StopFrame DEF Running
  <2>13. OwnInv'
    BY <2>1, <2>5 DEF OwnInv
  <2>14. ServerInv'
    BY <2>1, <2>4 DEF ServerInv
  <2>15. SuccessMeansStopped'
    BY <2>1, <2>4, <2>5 DEF SuccessMeansStopped
  <2>16. QED BY <2>8, <2>9, <2>10, <2>11, <2>12, <2>13, <2>14, <2>15 DEF RestInv
<1>2. CASE state.process # 0
  <2>1. PICK refused \in BOOLEAN :
          /\ Terminate(state.process, refused)
          /\ call' = [call EXCEPT ![k].step = "halt", ![k].refused = refused,
                                  ![k].generation = state.generation, ![k].process = state.process]
    BY <1>2 DEF StopBegins
  <2>2. /\ At(k, "stopLock") /\ cleanup = None /\ cleanup' = k
        /\ state' = [state EXCEPT !.phase = "stopping"]
        /\ UNCHANGED <<servers, monitor>>
    BY <1>2 DEF StopBegins
  <2>3. /\ state'.phase = "stopping" /\ state'.generation = state.generation
        /\ state'.process = state.process /\ state'.watched = state.watched
    BY <2>2 DEF TypeInv, ServiceState
  <2>4. /\ call'[k].step = "halt" /\ call'[k].refused = refused
        /\ call'[k].generation = state.generation /\ call'[k].process = state.process
        /\ \A j \in Calls : j # k => call'[j] = call[j]
    BY <2>1 DEF TypeInv, CallState
  <2>5. \A p \in Generations : /\ life'[p] = "running" => life[p] = "running"
                               /\ life[p] = "dead" => life'[p] = "dead"
                               /\ p = state.process /\ ~refused => life'[p] # "running"
    BY <2>1 DEF Terminate, TypeInv
  <2>6. /\ \A j \in Calls : ~Busy(j)
        /\ \A p \in Generations : monitor[p].step # "record"
    BY <2>2, Apart DEF LockInv
  <2>7. call'[k].process <= state'.generation
    BY <1>2, <2>3, <2>4 DEF StateInv, TypeInv, ServiceState
  <2>8. LockInv'
    BY <2>2, <2>4, <2>6, Apart DEF LockInv, Busy
  <2>9. StateInv'
    BY <1>2, <2>3 DEF StateInv
  <2>10. MonitorInv'
    BY <2>2, <2>3, <2>5, MonitorFrame
  <2>11. StartInv'
    BY <2>3, <2>4, <2>6, <2>7, StartFrame
  <2>12. StopInv'
    <3> SUFFICES ASSUME NEW j \in Calls PROVE StopInv!(j)' BY DEF StopInv
    <3>1. CASE j = k BY <1>2, <2>3, <2>4, <2>5, <3>1 DEF At, Generation, Running
    <3>2. CASE j # k
      <4>1. call'[j] = call[j] /\ ~Busy(j) BY <2>4, <2>6, <3>2
      <4>2. StopInv!(j) BY DEF StopInv
      <4>3. QED BY <2>2, <2>3, <2>5, <4>1, <4>2 DEF At, Generation, Running, Busy
    <3>3. QED BY <3>1, <3>2
  <2>13. OwnInv'
    BY <2>3, <2>5, <2>6 DEF OwnInv, Busy, At
  <2>14. ServerInv'
    <3> SUFFICES ASSUME NEW p \in servers PROVE ServerInv!(p)' BY <2>2 DEF ServerInv
    <3>1. state.process = p /\ state.phase \in {"starting", "running"}
      BY <2>6 DEF ServerInv, Busy, At
    <3>2. call'[k].generation = p /\ call'[k].process = p BY <2>4, <3>1 DEF StateInv
    <3>3. QED BY <2>4, <3>2 DEF At, Generation
  <2>15. SuccessMeansStopped'
    BY <2>2, <2>4, <2>5 DEF SuccessMeansStopped, At
  <2>16. QED BY <2>8, <2>9, <2>10, <2>11, <2>12, <2>13, <2>14, <2>15 DEF RestInv
<1>3. QED BY <1>1, <1>2

LEMMA HaltKeeps ==
  ASSUME NEW k \in Calls, TypeInv, RestInv, Halt(k) PROVE RestInv'
<1> USE DEF RestInv
<1>1. PICK fault \in BOOLEAN :
        IF state.watched
        THEN call' = [call EXCEPT ![k].step = "poll", ![k].fault = fault] /\ UNCHANGED state
        ELSE FinishDetached(k, fault)
  BY DEF Halt
<1>2. /\ At(k, "halt") /\ cleanup = k /\ cleanup' = None /\ servers' = servers \ {state.process}
      /\ UNCHANGED <<life, monitor>>
  BY DEF Halt, LockInv, Busy, At
<1>3. /\ \A j \in Calls : j # k => ~Busy(j)
      /\ \A p \in Generations : monitor[p].step # "record"
  BY <1>2, Apart DEF LockInv
<1>4. /\ state.process # 0 /\ call[k].process = state.process /\ Generation(k) = state.generation
      /\ ~call[k].refused => ~Running(state.process)
      /\ ~state.watched => state.phase = "stopping"
  BY <1>2 DEF StopInv
<1>5. servers' = {}
  <2> SUFFICES ASSUME NEW p \in servers PROVE p = state.process BY <1>2
  <2>1. \/ state.process = p
        \/ call[k].process = p
    BY <1>2, <1>3 DEF ServerInv, Busy, At
  <2>2. QED BY <1>4, <2>1
<1>6. call[k].process <= state.generation BY DEF StartInv
<1>7. ServerInv' BY <1>5 DEF ServerInv
<1>8. CASE state.watched
  <2>1. call' = [call EXCEPT ![k].step = "poll", ![k].fault = fault] /\ UNCHANGED state
    BY <1>1, <1>8
  <2>2. /\ call'[k].step = "poll" /\ call'[k].generation = call[k].generation
        /\ call'[k].process = call[k].process
        /\ \A j \in Calls : j # k => call'[j] = call[j]
    BY <2>1 DEF TypeInv, CallState
  <2>3. LockInv'
    BY <1>2, <1>3, <2>2, Apart DEF LockInv, Busy
  <2>4. StateInv'
    BY <1>2, <2>1 DEF StateInv
  <2>5. MonitorInv'
    BY <1>2, <2>1, MonitorFrame
  <2>6. StartInv'
    BY <1>3, <1>6, <2>1, <2>2, StartFrame
  <2>7. StopInv'
    <3> SUFFICES ASSUME NEW j \in Calls PROVE StopInv!(j)' BY DEF StopInv
    <3>1. CASE j = k
      <4>1. state.phase \in {"stopping", "failed"}
        BY <1>2, <1>4, Apart DEF StateInv, TypeInv, ServiceState, Phases
      <4>2. QED
        BY <1>2, <1>4, <1>5, <1>8, <2>1, <2>2, <3>1, <4>1 DEF At, Generation, Running,
           TypeInv, ServiceState
    <3>2. CASE j # k
      <4>1. call'[j] = call[j] /\ ~Busy(j) BY <1>3, <2>2, <3>2
      <4>2. StopInv!(j) BY DEF StopInv
      <4>3. QED BY <1>2, <2>1, <4>1, <4>2 DEF At, Generation, Running, Busy
    <3>3. QED BY <3>1, <3>2
  <2>8. OwnInv'
    BY <1>2, <2>1, <2>2, <1>3 DEF OwnInv, At, Generation, Busy
  <2>9. ServerInv'
    BY <1>7
  <2>10. SuccessMeansStopped'
    BY <1>2, <1>5, <2>2 DEF SuccessMeansStopped, At
  <2>11. QED BY <2>3, <2>4, <2>5, <2>6, <2>7, <2>8, <2>9, <2>10 DEF RestInv
<1>9. CASE ~state.watched
  <2>1. /\ state' = CASE call[k].refused -> [state EXCEPT !.phase = "failed"]
                      [] ~call[k].refused /\ fault -> FailedClean(state.generation)
                      [] OTHER -> Stopped(state.generation)
        /\ StopAnswer(k, ~call[k].refused /\ ~fault)
    BY <1>1, <1>4, <1>9 DEF FinishDetached
  <2>2. /\ state'.generation = state.generation /\ ~state'.watched
        /\ \/ call[k].refused /\ state'.phase = "failed" /\ state'.process = state.process
           \/ ~call[k].refused /\ state'.phase \in {"failed", "stopped"} /\ state'.process = 0
    <3>1. CASE call[k].refused
      <4>1. state' = [state EXCEPT !.phase = "failed"] BY <2>1, <3>1
      <4>2. QED BY <1>9, <3>1, <4>1 DEF TypeInv, ServiceState
    <3>2. CASE ~call[k].refused /\ fault
      <4> DEFINE t == Stopped(state.generation)
      <4>1. state.generation \in Nat BY DEF TypeInv, ServiceState
      <4>2. t \in ServiceState BY <4>1, CleanStates
      <4>3. t.generation = state.generation /\ t.process = 0 /\ t.watched = FALSE BY DEF Stopped
      <4>4. state' = [t EXCEPT !.phase = "failed"] BY <2>1, <3>2 DEF FailedClean
      <4> HIDE DEF t
      <4>5. QED BY <3>2, <4>2, <4>3, <4>4 DEF ServiceState
    <3>3. CASE ~call[k].refused /\ ~fault
      <4>1. state' = Stopped(state.generation) BY <2>1, <3>3
      <4>2. QED BY <3>3, <4>1 DEF Stopped
    <3>4. QED BY <3>1, <3>2, <3>3
  <2> DEFINE ok == ~call[k].refused /\ ~fault
  <2>3. ok \in BOOLEAN /\ StopAnswer(k, ok) /\ (ok => ~call[k].refused) BY <2>1
  <2> HIDE DEF ok
  <2>4. /\ \/ call'[k].step = "startLock" /\ call'[k].op = "restart"
           \/ call'[k].step = "done" /\ call'[k].ok = ok
        /\ call'[k].op = call[k].op /\ call'[k].process = call[k].process
        /\ \A j \in Calls : j # k => call'[j] = call[j]
    BY <2>3, StopAnswerEffect DEF TypeInv
  <2>5. LockInv'
    BY <1>2, <1>3, <2>4, Apart DEF LockInv, Busy
  <2>6. StateInv'
    <3>1. state.process < state.generation BY <1>4, <1>9 DEF StateInv
    <3>2. QED BY <1>4, <2>2, <3>1 DEF StateInv
  <2>7. MonitorInv'
    BY <1>2, <1>4, <2>2, MonitorFrame
  <2>8. StartInv'
    BY <1>3, <1>6, <2>2, <2>4, StartFrame
  <2>9. StopInv'
    <3>1. \A j \in Calls : At(j, "poll") /\ j # k /\ Running(call[j].process) =>
            state'.process = state.process /\ state'.phase \in {"stopping", "failed"}
      <4> SUFFICES ASSUME NEW j \in Calls, At(j, "poll"), Running(call[j].process) PROVE FALSE OBVIOUS
      <4>1. state.process = call[j].process /\ Generation(j) = state.generation BY DEF StopInv
      <4>2. Generation(j) < state.generation BY <1>4, <1>9 DEF StopInv
      <4>3. QED BY <4>1, <4>2 DEF TypeInv, ServiceState
    <3>2. QED BY <1>2, <1>3, <1>4, <1>9, <2>2, <2>4, <3>1, StopFrame
  <2>10. OwnInv'
    <3> SUFFICES ASSUME NEW p \in Generations, life[p] = "running" PROVE state'.process = p
      BY <1>2 DEF OwnInv
    <3>1. state.process = p BY <1>2, <1>3 DEF OwnInv, Busy, At
    <3>2. QED BY <1>4, <2>2, <3>1 DEF Running
  <2>11. ServerInv'
    BY <1>7
  <2>12. SuccessMeansStopped'
    <3>1. ok => \A p \in Generations : call[k].process = p => life[p] # "running"
      BY <1>4, <2>3 DEF Running
    <3>2. QED BY <1>2, <1>5, <2>4, <3>1 DEF SuccessMeansStopped, At
  <2>13. QED BY <2>5, <2>6, <2>7, <2>8, <2>9, <2>10, <2>11, <2>12 DEF RestInv
<1>10. QED BY <1>8, <1>9

LEMMA PollKeeps ==
  ASSUME NEW k \in Calls, TypeInv, RestInv, Poll(k) PROVE RestInv'
<1> USE DEF RestInv
<1>1. /\ At(k, "poll") /\ Gone(k) /\ StopAnswer(k, ~call[k].fault)
      /\ UNCHANGED <<state, cleanup, life, servers, monitor>>
  BY DEF Poll, serviceVars, processVars
<1>2. ~Running(call[k].process) /\ call[k].process \notin servers
  <2>1. call[k].process \notin servers BY <1>1 DEF StopInv
  <2>2. Running(call[k].process) => Generation(k) = state.generation /\ state.phase \in {"stopping", "failed"}
    BY <1>1 DEF StopInv
  <2>3. QED BY <1>1, <2>1, <2>2 DEF Gone
<1> DEFINE ok == ~call[k].fault
<1>3. ok \in BOOLEAN /\ StopAnswer(k, ok) BY <1>1
<1> HIDE DEF ok
<1>4. /\ \/ call'[k].step = "startLock" /\ call'[k].op = "restart"
         \/ call'[k].step = "done" /\ call'[k].ok = ok
      /\ call'[k].op = call[k].op /\ call'[k].process = call[k].process
      /\ \A j \in Calls : j # k => call'[j] = call[j]
  BY <1>3, StopAnswerEffect DEF TypeInv
<1>5. LockInv'
  BY <1>1, <1>4 DEF LockInv, Busy, At
<1>6. StateInv'
  BY <1>1 DEF StateInv
<1>7. MonitorInv'
  BY <1>1, MonitorFrame
<1>8. StartInv'
  <2> SUFFICES ASSUME NEW j \in Calls PROVE StartInv!(j)' BY DEF StartInv
  <2>1. CASE j = k
    <3>1. StartInv!(j) BY DEF StartInv
    <3>2. QED BY <1>1, <1>4, <2>1, <3>1 DEF At
  <2>2. CASE j # k
    <3>1. call'[j] = call[j] BY <1>4, <2>2
    <3>2. StartInv!(j) BY DEF StartInv
    <3>3. \A i \in Calls : /\ call'[i].process = call[i].process
                           /\ At(i, "poll")' => At(i, "poll") /\ Generation(i)' = Generation(i)
      BY <1>4 DEF At, Generation
    <3>4. QED BY <1>1, <3>1, <3>2, <3>3 DEF At, Generation, Running
  <2>3. QED BY <2>1, <2>2
<1>9. StopInv'
  <2> SUFFICES ASSUME NEW j \in Calls PROVE StopInv!(j)' BY DEF StopInv
  <2>1. StopInv!(j) BY DEF StopInv
  <2>2. QED BY <1>1, <1>4, <2>1 DEF At, Generation, Running
<1>10. OwnInv'
  BY <1>1, <1>4 DEF OwnInv, At, Generation
<1>11. ServerInv'
  BY <1>1, <1>4 DEF ServerInv, At, Generation
<1>12. SuccessMeansStopped'
  BY <1>1, <1>2, <1>4 DEF SuccessMeansStopped, At, Running
<1>13. QED BY <1>5, <1>6, <1>7, <1>8, <1>9, <1>10, <1>11, <1>12 DEF RestInv

LEMMA DeadlineKeeps ==
  ASSUME NEW k \in Calls, TypeInv, RestInv, TypeInv', Deadline(k) PROVE RestInv'
<1> USE ConstantsAssumption DEF TypeInv, RestInv, Deadline, Answer, IdleCall, Gone, processVars, At,
        Generation, Busy, Running, Generations, ServiceState, CallState, MonitorState, Phases
<1>1. LockInv' BY DEF LockInv
<1>2. StateInv' BY DEF StateInv
<1>3. MonitorInv' BY DEF MonitorInv
<1>4. StartInv' BY DEF StartInv
<1>5. StopInv' BY DEF StopInv
<1>6. OwnInv' BY DEF OwnInv
<1>7. ServerInv' BY DEF ServerInv
<1>8. SuccessMeansStopped' BY DEF SuccessMeansStopped
<1>9. QED BY <1>1, <1>2, <1>3, <1>4, <1>5, <1>6, <1>7, <1>8 DEF RestInv

LEMMA ExitKeeps ==
  ASSUME NEW p \in Generations, TypeInv, RestInv, TypeInv', Exit(p) PROVE RestInv'
<1> USE ConstantsAssumption DEF TypeInv, RestInv, Exit, serviceVars, At, Generation, Busy, Running,
        Generations, ServiceState, CallState, MonitorState, Phases
<1>1. LockInv' BY DEF LockInv
<1>2. StateInv' BY DEF StateInv
<1>3. MonitorInv' BY DEF MonitorInv
<1>4. StartInv' BY DEF StartInv
<1>5. StopInv' BY DEF StopInv
<1>6. OwnInv' BY DEF OwnInv
<1>7. ServerInv' BY DEF ServerInv
<1>8. SuccessMeansStopped' BY DEF SuccessMeansStopped
<1>9. QED BY <1>1, <1>2, <1>3, <1>4, <1>5, <1>6, <1>7, <1>8 DEF RestInv

LEMMA ReportKeeps ==
  ASSUME NEW p \in Generations, TypeInv, RestInv, TypeInv', Report(p) PROVE RestInv'
<1> USE ConstantsAssumption DEF TypeInv, RestInv, Report, serviceVars, At, Generation, Busy,
        Running, Generations, ServiceState, CallState, MonitorState, Phases
<1>1. LockInv' BY DEF LockInv
<1>2. StateInv' BY DEF StateInv
<1>3. MonitorInv' BY DEF MonitorInv
<1>4. StartInv' BY DEF StartInv
<1>5. StopInv' BY DEF StopInv
<1>6. OwnInv' BY DEF OwnInv
<1>7. ServerInv' BY DEF ServerInv
<1>8. SuccessMeansStopped' BY DEF SuccessMeansStopped
<1>9. QED BY <1>1, <1>2, <1>3, <1>4, <1>5, <1>6, <1>7, <1>8 DEF RestInv

LEMMA SeeExitKeeps ==
  ASSUME NEW p \in Generations, TypeInv, RestInv, TypeInv', SeeExit(p) PROVE RestInv'
<1> USE ConstantsAssumption DEF TypeInv, RestInv, At, Generation, Busy, Running, Generations,
        ServiceState, CallState, MonitorState, Phases
<1>1. /\ UNCHANGED <<state, cleanup, life, servers, call>>
      /\ monitor' = [monitor EXCEPT ![p].step = "lock"]
      /\ monitor[p].step = "watch" /\ life[p] = "dead"
  BY DEF SeeExit, serviceVars, processVars
<1>2. \A q \in Generations : q # p => monitor'[q] = monitor[q]
  BY <1>1
<1>3. monitor'[p].step = "lock" BY <1>1
<1>4. LockInv' BY <1>1, <1>2, <1>3 DEF LockInv
<1>5. MonitorInv' BY <1>1, <1>2, <1>3 DEF MonitorInv
<1>6. StateInv' /\ StartInv' BY <1>1 DEF StateInv, StartInv
<1>7. StopInv' /\ OwnInv' BY <1>1 DEF StopInv, OwnInv
<1>8. ServerInv' BY <1>1, <1>2, <1>3 DEF ServerInv
<1>9. SuccessMeansStopped'
  <2>1. UNCHANGED <<life, servers, call>> BY <1>1
  <2>2. QED BY <2>1 DEF SuccessMeansStopped
<1>10. QED BY <1>4, <1>5, <1>6, <1>7, <1>8, <1>9

LEMMA RecordBeginsKeeps ==
  ASSUME NEW p \in Generations, TypeInv, RestInv, TypeInv', RecordBegins(p) PROVE RestInv'
<1> USE ConstantsAssumption DEF TypeInv, RestInv, At, Generation, Busy, Running, Generations,
        ServiceState, CallState, MonitorState, Phases
<1>1. CASE state.generation = p /\ state.process = p /\ state.watched
  <2> DEFINE w == IF state.phase \in {"starting", "running"} THEN "serving" ELSE state.phase
  <2>1. /\ monitor' = [monitor EXCEPT ![p] = [step |-> "record", was |-> w]]
        /\ state' = Stopped(p) /\ cleanup' = p /\ cleanup = None
        /\ monitor[p].step = "lock"
        /\ UNCHANGED <<life, servers, call>>
    BY <1>1 DEF RecordBegins, processVars
  <2>2. monitor'[p] = [step |-> "record", was |-> w] /\ \A q \in Generations : q # p => monitor'[q] = monitor[q]
    BY <2>1
  <2>3. state'.phase = "stopped" /\ state'.generation = p /\ state'.process = 0 /\ ~state'.watched
    BY <2>1 DEF Stopped
  <2>4. \A k \in Calls : ~Busy(k) BY <2>1 DEF LockInv
  <2>5. p \notin Calls /\ p # None /\ life[p] = "dead" BY <2>1 DEF MonitorInv
  <2>6. \A q \in Generations : q # p => monitor[q].step # "record" BY <2>1 DEF LockInv
  <2>7. monitor'[p].step = "record" BY <2>2
  <2>8. LockInv' BY <2>1, <2>2, <2>4, <2>5, <2>6, <2>7 DEF LockInv
  <2>9. StateInv' BY <2>3 DEF StateInv
  <2>10. MonitorInv' BY <2>1, <2>2, <2>3, <2>5, <2>6, <2>7 DEF MonitorInv
  <2>11. StartInv' BY <2>1, <2>3, <2>4, <1>1 DEF StartInv
  <2>12. StopInv' BY <2>1, <2>3, <2>4, <2>5, <1>1 DEF StopInv
  <2>13. OwnInv' BY <2>1, <2>3, <2>5, <1>1 DEF OwnInv
  <2>14. ServerInv'
    <3>1. \A q \in servers : q = p /\ w = "serving" BY <2>1, <2>4, <2>6, <1>1 DEF ServerInv
    <3>2. QED BY <3>1, <2>1, <2>2 DEF ServerInv
  <2>15. SuccessMeansStopped'
    <3>1. UNCHANGED <<life, servers, call>> BY <2>1
    <3>2. QED BY <3>1 DEF SuccessMeansStopped
  <2>16. QED BY <2>8, <2>9, <2>10, <2>11, <2>12, <2>13, <2>14, <2>15
<1>2. CASE ~(state.generation = p /\ state.process = p /\ state.watched)
  <2>1. /\ monitor' = [monitor EXCEPT ![p].step = "done"] /\ monitor[p].step = "lock"
        /\ UNCHANGED <<state, cleanup, life, servers, call>>
    BY <1>2 DEF RecordBegins, serviceVars, processVars
  <2>2. monitor'[p].step = "done" /\ \A q \in Generations : q # p => monitor'[q] = monitor[q]
    BY <2>1
  <2>3. LockInv' BY <2>1, <2>2 DEF LockInv
  <2>4. MonitorInv' BY <2>1, <2>2 DEF MonitorInv
  <2>5. StateInv' /\ StartInv' BY <2>1 DEF StateInv, StartInv
  <2>6. StopInv' /\ OwnInv' BY <2>1 DEF StopInv, OwnInv
  <2>7. ServerInv' BY <2>1, <2>2 DEF ServerInv
  <2>8. SuccessMeansStopped'
    <3>1. UNCHANGED <<life, servers, call>> BY <2>1
    <3>2. QED BY <3>1 DEF SuccessMeansStopped
  <2>9. QED BY <2>3, <2>4, <2>5, <2>6, <2>7, <2>8
<1>3. QED BY <1>1, <1>2

LEMMA RecordEndsKeeps ==
  ASSUME NEW p \in Generations, TypeInv, RestInv, TypeInv', RecordEnds(p) PROVE RestInv'
<1> USE ConstantsAssumption DEF TypeInv, RestInv, RecordEnds, Stopped, FailedClean, At, Generation,
        Busy, Running, Generations, ServiceState, CallState, MonitorState, Phases
<1>1. LockInv' BY DEF LockInv
<1>2. StateInv' BY DEF StateInv
<1>3. MonitorInv' BY DEF MonitorInv
<1>4. StartInv' BY DEF StartInv, LockInv, StateInv, StopInv, MonitorInv
<1>5. StopInv' BY DEF StopInv, MonitorInv
<1>6. OwnInv' BY DEF OwnInv, MonitorInv
<1>7. ServerInv' BY DEF ServerInv, LockInv, StateInv
<1>8. SuccessMeansStopped' BY DEF SuccessMeansStopped, LockInv, StateInv
<1>9. QED BY <1>1, <1>2, <1>3, <1>4, <1>5, <1>6, <1>7, <1>8 DEF RestInv

LEMMA RequestKeeps ==
  ASSUME NEW k \in Calls, NEW op \in {"start", "stop", "restart"}, TypeInv, RestInv, TypeInv', Request(k, op) PROVE RestInv'
<1> USE ConstantsAssumption DEF TypeInv, RestInv, Request, IdleCall, serviceVars, processVars, At,
        Generation, Busy, Running, Generations, ServiceState, CallState, MonitorState, Phases
<1>1. LockInv' BY DEF LockInv
<1>2. StateInv' BY DEF StateInv
<1>3. MonitorInv' BY DEF MonitorInv
<1>4. StartInv' BY DEF StartInv
<1>5. StopInv' BY DEF StopInv
<1>6. OwnInv' BY DEF OwnInv
<1>7. ServerInv' BY DEF ServerInv
<1>8. SuccessMeansStopped' BY DEF SuccessMeansStopped
<1>9. QED BY <1>1, <1>2, <1>3, <1>4, <1>5, <1>6, <1>7, <1>8 DEF RestInv

-----------------------------------------------------------------------------
(* Theorems *)

LEMMA InitInv == Init => IInv
<1> SUFFICES ASSUME Init PROVE IInv OBVIOUS
<1>1. TypeInv
  <2>1. state \in ServiceState BY CleanStates DEF Init
  <2>2. IdleCall \in CallState BY DEF IdleCall, CallState
  <2>3. QED BY <2>1, <2>2 DEF Init, TypeInv, MonitorState
<1>2. /\ state.phase = "stopped" /\ state.generation = 0 /\ state.process = 0 /\ ~state.watched
      /\ \A k \in Calls : call[k].step = "idle" /\ call[k].process = 0
      /\ \A p \in Generations : monitor[p].step = "none" /\ life[p] = "none"
      /\ cleanup = None /\ servers = {}
  BY DEF Init, Stopped, IdleCall
<1>3. LockInv BY <1>2, Apart DEF LockInv, Busy
<1>4. StateInv BY <1>2 DEF StateInv
<1>5. MonitorInv BY <1>2 DEF MonitorInv
<1>6. StartInv
  <2> SUFFICES ASSUME NEW k \in Calls PROVE StartInv!(k) BY DEF StartInv
  <2>1. call[k].step = "idle" /\ call[k].process = 0 /\ state.generation = 0 BY <1>2
  <2>2. QED BY <2>1 DEF At
<1>7. StopInv BY <1>2 DEF StopInv, At
<1>8. OwnInv BY <1>2 DEF OwnInv
<1>9. ServerInv BY <1>2 DEF ServerInv
<1>10. SuccessMeansStopped BY <1>2 DEF SuccessMeansStopped, At
<1>11. QED
  BY <1>1, <1>3, <1>4, <1>5, <1>6, <1>7, <1>8, <1>9, <1>10 DEF IInv, RestInv

\* Steps that change nothing.
LEMMA StutterKeeps ==
  ASSUME RestInv, UNCHANGED vars PROVE RestInv'
BY DEF RestInv, LockInv, StateInv, MonitorInv, StartInv, StopInv, OwnInv, ServerInv,
       SuccessMeansStopped, vars, serviceVars, processVars, Busy, Running, At, Generation

LEMMA NextKeeps == IInv /\ [Next]_vars => IInv'
<1> SUFFICES ASSUME IInv, [Next]_vars PROVE IInv' OBVIOUS
<1> USE DEF IInv
<1>1. TypeInv' BY Typed DEF RestInv
<1>2. CASE UNCHANGED vars BY <1>1, <1>2, StutterKeeps
<1>3. ASSUME NEW k \in Calls, Acquire(k) PROVE RestInv'
  BY <1>1, <1>3, StartBeginsKeeps, StopBeginsKeeps, FailBeginsKeeps DEF Acquire
<1>4. ASSUME NEW k \in Calls, StartStep(k) PROVE RestInv'
  BY <1>1, <1>4, StartServerKeeps, StartServerFailsKeeps, SpawnKeeps, SpawnFailsKeeps,
     UndoServerKeeps, ReadyOkKeeps, ReadyFailsKeeps, FailEndsKeeps DEF StartStep
<1>5. ASSUME NEW k \in Calls, StopStep(k) PROVE RestInv'
  BY <1>1, <1>5, HaltKeeps, PollKeeps, DeadlineKeeps DEF StopStep
<1>6. ASSUME NEW k \in Calls, NEW op \in {"start", "stop", "restart"}, Request(k, op) PROVE RestInv'
  BY <1>1, <1>6, RequestKeeps
<1>7. ASSUME NEW p \in Generations, \/ Exit(p) \/ Report(p) \/ SeeExit(p)
                                   \/ RecordBegins(p) \/ RecordEnds(p)
      PROVE  RestInv'
  BY <1>1, <1>7, ExitKeeps, ReportKeeps, SeeExitKeeps, RecordBeginsKeeps, RecordEndsKeeps
<1>8. QED BY <1>1, <1>2, <1>3, <1>4, <1>5, <1>6, <1>7 DEF Next

LEMMA Invariant == Spec => []IInv
<1>1. QED BY InitInv, NextKeeps, PTL DEF Spec

\* What the invariant says of processes and servers nobody would find.
LEMMA Owned == IInv => NothingUnowned
<1> SUFFICES ASSUME IInv PROVE NothingUnowned OBVIOUS
<1> USE DEF IInv, RestInv
<1> DEFINE Held(p) == \E k \in Calls : cleanup = k /\ Generation(k) = p
<1>1. \A p \in Generations : life[p] = "running" => state.process = p \/ Held(p)
  BY DEF OwnInv, LockInv, Busy, At
<1>2. ASSUME NEW p \in servers
      PROVE  \/ Held(p) \/ cleanup = p
             \/ state.process = p /\ state.phase \in {"starting", "running", "stopping"}
  <2>1. CASE state.phase \in {"starting", "running"} /\ state.process = p BY <2>1
  <2>2. ASSUME NEW k \in Calls, Generation(k) = p, Busy(k) PROVE Held(p)
    BY <2>2 DEF LockInv
  <2>3. CASE \E k \in Calls : /\ Generation(k) = p
                              /\ \/ call[k].step \in {"spawn", "undo", "failServer"}
                                 \/ At(k, "halt") /\ call[k].process = p
    BY <2>2, <2>3 DEF Busy, At
  <2>4. CASE p \in Generations /\ monitor[p] = [step |-> "record", was |-> "serving"]
    <3>1. monitor[p].step = "record" BY <2>4
    <3>2. QED BY <2>4, <3>1 DEF LockInv
  <2>5. QED BY <2>1, <2>3, <2>4 DEF ServerInv
<1>3. QED BY <1>1, <1>2 DEF NothingUnowned

\* And of two processes at once: a failed start that still has to end its own
\* holds the cleanup mutex while the service has none.
LEMMA One == IInv => OneService
<1> SUFFICES ASSUME IInv, NEW p \in Generations, NEW q \in Generations,
                    life[p] = "running", life[q] = "running"
             PROVE  p = q
  BY DEF OneService
<1> USE DEF IInv, RestInv
<1>1. \A k \in Calls : At(k, "failServer") => state.process = 0 /\ cleanup = k
  BY DEF StartInv, LockInv, Busy, At
<1>2. QED BY <1>1, Apart DEF OwnInv

\* Whatever fails in whatever order, no running process and no server is left
\* that neither the service nor the holder of the cleanup mutex knows of
\* (mcp_runtime/service.rs, control.rs).
THEOREM NothingIsUnowned == Spec => []NothingUnowned
<1>1. QED BY Invariant, Owned, PTL

\* However starts, stops, restarts and exits overlap, at most one process runs
\* that was not told to end.
THEOREM OneServiceAtATime == Spec => []OneService
<1>1. QED BY Invariant, One, PTL

\* Both: there is one service at most, and somebody owns it.
THEOREM OneServiceIsOwned == Spec => []OneOwnedService
<1>1. NothingUnowned /\ OneService => OneOwnedService BY DEF OneOwnedService
<1>2. QED BY <1>1, NothingIsUnowned, OneServiceAtATime, PTL

\* A stop that reports success has ended its process, or the process had ended,
\* and its server accepts no more requests.
THEOREM StopsThatSucceedStopped == Spec => []SuccessMeansStopped
<1>1. IInv => SuccessMeansStopped BY DEF IInv, RestInv
<1>2. QED BY Invariant, <1>1, PTL

-----------------------------------------------------------------------------
(***************************************************************************)
(* The background tasks and the task center (Transfers, TaskManager).      *)
(***************************************************************************)

(* The manager and the task center.                                         *)

\* A worker that works on changes at most the progress of its task.
Reports(t) ==
  \/ UNCHANGED <<Work!managerVars, Work!centerVars>>
  \/ \E p \in Nat : Work!Progress(t, p)

\* An event makes the center load again.
LEMMA EventIsDue ==
  ASSUME Work!ManagerTypes, Work!CenterInv, Work!Emit
  PROVE  center' \in Work!Center /\ Work!CenterInv'
  <1>1. center \in Work!Center
    BY DEF Work!ManagerTypes
  <1>2. PICK c \in Work!Center : c = center
    BY <1>1
  <1>3. /\ center' \in Work!Center /\ center'.unread = TRUE
        /\ center'.pending = center.pending /\ center'.loading = center.loading
    BY <1>1 DEF Work!Emit, Work!Center
  <1> QED BY <1>3 DEF Work!CenterInv, Work!Due

LEMMA RefreshIsDue ==
  ASSUME NEW c \in Work!Center, c.pending => c.loading # "no"
  PROVE  /\ Work!Refresh(c) \in Work!Center
         /\ Work!Refresh(c).pending => Work!Refresh(c).loading # "no"
         /\ Work!Refresh(c).pending \/ Work!Refresh(c).loading = "asked"
  <1>1. CASE c.loading # "no"
    <2>1. PICK d : d = [c EXCEPT !.pending = TRUE]
      OBVIOUS
    <2>2. d \in Work!Center /\ d.loading = c.loading /\ d.pending
      BY <2>1 DEF Work!Center
    <2> QED BY <1>1, <2>1, <2>2 DEF Work!Refresh
  <1>2. CASE c.loading = "no"
    <2>1. PICK d : d = [c EXCEPT !.loading = "asked"]
      OBVIOUS
    <2>2. d \in Work!Center /\ d.loading = "asked"
      BY <2>1 DEF Work!Center
    <2> QED BY <1>2, <2>1, <2>2 DEF Work!Refresh
  <1> QED BY <1>1, <1>2

\* An entry given a new record.
LEMMA EntrySet ==
  ASSUME Work!ManagerTypes, NEW t \in Tasks, NEW e \in Work!Entry,
         entries' = [entries EXCEPT ![t] = e]
  PROVE  entries' \in Work!Listing /\ entries'[t] = e /\ \A u \in Tasks \ {t} : entries'[u] = entries[u]
  BY DEF Work!ManagerTypes, Work!Listing

\* The entries keep their status while a worker works.
LEMMA ReportsKeep ==
  ASSUME Work!ConstantsAssumption, Work!ManagerTypes, Work!CenterInv,
         NEW t \in Tasks, entries[t] # Nothing, Reports(t)
  PROVE  /\ Work!ManagerTypes' /\ Work!CenterInv'
         /\ UNCHANGED <<token, completed, cancels>>
         /\ \A u \in Tasks : /\ entries'[u] = Nothing <=> entries[u] = Nothing
                             /\ entries[u] # Nothing => entries'[u].status = entries[u].status
  <1>1. CASE UNCHANGED <<Work!managerVars, Work!centerVars>>
    BY <1>1 DEF Work!managerVars, Work!centerVars, Work!ManagerTypes, Work!CenterInv, Work!Due
  <1>2. CASE \E p \in Nat : Work!Progress(t, p)
    <2>1. PICK p \in Nat : Work!Progress(t, p)
      BY <1>2
    <2>2. CASE entries[t].status = "Running"
      <3>1. entries[t] \in Work!Entry
        BY DEF Work!ManagerTypes, Work!Listing
      <3>2. PICK grown \in Nat : entries' = [entries EXCEPT ![t].progress = grown]
        <4>1. entries[t].progress \in Nat
          BY <3>1 DEF Work!Entry
        <4> QED BY <2>1, <2>2, <4>1 DEF Work!Progress
      <3>3. Work!Emit /\ UNCHANGED <<token, completed, cancels>>
        BY <2>1, <2>2 DEF Work!Progress
      <3>4. PICK now : now = [entries[t] EXCEPT !.progress = grown]
        OBVIOUS
      <3>5. now \in Work!Entry /\ now.status = entries[t].status
        BY <3>1, <3>4 DEF Work!Entry
      <3>6. entries' = [entries EXCEPT ![t] = now]
        BY <3>2, <3>4
      <3>7. /\ entries' \in Work!Listing /\ entries'[t] = now
            /\ \A u \in Tasks \ {t} : entries'[u] = entries[u]
        BY <3>5, <3>6, EntrySet
      <3>8. now # Nothing
        BY <3>5 DEF Work!ConstantsAssumption
      <3>9. center' \in Work!Center /\ Work!CenterInv'
        BY <3>3, EventIsDue
      <3>10. Work!ManagerTypes'
        BY <3>3, <3>7, <3>9 DEF Work!ManagerTypes
      <3> QED BY <3>3, <3>5, <3>7, <3>8, <3>9, <3>10
    <2>3. CASE entries[t].status # "Running"
      BY <2>1, <2>3, <1>1 DEF Work!Progress
    <2> QED BY <2>2, <2>3
  <1> QED BY <1>1, <1>2 DEF Reports

LEMMA TaskBegins ==
  ASSUME Work!ConstantsAssumption, Work!ManagerTypes, Work!CenterInv,
         NEW t \in Tasks, Work!Spawn(t)
  PROVE  /\ Work!ManagerTypes' /\ Work!CenterInv'
         /\ UNCHANGED <<token, completed>>
         /\ entries'[t] # Nothing /\ entries'[t].status = "Running"
         /\ \A u \in Tasks \ {t} : entries'[u] = entries[u]
  <1>1. PICK e \in Work!Entry : e = [status |-> "Running", progress |-> 0]
    BY DEF Work!Entry
  <1>2. /\ entries' = [entries EXCEPT ![t] = e] /\ Work!Emit
        /\ UNCHANGED <<token, completed, cancels>>
    BY <1>1 DEF Work!Spawn
  <1>3. /\ entries' \in Work!Listing /\ entries'[t] = e
        /\ \A u \in Tasks \ {t} : entries'[u] = entries[u]
    BY <1>2, EntrySet
  <1>4. e # Nothing
    BY DEF Work!ConstantsAssumption
  <1>5. center' \in Work!Center /\ Work!CenterInv'
    BY <1>2, EventIsDue
  <1>6. Work!ManagerTypes'
    BY <1>2, <1>3, <1>5 DEF Work!ManagerTypes
  <1> QED BY <1>1, <1>2, <1>3, <1>4, <1>5, <1>6

\* A task ends: its status is its outcome, unless it is pruned at once, and the
\* others are pruned only if they had ended.
LEMMA TaskFinishes ==
  ASSUME Work!ConstantsAssumption, Work!ManagerTypes, Work!CenterInv,
         NEW t \in Tasks, entries[t] # Nothing, NEW o \in Work!TerminalStatus, Work!Finish(t, o)
  PROVE  /\ Work!ManagerTypes' /\ Work!CenterInv'
         /\ UNCHANGED token
         /\ entries'[t] # Nothing => entries'[t].status = o
         /\ \A u \in Tasks \ {t} : \/ entries'[u] = entries[u]
                                   \/ /\ entries'[u] = Nothing
                                      /\ \E i \in DOMAIN completed : completed[i] = u
         /\ \A i \in DOMAIN completed' :
              completed'[i] = t \/ \E j \in DOMAIN completed : completed'[i] = completed[j]
  <1> DEFINE done == Append(completed, t)
             n == Work!Beyond(done)
  <1>1. /\ completed \in Seq(Tasks) /\ Len(completed) \in Nat
        /\ done \in Seq(Tasks) /\ Len(done) = Len(completed) + 1
        /\ \A i \in 1..Len(completed) : done[i] = completed[i]
        /\ done[Len(done)] = t /\ DOMAIN completed = 1..Len(completed)
    BY DEF Work!ManagerTypes
  <1> HIDE DEF done
  <1>2. n \in 0..Len(done)
    BY <1>1 DEF Work!Beyond, Work!ConstantsAssumption
  <1>3. \A i \in 1..Len(done) : done[i] = t \/ \E j \in DOMAIN completed : done[i] = completed[j]
    BY <1>1
  <1>4. /\ completed' = SubSeq(done, n + 1, Len(done))
        /\ Work!Emit /\ UNCHANGED <<token, cancels>>
        /\ entries' = [u \in Tasks |-> IF u \in Work!Pruned(done) THEN Nothing
                                       ELSE IF u = t THEN [entries[t] EXCEPT !.status = o]
                                       ELSE entries[u]]
    BY DEF Work!Finish, done
  <1>5. /\ completed' \in Seq(Tasks) /\ DOMAIN completed' = 1..(Len(done) - n)
        /\ \A i \in DOMAIN completed' : completed'[i] = done[n + i]
    <2>1. done \in Seq(Tasks) /\ Len(done) \in Nat /\ completed' = SubSeq(done, n + 1, Len(done))
      BY <1>1, <1>4
    <2> HIDE DEF n
    <2> QED BY <1>2, <2>1
  <1>6. \A i \in DOMAIN completed' :
          completed'[i] = t \/ \E j \in DOMAIN completed : completed'[i] = completed[j]
    <2>1. Len(done) \in Nat
      BY <1>1
    <2> HIDE DEF n
    <2>2. \A i \in DOMAIN completed' : n + i \in 1..Len(done)
      BY <1>2, <1>5, <2>1
    <2> QED BY <1>3, <1>5, <2>2
  <1>7. \A u \in Work!Pruned(done) : u = t \/ \E i \in DOMAIN completed : completed[i] = u
    BY <1>1, <1>2, <1>3 DEF Work!Pruned
  <1>8. PICK e : e = [entries[t] EXCEPT !.status = o]
    OBVIOUS
  <1>9. e \in Work!Entry /\ e.status = o
    BY <1>8 DEF Work!Entry, Work!ManagerTypes, Work!Listing
  <1>10. entries \in [Tasks -> Work!Entry \cup {Nothing}]
    BY DEF Work!ManagerTypes, Work!Listing
  <1> DEFINE gone == Work!Pruned(done)
  <1>l. entries' = [u \in Tasks |-> IF u \in gone THEN Nothing ELSE IF u = t THEN e ELSE entries[u]]
    BY <1>4, <1>8
  <1>m. \A u \in gone : u = t \/ \E i \in DOMAIN completed : completed[i] = u
    BY <1>7
  <1> HIDE DEF gone
  <1>11. entries' \in Work!Listing
    BY <1>l, <1>9, <1>10 DEF Work!Listing
  <1>12. entries'[t] # Nothing => entries'[t].status = o
    BY <1>l, <1>9
  <1>13. \A u \in Tasks \ {t} : \/ entries'[u] = entries[u]
                               \/ /\ entries'[u] = Nothing
                                  /\ \E i \in DOMAIN completed : completed[i] = u
    BY <1>l, <1>m
  <1>14. center' \in Work!Center /\ Work!CenterInv'
    BY <1>4, EventIsDue
  <1>15. Work!ManagerTypes'
    BY <1>4, <1>5, <1>11, <1>14 DEF Work!ManagerTypes
  <1> QED BY <1>4, <1>6, <1>12, <1>13, <1>14, <1>15

\* What the center and the user do changes the status of a task only to
\* Cancelling, and never back its token.
LEMMA CenterMoves ==
  ASSUME Work!ConstantsAssumption, Work!ManagerTypes, Work!CenterInv,
         NEW C \in SUBSET Tasks, Work!CenterNext(C)
  PROVE  /\ Work!ManagerTypes' /\ Work!CenterInv'
         /\ UNCHANGED completed
         /\ \A u \in Tasks : /\ token[u] => token'[u]
                             /\ entries'[u] = Nothing <=> entries[u] = Nothing
                             /\ entries[u] # Nothing =>
                                  \/ entries'[u].status = entries[u].status
                                  \/ ~Work!IsTerminal(entries[u]) /\ entries'[u].status = "Cancelling"
  <1>1. /\ entries \in Work!Listing /\ token \in [Tasks -> BOOLEAN] /\ center \in Work!Center
        /\ cancels \in [Tasks -> Work!Requests]
    BY DEF Work!ManagerTypes
  <1>2. center.pending => center.loading # "no"
    BY DEF Work!CenterInv
  <1>3. CASE Work!HearEvent
    <2>1. PICK c : c = [center EXCEPT !.unread = FALSE]
      OBVIOUS
    <2>2. c \in Work!Center /\ c.pending = center.pending /\ c.loading = center.loading
      BY <1>1, <2>1 DEF Work!Center
    <2>3. center' = Work!Refresh(c) /\ UNCHANGED <<entries, token, completed, cancels>>
      BY <1>3, <2>1 DEF Work!HearEvent, Work!managerVars
    <2>4. /\ center' \in Work!Center /\ (center'.pending \/ center'.loading = "asked")
          /\ center'.pending => center'.loading # "no"
      BY <1>2, <2>2, <2>3, RefreshIsDue
    <2> QED BY <1>1, <2>3, <2>4 DEF Work!ManagerTypes, Work!CenterInv, Work!Due
  <1>4. CASE Work!LoadReads
    <2>1. /\ center.loading = "asked"
          /\ center' = [center EXCEPT !.loading = "read", !.loaded = entries]
          /\ UNCHANGED <<entries, token, completed, cancels>>
      BY <1>4 DEF Work!LoadReads, Work!managerVars
    <2>2. /\ center' \in Work!Center /\ center'.loading = "read" /\ center'.loaded = entries
      BY <1>1, <2>1 DEF Work!Center
    <2> QED BY <1>1, <2>1, <2>2 DEF Work!ManagerTypes, Work!CenterInv, Work!Due
  <1>5. CASE Work!LoadReturns
    <2>1. PICK nobody \in Work!Listing : nobody = [u \in Tasks |-> Nothing]
      BY DEF Work!Listing
    <2>2. PICK c : c = [center EXCEPT !.tasks = center.loaded, !.loading = "no", !.pending = FALSE,
                                      !.loaded = nobody]
      OBVIOUS
    <2>3. /\ center.loading = "read" /\ UNCHANGED <<entries, token, completed, cancels>>
          /\ center' = IF center.pending THEN Work!Refresh(c) ELSE c
      BY <1>5, <2>1, <2>2 DEF Work!LoadReturns, Work!managerVars
    <2>4. /\ c \in Work!Center /\ c.loading = "no" /\ c.pending = FALSE /\ c.tasks = center.loaded
          /\ c.unread = center.unread
      BY <1>1, <2>2 DEF Work!Center
    <2>5. CASE center.pending
      <3>1. /\ center' \in Work!Center /\ (center'.pending \/ center'.loading = "asked")
            /\ center'.pending => center'.loading # "no"
        BY <2>3, <2>4, <2>5, RefreshIsDue
      <3> QED BY <1>1, <2>3, <3>1 DEF Work!ManagerTypes, Work!CenterInv, Work!Due
    <2>6. CASE ~center.pending
      <3>1. center' = c
        BY <2>3, <2>6
      <3>2. Work!CenterInv'
        BY <2>3, <2>4, <2>6, <3>1 DEF Work!CenterInv, Work!Due
      <3> QED BY <1>1, <2>3, <2>4, <3>1, <3>2 DEF Work!ManagerTypes
    <2> QED BY <2>5, <2>6
  <1>6. CASE \E t \in C : Work!AskCancel(t)
    <2>1. PICK t \in C : Work!AskCancel(t)
      BY <1>6
    <2>2. /\ cancels' = [cancels EXCEPT ![t] = "asked"] /\ cancels[t] = Nothing
          /\ UNCHANGED <<entries, token, completed, center>>
      BY <2>1 DEF Work!AskCancel, Work!managerVars
    <2>3. cancels' \in [Tasks -> Work!Requests]
      BY <1>1, <2>2 DEF Work!Requests
    <2>4. (\E u \in Tasks : cancels[u] = "answered") => (\E u \in Tasks : cancels'[u] = "answered")
      BY <1>1, <2>2 DEF Work!ConstantsAssumption
    <2>5. Work!CenterInv'
      BY <2>2, <2>4 DEF Work!CenterInv, Work!Due
    <2> QED BY <1>1, <2>2, <2>3, <2>5 DEF Work!ManagerTypes
  <1>7. CASE \E t \in C : Work!CancelTask(t)
    <2>1. PICK t \in C : Work!CancelTask(t)
      BY <1>7
    <2>2. /\ cancels' = [cancels EXCEPT ![t] = "answered"] /\ UNCHANGED <<completed, center>>
          /\ \/ /\ entries[t] # Nothing /\ ~Work!IsTerminal(entries[t])
                /\ token' = [token EXCEPT ![t] = TRUE]
                /\ entries' = [entries EXCEPT ![t].status = "Cancelling"]
             \/ UNCHANGED <<token, entries>>
      BY <2>1 DEF Work!CancelTask
    <2>3. cancels' \in [Tasks -> Work!Requests] /\ cancels'[t] = "answered" /\ t \in Tasks
      BY <1>1, <2>2 DEF Work!Requests
    <2>4. Work!CenterInv'
      BY <2>2, <2>3 DEF Work!CenterInv, Work!Due
    <2>5. CASE UNCHANGED <<token, entries>>
      BY <1>1, <2>2, <2>3, <2>4, <2>5 DEF Work!ManagerTypes
    <2>6. CASE /\ entries[t] # Nothing /\ ~Work!IsTerminal(entries[t])
               /\ token' = [token EXCEPT ![t] = TRUE]
               /\ entries' = [entries EXCEPT ![t].status = "Cancelling"]
      <3>1. PICK e : e = [entries[t] EXCEPT !.status = "Cancelling"]
        OBVIOUS
      <3>2. entries[t] \in Work!Entry
        BY <2>3, <2>6, <1>1 DEF Work!Listing
      <3>3. e \in Work!Entry /\ e.status = "Cancelling"
        BY <3>1, <3>2 DEF Work!Entry
      <3>4. entries' = [entries EXCEPT ![t] = e]
        BY <2>6, <3>1
      <3>5. entries' \in Work!Listing /\ entries'[t] = e /\ \A u \in Tasks \ {t} : entries'[u] = entries[u]
        BY <2>3, <3>3, <3>4, EntrySet
      <3>6. e # Nothing
        BY <3>3 DEF Work!ConstantsAssumption
      <3>7. token' \in [Tasks -> BOOLEAN] /\ \A u \in Tasks : token[u] => token'[u]
        BY <1>1, <2>6
      <3>8. Work!ManagerTypes'
        BY <1>1, <2>2, <2>3, <3>5, <3>7 DEF Work!ManagerTypes
      <3> QED BY <2>2, <2>4, <2>6, <3>3, <3>5, <3>6, <3>7, <3>8
    <2> QED BY <2>2, <2>5, <2>6
  <1>8. CASE \E t \in C : Work!CancelReturns(t)
    <2>1. PICK t \in C : Work!CancelReturns(t)
      BY <1>8
    <2>2. /\ cancels' = [cancels EXCEPT ![t] = Nothing] /\ center' = Work!Refresh(center)
          /\ UNCHANGED <<entries, token, completed>>
      BY <2>1 DEF Work!CancelReturns, Work!managerVars
    <2>3. cancels' \in [Tasks -> Work!Requests]
      BY <1>1, <2>2 DEF Work!Requests
    <2>4. /\ center' \in Work!Center /\ (center'.pending \/ center'.loading = "asked")
          /\ center'.pending => center'.loading # "no"
      BY <1>1, <1>2, <2>2, RefreshIsDue
    <2> QED BY <1>1, <2>2, <2>3, <2>4 DEF Work!ManagerTypes, Work!CenterInv, Work!Due
  <1> QED BY <1>3, <1>4, <1>5, <1>6, <1>7, <1>8 DEF Work!CenterNext

(* The workers.                                                             *)

\* A step of one worker leaves what belongs to the other tasks.
Alone(t) ==
  \A u \in Tasks \ {t} :
    /\ worker'[u] = worker[u] /\ pipe'[u] = pipe[u] /\ dest'[u] = dest[u]
    /\ output'[u] = output[u] /\ late'[u] = late[u] /\ (u \in crashed' <=> u \in crashed)

LEMMA OthersStay ==
  ASSUME NEW u \in Tasks, Work!WorkInv(u), UNCHANGED limits, token[u] => token'[u],
         worker'[u] = worker[u], pipe'[u] = pipe[u], dest'[u] = dest[u],
         output'[u] = output[u], late'[u] = late[u], u \in crashed' <=> u \in crashed
  PROVE  Work!WorkInv(u)'
  <1>1. Work!CopyInv(u) => Work!CopyInv(u)'
    BY DEF Work!CopyInv, Work!Wrote, Work!Before, Work!Units, Work!HasStructure, Work!HasData
  <1>2. Work!RestoreInv(u) => Work!RestoreInv(u)'
    BY DEF Work!RestoreInv, Work!Wrote, Work!Before, Work!Units, Work!HasStructure
  <1>3. Work!BackupInv(u) => Work!BackupInv(u)'
    BY DEF Work!BackupInv
  <1>4. Work!ExportInv(u) => Work!ExportInv(u)'
    <2>1. SUFFICES ASSUME Work!ExportState(worker[u], pipe[u], token[u], Work!Units, output[u])
                   PROVE  Work!ExportState(worker[u], pipe[u], token'[u], Work!Units, output[u])
      BY DEF Work!ExportInv, Work!Units
    <2> QED BY <2>1 DEF Work!ExportState
  <1>5. Work!Settled(u) => Work!Settled(u)'
    <2>1. Work!WholeCopy(u)' = Work!WholeCopy(u)
      BY DEF Work!WholeCopy, Work!Units, Work!HasStructure, Work!HasData
    <2> QED BY <2>1 DEF Work!Settled, Work!Tells
  <1> QED BY <1>1, <1>2, <1>3, <1>4, <1>5 DEF Work!WorkInv, Work!Running

LEMMA WorkerSet ==
  ASSUME Work!WorkTypes, NEW t \in Tasks, NEW n \in Work!Worker, Work!To(t, n)
  PROVE  /\ worker' \in [Tasks -> Work!Worker] /\ worker'[t] = n
         /\ \A u \in Tasks \ {t} : worker'[u] = worker[u]
  BY DEF Work!WorkTypes, Work!To

\* What a step may change besides its worker: what it wrote, once after the
\* cancellation.
Touches(t) ==
  /\ UNCHANGED <<limits, pipe, output, crashed>>
  /\ dest' \in [Tasks -> SUBSET Nat] /\ late' \in [Tasks -> Nat]
  /\ \A u \in Tasks \ {t} : dest'[u] = dest[u] /\ late'[u] = late[u]
  /\ late'[t] <= 1 /\ (late'[t] > 0 => token[t])

LEMMA NothingWritten ==
  ASSUME Work!WorkTypes, NEW t \in Tasks, Work!WorkInv(t), Work!OnlyWorker
  PROVE  Touches(t) /\ dest' = dest /\ late' = late
  BY DEF Work!WorkTypes, Work!WorkInv, Work!OnlyWorker, Touches

LEMMA OneWritten ==
  ASSUME Work!WorkTypes, NEW t \in Tasks, NEW unit \in Nat, late[t] = 0, Work!Writes(t, unit)
  PROVE  Touches(t) /\ dest'[t] = dest[t] \cup {unit}
  BY DEF Work!WorkTypes, Work!Writes, Touches

LEMMA WorkerReturns ==
  ASSUME NEW w \in Work!Worker, NEW o \in Work!TerminalStatus
  PROVE  LET n == Work!Returns(w, o) IN
         /\ n \in Work!Worker /\ n.pc = "returned" /\ n.outcome = o
         /\ n.kind = w.kind /\ n.content = w.content
  <1>1. PICK n : n = [w EXCEPT !.pc = "returned", !.outcome = o]
    OBVIOUS
  <1>2. n \in Work!Worker /\ n.pc = "returned" /\ n.outcome = o /\ n.kind = w.kind /\ n.content = w.content
    BY <1>1 DEF Work!Worker
  <1> QED BY <1>1, <1>2 DEF Work!Returns

LEMMA WorkerGoes ==
  ASSUME NEW w \in Work!Worker,
         NEW pc \in Work!CopyPcs \cup Work!RestorePcs \cup Work!BackupPcs \cup Work!ExportPcs
  PROVE  LET n == [w EXCEPT !.pc = pc] IN
         /\ n \in Work!Worker /\ n.pc = pc
         /\ n.kind = w.kind /\ n.content = w.content /\ n.unit = w.unit /\ n.page = w.page
         /\ n.applied = w.applied /\ n.failed = w.failed /\ n.badRows = w.badRows
  BY DEF Work!Worker

\* What the outcomes say of the effects.
LEMMA InterruptedSays ==
  ASSUME NEW w, w.applied \in Nat, w.failed \in Nat, NEW why \in {"Cancelled", "Failed"}
  PROVE  LET o == Work!Interrupted(w, why) IN
         /\ o \in Work!TerminalStatus /\ o # "Completed"
         /\ o = "Partial" <=> w.applied # 0
  BY DEF Work!Interrupted, Work!TerminalStatus

LEMMA FinishedSays ==
  ASSUME NEW w, w.applied \in Nat, w.failed \in Nat
  PROVE  LET o == Work!FinishEffects(w) IN
         /\ o \in Work!TerminalStatus
         /\ o = "Completed" <=> w.failed = 0
         /\ o = "Partial" => w.applied # 0
         /\ o \in {"Cancelled", "Failed"} => w.applied = 0
  BY DEF Work!FinishEffects, Work!TerminalStatus

\* A copy or a restore that returns, and one that goes on.
LEMMA DatabaseReturns ==
  ASSUME Work!WorkTypes, NEW t \in Tasks, Work!WorkInv(t), Work!Running(t),
         worker[t].kind \in {"copy", "restore"},
         NEW n \in Work!Worker, n.pc = "returned", n.outcome \in Work!TerminalStatus,
         n.kind = worker[t].kind, n.content = worker[t].content,
         Work!ConstantsAssumption, Work!To(t, n), Touches(t), UNCHANGED token,
         n.outcome = "Completed" => dest'[t] = Work!WholeCopy(t),
         n.outcome = "Partial" => dest'[t] # {},
         n.outcome \in {"Cancelled", "Failed"} => dest'[t] = {}
  PROVE  Work!WorkTypes' /\ Work!WorkInv(t)' /\ Alone(t)
  <1>1. /\ worker' \in [Tasks -> Work!Worker] /\ worker'[t] = n
        /\ \A u \in Tasks \ {t} : worker'[u] = worker[u]
    BY WorkerSet
  <1>2. Work!WorkTypes' /\ Alone(t)
    BY <1>1 DEF Work!WorkTypes, Touches, Alone
  <1>3. Work!WholeCopy(t)' = Work!WholeCopy(t)
    BY <1>1 DEF Work!WholeCopy, Work!HasStructure, Work!HasData, Work!Units, Touches
  <1>4. Work!Tells(t, n.outcome)'
    BY <1>1, <1>3 DEF Work!Tells
  <1>5. pipe'[t].writer = "new" /\ ~pipe'[t].closed
    BY DEF Work!WorkInv, Touches
  <1>6. Work!Settled(t)'
    BY <1>1, <1>4, <1>5 DEF Work!Settled
  <1>7. n.outcome # Nothing
    BY DEF Work!ConstantsAssumption
  <1> QED BY <1>1, <1>2, <1>5, <1>6, <1>7 DEF Work!WorkInv, Work!Running, Touches

LEMMA DatabaseGoesOn ==
  ASSUME Work!WorkTypes, NEW t \in Tasks, Work!WorkInv(t), Work!Running(t),
         worker[t].kind \in {"copy", "restore"},
         NEW n \in Work!Worker, n.kind = worker[t].kind, n.pc \notin {"none", "returned", "gone"},
         late'[t] > 0 => n.pc \notin {"create", "insert", "execute"},
         Work!ConstantsAssumption, Work!To(t, n), Touches(t), UNCHANGED token,
         n.kind = "copy" => Work!CopyInv(t)', n.kind = "restore" => Work!RestoreInv(t)'
  PROVE  Work!WorkTypes' /\ Work!WorkInv(t)' /\ Alone(t)
  <1>1. /\ worker' \in [Tasks -> Work!Worker] /\ worker'[t] = n
        /\ \A u \in Tasks \ {t} : worker'[u] = worker[u]
    BY WorkerSet
  <1>2. Work!WorkTypes' /\ Alone(t)
    BY <1>1 DEF Work!WorkTypes, Touches, Alone
  <1>3. pipe'[t].writer = "new" /\ ~pipe'[t].closed
    BY DEF Work!WorkInv, Touches
  <1> QED BY <1>1, <1>2, <1>3 DEF Work!WorkInv, Work!Running, Touches

\* What every step of a running worker comes to.
StepOf(t) ==
  /\ Work!WorkTypes' /\ Work!WorkInv(t)' /\ Alone(t)
  /\ Reports(t) /\ UNCHANGED limits
  /\ Work!Running(t) /\ worker'[t].pc \notin {"none", "gone"}

LEMMA ReportsLeaveToken ==
  ASSUME NEW t \in Tasks, Reports(t)
  PROVE  UNCHANGED token
  BY DEF Reports, Work!Progress, Work!managerVars, Work!centerVars

\* The invariant of a worker at one of the steps of a copy.
LEMMA CopyAt ==
  ASSUME Work!ConstantsAssumption, Work!WorkTypes, NEW t \in Tasks, Work!WorkInv(t),
         worker[t].kind = "copy", worker[t].pc \in Work!CopyPcs
  PROVE  /\ Work!Running(t) /\ Work!CopyInv(t) /\ worker[t] \in Work!Worker /\ t \notin crashed
         /\ Work!Units \in Nat /\ limits.pageSize \in Nat \ {0}
         /\ late[t] > 0 => token[t]
  BY DEF Work!Running, Work!WorkInv, Work!CopyPcs, Work!WorkTypes, Work!ConstantsAssumption, Work!Units

\* A copy or restore that is interrupted, one that comes to its end, and one that
\* goes on.  The rest of its worker is `w`, with what it wrote counted.
LEMMA DatabaseInterrupted ==
  ASSUME Work!ConstantsAssumption, Work!WorkTypes, NEW t \in Tasks, Work!WorkInv(t),
         Work!Running(t), worker[t].kind \in {"copy", "restore"},
         NEW w \in Work!Worker, w.kind = worker[t].kind, w.content = worker[t].content,
         NEW why \in {"Cancelled", "Failed"},
         Work!To(t, Work!Returns(w, Work!Interrupted(w, why))),
         Touches(t), Reports(t), dest'[t] = {} <=> w.applied = 0
  PROVE  StepOf(t)
  <1> DEFINE o == Work!Interrupted(w, why)
             n == Work!Returns(w, o)
  <1>1. o \in Work!TerminalStatus /\ o # "Completed" /\ (o = "Partial" <=> w.applied # 0)
    <2>1. w.applied \in Nat /\ w.failed \in Nat
      BY DEF Work!Worker
    <2> QED BY <2>1, InterruptedSays
  <1>2. Work!To(t, n)
    OBVIOUS
  <1> HIDE DEF o
  <1>3. /\ n \in Work!Worker /\ n.pc = "returned" /\ n.outcome = o
        /\ n.kind = w.kind /\ n.content = w.content
    BY <1>1, WorkerReturns
  <1> HIDE DEF n
  <1>4. /\ n.outcome # "Completed" /\ (n.outcome = "Partial" => dest'[t] # {})
        /\ n.outcome \in {"Cancelled", "Failed"} => dest'[t] = {}
    BY <1>1, <1>3
  <1>5. UNCHANGED token
    BY ReportsLeaveToken
  <1>6. Work!WorkTypes' /\ Work!WorkInv(t)' /\ Alone(t)
    <2>1. n.kind = worker[t].kind /\ n.content = worker[t].content /\ n.outcome \in Work!TerminalStatus
      BY <1>1, <1>3
    <2> QED BY <1>2, <1>3, <1>4, <1>5, <2>1, DatabaseReturns
  <1>7. worker'[t] = n
    BY <1>2, <1>3, WorkerSet
  <1> QED BY <1>3, <1>6, <1>7 DEF StepOf, Touches

LEMMA DatabaseFinishes ==
  ASSUME Work!ConstantsAssumption, Work!WorkTypes, NEW t \in Tasks, Work!WorkInv(t),
         Work!Running(t), worker[t].kind \in {"copy", "restore"},
         NEW w \in Work!Worker, w.kind = worker[t].kind, w.content = worker[t].content,
         Work!To(t, Work!Returns(w, Work!FinishEffects(w))),
         Touches(t), Reports(t), dest'[t] = {} <=> w.applied = 0,
         w.failed = 0 => dest'[t] = Work!WholeCopy(t)
  PROVE  StepOf(t)
  <1> DEFINE o == Work!FinishEffects(w)
             n == Work!Returns(w, o)
  <1>1. /\ o \in Work!TerminalStatus
        /\ o = "Completed" <=> w.failed = 0
        /\ o = "Partial" => w.applied # 0
        /\ o \in {"Cancelled", "Failed"} => w.applied = 0
    <2>1. w.applied \in Nat /\ w.failed \in Nat
      BY DEF Work!Worker
    <2> QED BY <2>1, FinishedSays
  <1>2. Work!To(t, n)
    OBVIOUS
  <1> HIDE DEF o
  <1>3. /\ n \in Work!Worker /\ n.pc = "returned" /\ n.outcome = o
        /\ n.kind = w.kind /\ n.content = w.content
    BY <1>1, WorkerReturns
  <1> HIDE DEF n
  <1>4. /\ n.outcome = "Completed" => dest'[t] = Work!WholeCopy(t)
        /\ n.outcome = "Partial" => dest'[t] # {}
        /\ n.outcome \in {"Cancelled", "Failed"} => dest'[t] = {}
    BY <1>1, <1>3
  <1>5. UNCHANGED token
    BY ReportsLeaveToken
  <1>6. Work!WorkTypes' /\ Work!WorkInv(t)' /\ Alone(t)
    <2>1. n.kind = worker[t].kind /\ n.content = worker[t].content /\ n.outcome \in Work!TerminalStatus
      BY <1>1, <1>3
    <2> QED BY <1>2, <1>3, <1>4, <1>5, <2>1, DatabaseReturns
  <1>7. worker'[t] = n
    BY <1>2, <1>3, WorkerSet
  <1> QED BY <1>3, <1>6, <1>7 DEF StepOf, Touches

LEMMA DatabaseAdvances ==
  ASSUME Work!ConstantsAssumption, Work!WorkTypes, NEW t \in Tasks, Work!WorkInv(t),
         Work!Running(t), worker[t].kind \in {"copy", "restore"},
         NEW n \in Work!Worker, n.kind = worker[t].kind, n.pc \notin {"none", "returned", "gone"},
         Work!To(t, n), Touches(t), Reports(t),
         late'[t] > 0 => n.pc \notin {"create", "insert", "execute"},
         n.kind = "copy" => Work!CopyInv(t)', n.kind = "restore" => Work!RestoreInv(t)'
  PROVE  StepOf(t)
  <1>1. UNCHANGED token
    BY ReportsLeaveToken
  <1>2. Work!WorkTypes' /\ Work!WorkInv(t)' /\ Alone(t)
    BY <1>1, DatabaseGoesOn
  <1>3. worker'[t] = n
    BY WorkerSet
  <1> QED BY <1>2, <1>3 DEF StepOf, Touches

LEMMA CopyChecksKeeps ==
  ASSUME Work!ConstantsAssumption, Work!WorkTypes, NEW t \in Tasks, Work!WorkInv(t),
         Work!CopyChecks(t)
  PROVE  StepOf(t)
  <1> DEFINE w == worker[t]
  <1>1. PICK next \in {<<"structure", "describe">>, <<"recheck", "create">>, <<"page", "read">>} :
          /\ Work!At(t, "copy", next[1])
          /\ Work!To(t, IF token[t] THEN Work!Returns(w, Work!Interrupted(w, "Cancelled"))
                        ELSE [w EXCEPT !.pc = next[2]])
    BY DEF Work!CopyChecks
  <1>2. /\ w.kind = "copy" /\ w.pc = next[1] /\ w.pc \in {"structure", "recheck", "page"}
        /\ next[2] \in {"describe", "create", "read"}
        /\ next[2] = "read" <=> w.pc = "page"
    BY <1>1 DEF Work!At
  <1>3. /\ Work!Running(t) /\ Work!CopyInv(t) /\ w \in Work!Worker /\ (late[t] > 0 => token[t])
    BY <1>2, CopyAt DEF Work!CopyPcs
  <1>4. Touches(t) /\ dest' = dest /\ late' = late /\ Reports(t)
    BY NothingWritten DEF Work!CopyChecks, Work!Quietly, Reports
  <1>5. CASE token[t]
    <2>1. Work!To(t, Work!Returns(w, Work!Interrupted(w, "Cancelled")))
      BY <1>1, <1>5
    <2>2. dest'[t] = {} <=> w.applied = 0
      BY <1>2, <1>3, <1>4 DEF Work!CopyInv, Work!Wrote
    <2> QED BY <1>2, <1>3, <1>4, <2>1, <2>2, DatabaseInterrupted
  <1>6. CASE ~token[t]
    <2> DEFINE n == [w EXCEPT !.pc = next[2]]
    <2>1. /\ n \in Work!Worker /\ n.pc = next[2]
          /\ n.kind = w.kind /\ n.content = w.content /\ n.unit = w.unit
          /\ n.applied = w.applied /\ n.failed = w.failed /\ n.badRows = w.badRows
      BY <1>2, <1>3, WorkerGoes DEF Work!CopyPcs
    <2>2. Work!To(t, n)
      BY <1>1, <1>6
    <2>3. worker'[t] = n
      BY <2>1, <2>2, WorkerSet
    <2> HIDE DEF n
    <2>4. Work!CopyInv(t)'
      BY <1>2, <1>3, <1>4, <2>1, <2>3
      DEF Work!CopyInv, Work!CopyPcs, Work!Wrote, Work!Before, Work!Units, Work!HasStructure,
          Work!HasData, Touches
    <2> QED BY <1>2, <1>3, <1>4, <1>6, <2>1, <2>2, <2>4, DatabaseAdvances
  <1> QED BY <1>5, <1>6

LEMMA CopyDescribesKeeps ==
  ASSUME Work!ConstantsAssumption, Work!WorkTypes, NEW t \in Tasks, Work!WorkInv(t),
         Work!CopyDescribes(t)
  PROVE  StepOf(t)
  <1> DEFINE w == worker[t]
             n == [w EXCEPT !.pc = "recheck"]
  <1>1. /\ w.kind = "copy" /\ w.pc = "describe"
        /\ \/ Work!To(t, n)
           \/ Work!To(t, Work!Returns(w, Work!Interrupted(w, "Failed")))
    BY DEF Work!CopyDescribes, Work!At
  <1>2. /\ Work!Running(t) /\ Work!CopyInv(t) /\ w \in Work!Worker
    BY <1>1, CopyAt DEF Work!CopyPcs
  <1>3. Touches(t) /\ dest' = dest /\ late' = late /\ Reports(t)
    BY NothingWritten DEF Work!CopyDescribes, Work!Quietly, Reports
  <1>4. CASE Work!To(t, Work!Returns(w, Work!Interrupted(w, "Failed")))
    <2>1. dest'[t] = {} <=> w.applied = 0
      BY <1>1, <1>2, <1>3 DEF Work!CopyInv
    <2> QED BY <1>1, <1>2, <1>3, <1>4, <2>1, DatabaseInterrupted
  <1>5. CASE Work!To(t, n)
    <2>1. /\ n \in Work!Worker /\ n.pc = "recheck"
          /\ n.kind = w.kind /\ n.content = w.content /\ n.unit = w.unit
          /\ n.applied = w.applied /\ n.failed = w.failed /\ n.badRows = w.badRows
      BY <1>2, WorkerGoes DEF Work!CopyPcs
    <2>2. worker'[t] = n
      BY <2>1, <1>5, WorkerSet
    <2> HIDE DEF n
    <2>3. Work!CopyInv(t)'
      BY <1>1, <1>2, <1>3, <2>1, <2>2 DEF Work!CopyInv, Work!CopyPcs, Work!HasStructure, Touches
    <2> QED BY <1>1, <1>2, <1>3, <1>5, <2>1, <2>3, DatabaseAdvances
  <1> QED BY <1>1, <1>4, <1>5

LEMMA CopyCreatesKeeps ==
  ASSUME Work!ConstantsAssumption, Work!WorkTypes, NEW t \in Tasks, Work!WorkInv(t),
         Work!CopyCreates(t)
  PROVE  StepOf(t)
  <1> DEFINE w == worker[t]
             more == [w EXCEPT !.applied = @ + 1]
             n == [more EXCEPT !.pc = "page"]
  <1>1. /\ w.kind = "copy" /\ w.pc = "create"
        /\ \/ Work!To(t, Work!Returns(w, Work!Interrupted(w, "Failed"))) /\ Work!Quietly
           \/ /\ Work!Writes(t, 0)
              /\ IF Work!HasData(more) THEN Work!To(t, n) /\ Work!Progress(t, 1)
                 ELSE /\ Work!To(t, Work!Returns(more, Work!FinishEffects(more)))
                      /\ UNCHANGED <<Work!managerVars, Work!centerVars>>
    BY DEF Work!CopyCreates, Work!At
  <1>2. /\ Work!Running(t) /\ Work!CopyInv(t) /\ w \in Work!Worker /\ late[t] = 0
    <2>1. late[t] = 0
      BY <1>1 DEF Work!WorkInv, Work!WorkTypes
    <2> QED BY <1>1, <2>1, CopyAt DEF Work!CopyPcs
  <1>3. /\ Work!HasStructure(w) /\ w.unit = 1 /\ dest[t] = {} /\ w.applied = 0 /\ w.failed = 0
        /\ w.badRows = 0
    BY <1>1, <1>2 DEF Work!CopyInv
  <1>4. CASE Work!To(t, Work!Returns(w, Work!Interrupted(w, "Failed"))) /\ Work!Quietly
    <2>1. Touches(t) /\ dest' = dest /\ Reports(t)
      BY <1>4, NothingWritten DEF Work!Quietly, Reports
    <2> QED BY <1>1, <1>2, <1>3, <1>4, <2>1, DatabaseInterrupted
  <1>5. CASE /\ Work!Writes(t, 0)
             /\ IF Work!HasData(more) THEN Work!To(t, n) /\ Work!Progress(t, 1)
                ELSE /\ Work!To(t, Work!Returns(more, Work!FinishEffects(more)))
                     /\ UNCHANGED <<Work!managerVars, Work!centerVars>>
    <2>1. Touches(t) /\ dest'[t] = {0} /\ Reports(t)
      BY <1>2, <1>3, <1>5, OneWritten DEF Reports
    <2>2. /\ more \in Work!Worker /\ more.kind = w.kind /\ more.content = w.content /\ more.unit = w.unit
          /\ more.applied = 1 /\ more.failed = w.failed /\ more.badRows = w.badRows
      BY <1>2, <1>3 DEF Work!Worker
    <2> HIDE DEF more
    <2>3. CASE Work!HasData(more)
      <3>1. /\ n \in Work!Worker /\ n.pc = "page"
            /\ n.kind = w.kind /\ n.content = w.content /\ n.unit = w.unit
            /\ n.applied = 1 /\ n.failed = w.failed /\ n.badRows = w.badRows
        BY <2>2, WorkerGoes DEF Work!CopyPcs
      <3>2. Work!To(t, n)
        BY <1>5, <2>3
      <3>3. worker'[t] = n
        BY <3>1, <3>2, WorkerSet
      <3> HIDE DEF n
      <3>4. Work!CopyInv(t)'
        <4>1. Work!Units' = Work!Units /\ Work!Units \in Nat
          <5>1. Work!Units \in Nat
            BY <1>1, CopyAt DEF Work!CopyPcs
          <5> QED BY <2>1, <5>1 DEF Work!Units, Touches
        <4>2. Work!Before(n) = {0}
          BY <1>3, <3>1 DEF Work!Before, Work!HasStructure
        <4>3. Work!HasData(n)
          BY <2>2, <2>3, <3>1 DEF Work!HasData
        <4> QED BY <1>3, <2>1, <3>1, <3>3, <4>1, <4>2, <4>3 DEF Work!CopyInv, Work!CopyPcs, Work!Wrote
      <3> QED BY <1>1, <1>2, <2>1, <3>1, <3>2, <3>4, DatabaseAdvances
    <2>4. CASE ~Work!HasData(more)
      <3>1. Work!WholeCopy(t) = {0}
        BY <1>3, <2>2, <2>4 DEF Work!WholeCopy, Work!HasData, Work!HasStructure
      <3>2. Work!To(t, Work!Returns(more, Work!FinishEffects(more)))
        BY <1>5, <2>4
      <3>3. (dest'[t] = {} <=> more.applied = 0) /\ dest'[t] = Work!WholeCopy(t)
        BY <2>1, <2>2, <3>1
      <3> QED BY <1>1, <1>2, <2>1, <2>2, <3>2, <3>3, DatabaseFinishes
    <2> QED BY <2>3, <2>4
  <1> QED BY <1>1, <1>4, <1>5

LEMMA CopyReadsKeeps ==
  ASSUME Work!ConstantsAssumption, Work!WorkTypes, NEW t \in Tasks, Work!WorkInv(t),
         Work!CopyReads(t)
  PROVE  StepOf(t)
  <1> DEFINE w == worker[t]
             broken == [w EXCEPT !.failed = @ + 1]
             n == [w EXCEPT !.pc = "row"]
  <1>1. /\ w.kind = "copy" /\ w.pc = "read"
        /\ \/ Work!To(t, Work!Returns(w, Work!Interrupted(w, "Failed")))
           \/ Work!To(t, Work!Returns(broken, Work!FinishEffects(broken)))
           \/ w.unit > Work!Units /\ Work!To(t, Work!Returns(w, Work!FinishEffects(w)))
           \/ ~(w.unit > Work!Units) /\ Work!To(t, n)
    <2> HIDE DEF broken, n
    <2>1. w.kind = "copy" /\ w.pc = "read"
      BY DEF Work!CopyReads, Work!At
    <2>2. PICK a \in Work!Answers("source") :
            Work!To(t, CASE a = "gone" -> Work!Returns(w, Work!Interrupted(w, "Failed"))
                         [] a = "error" -> Work!Returns(broken, Work!FinishEffects(broken))
                         [] a = "ok" /\ w.unit > Work!Units -> Work!Returns(w, Work!FinishEffects(w))
                         [] OTHER -> n)
      BY DEF Work!CopyReads, broken, n
    <2>3. a \in {"gone", "error", "ok"}
      BY DEF Work!Answers
    <2> QED BY <2>1, <2>2, <2>3
  <1>2. /\ Work!Running(t) /\ Work!CopyInv(t) /\ w \in Work!Worker /\ Work!Units \in Nat
        /\ late[t] > 0 => token[t]
    BY <1>1, CopyAt DEF Work!CopyPcs
  <1>3. Touches(t) /\ dest' = dest /\ late' = late /\ Reports(t)
    BY NothingWritten DEF Work!CopyReads, Work!Quietly, Reports
  <1>4. /\ dest'[t] = {} <=> w.applied = 0
        /\ w.failed = 0 => dest'[t] = Work!Before(w)
        /\ w.unit \in 1..Work!Units + 1 /\ Work!HasData(w) /\ w.badRows = 0
    BY <1>1, <1>2, <1>3 DEF Work!CopyInv, Work!Wrote
  <1>5. CASE Work!To(t, Work!Returns(w, Work!Interrupted(w, "Failed")))
    BY <1>1, <1>2, <1>3, <1>4, <1>5, DatabaseInterrupted
  <1>6. CASE Work!To(t, Work!Returns(broken, Work!FinishEffects(broken)))
    <2>1. /\ broken \in Work!Worker /\ broken.kind = w.kind /\ broken.content = w.content
          /\ broken.applied = w.applied /\ broken.failed # 0
      BY <1>2 DEF Work!Worker
    <2> HIDE DEF broken
    <2> QED BY <1>1, <1>2, <1>3, <1>4, <1>6, <2>1, DatabaseFinishes
  <1>7. CASE w.unit > Work!Units /\ Work!To(t, Work!Returns(w, Work!FinishEffects(w)))
    <2>1. Work!Before(w) = Work!WholeCopy(t)
      BY <1>2, <1>4, <1>7 DEF Work!Before, Work!WholeCopy
    <2> QED BY <1>1, <1>2, <1>3, <1>4, <1>7, <2>1, DatabaseFinishes
  <1>8. CASE ~(w.unit > Work!Units) /\ Work!To(t, n)
    <2>1. /\ n \in Work!Worker /\ n.pc = "row"
          /\ n.kind = w.kind /\ n.content = w.content /\ n.unit = w.unit
          /\ n.applied = w.applied /\ n.failed = w.failed /\ n.badRows = w.badRows
      BY <1>2, WorkerGoes DEF Work!CopyPcs
    <2>2. worker'[t] = n
      BY <1>8, <2>1, WorkerSet
    <2> HIDE DEF n
    <2>3. Work!CopyInv(t)'
      <3>1. Work!Units' = Work!Units
        BY <1>3 DEF Work!Units, Touches
      <3>2. Work!Before(n) = Work!Before(w) /\ Work!HasData(n)
        BY <1>4, <2>1 DEF Work!Before, Work!HasStructure, Work!HasData
      <3> QED BY <1>2, <1>4, <1>8, <2>1, <2>2, <3>1, <3>2 DEF Work!CopyInv, Work!CopyPcs, Work!Wrote
    <2> QED BY <1>1, <1>2, <1>3, <1>8, <2>1, <2>3, DatabaseAdvances
  <1> QED BY <1>1, <1>5, <1>6, <1>7, <1>8

\* The rows that failed since the page began are counted.
LEMMA RowsRecorded ==
  ASSUME NEW w \in Work!Worker
  PROVE  LET n == Work!Recorded(w) IN
         /\ n \in Work!Worker /\ n.kind = w.kind /\ n.content = w.content /\ n.pc = w.pc
         /\ n.unit = w.unit /\ n.applied = w.applied /\ n.badRows = 0
         /\ n.failed = w.failed + w.badRows
         /\ n.failed = 0 => w.failed = 0 /\ w.badRows = 0
  <1>1. PICK total \in Nat : total = w.failed + w.badRows
    BY DEF Work!Worker
  <1>2. PICK n : n = [w EXCEPT !.failed = total, !.badRows = 0]
    OBVIOUS
  <1>3. n \in Work!Worker /\ n.failed = total /\ n.badRows = 0
    BY <1>2 DEF Work!Worker
  <1>4. /\ n.kind = w.kind /\ n.content = w.content /\ n.pc = w.pc /\ n.unit = w.unit
        /\ n.applied = w.applied
    BY <1>2 DEF Work!Worker
  <1>5. Work!Recorded(w) = n
    BY <1>1, <1>2 DEF Work!Recorded
  <1>6. total = 0 => w.failed = 0 /\ w.badRows = 0
    BY <1>1 DEF Work!Worker
  <1> QED BY <1>1, <1>3, <1>4, <1>5, <1>6

LEMMA CopyChecksRowKeeps ==
  ASSUME Work!ConstantsAssumption, Work!WorkTypes, NEW t \in Tasks, Work!WorkInv(t),
         Work!CopyChecksRow(t)
  PROVE  StepOf(t)
  <1> DEFINE w == worker[t]
             lost == Work!Recorded(w)
             n == [w EXCEPT !.pc = "insert"]
  <1>1. /\ w.kind = "copy" /\ w.pc = "row"
        /\ \/ \E why \in {"Cancelled", "Failed"} :
                Work!To(t, Work!Returns(lost, Work!Interrupted(lost, why)))
           \/ ~token[t] /\ Work!To(t, n)
    BY DEF Work!CopyChecksRow, Work!At
  <1>2. /\ Work!Running(t) /\ Work!CopyInv(t) /\ w \in Work!Worker /\ Work!Units \in Nat
        /\ late[t] > 0 => token[t]
    BY <1>1, CopyAt DEF Work!CopyPcs
  <1>3. Touches(t) /\ dest' = dest /\ late' = late /\ Reports(t)
    BY NothingWritten DEF Work!CopyChecksRow, Work!Quietly, Reports
  <1>4. /\ dest'[t] = {} <=> w.applied = 0
        /\ w.failed = 0 /\ w.badRows = 0 => dest'[t] = Work!Before(w)
        /\ w.unit \in 1..Work!Units + 1 /\ Work!HasData(w) /\ w.unit <= Work!Units
    BY <1>1, <1>2, <1>3 DEF Work!CopyInv, Work!Wrote
  <1>5. CASE \E why \in {"Cancelled", "Failed"} :
               Work!To(t, Work!Returns(lost, Work!Interrupted(lost, why)))
    <2>1. /\ lost \in Work!Worker /\ lost.kind = w.kind /\ lost.content = w.content
          /\ lost.applied = w.applied
      BY <1>2, RowsRecorded
    <2> HIDE DEF lost
    <2>2. dest'[t] = {} <=> lost.applied = 0
      BY <1>4, <2>1
    <2> QED BY <1>1, <1>2, <1>3, <1>5, <2>1, <2>2, DatabaseInterrupted
  <1>6. CASE ~token[t] /\ Work!To(t, n)
    <2>1. /\ n \in Work!Worker /\ n.pc = "insert"
          /\ n.kind = w.kind /\ n.content = w.content /\ n.unit = w.unit
          /\ n.applied = w.applied /\ n.failed = w.failed /\ n.badRows = w.badRows
      BY <1>2, WorkerGoes DEF Work!CopyPcs
    <2>2. worker'[t] = n
      BY <1>6, <2>1, WorkerSet
    <2> HIDE DEF n
    <2>3. Work!CopyInv(t)'
      <3>1. Work!Units' = Work!Units
        BY <1>3 DEF Work!Units, Touches
      <3>2. Work!Before(n) = Work!Before(w) /\ Work!HasData(n)
        BY <1>4, <2>1 DEF Work!Before, Work!HasStructure, Work!HasData
      <3> QED BY <1>2, <1>4, <2>1, <2>2, <3>1, <3>2 DEF Work!CopyInv, Work!CopyPcs, Work!Wrote
    <2> QED BY <1>1, <1>2, <1>3, <1>6, <2>1, <2>3, DatabaseAdvances
  <1> QED BY <1>1, <1>5, <1>6

\* After a row, written or failed: `w` counts it.
LEMMA AfterRowKeeps ==
  ASSUME Work!ConstantsAssumption, Work!WorkTypes, NEW t \in Tasks, Work!WorkInv(t),
         Work!At(t, "copy", "insert"),
         NEW w \in Work!Worker, w.kind = "copy", w.content = worker[t].content,
         w.unit = worker[t].unit, Touches(t), Work!AfterRow(t, w),
         dest'[t] = {} <=> w.applied = 0,
         w.failed = 0 /\ w.badRows = 0 => dest'[t] = Work!Before(w) \cup {w.unit}
  PROVE  StepOf(t)
  <1> DEFINE next == [w EXCEPT !.unit = @ + 1]
             page == Work!Recorded(next)
             row == [next EXCEPT !.pc = "row"]
             turn == [page EXCEPT !.pc = "page"]
  <1>1. /\ Work!Running(t) /\ Work!CopyInv(t) /\ Work!Units \in Nat /\ limits.pageSize \in Nat \ {0}
        /\ worker[t].kind = "copy" /\ worker[t].pc = "insert"
    BY CopyAt DEF Work!At, Work!CopyPcs
  <1>2. w.unit \in 1..Work!Units /\ Work!HasData(w)
    BY <1>1 DEF Work!CopyInv, Work!Wrote, Work!HasData
  <1>3. /\ next \in Work!Worker /\ next.kind = "copy" /\ next.content = w.content
        /\ next.unit = w.unit + 1 /\ next.applied = w.applied
        /\ next.failed = w.failed /\ next.badRows = w.badRows
    BY <1>2 DEF Work!Worker
  <1>4. /\ \/ w.unit < Work!Units /\ Work!To(t, row)
           \/ Work!To(t, turn)
           \/ w.unit = Work!Units /\ Work!To(t, Work!Returns(page, Work!FinishEffects(page)))
        /\ Reports(t)
    <2>1. (w.unit % limits.pageSize = 0) \in BOOLEAN
      OBVIOUS
    <2> HIDE DEF next, page, row, turn
    <2>2. \/ w.unit < Work!Units /\ Work!To(t, row) /\ UNCHANGED <<Work!managerVars, Work!centerVars>>
          \/ Work!To(t, turn) /\ Work!Progress(t, 1)
          \/ /\ ~(w.unit < Work!Units /\ ~(w.unit % limits.pageSize = 0))
             /\ ~(w.unit % limits.pageSize = 0)
             /\ Work!To(t, Work!Returns(page, Work!FinishEffects(page))) /\ Work!Progress(t, 1)
      BY DEF Work!AfterRow, next, page, row, turn
    <2>3. w.unit \in Int /\ Work!Units \in Int /\ w.unit <= Work!Units
      BY <1>1, <1>2
    <2> QED BY <2>2, <2>3 DEF Reports
  <1> HIDE DEF next
  <1>5. /\ page \in Work!Worker /\ page.kind = "copy" /\ page.content = w.content
        /\ page.unit = w.unit + 1 /\ page.applied = w.applied /\ page.badRows = 0
        /\ page.failed = 0 => w.failed = 0 /\ w.badRows = 0
    BY <1>3, RowsRecorded
  <1> HIDE DEF page
  <1>6. /\ Work!Units' = Work!Units
        /\ \A v : v.unit = w.unit + 1 /\ v.content = w.content =>
                    Work!HasData(v) /\ Work!Before(v) = Work!Before(w) \cup {w.unit}
    <2>1. Work!Units' = Work!Units
      BY DEF Work!Units, Touches
    <2>2. 1..w.unit = 1..(w.unit - 1) \cup {w.unit} /\ w.unit + 1 - 1 = w.unit
      BY <1>2
    <2> QED BY <1>2, <2>1, <2>2 DEF Work!HasData, Work!HasStructure, Work!Before
  <1>7. CASE w.unit < Work!Units /\ Work!To(t, row)
    <2>1. /\ row \in Work!Worker /\ row.pc = "row" /\ row.kind = "copy" /\ row.content = w.content
          /\ row.unit = w.unit + 1 /\ row.applied = w.applied
          /\ row.failed = w.failed /\ row.badRows = w.badRows
      BY <1>3, WorkerGoes DEF Work!CopyPcs
    <2>2. worker'[t] = row
      BY <1>7, <2>1, WorkerSet
    <2> HIDE DEF row
    <2>3. Work!CopyInv(t)'
      <3>1. Work!HasData(row) /\ Work!Before(row) = Work!Before(w) \cup {w.unit}
        BY <1>6, <2>1
      <3>2. row.unit \in 1..Work!Units + 1 /\ row.unit <= Work!Units
        BY <1>1, <1>2, <1>7, <2>1
      <3> QED BY <1>6, <2>1, <2>2, <3>1, <3>2 DEF Work!CopyInv, Work!CopyPcs, Work!Wrote
    <2> QED BY <1>1, <1>4, <1>7, <2>1, <2>3, DatabaseAdvances
  <1>8. CASE Work!To(t, turn)
    <2>1. /\ turn \in Work!Worker /\ turn.pc = "page" /\ turn.kind = "copy" /\ turn.content = w.content
          /\ turn.unit = w.unit + 1 /\ turn.applied = w.applied /\ turn.badRows = 0
          /\ turn.failed = page.failed
      BY <1>5, WorkerGoes DEF Work!CopyPcs
    <2>2. worker'[t] = turn
      BY <1>8, <2>1, WorkerSet
    <2> HIDE DEF turn
    <2>3. Work!CopyInv(t)'
      <3>1. Work!HasData(turn) /\ Work!Before(turn) = Work!Before(w) \cup {w.unit}
        BY <1>6, <2>1
      <3>2. turn.unit \in 1..Work!Units + 1
        BY <1>1, <1>2, <2>1
      <3> QED BY <1>5, <1>6, <2>1, <2>2, <3>1, <3>2 DEF Work!CopyInv, Work!CopyPcs, Work!Wrote
    <2> QED BY <1>1, <1>4, <1>8, <2>1, <2>3, DatabaseAdvances
  <1>9. CASE w.unit = Work!Units /\ Work!To(t, Work!Returns(page, Work!FinishEffects(page)))
    <2>1. Work!Before(page) = Work!WholeCopy(t)
      <3>1. Work!HasData(page) /\ page.unit - 1 = Work!Units
        BY <1>1, <1>5, <1>6, <1>9
      <3>2. page.content = worker[t].content
        BY <1>5
      <3> QED BY <3>1, <3>2 DEF Work!Before, Work!WholeCopy, Work!HasStructure, Work!HasData
    <2>2. page.failed = 0 => dest'[t] = Work!WholeCopy(t)
      BY <1>5, <1>6, <2>1
    <2> QED BY <1>1, <1>4, <1>5, <1>9, <2>2, DatabaseFinishes
  <1> QED BY <1>4, <1>7, <1>8, <1>9

LEMMA CopyInsertsKeeps ==
  ASSUME Work!ConstantsAssumption, Work!WorkTypes, NEW t \in Tasks, Work!WorkInv(t),
         Work!CopyInserts(t)
  PROVE  StepOf(t)
  <1> DEFINE w == worker[t]
             lost == Work!Recorded(w)
             bad == [w EXCEPT !.badRows = @ + 1]
             good == [w EXCEPT !.applied = @ + 1]
  <1>1. /\ Work!At(t, "copy", "insert") /\ w.kind = "copy" /\ w.pc = "insert"
        /\ \/ Work!To(t, Work!Returns(lost, Work!Interrupted(lost, "Failed"))) /\ Work!Quietly
           \/ Work!AfterRow(t, bad) /\ Work!OnlyWorker
           \/ Work!AfterRow(t, good) /\ Work!Writes(t, w.unit)
    <2> HIDE DEF lost, bad, good
    <2>1. Work!At(t, "copy", "insert") /\ w.kind = "copy" /\ w.pc = "insert"
      BY DEF Work!CopyInserts, Work!At
    <2>2. PICK a \in Work!Answers("target") :
            CASE a = "gone" -> Work!To(t, Work!Returns(lost, Work!Interrupted(lost, "Failed"))) /\ Work!Quietly
              [] a = "error" -> Work!AfterRow(t, bad) /\ Work!OnlyWorker
              [] a = "ok" -> Work!AfterRow(t, good) /\ Work!Writes(t, w.unit)
      BY DEF Work!CopyInserts, lost, bad, good
    <2>3. a \in {"gone", "error", "ok"}
      BY DEF Work!Answers
    <2> QED BY <2>1, <2>2, <2>3
  <1>2. /\ Work!Running(t) /\ Work!CopyInv(t) /\ w \in Work!Worker /\ late[t] = 0
    <2>1. late[t] = 0
      BY <1>1 DEF Work!WorkInv, Work!WorkTypes
    <2> QED BY <1>1, <2>1, CopyAt DEF Work!CopyPcs
  <1>3. /\ dest[t] = {} <=> w.applied = 0
        /\ w.failed = 0 /\ w.badRows = 0 => dest[t] = Work!Before(w)
        /\ w.unit \in Nat /\ w.applied \in Nat /\ w.badRows \in Nat
    BY <1>1, <1>2 DEF Work!CopyInv, Work!Wrote, Work!Worker
  <1>4. CASE Work!To(t, Work!Returns(lost, Work!Interrupted(lost, "Failed"))) /\ Work!Quietly
    <2>1. Touches(t) /\ dest' = dest /\ Reports(t)
      BY <1>4, NothingWritten DEF Work!Quietly, Reports
    <2>2. /\ lost \in Work!Worker /\ lost.kind = w.kind /\ lost.content = w.content
          /\ lost.applied = w.applied
      BY <1>2, RowsRecorded
    <2> HIDE DEF lost
    <2>3. dest'[t] = {} <=> lost.applied = 0
      BY <1>3, <2>1, <2>2
    <2> QED BY <1>1, <1>2, <1>4, <2>1, <2>2, <2>3, DatabaseInterrupted
  <1>5. CASE Work!AfterRow(t, bad) /\ Work!OnlyWorker
    <2>1. Touches(t) /\ dest' = dest
      BY <1>5, NothingWritten
    <2>2. /\ bad \in Work!Worker /\ bad.kind = "copy" /\ bad.content = w.content /\ bad.unit = w.unit
          /\ bad.applied = w.applied /\ bad.badRows # 0
      BY <1>1, <1>2, <1>3 DEF Work!Worker
    <2> HIDE DEF bad
    <2>3. dest'[t] = {} <=> bad.applied = 0
      BY <1>3, <2>1, <2>2
    <2> QED BY <1>1, <1>5, <2>1, <2>2, <2>3, AfterRowKeeps
  <1>6. CASE Work!AfterRow(t, good) /\ Work!Writes(t, w.unit)
    <2>1. Touches(t) /\ dest'[t] = dest[t] \cup {w.unit}
      BY <1>2, <1>3, <1>6, OneWritten
    <2>2. /\ good \in Work!Worker /\ good.kind = "copy" /\ good.content = w.content
          /\ good.unit = w.unit /\ good.applied = w.applied + 1
          /\ good.failed = w.failed /\ good.badRows = w.badRows
      BY <1>1, <1>2, <1>3 DEF Work!Worker
    <2> HIDE DEF good
    <2>3. dest'[t] # {} /\ good.applied # 0
      BY <1>3, <2>1, <2>2
    <2>4. good.failed = 0 /\ good.badRows = 0 => dest'[t] = Work!Before(good) \cup {good.unit}
      BY <1>3, <2>1, <2>2 DEF Work!Before, Work!HasStructure
    <2> QED BY <1>1, <1>6, <2>1, <2>2, <2>3, <2>4, AfterRowKeeps
  <1> QED BY <1>1, <1>4, <1>5, <1>6

LEMMA CopiesKeep ==
  ASSUME Work!ConstantsAssumption, Work!WorkTypes, NEW t \in Tasks, Work!WorkInv(t),
         Work!Copies(t)
  PROVE  StepOf(t)
  BY CopyChecksKeeps, CopyDescribesKeeps, CopyCreatesKeeps, CopyReadsKeeps, CopyChecksRowKeeps,
     CopyInsertsKeeps DEF Work!Copies

LEMMA RestoresKeep ==
  ASSUME Work!ConstantsAssumption, Work!WorkTypes, NEW t \in Tasks, Work!WorkInv(t),
         Work!Restores(t)
  PROVE  StepOf(t)
  <1> DEFINE w == worker[t]
  <1>1. w.kind = "restore" /\ w.pc \in {"statement", "execute"}
    BY DEF Work!Restores, Work!RestoreChecks, Work!RestoreExecutes, Work!At
  <1>2. /\ Work!Running(t) /\ Work!RestoreInv(t) /\ w \in Work!Worker /\ Work!Units \in Nat
        /\ late[t] > 0 => token[t]
    <2>1. Work!Running(t)
      BY <1>1 DEF Work!Running
    <2>2. w \in Work!Worker /\ Work!Units \in Nat
      BY DEF Work!WorkTypes, Work!ConstantsAssumption, Work!Units
    <2> QED BY <1>1, <2>1, <2>2 DEF Work!WorkInv
  <1>3. /\ dest[t] = {} <=> w.applied = 0
        /\ w.failed = 0 => dest[t] = Work!Before(w)
        /\ w.unit \in 1..Work!Units + 1 /\ w.content = "Data" /\ w.badRows = 0
        /\ w.applied \in Nat /\ w.failed \in Nat /\ w.unit \in Nat
    BY <1>2 DEF Work!RestoreInv, Work!Wrote, Work!Worker
  <1>4. CASE Work!RestoreChecks(t)
    <2> DEFINE n == [w EXCEPT !.pc = "execute"]
    <2>1. Touches(t) /\ dest' = dest /\ late' = late /\ Reports(t)
      BY <1>4, NothingWritten DEF Work!RestoreChecks, Work!Quietly, Reports
    <2>2. /\ w.pc = "statement"
          /\ \/ ~(w.unit <= Work!Units) /\ Work!To(t, Work!Returns(w, Work!FinishEffects(w)))
             \/ \E why \in {"Cancelled", "Failed"} :
                  Work!To(t, Work!Returns(w, Work!Interrupted(w, why)))
             \/ w.unit <= Work!Units /\ ~token[t] /\ Work!To(t, n)
      BY <1>4 DEF Work!RestoreChecks, Work!At
    <2>3. CASE ~(w.unit <= Work!Units) /\ Work!To(t, Work!Returns(w, Work!FinishEffects(w)))
      <3>1. Work!Before(w) = Work!WholeCopy(t)
        BY <1>2, <1>3, <2>3 DEF Work!Before, Work!WholeCopy, Work!HasStructure, Work!HasData
      <3> QED BY <1>1, <1>2, <1>3, <2>1, <2>3, <3>1, DatabaseFinishes
    <2>4. CASE \E why \in {"Cancelled", "Failed"} :
                 Work!To(t, Work!Returns(w, Work!Interrupted(w, why)))
      BY <1>1, <1>2, <1>3, <2>1, <2>4, DatabaseInterrupted
    <2>5. CASE w.unit <= Work!Units /\ ~token[t] /\ Work!To(t, n)
      <3>1. /\ n \in Work!Worker /\ n.pc = "execute"
            /\ n.kind = w.kind /\ n.content = w.content /\ n.unit = w.unit
            /\ n.applied = w.applied /\ n.failed = w.failed /\ n.badRows = w.badRows
        BY <1>2, WorkerGoes DEF Work!RestorePcs
      <3>2. worker'[t] = n
        BY <2>5, <3>1, WorkerSet
      <3> HIDE DEF n
      <3>3. Work!RestoreInv(t)'
        <4>1. Work!Units' = Work!Units
          BY <2>1 DEF Work!Units, Touches
        <4>2. Work!Before(n) = Work!Before(w)
          BY <3>1 DEF Work!Before, Work!HasStructure
        <4> QED BY <1>3, <2>1, <2>5, <3>1, <3>2, <4>1, <4>2 DEF Work!RestoreInv, Work!RestorePcs, Work!Wrote
      <3> QED BY <1>1, <1>2, <2>1, <2>5, <3>1, <3>3, DatabaseAdvances
    <2> QED BY <2>2, <2>3, <2>4, <2>5
  <1>5. CASE Work!RestoreExecutes(t)
    <2>1. w.pc = "execute" /\ late[t] = 0 /\ w.unit <= Work!Units
      BY <1>5, <1>1, <1>2 DEF Work!RestoreExecutes, Work!At, Work!WorkInv, Work!RestoreInv, Work!WorkTypes
    <2>2. PICK a \in {"gone", "ok", "error"} :
            LET done == [w EXCEPT !.pc = "statement", !.unit = @ + 1,
                                  !.applied = IF a = "ok" THEN @ + 1 ELSE @,
                                  !.failed = IF a = "ok" THEN @ ELSE @ + 1]
            IN  IF a = "gone" THEN Work!To(t, Work!Returns(w, Work!Interrupted(w, "Failed"))) /\ Work!Quietly
                ELSE /\ Work!To(t, done) /\ Work!Progress(t, w.unit)
                     /\ IF a = "ok" THEN Work!Writes(t, w.unit) ELSE Work!OnlyWorker
      BY <1>5 DEF Work!RestoreExecutes, Work!Answers
    <2> DEFINE applied == IF a = "ok" THEN w.applied + 1 ELSE w.applied
               failed == IF a = "ok" THEN w.failed ELSE w.failed + 1
               n == [w EXCEPT !.pc = "statement", !.unit = @ + 1,
                              !.applied = IF a = "ok" THEN @ + 1 ELSE @,
                              !.failed = IF a = "ok" THEN @ ELSE @ + 1]
    <2>3. /\ n \in Work!Worker /\ n.pc = "statement" /\ n.kind = "restore" /\ n.content = "Data"
          /\ n.unit = w.unit + 1 /\ n.applied = applied /\ n.failed = failed /\ n.badRows = 0
      <3>1. PICK m : m = [w EXCEPT !.pc = "statement", !.unit = w.unit + 1, !.applied = applied,
                                   !.failed = failed]
        OBVIOUS
      <3>2. applied \in Nat /\ failed \in Nat /\ w.unit + 1 \in Nat
        BY <1>3
      <3>3. n = m
        BY <3>1
      <3> HIDE DEF applied, failed, n
      <3>4. /\ m \in Work!Worker /\ m.pc = "statement" /\ m.unit = w.unit + 1
            /\ m.applied = applied /\ m.failed = failed
        BY <1>2, <3>1, <3>2 DEF Work!Worker, Work!RestorePcs
      <3>5. m.kind = w.kind /\ m.content = w.content /\ m.badRows = w.badRows
        BY <1>2, <3>1 DEF Work!Worker
      <3> QED BY <1>1, <1>3, <3>3, <3>4, <3>5
    <2>4. CASE a = "gone"
      <3>1. Work!To(t, Work!Returns(w, Work!Interrupted(w, "Failed"))) /\ Work!Quietly
        BY <2>2, <2>4
      <3>2. Touches(t) /\ dest' = dest /\ Reports(t)
        BY <3>1, NothingWritten DEF Work!Quietly, Reports
      <3> QED BY <1>1, <1>2, <1>3, <3>1, <3>2, DatabaseInterrupted
    <2>5. CASE a # "gone"
      <3>1. Work!To(t, n) /\ Reports(t)
        BY <1>3, <2>2, <2>5 DEF Reports
      <3>2. worker'[t] = n
        BY <2>3, <3>1, WorkerSet
      <3>3. a = "ok" => n.applied = w.applied + 1 /\ n.failed = w.failed
        BY <2>3
      <3>4. a # "ok" => n.applied = w.applied /\ n.failed # 0
        BY <1>3, <2>3
      <3> HIDE DEF n
      <3>5. /\ Touches(t)
            /\ a = "ok" => dest'[t] = dest[t] \cup {w.unit}
            /\ a # "ok" => dest' = dest
        <4>1. CASE a = "ok"
          BY <1>3, <2>1, <2>2, <4>1, OneWritten
        <4>2. CASE a # "ok"
          BY <2>2, <2>5, <4>2, NothingWritten
        <4> QED BY <4>1, <4>2
      <3>6. Work!Units' = Work!Units
        BY <3>5 DEF Work!Units, Touches
      <3>7. Work!Before(n) = Work!Before(w) \cup {w.unit}
        <4>1. 1..w.unit = 1..(w.unit - 1) \cup {w.unit} /\ w.unit + 1 - 1 = w.unit
          BY <1>3
        <4> QED BY <1>3, <2>3, <4>1 DEF Work!Before, Work!HasStructure
      <3>8. dest'[t] = {} <=> n.applied = 0
        BY <1>3, <3>3, <3>4, <3>5
      <3>9. n.failed = 0 => dest'[t] = Work!Before(n)
        BY <1>3, <3>3, <3>4, <3>5, <3>7
      <3>10. n.unit \in 1..Work!Units + 1
        BY <1>2, <1>3, <2>1, <2>3
      <3>11. Work!RestoreInv(t)'
        BY <2>3, <3>2, <3>6, <3>8, <3>9, <3>10 DEF Work!RestoreInv, Work!RestorePcs, Work!Wrote
      <3> QED BY <1>1, <1>2, <2>3, <3>1, <3>5, <3>11, DatabaseAdvances
    <2> QED BY <2>4, <2>5
  <1> QED BY <1>4, <1>5 DEF Work!Restores

\* A task with an output file that returns: its file is what it says.
LEMMA FileReturns ==
  ASSUME Work!ConstantsAssumption, Work!WorkTypes, NEW t \in Tasks, Work!WorkInv(t),
         Work!Running(t), worker[t].kind \in {"backup", "export"},
         NEW o \in Work!TerminalStatus, Work!To(t, Work!Returns(worker[t], o)),
         UNCHANGED <<limits, pipe, dest, late, crashed>>,
         output' \in [Tasks -> {"old", "whole", "short"}],
         \A u \in Tasks \ {t} : output'[u] = output[u], Reports(t),
         o = "Completed" => output'[t] = "whole", o = "Partial" => output'[t] = "short",
         o \in {"Cancelled", "Failed"} => output'[t] = "old",
         pipe[t].closed \/ pipe[t].writer # "new" => pipe[t].writer \in {"failed", "written"}
  PROVE  StepOf(t)
  <1> DEFINE n == Work!Returns(worker[t], o)
  <1>1. worker[t] \in Work!Worker /\ Work!To(t, n)
    BY DEF Work!WorkTypes
  <1>2. n \in Work!Worker /\ n.pc = "returned" /\ n.outcome = o /\ n.kind = worker[t].kind
    BY <1>1, WorkerReturns
  <1> HIDE DEF n
  <1>3. /\ worker' \in [Tasks -> Work!Worker] /\ worker'[t] = n
        /\ \A u \in Tasks \ {t} : worker'[u] = worker[u]
    BY <1>1, <1>2, WorkerSet
  <1>4. Work!WorkTypes' /\ Alone(t)
    BY <1>3 DEF Work!WorkTypes, Alone
  <1>5. Work!Tells(t, o)'
    BY <1>2, <1>3 DEF Work!Tells
  <1>6. Work!Settled(t)'
    BY <1>2, <1>3, <1>5 DEF Work!Settled
  <1>7. o # Nothing
    BY DEF Work!ConstantsAssumption
  <1>8. UNCHANGED token
    BY ReportsLeaveToken
  <1>9. Work!WorkInv(t)'
    BY <1>2, <1>3, <1>6, <1>7, <1>8 DEF Work!WorkInv, Work!Running
  <1> QED BY <1>2, <1>3, <1>4, <1>9 DEF StepOf

\* A backup that goes on.
LEMMA BackupGoesOn ==
  ASSUME Work!ConstantsAssumption, Work!WorkTypes, NEW t \in Tasks, Work!WorkInv(t),
         Work!Running(t), worker[t].kind = "backup", Work!OnlyWorker, Reports(t),
         NEW n \in Work!Worker, n.kind = "backup", n.pc \in Work!BackupPcs, Work!To(t, n),
         n.pc = "create" => ~token[t]
  PROVE  StepOf(t)
  <1>1. /\ worker' \in [Tasks -> Work!Worker] /\ worker'[t] = n
        /\ \A u \in Tasks \ {t} : worker'[u] = worker[u]
    BY WorkerSet
  <1>2. UNCHANGED <<limits, live, pipe, dest, output, late, crashed>>
    BY DEF Work!OnlyWorker
  <1>3. Work!WorkTypes' /\ Alone(t)
    BY <1>1, <1>2 DEF Work!WorkTypes, Alone
  <1>4. UNCHANGED token
    BY ReportsLeaveToken
  <1>5. n.pc \notin {"none", "returned", "gone", "insert", "execute"}
    BY DEF Work!BackupPcs
  <1>6. Work!BackupInv(t)'
    BY <1>1, <1>2 DEF Work!WorkInv, Work!BackupInv
  <1>7. Work!WorkInv(t)'
    BY <1>1, <1>2, <1>4, <1>5, <1>6 DEF Work!WorkInv, Work!Running
  <1> QED BY <1>1, <1>2, <1>3, <1>5, <1>7 DEF StepOf

\* One that returns without its file.
LEMMA BackupGivesUp ==
  ASSUME Work!ConstantsAssumption, Work!WorkTypes, NEW t \in Tasks, Work!WorkInv(t),
         Work!Running(t), worker[t].kind = "backup", NEW o \in {"Cancelled", "Failed"},
         Work!BackupReturns(t, o), UNCHANGED <<limits, pipe, dest, output, late, crashed>>, Reports(t)
  PROVE  StepOf(t)
  <1>1. /\ output' \in [Tasks -> {"old", "whole", "short"}] /\ output'[t] = "old"
        /\ pipe[t].writer = "new" /\ ~pipe[t].closed /\ \A u \in Tasks \ {t} : output'[u] = output[u]
    BY DEF Work!WorkTypes, Work!WorkInv, Work!BackupInv
  <1>2. o \in Work!TerminalStatus /\ o # "Completed" /\ o # "Partial"
    BY DEF Work!TerminalStatus
  <1>3. Work!To(t, Work!Returns(worker[t], o))
    BY DEF Work!BackupReturns
  <1> QED BY <1>1, <1>2, <1>3, FileReturns

LEMMA TableDoneGoes ==
  ASSUME NEW t \in Tasks, NEW w \in Work!Worker, w.kind = "backup", Work!TableDone(t, w)
  PROVE  /\ Reports(t)
         /\ \E n \in Work!Worker : n.kind = "backup" /\ n.pc \in {"table", "seal"} /\ Work!To(t, n)
  <1>1. PICK pc \in {"table", "seal"} : pc = IF w.unit < Work!Units THEN "table" ELSE "seal"
    OBVIOUS
  <1>2. PICK k \in Nat : k = w.unit + 1
    BY DEF Work!Worker
  <1>3. PICK n : n = [w EXCEPT !.unit = k, !.page = 1, !.pc = pc]
    OBVIOUS
  <1>4. Work!To(t, n)
    BY <1>1, <1>2, <1>3 DEF Work!TableDone
  <1>5. n \in Work!Worker /\ n.kind = "backup" /\ n.pc = pc
    <2>1. pc \in Work!BackupPcs
      BY DEF Work!BackupPcs
    <2> QED BY <1>3, <2>1 DEF Work!Worker
  <1>6. Reports(t)
    BY DEF Work!TableDone, Reports, Work!Worker
  <1> QED BY <1>4, <1>5, <1>6

LEMMA BackupChecksKeeps ==
  ASSUME Work!ConstantsAssumption, Work!WorkTypes, NEW t \in Tasks, Work!WorkInv(t),
         Work!BackupChecks(t)
  PROVE  StepOf(t)
  <1> DEFINE w == worker[t]
  <1>1. PICK next \in {<<"open", "create">>, <<"table", "content">>, <<"data", "fetch">>,
                       <<"seal", "finish">>, <<"last", "commit">>} :
          /\ Work!At(t, "backup", next[1])
          /\ IF token[t] THEN Work!BackupReturns(t, "Cancelled")
             ELSE Work!To(t, [w EXCEPT !.pc =
                                CASE next[2] # "content" -> next[2]
                                  [] next[2] = "content" /\ Work!HasStructure(w) -> "describe"
                                  [] OTHER -> "data"])
    BY DEF Work!BackupChecks
  <1>2. w.kind = "backup" /\ Work!Running(t) /\ w \in Work!Worker
    BY <1>1 DEF Work!At, Work!Running, Work!WorkTypes
  <1>3. Work!OnlyWorker /\ UNCHANGED <<limits, pipe, dest, output, late, crashed>> /\ Reports(t)
    BY DEF Work!BackupChecks, Work!Quietly, Work!OnlyWorker, Reports
  <1>4. CASE token[t]
    BY <1>1, <1>2, <1>3, <1>4, BackupGivesUp
  <1>5. CASE ~token[t]
    <2>1. PICK pc \in Work!BackupPcs : Work!To(t, [w EXCEPT !.pc = pc])
      <3>1. CASE next[2] # "content"
        BY <1>1, <1>5, <3>1 DEF Work!BackupPcs
      <3>2. CASE next[2] = "content" /\ Work!HasStructure(w)
        BY <1>1, <1>5, <3>2 DEF Work!BackupPcs
      <3>3. CASE next[2] = "content" /\ ~Work!HasStructure(w)
        BY <1>1, <1>5, <3>3 DEF Work!BackupPcs
      <3> QED BY <3>1, <3>2, <3>3
    <2> DEFINE n == [w EXCEPT !.pc = pc]
    <2>2. n \in Work!Worker /\ n.pc = pc /\ n.kind = "backup"
      BY <1>2, WorkerGoes
    <2>3. Work!To(t, n)
      BY <2>1
    <2> HIDE DEF n
    <2> QED BY <1>2, <1>3, <1>5, <2>2, <2>3, BackupGoesOn
  <1> QED BY <1>4, <1>5

LEMMA BackupWritesKeeps ==
  ASSUME Work!ConstantsAssumption, Work!WorkTypes, NEW t \in Tasks, Work!WorkInv(t),
         Work!BackupWrites(t)
  PROVE  StepOf(t)
  <1> DEFINE w == worker[t]
  <1>1. PICK pc \in {"seal", "table", "last"} :
          /\ w.kind = "backup" /\ w.pc \in {"create", "finish"}
          /\ Work!BackupReturns(t, "Failed") \/ Work!To(t, [w EXCEPT !.pc = pc])
    BY DEF Work!BackupWrites, Work!At
  <1>2. w.kind = "backup" /\ Work!Running(t) /\ w \in Work!Worker
    BY <1>1 DEF Work!Running, Work!WorkTypes
  <1>3. Work!OnlyWorker /\ UNCHANGED <<limits, pipe, dest, output, late, crashed>> /\ Reports(t)
    BY DEF Work!BackupWrites, Work!Quietly, Work!OnlyWorker, Reports
  <1>4. CASE Work!BackupReturns(t, "Failed")
    BY <1>2, <1>3, <1>4, BackupGivesUp
  <1>5. CASE Work!To(t, [w EXCEPT !.pc = pc])
    <2> DEFINE n == [w EXCEPT !.pc = pc]
    <2>1. n \in Work!Worker /\ n.pc = pc /\ n.kind = "backup" /\ pc \in Work!BackupPcs
      BY <1>2, WorkerGoes DEF Work!BackupPcs
    <2>2. Work!To(t, n)
      BY <1>5
    <2> HIDE DEF n
    <2> QED BY <1>2, <1>3, <2>1, <2>2, BackupGoesOn
  <1> QED BY <1>1, <1>4, <1>5

LEMMA BackupReadsKeeps ==
  ASSUME Work!ConstantsAssumption, Work!WorkTypes, NEW t \in Tasks, Work!WorkInv(t),
         Work!BackupDescribes(t) \/ Work!BackupFetches(t)
  PROVE  StepOf(t)
  <1>1. worker[t].kind = "backup" /\ Work!Running(t) /\ worker[t] \in Work!Worker
    BY DEF Work!BackupDescribes, Work!BackupFetches, Work!At, Work!Running, Work!WorkTypes
  <1>2. Work!OnlyWorker /\ UNCHANGED <<limits, pipe, dest, output, late, crashed>>
    BY DEF Work!BackupDescribes, Work!BackupFetches, Work!OnlyWorker
  <1>3. ASSUME NEW o \in {"Cancelled", "Failed"}, Work!BackupReturns(t, o),
               UNCHANGED <<Work!managerVars, Work!centerVars>>
        PROVE  StepOf(t)
    <2>1. Reports(t)
      BY <1>3 DEF Reports
    <2> QED BY <1>1, <1>2, <1>3, <2>1, BackupGivesUp
  <1>4. ASSUME NEW w \in Work!Worker, w.kind = "backup", Work!TableDone(t, w)
        PROVE  StepOf(t)
    <2>1. PICK n \in Work!Worker : n.kind = "backup" /\ n.pc \in {"table", "seal"} /\ Work!To(t, n)
      BY <1>4, TableDoneGoes
    <2>2. Reports(t)
      BY <1>4, TableDoneGoes
    <2>3. n.pc \in Work!BackupPcs
      BY <2>1 DEF Work!BackupPcs
    <2> QED BY <1>1, <1>2, <2>1, <2>2, <2>3, BackupGoesOn
  <1>5. ASSUME NEW n \in Work!Worker, n.kind = "backup", n.pc = "data", Work!To(t, n),
               UNCHANGED <<Work!managerVars, Work!centerVars>>
        PROVE  StepOf(t)
    <2>1. Reports(t) /\ n.pc \in Work!BackupPcs
      BY <1>5 DEF Reports, Work!BackupPcs
    <2> QED BY <1>1, <1>2, <1>5, <2>1, BackupGoesOn
  <1>6. ASSUME NEW a, NEW gap
        PROVE  LET w == [worker[t] EXCEPT !.failed = IF a = "ok" /\ gap = 0 THEN @ ELSE 1] IN
               w \in Work!Worker /\ w.kind = "backup"
    <2>1. PICK k \in Nat : k = IF a = "ok" /\ gap = 0 THEN worker[t].failed ELSE 1
      BY <1>1 DEF Work!Worker
    <2> QED BY <1>1, <2>1 DEF Work!Worker
  <1>7. CASE Work!BackupDescribes(t)
    <2>1. CASE /\ Work!BackupReturns(t, "Failed") /\ UNCHANGED <<Work!managerVars, Work!centerVars>>
      BY <1>3, <2>1
    <2>2. ASSUME NEW a \in Work!Answers("source"), NEW w,
                 w = [worker[t] EXCEPT !.failed = IF a = "ok" THEN @ ELSE 1],
                 CASE a = "gone" -> Work!Fatal(t) /\ UNCHANGED <<Work!managerVars, Work!centerVars>>
                   [] a # "gone" /\ Work!HasData(w) ->
                        /\ Work!To(t, [w EXCEPT !.pc = "data"])
                        /\ UNCHANGED <<Work!managerVars, Work!centerVars>>
                   [] OTHER -> Work!TableDone(t, w)
          PROVE  StepOf(t)
      <3>1. w \in Work!Worker /\ w.kind = "backup"
        <4>1. w = [worker[t] EXCEPT !.failed = IF a = "ok" /\ 0 = 0 THEN @ ELSE 1]
          BY <2>2
        <4> QED BY <1>6, <4>1
      <3>2. CASE a = "gone"
        <4>1. PICK o \in {"Cancelled", "Failed"} : Work!BackupReturns(t, o)
          BY <2>2, <3>2 DEF Work!Fatal
        <4>2. UNCHANGED <<Work!managerVars, Work!centerVars>>
          BY <2>2, <3>2
        <4> QED BY <1>3, <4>1, <4>2
      <3>3. CASE a # "gone" /\ Work!HasData(w)
        <4> DEFINE n == [w EXCEPT !.pc = "data"]
        <4>1. n \in Work!Worker /\ n.pc = "data" /\ n.kind = "backup"
          BY <3>1, WorkerGoes DEF Work!BackupPcs
        <4>2. Work!To(t, n) /\ UNCHANGED <<Work!managerVars, Work!centerVars>>
          BY <2>2, <3>3
        <4> HIDE DEF n
        <4> QED BY <1>5, <4>1, <4>2
      <3>4. CASE a # "gone" /\ ~Work!HasData(w)
        <4>1. Work!TableDone(t, w)
          BY <2>2, <3>4
        <4> QED BY <1>4, <3>1, <4>1
      <3> QED BY <3>2, <3>3, <3>4
    <2> QED BY <1>7, <2>1, <2>2 DEF Work!BackupDescribes
  <1>8. CASE Work!BackupFetches(t)
    <2>1. CASE Work!BackupReturns(t, "Failed") /\ UNCHANGED <<Work!managerVars, Work!centerVars>>
      BY <1>3, <2>1
    <2>2. ASSUME NEW a \in Work!Answers("source"), NEW gap \in {0, 1}, NEW w,
                 w = [worker[t] EXCEPT !.failed = IF a = "ok" /\ gap = 0 THEN @ ELSE 1],
                 CASE a = "gone" -> Work!Fatal(t) /\ UNCHANGED <<Work!managerVars, Work!centerVars>>
                   [] OTHER ->
                        \/ Work!TableDone(t, w)
                        \/ /\ a = "ok" /\ gap = 0 /\ w.page < limits.pages
                           /\ Work!To(t, [w EXCEPT !.pc = "data", !.page = @ + 1])
                           /\ UNCHANGED <<Work!managerVars, Work!centerVars>>
          PROVE  StepOf(t)
      <3>1. w \in Work!Worker /\ w.kind = "backup"
        BY <1>6, <2>2
      <3>2. CASE a = "gone"
        <4>1. PICK o \in {"Cancelled", "Failed"} : Work!BackupReturns(t, o)
          BY <2>2, <3>2 DEF Work!Fatal
        <4>2. UNCHANGED <<Work!managerVars, Work!centerVars>>
          BY <2>2, <3>2
        <4> QED BY <1>3, <4>1, <4>2
      <3>3. CASE Work!TableDone(t, w)
        BY <1>4, <3>1, <3>3
      <3>4. CASE /\ Work!To(t, [w EXCEPT !.pc = "data", !.page = @ + 1])
                 /\ UNCHANGED <<Work!managerVars, Work!centerVars>>
        <4>1. PICK k \in Nat : k = w.page + 1
          BY <3>1 DEF Work!Worker
        <4>2. PICK n : n = [w EXCEPT !.pc = "data", !.page = k]
          OBVIOUS
        <4>3. "data" \in Work!BackupPcs
          BY DEF Work!BackupPcs
        <4>4. n \in Work!Worker /\ n.pc = "data" /\ n.kind = "backup"
          BY <3>1, <4>2, <4>3 DEF Work!Worker
        <4>5. Work!To(t, n)
          BY <3>4, <4>1, <4>2
        <4> QED BY <1>5, <3>4, <4>4, <4>5
      <3> QED BY <2>2, <3>2, <3>3, <3>4
    <2> QED BY <1>8, <2>1, <2>2 DEF Work!BackupFetches
  <1> QED BY <1>7, <1>8

LEMMA BackupCommitsKeeps ==
  ASSUME Work!ConstantsAssumption, Work!WorkTypes, NEW t \in Tasks, Work!WorkInv(t),
         Work!BackupCommits(t)
  PROVE  StepOf(t)
  <1>1. /\ worker[t].kind = "backup" /\ Work!Running(t) /\ worker[t] \in Work!Worker
        /\ UNCHANGED <<limits, pipe, dest, late, crashed>> /\ Reports(t)
    BY DEF Work!BackupCommits, Work!At, Work!Running, Work!WorkTypes, Reports
  <1>2. CASE Work!BackupReturns(t, "Failed") /\ UNCHANGED output
    BY <1>1, <1>2, BackupGivesUp
  <1>3. CASE /\ Work!BackupReturns(t, IF worker[t].failed = 0 THEN "Completed" ELSE "Partial")
             /\ output' = [output EXCEPT ![t] = IF worker[t].failed = 0 THEN "whole" ELSE "short"]
    <2>1. PICK o \in {"Completed", "Partial"} :
            /\ Work!To(t, Work!Returns(worker[t], o))
            /\ output' = [output EXCEPT ![t] = IF o = "Completed" THEN "whole" ELSE "short"]
      BY <1>3 DEF Work!BackupReturns
    <2>2. /\ output' \in [Tasks -> {"old", "whole", "short"}]
          /\ o = "Completed" => output'[t] = "whole"
          /\ o = "Partial" => output'[t] = "short"
          /\ \A u \in Tasks \ {t} : output'[u] = output[u]
      BY <2>1 DEF Work!WorkTypes
    <2>3. pipe[t].writer = "new" /\ ~pipe[t].closed
      BY <1>1 DEF Work!WorkInv
    <2>4. o \in Work!TerminalStatus /\ o \notin {"Cancelled", "Failed"}
      BY DEF Work!TerminalStatus
    <2> QED BY <1>1, <2>1, <2>2, <2>3, <2>4, FileReturns
  <1> QED BY <1>2, <1>3 DEF Work!BackupCommits

LEMMA BackupsKeep ==
  ASSUME Work!ConstantsAssumption, Work!WorkTypes, NEW t \in Tasks, Work!WorkInv(t),
         Work!BacksUp(t)
  PROVE  StepOf(t)
  BY BackupChecksKeeps, BackupWritesKeeps, BackupReadsKeeps, BackupCommitsKeeps DEF Work!BacksUp

(* The channel of an export.                                                *)

LEMMA RowSent ==
  ASSUME NEW q \in Seq(Work!Messages), Work!Shaped(q), ~Work!Closing(q)
  PROVE  LET r == Append(q, "row") IN
         /\ r \in Seq(Work!Messages) /\ Work!Shaped(r) /\ ~Work!Closing(r)
         /\ Work!RowsIn(r) = Work!RowsIn(q) + 1
  <1> DEFINE r == Append(q, "row")
  <1>1. /\ r \in Seq(Work!Messages) /\ Len(q) \in Nat /\ Len(r) = Len(q) + 1
        /\ \A i \in 1..Len(q) : r[i] = q[i]
        /\ r[Len(r)] = "row" /\ r # <<>>
    BY DEF Work!Messages
  <1>2. q = <<>> <=> Len(q) = 0
    OBVIOUS
  <1> HIDE DEF r
  <1>3. Work!Shaped(r)
    <2>1. ASSUME NEW i \in 1..Len(r)
          PROVE  (r[i] = "columns" => i = 1) /\ (r[i] = "finish" => i = Len(r))
      <3>1. CASE i = Len(r)
        BY <1>1, <3>1
      <3>2. CASE i # Len(r)
        <4>1. i \in 1..Len(q) /\ r[i] = q[i]
          BY <1>1, <3>2
        <4>2. q[i] = "columns" => i = 1
          BY <4>1 DEF Work!Shaped
        <4>3. q[i] # "finish"
          BY <1>2, <4>1 DEF Work!Shaped, Work!Closing
        <4> QED BY <4>1, <4>2, <4>3
      <3> QED BY <3>1, <3>2
    <2> QED BY <2>1 DEF Work!Shaped
  <1>4. ~Work!Closing(r)
    BY <1>1 DEF Work!Closing
  <1>5. Work!RowsIn(q) = Len(q) - (IF q # <<>> /\ q[1] = "columns" THEN 1 ELSE 0)
    BY DEF Work!RowsIn, Work!Closing
  <1>6. Work!RowsIn(r) = Len(r) - (IF r[1] = "columns" THEN 1 ELSE 0)
    <2>1. r # <<>> /\ r[Len(r)] # "finish" /\ Len(r) \in Nat
      BY <1>1
    <2> QED BY <2>1 DEF Work!RowsIn, Work!Closing
  <1>7. CASE q = <<>>
    <2>1. Len(q) = 0 /\ Work!RowsIn(q) = 0
      BY <1>7 DEF Work!RowsIn
    <2>2. Len(r) = 1 /\ r[1] = "row"
      BY <1>1, <2>1
    <2>3. Work!RowsIn(r) = 1
      BY <1>6, <2>2
    <2> QED BY <1>1, <1>3, <1>4, <2>1, <2>3 DEF r
  <1>8. CASE q # <<>>
    <2>1. r[1] = q[1] /\ q # <<>>
      BY <1>1, <1>2, <1>8
    <2> QED BY <1>1, <1>3, <1>4, <1>5, <1>6, <2>1 DEF r
  <1> QED BY <1>1, <1>3, <1>4, <1>7, <1>8 DEF r

LEMMA FinishSent ==
  ASSUME NEW q \in Seq(Work!Messages), Work!Shaped(q), ~Work!Closing(q)
  PROVE  LET r == Append(q, "finish") IN
         /\ r \in Seq(Work!Messages) /\ Work!Shaped(r) /\ Work!Closing(r)
         /\ Work!RowsIn(r) = Work!RowsIn(q)
  <1> DEFINE r == Append(q, "finish")
  <1>1. /\ r \in Seq(Work!Messages) /\ Len(q) \in Nat /\ Len(r) = Len(q) + 1
        /\ \A i \in 1..Len(q) : r[i] = q[i]
        /\ r[Len(r)] = "finish" /\ r # <<>>
    BY DEF Work!Messages
  <1>2. q = <<>> <=> Len(q) = 0
    OBVIOUS
  <1> HIDE DEF r
  <1>3. Work!Shaped(r)
    <2>1. ASSUME NEW i \in 1..Len(r)
          PROVE  (r[i] = "columns" => i = 1) /\ (r[i] = "finish" => i = Len(r))
      <3>1. CASE i = Len(r)
        BY <1>1, <3>1
      <3>2. CASE i # Len(r)
        <4>1. i \in 1..Len(q) /\ r[i] = q[i]
          BY <1>1, <3>2
        <4>2. q[i] = "columns" => i = 1
          BY <4>1 DEF Work!Shaped
        <4>3. q[i] # "finish"
          BY <1>2, <4>1 DEF Work!Shaped, Work!Closing
        <4> QED BY <4>1, <4>2, <4>3
      <3> QED BY <3>1, <3>2
    <2> QED BY <2>1 DEF Work!Shaped
  <1>4. Work!Closing(r)
    BY <1>1 DEF Work!Closing
  <1>5. Work!RowsIn(q) = Len(q) - (IF q # <<>> /\ q[1] = "columns" THEN 1 ELSE 0)
    BY DEF Work!RowsIn, Work!Closing
  <1>6. Work!RowsIn(r) = Len(r) - (IF r[1] = "columns" THEN 1 ELSE 0) - 1
    BY <1>1, <1>4 DEF Work!RowsIn, Work!Closing
  <1>7. CASE q = <<>>
    <2>1. Len(q) = 0 /\ Work!RowsIn(q) = 0
      BY <1>7 DEF Work!RowsIn
    <2>2. Len(r) = 1 /\ r[1] = "finish"
      BY <1>1, <2>1
    <2>3. Work!RowsIn(r) = 0
      BY <1>6, <2>2
    <2> QED BY <1>1, <1>3, <1>4, <2>1, <2>3 DEF r
  <1>8. CASE q # <<>>
    <2>1. r[1] = q[1] /\ q # <<>>
      BY <1>1, <1>2, <1>8
    <2>2. Work!RowsIn(r) = Work!RowsIn(q)
      BY <1>1, <1>5, <1>6, <2>1
    <2> QED BY <1>1, <1>3, <1>4, <2>2 DEF r
  <1> QED BY <1>7, <1>8

LEMMA MessageReceived ==
  ASSUME NEW q \in Seq(Work!Messages), Work!Shaped(q), q # <<>>
  PROVE  LET rest == Tail(q) IN
         /\ rest \in Seq(Work!Messages) /\ Work!Shaped(rest) /\ Head(q) \in Work!Messages
         /\ Work!RowsIn(q) \in Int /\ Work!RowsIn(rest) \in Int
         /\ Head(q) = "columns" => Work!RowsIn(rest) = Work!RowsIn(q) /\ (Work!Closing(rest) <=> Work!Closing(q))
         /\ Head(q) = "row" => Work!RowsIn(rest) = Work!RowsIn(q) - 1 /\ (Work!Closing(rest) <=> Work!Closing(q))
         /\ Head(q) = "finish" => rest = <<>> /\ Work!RowsIn(rest) = Work!RowsIn(q) /\ Work!Closing(q)
  <1> DEFINE rest == Tail(q)
  <1>1. /\ rest \in Seq(Work!Messages) /\ Len(q) \in Nat \ {0} /\ Len(rest) = Len(q) - 1
        /\ \A i \in 1..Len(rest) : rest[i] = q[i + 1]
        /\ Head(q) = q[1] /\ q[1] \in Work!Messages
    BY DEF Work!Messages
  <1> HIDE DEF rest
  <1>e. rest = <<>> <=> Len(rest) = 0
    BY <1>1
  <1>2. /\ \A i \in 1..Len(rest) : rest[i] # "columns"
        /\ \A i \in 1..Len(rest) : rest[i] = "finish" => i = Len(rest)
    <2>1. \A i \in 1..Len(rest) : i + 1 \in 1..Len(q) /\ i + 1 # 1
      BY <1>1
    <2> QED BY <1>1, <2>1 DEF Work!Shaped
  <1>3. Work!Shaped(rest)
    BY <1>2 DEF Work!Shaped
  <1>4. CASE Len(rest) = 0
    <2>1. Len(q) = 1 /\ rest = <<>>
      BY <1>1, <1>e, <1>4
    <2>2. ~Work!Closing(rest) /\ (Work!Closing(q) <=> q[1] = "finish")
      BY <1>1, <2>1 DEF Work!Closing
    <2>3. Work!RowsIn(rest) = 0
      BY <1>4, <2>1 DEF Work!RowsIn, Work!Closing
    <2>4. Work!RowsIn(q) = IF q[1] = "row" THEN 1 ELSE 0
      BY <1>1, <2>1 DEF Work!RowsIn, Work!Closing, Work!Messages
    <2> QED BY <1>1, <1>3, <2>1, <2>2, <2>3, <2>4 DEF rest
  <1>5. CASE Len(rest) # 0
    <2>1. /\ rest # <<>> /\ rest[1] # "columns" /\ rest[Len(rest)] = q[Len(q)]
      BY <1>1, <1>e, <1>2, <1>5
    <2>2. q[1] # "finish"
      BY <1>1, <1>5 DEF Work!Shaped
    <2>3. Work!Closing(rest) <=> Work!Closing(q)
      BY <2>1 DEF Work!Closing
    <2>4. Work!RowsIn(rest) = Len(rest) - (IF Work!Closing(q) THEN 1 ELSE 0)
      BY <1>1, <2>1, <2>3 DEF Work!RowsIn, Work!Closing
    <2>5. Work!RowsIn(q) = Len(q) - (IF q[1] = "columns" THEN 1 ELSE 0) - (IF Work!Closing(q) THEN 1 ELSE 0)
      BY DEF Work!RowsIn, Work!Closing
    <2>6. /\ Work!RowsIn(q) \in Int /\ Work!RowsIn(rest) \in Int
          /\ q[1] = "columns" => Work!RowsIn(rest) = Work!RowsIn(q)
          /\ q[1] = "row" => Work!RowsIn(rest) = Work!RowsIn(q) - 1
      BY <1>1, <2>4, <2>5
    <2> QED BY <1>1, <1>3, <2>2, <2>3, <2>6 DEF rest
  <1> QED BY <1>4, <1>5

\* The export at one of its steps.
LEMMA ExportAt ==
  ASSUME Work!ConstantsAssumption, Work!WorkTypes, NEW t \in Tasks, Work!WorkInv(t),
         worker[t].kind = "export", worker[t].pc \in Work!ExportPcs
  PROVE  /\ Work!Running(t) /\ worker[t] \in Work!Worker /\ pipe[t] \in Work!Pipe
         /\ Work!Units \in Nat /\ limits.channel \in Nat
         /\ output \in [Tasks -> {"old", "whole", "short"}]
         /\ Work!ExportState(worker[t], pipe[t], token[t], Work!Units, output[t])
  <1>1. Work!Running(t)
    BY DEF Work!Running, Work!ExportPcs
  <1>2. Work!ExportInv(t)
    BY <1>1 DEF Work!WorkInv
  <1>3. Work!ExportState(worker[t], pipe[t], token[t], Work!Units, output[t])
    BY <1>2 DEF Work!ExportInv
  <1> QED BY <1>1, <1>3 DEF Work!WorkTypes, Work!ConstantsAssumption, Work!Units

LEMMA ExportGoesOn ==
  ASSUME Work!ConstantsAssumption, Work!WorkTypes, NEW t \in Tasks, Work!WorkInv(t),
         Work!Running(t), worker[t].kind = "export", Reports(t),
         NEW n \in Work!Worker, n.kind = "export", Work!To(t, n),
         NEW p \in Work!Pipe, pipe' = [pipe EXCEPT ![t] = p],
         UNCHANGED <<limits, dest, output, late, crashed>>,
         Work!ExportState(n, p, token[t], Work!Units, output[t])
  PROVE  StepOf(t)
  <1>1. /\ worker' \in [Tasks -> Work!Worker] /\ worker'[t] = n
        /\ \A u \in Tasks \ {t} : worker'[u] = worker[u]
    BY WorkerSet
  <1>2. /\ pipe' \in [Tasks -> Work!Pipe] /\ pipe'[t] = p
        /\ \A u \in Tasks \ {t} : pipe'[u] = pipe[u]
    BY DEF Work!WorkTypes
  <1>3. Work!WorkTypes' /\ Alone(t)
    BY <1>1, <1>2 DEF Work!WorkTypes, Alone
  <1>4. UNCHANGED token /\ Work!Units' = Work!Units
    BY ReportsLeaveToken DEF Work!Units
  <1>5. Work!ExportInv(t)'
    BY <1>1, <1>2, <1>4 DEF Work!ExportInv
  <1>6. n.pc \notin {"none", "returned", "gone", "create", "insert", "execute"}
    BY DEF Work!ExportState, Work!ExportPcs
  <1>7. Work!WorkInv(t)'
    BY <1>1, <1>2, <1>4, <1>5, <1>6 DEF Work!WorkInv, Work!Running
  <1> QED BY <1>1, <1>3, <1>6, <1>7 DEF StepOf

LEMMA QueueSet ==
  ASSUME NEW p \in Work!Pipe, NEW q \in Seq(Work!Messages)
  PROVE  LET r == [p EXCEPT !.queue = q] IN
         /\ r \in Work!Pipe /\ r.queue = q
         /\ r.closed = p.closed /\ r.writer = p.writer /\ r.rows = p.rows
  BY DEF Work!Pipe, Work!Messages

LEMMA ExportStartsKeeps ==
  ASSUME Work!ConstantsAssumption, Work!WorkTypes, NEW t \in Tasks, Work!WorkInv(t),
         Work!ExportStarts(t)
  PROVE  StepOf(t)
  <1> DEFINE w == worker[t]
             p == pipe[t]
             n == [w EXCEPT !.pc = "query"]
  <1>1. /\ w.kind = "export" /\ w.pc = "start" /\ Work!OnlyWorker
        /\ \/ /\ token[t] /\ Work!ExportReturns(t, FALSE)
              /\ UNCHANGED <<Work!managerVars, Work!centerVars>>
           \/ ~token[t] /\ Work!To(t, n) /\ Work!Progress(t, 1)
    BY DEF Work!ExportStarts, Work!At
  <1>2. UNCHANGED <<limits, pipe, dest, output, late, crashed>> /\ Reports(t)
    BY <1>1 DEF Work!OnlyWorker, Reports
  <1>3. /\ Work!Running(t) /\ w \in Work!Worker /\ p \in Work!Pipe
        /\ output \in [Tasks -> {"old", "whole", "short"}]
        /\ Work!ExportState(w, p, token[t], Work!Units, output[t])
    BY <1>1, ExportAt DEF Work!ExportPcs
  <1>4. CASE token[t] /\ Work!ExportReturns(t, FALSE)
    <2>1. Work!To(t, Work!Returns(w, "Cancelled")) /\ "Cancelled" \in Work!TerminalStatus
      BY <1>4 DEF Work!ExportReturns, Work!TerminalStatus
    <2>2. output[t] = "old" /\ p.writer = "new" /\ ~p.closed
      BY <1>1, <1>3 DEF Work!ExportState
    <2> QED BY <1>1, <1>2, <1>3, <2>1, <2>2, FileReturns
  <1>5. CASE Work!To(t, n)
    <2>1. /\ n \in Work!Worker /\ n.pc = "query" /\ n.kind = "export"
          /\ n.unit = w.unit /\ n.failed = w.failed /\ n.page = w.page
      BY <1>1, <1>3, WorkerGoes DEF Work!ExportPcs
    <2> HIDE DEF n
    <2>2. Work!ExportState(n, p, token[t], Work!Units, output[t])
      BY <1>1, <1>3, <2>1 DEF Work!ExportState, Work!ExportPcs
    <2>3. pipe' = [pipe EXCEPT ![t] = p]
      BY <1>2 DEF Work!WorkTypes
    <2> QED BY <1>1, <1>2, <1>3, <1>5, <2>1, <2>2, <2>3, ExportGoesOn
  <1> QED BY <1>1, <1>4, <1>5

LEMMA ExportQueriesKeeps ==
  ASSUME Work!ConstantsAssumption, Work!WorkTypes, NEW t \in Tasks, Work!WorkInv(t),
         Work!ExportQueries(t)
  PROVE  StepOf(t)
  <1> DEFINE w == worker[t]
             p == pipe[t]
             n == [w EXCEPT !.pc = "stream"]
             sent == [p EXCEPT !.queue = Append(@, "columns")]
             broken == [w EXCEPT !.pc = "end", !.failed = 1]
  <1>1. /\ w.kind = "export" /\ w.pc = "query" /\ UNCHANGED output
        /\ \/ /\ Work!To(t, n)
              /\ Work!OnlyPipe(t, IF Work!WriterAlive(p) THEN sent ELSE p)
           \/ Work!To(t, broken) /\ Work!OnlyPipe(t, p)
    BY DEF Work!ExportQueries, Work!At
  <1>2. UNCHANGED <<limits, dest, output, late, crashed>> /\ Reports(t)
    BY <1>1 DEF Work!OnlyPipe, Reports
  <1>3. /\ Work!Running(t) /\ w \in Work!Worker /\ p \in Work!Pipe /\ Work!Units \in Nat
        /\ Work!ExportState(w, p, token[t], Work!Units, output[t])
    BY <1>1, ExportAt DEF Work!ExportPcs
  <1>4. /\ w.unit = 1 /\ p.queue = <<>> /\ p.rows = 0 /\ w.failed = 0 /\ ~p.closed
        /\ ~Work!Finishes(p) /\ output[t] = "old" /\ w.unit \in 1..Work!Units + 1
    BY <1>1, <1>3 DEF Work!ExportState, Work!Finishes
  <1>5. p.writer \in {"new", "columns", "rows", "failed"}
    BY <1>3, <1>4 DEF Work!Finishes, Work!Pipe
  <1>6. CASE Work!To(t, broken) /\ Work!OnlyPipe(t, p)
    <2>1. PICK m : m = broken
      OBVIOUS
    <2>2. /\ m \in Work!Worker /\ m.pc = "end" /\ m.failed = 1 /\ m.kind = "export"
          /\ m.unit = w.unit
      BY <1>1, <1>3, <2>1 DEF Work!Worker, Work!ExportPcs
    <2>3. Work!ExportState(m, p, token[t], Work!Units, output[t])
      BY <1>4, <1>5, <2>2, <1>3 DEF Work!ExportState, Work!ExportPcs
    <2>4. Work!To(t, m) /\ pipe' = [pipe EXCEPT ![t] = p]
      BY <1>6, <2>1 DEF Work!OnlyPipe
    <2> QED BY <1>1, <1>2, <1>3, <2>2, <2>3, <2>4, ExportGoesOn
  <1>7. CASE /\ Work!To(t, n)
             /\ Work!OnlyPipe(t, IF Work!WriterAlive(p) THEN sent ELSE p)
    <2>1. /\ n \in Work!Worker /\ n.pc = "stream" /\ n.kind = "export"
          /\ n.unit = w.unit /\ n.failed = w.failed /\ n.page = w.page
      BY <1>1, <1>3, WorkerGoes DEF Work!ExportPcs
    <2> HIDE DEF n
    <2>2. CASE ~Work!WriterAlive(p)
      <3>1. Work!ExportState(n, p, token[t], Work!Units, output[t])
        BY <1>3, <1>4, <1>5, <2>1, <2>2 DEF Work!ExportState, Work!ExportPcs
      <3>2. pipe' = [pipe EXCEPT ![t] = p]
        BY <1>7, <2>2 DEF Work!OnlyPipe
      <3> QED BY <1>1, <1>2, <1>3, <1>7, <2>1, <3>1, <3>2, ExportGoesOn
    <2>3. CASE Work!WriterAlive(p)
      <3>1. PICK q : q = Append(p.queue, "columns")
        OBVIOUS
      <3>2. q \in Seq(Work!Messages) /\ Work!Shaped(q) /\ ~Work!Closing(q) /\ Work!RowsIn(q) = 0
        <4>1. p.queue \in Seq(Work!Messages) /\ Len(p.queue) = 0 /\ "columns" \in Work!Messages
          BY <1>3, <1>4 DEF Work!Pipe, Work!Messages
        <4>2. q \in Seq(Work!Messages) /\ Len(q) = 1 /\ q[1] = "columns" /\ q # <<>>
          BY <3>1, <4>1
        <4>3. Work!Shaped(q) /\ ~Work!Closing(q)
          BY <4>2 DEF Work!Shaped, Work!Closing
        <4> QED BY <4>2, <4>3 DEF Work!RowsIn
      <3>3. PICK r : r = [p EXCEPT !.queue = q]
        OBVIOUS
      <3>4. /\ r \in Work!Pipe /\ r.queue = q
            /\ r.closed = p.closed /\ r.writer = p.writer /\ r.rows = p.rows
        BY <1>3, <3>2, <3>3, QueueSet
      <3>5. pipe' = [pipe EXCEPT ![t] = r]
        BY <1>7, <2>3, <3>1, <3>3 DEF Work!OnlyPipe
      <3>6. r.writer \in {"new", "columns", "rows"}
        BY <1>5, <2>3, <3>4 DEF Work!WriterAlive
      <3>7. ~Work!Finishes(r)
        BY <3>2, <3>4, <3>6 DEF Work!Finishes, Work!Closing
      <3>8. Work!ExportState(n, r, token[t], Work!Units, output[t])
        BY <1>4, <2>1, <3>2, <3>4, <3>6, <3>7 DEF Work!ExportState, Work!ExportPcs
      <3> QED BY <1>1, <1>2, <1>3, <1>7, <2>1, <3>4, <3>5, <3>8, ExportGoesOn
    <2> QED BY <2>2, <2>3
  <1> QED BY <1>1, <1>6, <1>7

LEMMA ExportStreamsKeeps ==
  ASSUME Work!ConstantsAssumption, Work!WorkTypes, NEW t \in Tasks, Work!WorkInv(t),
         Work!ExportStreams(t)
  PROVE  StepOf(t)
  <1> DEFINE w == worker[t]
             p == pipe[t]
             units == Work!Units
             wanted == Work!WriterAlive(p) /\ ~token[t]
             n == [w EXCEPT !.unit = @ + 1]
             whole == [w EXCEPT !.pc = "end"]
             broken == [w EXCEPT !.pc = "end", !.failed = 1]
             sent == [p EXCEPT !.queue = Append(@, "row")]
  <1>1. /\ w.kind = "export" /\ w.pc = "stream" /\ UNCHANGED output
        /\ \/ /\ w.unit <= units /\ Work!To(t, n)
              /\ Work!OnlyPipe(t, IF wanted THEN sent ELSE p)
           \/ w.unit > units /\ Work!To(t, whole) /\ Work!OnlyPipe(t, p)
           \/ Work!To(t, broken) /\ Work!OnlyPipe(t, p)
    BY DEF Work!ExportStreams, Work!At
  <1>2. UNCHANGED <<limits, dest, output, late, crashed>> /\ Reports(t)
    BY <1>1 DEF Work!OnlyPipe, Reports
  <1>3. /\ Work!Running(t) /\ w \in Work!Worker /\ p \in Work!Pipe /\ units \in Nat
        /\ Work!ExportState(w, p, token[t], units, output[t])
    BY <1>1, ExportAt DEF Work!ExportPcs
  <1>4. /\ w.failed = 0 /\ ~p.closed /\ ~Work!Finishes(p) /\ w.unit \in 1..units + 1
        /\ Work!Shaped(p.queue) /\ (wanted => p.rows + Work!RowsIn(p.queue) = w.unit - 1)
        /\ p.writer \in {"sealed", "commit", "failed"} => p.queue = <<>>
        /\ output[t] = "old"
    BY <1>1, <1>3 DEF Work!ExportState, Work!Finishes
  <1>5. /\ p.writer \in {"new", "columns", "rows", "failed"} /\ ~Work!Closing(p.queue)
        /\ p.queue \in Seq(Work!Messages) /\ p.rows \in Nat
    BY <1>3, <1>4 DEF Work!Finishes, Work!Pipe
  <1>6. CASE Work!To(t, broken) /\ Work!OnlyPipe(t, p)
    <2>1. PICK m : m = broken
      OBVIOUS
    <2>2. /\ m \in Work!Worker /\ m.pc = "end" /\ m.failed = 1 /\ m.kind = "export"
          /\ m.unit = w.unit
      BY <1>1, <1>3, <2>1 DEF Work!Worker, Work!ExportPcs
    <2>3. Work!ExportState(m, p, token[t], units, output[t])
      <3> HIDE DEF w, p, units
      <3> QED BY <1>4, <1>5, <2>2 DEF Work!ExportState, Work!ExportPcs
    <2>4. Work!To(t, m) /\ pipe' = [pipe EXCEPT ![t] = p]
      BY <1>6, <2>1 DEF Work!OnlyPipe
    <2> QED BY <1>1, <1>2, <1>3, <2>2, <2>3, <2>4, ExportGoesOn
  <1>7. CASE w.unit > units /\ Work!To(t, whole) /\ Work!OnlyPipe(t, p)
    <2>1. PICK m : m = whole
      OBVIOUS
    <2>2. /\ m \in Work!Worker /\ m.pc = "end" /\ m.failed = w.failed /\ m.kind = "export"
          /\ m.unit = w.unit
      BY <1>1, <1>3, <2>1, WorkerGoes DEF Work!ExportPcs
    <2>3. Work!ExportState(m, p, token[t], units, output[t])
      <3>1. m.unit = units + 1
        BY <1>3, <1>4, <1>7, <2>2
      <3> HIDE DEF w, p, units
      <3> QED BY <1>4, <1>5, <2>2, <3>1 DEF Work!ExportState, Work!ExportPcs, wanted
    <2>4. Work!To(t, m) /\ pipe' = [pipe EXCEPT ![t] = p]
      BY <1>7, <2>1 DEF Work!OnlyPipe
    <2> QED BY <1>1, <1>2, <1>3, <2>2, <2>3, <2>4, ExportGoesOn
  <1>8. CASE /\ w.unit <= units /\ Work!To(t, n)
             /\ Work!OnlyPipe(t, IF wanted THEN sent ELSE p)
    <2>1. PICK m : m = n
      OBVIOUS
    <2>2. /\ m \in Work!Worker /\ m.pc = "stream" /\ m.failed = w.failed /\ m.kind = "export"
          /\ m.unit = w.unit + 1
      <3>1. PICK k \in Nat : k = w.unit + 1
        BY <1>4
      <3>2. m = [w EXCEPT !.unit = k]
        BY <2>1, <3>1
      <3> QED BY <1>1, <1>3, <3>1, <3>2 DEF Work!Worker
    <2>3. m.unit \in 1..units + 1
      BY <1>3, <1>4, <1>8, <2>2
    <2>4. PICK r \in Work!Pipe :
            /\ r = IF wanted THEN sent ELSE p
            /\ r.closed = p.closed /\ r.writer = p.writer /\ r.rows = p.rows
            /\ r.queue \in Seq(Work!Messages) /\ Work!Shaped(r.queue) /\ ~Work!Closing(r.queue)
            /\ ~wanted => r.queue = p.queue
            /\ wanted => Work!RowsIn(r.queue) = Work!RowsIn(p.queue) + 1
      <3>1. CASE ~wanted
        BY <1>3, <1>4, <1>5, <3>1
      <3>2. CASE wanted
        <4>1. PICK q : q = Append(p.queue, "row")
          OBVIOUS
        <4>2. /\ q \in Seq(Work!Messages) /\ Work!Shaped(q) /\ ~Work!Closing(q)
              /\ Work!RowsIn(q) = Work!RowsIn(p.queue) + 1
          BY <1>4, <1>5, <4>1, RowSent
        <4>3. PICK r : r = [p EXCEPT !.queue = q]
          OBVIOUS
        <4>4. /\ r \in Work!Pipe /\ r.queue = q
              /\ r.closed = p.closed /\ r.writer = p.writer /\ r.rows = p.rows
          BY <1>3, <4>2, <4>3, QueueSet
        <4>5. r = IF wanted THEN sent ELSE p
          BY <3>2, <4>1, <4>3
        <4> QED BY <3>2, <4>2, <4>4, <4>5
      <3> QED BY <3>1, <3>2
    <2>5. Work!ExportState(m, r, token[t], units, output[t])
      <3>1. ~Work!Finishes(r)
        BY <1>5, <2>4 DEF Work!Finishes
      <3>2. Work!WriterAlive(r) <=> Work!WriterAlive(p)
        BY <2>4 DEF Work!WriterAlive
      <3>3. wanted => r.rows + Work!RowsIn(r.queue) = m.unit - 1
        <4>1. p.rows \in Nat /\ m.unit - 1 = w.unit /\ w.unit \in Nat
          BY <1>4, <1>5, <2>2
        <4>2. Work!RowsIn(p.queue) \in Int
          BY <1>5 DEF Work!RowsIn
        <4> HIDE DEF w, p, units
        <4> QED BY <1>4, <2>4, <4>1, <4>2
      <3>4. r.writer \in {"sealed", "commit", "failed"} => r.queue = <<>>
        BY <1>4, <1>5, <2>4 DEF Work!WriterAlive
      <3> HIDE DEF w, p, units
      <3> QED BY <1>4, <1>5, <2>2, <2>3, <2>4, <3>1, <3>2, <3>3, <3>4
              DEF Work!ExportState, Work!ExportPcs, wanted
    <2>6. Work!To(t, m) /\ pipe' = [pipe EXCEPT ![t] = r]
      BY <1>8, <2>1, <2>4 DEF Work!OnlyPipe
    <2> QED BY <1>1, <1>2, <1>3, <2>2, <2>4, <2>5, <2>6, ExportGoesOn
  <1> QED BY <1>1, <1>6, <1>7, <1>8

LEMMA ExportClosesKeeps ==
  ASSUME Work!ConstantsAssumption, Work!WorkTypes, NEW t \in Tasks, Work!WorkInv(t),
         Work!ExportCloses(t)
  PROVE  StepOf(t)
  <1> DEFINE w == worker[t]
             p == pipe[t]
             units == Work!Units
             finishes == w.failed = 0 /\ ~token[t] /\ Work!WriterAlive(p)
             page == IF token[t] THEN 2 ELSE 1
             n == [w EXCEPT !.pc = "await", !.page = page]
             queue == IF finishes THEN Append(p.queue, "finish") ELSE p.queue
             r == [p EXCEPT !.closed = TRUE, !.queue = queue]
  <1>1. /\ w.kind = "export" /\ w.pc = "end" /\ UNCHANGED output
        /\ Work!To(t, n) /\ Work!OnlyPipe(t, r)
    BY DEF Work!ExportCloses, Work!At
  <1>2. UNCHANGED <<limits, dest, output, late, crashed>> /\ Reports(t)
    BY <1>1 DEF Work!OnlyPipe, Reports
  <1>3. /\ Work!Running(t) /\ w \in Work!Worker /\ p \in Work!Pipe /\ units \in Nat
        /\ Work!ExportState(w, p, token[t], units, output[t])
    BY <1>1, ExportAt DEF Work!ExportPcs
  <1>4. /\ ~Work!Finishes(p) /\ w.unit \in 1..units + 1 /\ Work!Shaped(p.queue)
        /\ finishes => p.rows + Work!RowsIn(p.queue) = w.unit - 1 /\ w.unit = units + 1
        /\ p.writer \in {"sealed", "commit", "failed"} => p.queue = <<>>
        /\ output[t] = "old"
    BY <1>1, <1>3 DEF Work!ExportState, Work!Finishes
  <1>5. /\ p.writer \in {"new", "columns", "rows", "failed"} /\ ~Work!Closing(p.queue)
        /\ p.queue \in Seq(Work!Messages) /\ p.rows \in Nat
    BY <1>3, <1>4 DEF Work!Finishes, Work!Pipe
  <1>6. /\ n \in Work!Worker /\ n.pc = "await" /\ n.kind = "export"
        /\ n.unit = w.unit /\ n.failed = w.failed /\ (~token[t] => n.page = 1)
    <2>1. page \in Nat /\ "await" \in Work!ExportPcs /\ (~token[t] => page = 1)
      BY DEF Work!ExportPcs
    <2> HIDE DEF page
    <2> QED BY <1>1, <1>3, <2>1 DEF Work!Worker
  <1>7. /\ queue \in Seq(Work!Messages) /\ Work!Shaped(queue)
        /\ finishes => Work!Closing(queue) /\ Work!RowsIn(queue) = Work!RowsIn(p.queue)
        /\ ~finishes => queue = p.queue
    <2>1. CASE finishes
      BY <1>4, <1>5, <2>1, FinishSent
    <2>2. CASE ~finishes
      BY <1>4, <1>5, <2>2
    <2> QED BY <2>1, <2>2
  <1>8. /\ r \in Work!Pipe /\ r.queue = queue /\ r.writer = p.writer /\ r.rows = p.rows
    <2> HIDE DEF queue
    <2> QED BY <1>3, <1>7 DEF Work!Pipe, Work!Messages
  <1> HIDE DEF n, r, queue
  <1>9. Work!ExportState(n, r, token[t], units, output[t])
    <2>1. Work!Finishes(r) <=> finishes
      BY <1>5, <1>7, <1>8 DEF Work!Finishes
    <2>2. finishes => r.rows + Work!RowsIn(r.queue) = units
      <3>1. finishes => w.unit - 1 = units
        BY <1>3, <1>4
      <3> QED BY <1>4, <1>7, <1>8, <3>1
    <2>3. r.writer \in {"sealed", "commit", "failed"} => r.queue = <<>>
      BY <1>4, <1>5, <1>7, <1>8 DEF Work!WriterAlive
    <2> HIDE DEF w, p, units
    <2> QED BY <1>4, <1>5, <1>6, <1>7, <1>8, <2>1, <2>2, <2>3 DEF Work!ExportState, Work!ExportPcs
  <1>10. pipe' = [pipe EXCEPT ![t] = r]
    BY <1>1 DEF Work!OnlyPipe
  <1> QED BY <1>1, <1>2, <1>3, <1>6, <1>8, <1>9, <1>10, ExportGoesOn

LEMMA ExportAwaitsKeeps ==
  ASSUME Work!ConstantsAssumption, Work!WorkTypes, NEW t \in Tasks, Work!WorkInv(t),
         Work!ExportAwaits(t)
  PROVE  StepOf(t)
  <1> DEFINE w == worker[t]
             p == pipe[t]
             ok == w.failed = 0 /\ w.page = 1 /\ p.writer = "written"
             o == IF ok THEN "Completed" ELSE IF token[t] THEN "Cancelled" ELSE "Failed"
  <1>1. /\ w.kind = "export" /\ w.pc = "await" /\ ~Work!WriterAlive(p)
        /\ Work!To(t, Work!Returns(w, o)) /\ Work!Quietly
    BY DEF Work!ExportAwaits, Work!At, Work!ExportReturns
  <1>2. UNCHANGED <<limits, pipe, dest, output, late, crashed>> /\ Reports(t)
    BY <1>1 DEF Work!Quietly, Work!OnlyWorker, Reports
  <1>3. /\ Work!Running(t) /\ output \in [Tasks -> {"old", "whole", "short"}]
        /\ Work!ExportState(w, p, token[t], Work!Units, output[t])
    BY <1>1, ExportAt DEF Work!ExportPcs
  <1>4. p.writer \in {"failed", "written"}
    BY <1>1 DEF Work!WriterAlive
  <1>5. /\ p.writer = "written" => ok /\ output[t] = "whole"
        /\ p.writer # "written" => ~ok /\ output[t] = "old"
    BY <1>3 DEF Work!ExportState, Work!Finishes
  <1>6. /\ o \in Work!TerminalStatus /\ o # "Partial" /\ (o = "Completed" <=> ok)
    BY DEF Work!TerminalStatus
  <1> HIDE DEF o, ok
  <1>7. /\ o = "Completed" => output[t] = "whole"
        /\ o \in {"Cancelled", "Failed"} => output[t] = "old"
    BY <1>5, <1>6
  <1> QED BY <1>1, <1>2, <1>3, <1>4, <1>6, <1>7, FileReturns

LEMMA ExportsKeep ==
  ASSUME Work!ConstantsAssumption, Work!WorkTypes, NEW t \in Tasks, Work!WorkInv(t),
         Work!Exports(t)
  PROVE  StepOf(t)
  BY ExportStartsKeeps, ExportQueriesKeeps, ExportStreamsKeeps, ExportClosesKeeps, ExportAwaitsKeeps
  DEF Work!Exports

\* What every step of a writer thread comes to.
WriterStep(t) ==
  /\ Work!WorkTypes' /\ Work!WorkInv(t)' /\ Alone(t)
  /\ UNCHANGED <<limits, worker, entries, token, completed, center, cancels>>
  /\ worker[t].pc = "gone" => t \in crashed'

\* Only an export that runs, or that panicked, has a writer that goes on.
LEMMA WriterRuns ==
  ASSUME Work!ConstantsAssumption, Work!WorkTypes, NEW t \in Tasks, Work!WorkInv(t),
         Work!Writer(t)
  PROVE  /\ worker[t].kind = "export" /\ worker[t].pc # "none"
         /\ worker[t].pc \in {"returned", "gone"} => t \in crashed
         /\ worker[t] \in Work!Worker /\ pipe[t] \in Work!Pipe /\ Work!Units \in Nat
         /\ output \in [Tasks -> {"old", "whole", "short"}]
         /\ pipe[t].writer \in {"new", "columns", "rows", "sealed", "commit"}
         /\ Work!Running(t) =>
              /\ Work!ExportState(worker[t], pipe[t], token[t], Work!Units, output[t])
              /\ worker[t].pc # "start"
  <1>1. /\ pipe[t].writer \in {"new", "columns", "rows", "sealed", "commit"}
        /\ pipe[t].writer = "new" => Work!WriterStarted(t)
    BY DEF Work!Writer, Work!WriterOpens, Work!WriterReceives, Work!WriterChecks, Work!WriterCommits
  <1>2. worker[t].kind = "export"
    BY <1>1 DEF Work!WorkInv, Work!WriterStarted
  <1>3. worker[t].pc # "none"
    <2>1. worker[t] = Work!Idle => worker[t].kind = Nothing
      BY DEF Work!Idle
    <2>2. Nothing # "export"
      BY DEF Work!ConstantsAssumption, Work!Kinds
    <2> QED BY <1>2, <2>1, <2>2 DEF Work!WorkInv
  <1>4. worker[t].pc \in {"returned", "gone"} => t \in crashed
    <2>1. SUFFICES ASSUME worker[t].pc \in {"returned", "gone"}, t \notin crashed
                   PROVE  FALSE
      OBVIOUS
    <2>2. pipe[t].closed \/ pipe[t].writer # "new" => pipe[t].writer \in {"failed", "written"}
      BY <2>1 DEF Work!WorkInv, Work!Settled
    <2>3. pipe[t].writer = "new" => pipe[t].closed
      BY <1>1, <2>1 DEF Work!WriterStarted
    <2> QED BY <1>1, <2>2, <2>3
  <1>5. worker[t] \in Work!Worker /\ pipe[t] \in Work!Pipe /\ Work!Units \in Nat
        /\ output \in [Tasks -> {"old", "whole", "short"}]
    BY DEF Work!WorkTypes, Work!ConstantsAssumption, Work!Units
  <1>6. ASSUME Work!Running(t)
        PROVE  /\ Work!ExportState(worker[t], pipe[t], token[t], Work!Units, output[t])
               /\ worker[t].pc # "start"
    <2>1. Work!ExportState(worker[t], pipe[t], token[t], Work!Units, output[t])
      BY <1>2, <1>6 DEF Work!WorkInv, Work!ExportInv
    <2>2. worker[t].pc = "start" => pipe[t].writer = "new" /\ ~pipe[t].closed
      BY <2>1 DEF Work!ExportState
    <2> QED BY <1>1, <2>1, <2>2 DEF Work!WriterStarted
  <1> QED BY <1>1, <1>2, <1>3, <1>4, <1>5, <1>6

LEMMA WriterGoesOn ==
  ASSUME Work!ConstantsAssumption, Work!WorkTypes, NEW t \in Tasks, Work!WorkInv(t),
         worker[t].kind = "export", worker[t].pc # "none",
         worker[t].pc \in {"returned", "gone"} => t \in crashed,
         NEW p \in Work!Pipe, Work!OnlyPipe(t, p), UNCHANGED worker,
         output' \in [Tasks -> {"old", "whole", "short"}],
         \A u \in Tasks \ {t} : output'[u] = output[u],
         Work!Running(t) => Work!ExportState(worker[t], p, token[t], Work!Units, output'[t])
  PROVE  WriterStep(t)
  <1>1. UNCHANGED <<limits, worker, dest, late, crashed, entries, token, completed, center, cancels>>
    BY DEF Work!OnlyPipe, Work!managerVars, Work!centerVars
  <1>2. /\ pipe' \in [Tasks -> Work!Pipe] /\ pipe'[t] = p
        /\ \A u \in Tasks \ {t} : pipe'[u] = pipe[u]
    BY DEF Work!WorkTypes, Work!OnlyPipe
  <1>3. Work!WorkTypes' /\ Alone(t)
    BY <1>1, <1>2 DEF Work!WorkTypes, Alone
  <1>4. Work!Running(t) => Work!ExportInv(t)'
    BY <1>1, <1>2 DEF Work!ExportInv, Work!Units
  <1>5. Work!WorkInv(t)'
    BY <1>1, <1>2, <1>4 DEF Work!WorkInv, Work!Running
  <1> QED BY <1>1, <1>3, <1>5 DEF WriterStep

LEMMA WriterFailsKeeps ==
  ASSUME Work!ConstantsAssumption, Work!WorkTypes, NEW t \in Tasks, Work!WorkInv(t),
         Work!Writer(t), Work!WriterFails(t), UNCHANGED worker
  PROVE  WriterStep(t)
  <1> DEFINE w == worker[t]
             p == pipe[t]
             r == [p EXCEPT !.writer = "failed", !.queue = <<>>]
  <1>1. /\ w.kind = "export" /\ w.pc # "none"
        /\ w.pc \in {"returned", "gone"} => t \in crashed
        /\ p \in Work!Pipe /\ output \in [Tasks -> {"old", "whole", "short"}]
        /\ p.writer # "written"
        /\ Work!Running(t) => /\ Work!ExportState(w, p, token[t], Work!Units, output[t])
                              /\ w.pc # "start"
    BY WriterRuns
  <1>2. /\ r \in Work!Pipe /\ r.writer = "failed" /\ r.queue = <<>>
        /\ r.closed = p.closed /\ r.rows = p.rows
    <2>1. PICK none \in Seq(Work!Messages) : none = <<>>
      <3>1. <<>> \in Seq(Work!Messages)
        OBVIOUS
      <3> QED BY <3>1
    <2>2. PICK m : m = [p EXCEPT !.writer = "failed", !.queue = none]
      OBVIOUS
    <2>3. /\ m \in Work!Pipe /\ m.writer = "failed" /\ m.queue = none
          /\ m.closed = p.closed /\ m.rows = p.rows
      BY <1>1, <2>2 DEF Work!Pipe
    <2> QED BY <2>1, <2>2, <2>3
  <1>3. Work!OnlyPipe(t, r) /\ UNCHANGED output
    BY DEF Work!WriterFails
  <1> HIDE DEF r
  <1>4. Work!Shaped(r.queue) /\ ~Work!Finishes(r) /\ ~Work!WriterAlive(r)
    BY <1>2 DEF Work!Shaped, Work!Finishes, Work!Closing, Work!WriterAlive
  <1>5. Work!Running(t) => Work!ExportState(w, r, token[t], Work!Units, output[t])
    <2> HIDE DEF w, p
    <2> QED BY <1>1, <1>2, <1>4 DEF Work!ExportState
  <1>6. /\ output' \in [Tasks -> {"old", "whole", "short"}]
        /\ \A u \in Tasks \ {t} : output'[u] = output[u]
        /\ Work!Running(t) => Work!ExportState(w, r, token[t], Work!Units, output'[t])
    BY <1>1, <1>3, <1>5
  <1> QED BY <1>1, <1>2, <1>3, <1>6, WriterGoesOn

\* A writer that goes on and leaves the queue.
LEMMA WriterSet ==
  ASSUME Work!ConstantsAssumption, Work!WorkTypes, NEW t \in Tasks, Work!WorkInv(t),
         Work!Writer(t), UNCHANGED worker, NEW x \in {"columns", "commit", "written"},
         Work!OnlyPipe(t, [pipe[t] EXCEPT !.writer = x]),
         x = "columns" => pipe[t].writer = "new",
         x = "commit" => pipe[t].writer = "sealed",
         x = "written" => pipe[t].writer = "commit",
         output' = IF x = "written"
                   THEN [output EXCEPT ![t] = IF pipe[t].rows = Work!Units THEN "whole" ELSE "short"]
                   ELSE output
  PROVE  WriterStep(t)
  <1> DEFINE w == worker[t]
             p == pipe[t]
             r == [p EXCEPT !.writer = x]
  <1>1. /\ w.kind = "export" /\ w.pc # "none"
        /\ w.pc \in {"returned", "gone"} => t \in crashed
        /\ p \in Work!Pipe /\ output \in [Tasks -> {"old", "whole", "short"}] /\ Work!Units \in Nat
        /\ Work!Running(t) => /\ Work!ExportState(w, p, token[t], Work!Units, output[t])
                              /\ w.pc # "start"
    BY WriterRuns
  <1>2. /\ r \in Work!Pipe /\ r.writer = x /\ r.queue = p.queue
        /\ r.closed = p.closed /\ r.rows = p.rows
    BY <1>1 DEF Work!Pipe
  <1>3. Work!OnlyPipe(t, r)
    OBVIOUS
  <1> HIDE DEF r
  <1>4. /\ output' \in [Tasks -> {"old", "whole", "short"}]
        /\ \A u \in Tasks \ {t} : output'[u] = output[u]
    BY <1>1
  <1>5. ASSUME Work!Running(t)
        PROVE  Work!ExportState(w, r, token[t], Work!Units, output'[t])
    <2>1. Work!ExportState(w, p, token[t], Work!Units, output[t]) /\ w.pc # "start"
      BY <1>1, <1>5
    <2>2. CASE x = "columns"
      <3>1. /\ Work!Finishes(r) <=> Work!Finishes(p)
            /\ Work!WriterAlive(r) <=> Work!WriterAlive(p)
        BY <1>2, <2>2 DEF Work!Finishes, Work!WriterAlive
      <3>2. output' = output /\ p.writer = "new"
        BY <2>2
      <3> HIDE DEF w, p
      <3> QED BY <1>2, <2>1, <2>2, <3>1, <3>2 DEF Work!ExportState
    <2>3. CASE x = "commit"
      <3>1. /\ Work!Finishes(r) <=> Work!Finishes(p)
            /\ Work!WriterAlive(r) <=> Work!WriterAlive(p)
        BY <1>2, <2>3 DEF Work!Finishes, Work!WriterAlive
      <3>2. output' = output /\ p.writer = "sealed"
        BY <2>3
      <3> HIDE DEF w, p
      <3> QED BY <1>2, <2>1, <2>3, <3>1, <3>2 DEF Work!ExportState
    <2>4. CASE x = "written"
      <3>1. p.writer = "commit"
        BY <2>4
      <3>2. Work!Finishes(r) /\ Work!Finishes(p) /\ Work!WriterAlive(p) /\ ~Work!WriterAlive(r)
        BY <1>2, <2>4, <3>1 DEF Work!Finishes, Work!WriterAlive
      <3>3. p.queue = <<>> /\ p.rows + Work!RowsIn(p.queue) = Work!Units
        BY <2>1, <3>1, <3>2 DEF Work!ExportState
      <3>4. Work!RowsIn(p.queue) = 0
        BY <3>3 DEF Work!RowsIn, Work!Closing
      <3>5. p.rows = Work!Units
        <4>1. p.rows \in Nat
          BY <1>1 DEF Work!Pipe
        <4> QED BY <1>1, <3>3, <3>4, <4>1
      <3>6. output'[t] = "whole"
        BY <1>1, <2>4, <3>5
      <3> HIDE DEF w, p
      <3> QED BY <1>2, <2>1, <2>4, <3>2, <3>6 DEF Work!ExportState
    <2> QED BY <2>2, <2>3, <2>4
  <1> QED BY <1>1, <1>2, <1>3, <1>4, <1>5, WriterGoesOn

LEMMA WriterReceivesKeeps ==
  ASSUME Work!ConstantsAssumption, Work!WorkTypes, NEW t \in Tasks, Work!WorkInv(t),
         Work!WriterReceives(t)
  PROVE  WriterStep(t)
  <1> DEFINE w == worker[t]
             p == pipe[t]
             q == p.queue
             rest == [p EXCEPT !.queue = Tail(@)]
             next == CASE Head(q) = "columns" -> [rest EXCEPT !.writer = "rows"]
                       [] Head(q) = "row" -> [rest EXCEPT !.rows = @ + 1]
                       [] Head(q) = "finish" -> [rest EXCEPT !.writer = "sealed"]
  <1>1. /\ p.writer \in {"columns", "rows"} /\ UNCHANGED worker /\ Work!Writer(t)
        /\ \/ Work!WriterFails(t)
           \/ q # <<>> /\ Work!OnlyPipe(t, next) /\ UNCHANGED output
    BY DEF Work!WriterReceives, Work!Writer
  <1>2. /\ w.kind = "export" /\ w.pc # "none"
        /\ w.pc \in {"returned", "gone"} => t \in crashed
        /\ p \in Work!Pipe /\ output \in [Tasks -> {"old", "whole", "short"}]
        /\ Work!Running(t) => /\ Work!ExportState(w, p, token[t], Work!Units, output[t])
                              /\ w.pc # "start"
    BY <1>1, WriterRuns
  <1>3. q \in Seq(Work!Messages) /\ p.rows \in Nat /\ p.writer \in {"columns", "rows"}
    BY <1>1, <1>2 DEF Work!Pipe
  <1>4. CASE q # <<>> /\ Work!OnlyPipe(t, next) /\ UNCHANGED output
    <2>1. Head(q) \in {"columns", "row", "finish"} /\ Tail(q) \in Seq(Work!Messages)
      BY <1>3, <1>4 DEF Work!Messages
    <2>2. PICK back \in Work!Pipe :
            /\ back = rest /\ back.queue = Tail(q)
            /\ back.closed = p.closed /\ back.writer = p.writer /\ back.rows = p.rows
      <3>1. PICK k \in Seq(Work!Messages) : k = Tail(q)
        BY <2>1
      <3>2. PICK back : back = [p EXCEPT !.queue = k]
        OBVIOUS
      <3>3. back = rest
        BY <3>1, <3>2
      <3>4. /\ back \in Work!Pipe /\ back.queue = k
            /\ back.closed = p.closed /\ back.writer = p.writer /\ back.rows = p.rows
        BY <1>2, <3>2, QueueSet
      <3> QED BY <3>1, <3>3, <3>4
    <2> DEFINE r == next
               more == IF Head(q) = "row" THEN 1 ELSE 0
    <2>3. /\ r \in Work!Pipe /\ r.queue = Tail(q) /\ r.closed = p.closed
          /\ r.rows = p.rows + more
          /\ Head(q) = "columns" => r.writer = "rows"
          /\ Head(q) = "row" => r.writer = p.writer
          /\ Head(q) = "finish" => r.writer = "sealed"
      <3>1. CASE Head(q) = "columns"
        <4>1. PICK m : m = [back EXCEPT !.writer = "rows"]
          OBVIOUS
        <4>2. /\ m \in Work!Pipe /\ m.queue = back.queue /\ m.closed = back.closed
              /\ m.writer = "rows" /\ m.rows = back.rows
          BY <4>1 DEF Work!Pipe
        <4>3. r = m
          BY <2>2, <3>1, <4>1
        <4>4. more = 0 /\ p.rows + 0 = p.rows
          BY <1>3, <3>1
        <4> HIDE DEF r, more
        <4> QED BY <2>2, <3>1, <4>2, <4>3, <4>4
      <3>2. CASE Head(q) = "row"
        <4>1. PICK k \in Nat : k = p.rows + 1
          BY <1>3
        <4>2. PICK m : m = [back EXCEPT !.rows = k]
          OBVIOUS
        <4>3. /\ m \in Work!Pipe /\ m.queue = back.queue /\ m.closed = back.closed
              /\ m.writer = back.writer /\ m.rows = k
          BY <4>2 DEF Work!Pipe
        <4>4. r = m
          BY <2>2, <3>2, <4>1, <4>2
        <4>5. more = 1
          BY <3>2
        <4> HIDE DEF r, more
        <4> QED BY <2>2, <3>2, <4>1, <4>3, <4>4, <4>5
      <3>3. CASE Head(q) = "finish"
        <4>1. PICK m : m = [back EXCEPT !.writer = "sealed"]
          OBVIOUS
        <4>2. /\ m \in Work!Pipe /\ m.queue = back.queue /\ m.closed = back.closed
              /\ m.writer = "sealed" /\ m.rows = back.rows
          BY <4>1 DEF Work!Pipe
        <4>3. r = m
          BY <2>2, <3>3, <4>1
        <4>4. more = 0 /\ p.rows + 0 = p.rows
          BY <1>3, <3>3
        <4> HIDE DEF r, more
        <4> QED BY <2>2, <3>3, <4>2, <4>3, <4>4
      <3> QED BY <2>1, <3>1, <3>2, <3>3
    <2>a. more \in Nat
      OBVIOUS
    <2>b. Work!OnlyPipe(t, r)
      BY <1>4
    <2>c. r.writer \in {"columns", "rows", "sealed"} /\ (r.writer = "sealed" <=> Head(q) = "finish")
      BY <1>3, <2>1, <2>3
    <2> HIDE DEF r
    <2>4. ASSUME Work!Running(t)
          PROVE  Work!ExportState(w, r, token[t], Work!Units, output[t])
      <3>1. Work!ExportState(w, p, token[t], Work!Units, output[t]) /\ w.pc # "start"
        BY <1>2, <2>4
      <3>2. Work!Shaped(q)
        BY <3>1 DEF Work!ExportState
      <3>3. /\ Work!Shaped(Tail(q)) /\ Work!RowsIn(q) \in Int /\ Work!RowsIn(Tail(q)) \in Int
            /\ Head(q) = "columns" => /\ Work!RowsIn(Tail(q)) = Work!RowsIn(q)
                                      /\ Work!Closing(Tail(q)) <=> Work!Closing(q)
            /\ Head(q) = "row" => /\ Work!RowsIn(Tail(q)) = Work!RowsIn(q) - 1
                                  /\ Work!Closing(Tail(q)) <=> Work!Closing(q)
            /\ Head(q) = "finish" => /\ Tail(q) = <<>> /\ Work!RowsIn(Tail(q)) = Work!RowsIn(q)
                                     /\ Work!Closing(q)
        BY <1>3, <1>4, <3>2, MessageReceived
      <3>4. Work!Finishes(r) <=> Work!Finishes(p)
        <4>1. Work!Finishes(r) <=> Work!Closing(Tail(q)) \/ r.writer = "sealed"
          BY <2>3, <2>c DEF Work!Finishes
        <4>2. Work!Finishes(p) <=> Work!Closing(q)
          BY <1>3 DEF Work!Finishes
        <4> QED BY <2>1, <2>c, <3>3, <4>1, <4>2
      <3>5. Work!WriterAlive(r) /\ Work!WriterAlive(p)
        BY <1>3, <2>c DEF Work!WriterAlive
      <3>6. r.rows + Work!RowsIn(r.queue) = p.rows + Work!RowsIn(q)
        <4> DEFINE a == Work!RowsIn(Tail(q))
                   b == Work!RowsIn(q)
        <4>1. a \in Int /\ b \in Int /\ a = b - more
          BY <2>1, <3>3
        <4>2. r.rows + a = p.rows + more + a /\ Work!RowsIn(r.queue) = a
          BY <2>3
        <4> HIDE DEF a, b, p, q, more
        <4>3. p.rows \in Nat /\ more \in Int
          BY <1>3, <2>a
        <4> QED BY <4>1, <4>2, <4>3 DEF b
      <3>7. r.writer \in {"sealed", "commit", "failed"} => r.queue = <<>>
        BY <2>3, <2>c, <3>3
      <3>8. w.pc \notin {"start", "query"}
        BY <1>4, <3>1 DEF Work!ExportState
      <3>9. r.writer # "written" /\ p.writer # "written" /\ Work!Shaped(r.queue) /\ r.closed = p.closed
        BY <1>3, <2>3, <2>c, <3>3
      <3> HIDE DEF w, p, q
      <3> QED BY <3>1, <3>4, <3>5, <3>6, <3>7, <3>8, <3>9 DEF Work!ExportState, q
    <2>5. /\ output' \in [Tasks -> {"old", "whole", "short"}]
          /\ \A u \in Tasks \ {t} : output'[u] = output[u]
          /\ Work!Running(t) => Work!ExportState(w, r, token[t], Work!Units, output'[t])
          /\ Work!OnlyPipe(t, r)
      BY <1>2, <1>4, <2>b, <2>4
    <2> QED BY <1>1, <1>2, <2>3, <2>5, WriterGoesOn
  <1> QED BY <1>1, <1>4, WriterFailsKeeps

LEMMA WriterKeeps ==
  ASSUME Work!ConstantsAssumption, Work!WorkTypes, NEW t \in Tasks, Work!WorkInv(t),
         Work!Writer(t)
  PROVE  WriterStep(t)
  <1>1. CASE Work!WriterOpens(t)
    BY <1>1, WriterFailsKeeps, WriterSet DEF Work!WriterOpens
  <1>2. CASE Work!WriterReceives(t)
    BY <1>2, WriterReceivesKeeps
  <1>3. CASE Work!WriterChecks(t)
    BY <1>3, WriterFailsKeeps, WriterSet DEF Work!WriterChecks
  <1>4. CASE Work!WriterCommits(t)
    BY <1>4, WriterFailsKeeps, WriterSet DEF Work!WriterCommits
  <1> QED BY <1>1, <1>2, <1>3, <1>4 DEF Work!Writer

(* The tasks and the center together.                                       *)

\* What other steps make of the entry of a task: it is pruned once the worker is
\* gone, or it is cancelled.
Same(u) ==
  \/ worker[u].pc = "gone" /\ entries'[u] = Nothing
  \/ /\ entries'[u] = Nothing <=> entries[u] = Nothing
     /\ entries[u] # Nothing =>
          \/ entries'[u].status = entries[u].status
          \/ ~Work!IsTerminal(entries[u]) /\ entries'[u].status = "Cancelling"

LEMMA EntryStays ==
  ASSUME NEW u \in Tasks, Work!EntryInv(u), UNCHANGED limits,
         worker'[u] = worker[u], dest'[u] = dest[u], output'[u] = output[u],
         u \in crashed' <=> u \in crashed, Same(u)
  PROVE  Work!EntryInv(u)'
  <1>1. \A status : Work!Tells(u, status)' <=> Work!Tells(u, status)
    <2>1. Work!WholeCopy(u)' = Work!WholeCopy(u)
      BY DEF Work!WholeCopy, Work!Units, Work!HasStructure, Work!HasData
    <2> QED BY <2>1 DEF Work!Tells
  <1>2. Work!Tells(u, "Cancelling")
    BY DEF Work!Tells
  <1>3. worker[u].pc = "none" => entries'[u] = Nothing
    BY DEF Work!EntryInv, Same
  <1>4. worker[u].pc \notin {"none", "gone"} => entries'[u] # Nothing /\ ~Work!IsTerminal(entries'[u])
    <2>1. "Cancelling" \notin Work!TerminalStatus
      BY DEF Work!TerminalStatus
    <2> QED BY <2>1 DEF Work!EntryInv, Same, Work!IsTerminal
  <1>5. worker[u].pc = "gone" /\ u \notin crashed /\ entries'[u] # Nothing
          => Work!Tells(u, entries'[u].status)
    BY <1>2 DEF Work!EntryInv, Same
  <1>6. worker[u].pc = "gone" /\ u \notin crashed /\ entries'[u] # Nothing
          => Work!Tells(u, entries[u].status)'
    BY <1>1, <1>5
  <1> QED BY <1>3, <1>4, <1>6 DEF Work!EntryInv

\* What one task does, to it and to the entries, leaves the rest.
LEMMA TaskMoves ==
  ASSUME Work!TasksInv, NEW t \in Tasks,
         Work!ManagerTypes', Work!CenterInv', Work!WorkTypes', Work!WorkInv(t)', Alone(t),
         Work!EntryInv(t)', UNCHANGED limits, \A u \in Tasks : token[u] => token'[u],
         \A u \in Tasks \ {t} : Same(u),
         \A i \in DOMAIN completed' :
           \/ completed'[i] = t /\ worker'[t].pc = "gone"
           \/ \E j \in DOMAIN completed : completed'[i] = completed[j],
         worker[t].pc = "gone" => worker'[t].pc = "gone"
  PROVE  Work!TasksInv'
  <1>1. ASSUME NEW u \in Tasks PROVE Work!WorkInv(u)' /\ Work!EntryInv(u)'
    <2>1. CASE u = t
      BY <2>1
    <2>2. CASE u # t
      <3>1. /\ worker'[u] = worker[u] /\ pipe'[u] = pipe[u] /\ dest'[u] = dest[u]
            /\ output'[u] = output[u] /\ late'[u] = late[u] /\ (u \in crashed' <=> u \in crashed)
        BY <2>2 DEF Alone
      <3>2. Work!WorkInv(u) /\ Work!EntryInv(u) /\ Same(u) /\ (token[u] => token'[u])
        BY <2>2 DEF Work!TasksInv
      <3>3. Work!WorkInv(u)'
        BY <3>1, <3>2, OthersStay
      <3>4. Work!EntryInv(u)'
        BY <3>1, <3>2, EntryStays
      <3> QED BY <3>3, <3>4
    <2> QED BY <2>1, <2>2
  <1>2. ASSUME NEW i \in DOMAIN completed' PROVE worker'[completed'[i]].pc = "gone"
    <2>1. CASE completed'[i] = t /\ worker'[t].pc = "gone"
      BY <2>1
    <2>2. ASSUME NEW j \in DOMAIN completed, completed'[i] = completed[j]
          PROVE  worker'[completed'[i]].pc = "gone"
      <3>1. PICK u : u = completed[j]
        OBVIOUS
      <3>2. u \in Tasks /\ worker[u].pc = "gone"
        BY <3>1 DEF Work!TasksInv, Work!ManagerTypes
      <3>3. worker'[u].pc = "gone"
        BY <3>2 DEF Alone
      <3> QED BY <2>2, <3>1, <3>3
    <2> QED BY <2>1, <2>2
  <1>3. (\A u \in Tasks : Work!WorkInv(u) /\ Work!EntryInv(u))'
    BY <1>1
  <1>4. (\A i \in DOMAIN completed : worker[completed[i]].pc = "gone")'
    BY <1>2
  <1> QED BY <1>3, <1>4 DEF Work!TasksInv

\* A worker that goes on, and one that panics.
LEMMA StepKeeps ==
  ASSUME Work!ConstantsAssumption, Work!TasksInv, NEW t \in Tasks, StepOf(t)
  PROVE  Work!TasksInv'
  <1>1. /\ Work!ManagerTypes /\ Work!CenterInv /\ Work!EntryInv(t)
        /\ worker[t].pc \notin {"none", "returned", "gone"}
    BY DEF Work!TasksInv, StepOf, Work!Running
  <1>2. entries[t] # Nothing /\ ~Work!IsTerminal(entries[t])
    BY <1>1 DEF Work!EntryInv
  <1>3. /\ Work!ManagerTypes' /\ Work!CenterInv' /\ UNCHANGED <<token, completed, cancels>>
        /\ \A u \in Tasks : /\ entries'[u] = Nothing <=> entries[u] = Nothing
                            /\ entries[u] # Nothing => entries'[u].status = entries[u].status
    BY <1>1, <1>2, ReportsKeep DEF StepOf
  <1>4. \A u \in Tasks : Same(u)
    BY <1>3 DEF Same
  <1>5. Work!EntryInv(t)'
    <2>1. entries'[t] # Nothing /\ ~Work!IsTerminal(entries'[t])
      BY <1>2, <1>3 DEF Work!IsTerminal
    <2>2. worker'[t].pc \notin {"none", "gone"}
      BY DEF StepOf
    <2> QED BY <2>1, <2>2 DEF Work!EntryInv
  <1>6. Work!WorkTypes' /\ Work!WorkInv(t)' /\ Alone(t) /\ UNCHANGED limits
    BY DEF StepOf
  <1> QED BY <1>1, <1>3, <1>4, <1>5, <1>6, TaskMoves

LEMMA WriterStepKeeps ==
  ASSUME Work!ConstantsAssumption, Work!TasksInv, NEW t \in Tasks, WriterStep(t)
  PROVE  Work!TasksInv'
  <1>1. /\ Work!ManagerTypes /\ Work!CenterInv /\ Work!EntryInv(t)
        /\ UNCHANGED <<limits, worker, entries, token, completed, center, cancels>>
        /\ Work!WorkTypes' /\ Work!WorkInv(t)' /\ Alone(t)
    BY DEF Work!TasksInv, WriterStep
  <1>2. Work!ManagerTypes' /\ Work!CenterInv'
    BY <1>1 DEF Work!ManagerTypes, Work!CenterInv, Work!Due
  <1>3. \A u \in Tasks : Same(u)
    BY <1>1 DEF Same
  <1>4. Work!EntryInv(t)'
    <2>1. entries'[t] = entries[t] /\ worker'[t] = worker[t]
      BY <1>1
    <2>2. worker'[t].pc = "gone" => t \in crashed'
      BY <2>1 DEF WriterStep
    <2> QED BY <1>1, <2>1, <2>2 DEF Work!EntryInv, Work!IsTerminal
  <1> QED BY <1>1, <1>2, <1>3, <1>4, TaskMoves

LEMMA PanicsKeeps ==
  ASSUME Work!ConstantsAssumption, Work!WorkTypes, NEW t \in Tasks, Work!WorkInv(t),
         Work!Panics(t)
  PROVE  StepOf(t)
  <1> DEFINE n == Work!Returns(worker[t], "Failed")
             r == [pipe[t] EXCEPT !.closed = worker[t].pc # "start"]
  <1>1. /\ Work!Running(t) /\ Work!To(t, n) /\ crashed' = crashed \cup {t}
        /\ pipe' = [pipe EXCEPT ![t] = r]
        /\ UNCHANGED <<limits, dest, output, late, entries, token, completed, center, cancels>>
    BY DEF Work!Panics, Work!managerVars, Work!centerVars
  <1>2. n \in Work!Worker /\ n.pc = "returned" /\ n.outcome = "Failed" /\ n.kind = worker[t].kind
    <2>1. worker[t] \in Work!Worker /\ "Failed" \in Work!TerminalStatus
      BY DEF Work!WorkTypes, Work!TerminalStatus
    <2> QED BY <2>1, WorkerReturns
  <1>3. r \in Work!Pipe /\ r.writer = pipe[t].writer
    BY DEF Work!WorkTypes, Work!Pipe
  <1> HIDE DEF n, r
  <1>4. /\ worker' \in [Tasks -> Work!Worker] /\ worker'[t] = n
        /\ \A u \in Tasks \ {t} : worker'[u] = worker[u]
    BY <1>1, <1>2, WorkerSet
  <1>5. /\ pipe' \in [Tasks -> Work!Pipe] /\ pipe'[t] = r
        /\ \A u \in Tasks \ {t} : pipe'[u] = pipe[u]
    BY <1>1, <1>3 DEF Work!WorkTypes
  <1>6. Work!WorkTypes' /\ Alone(t)
    BY <1>1, <1>4, <1>5 DEF Work!WorkTypes, Alone
  <1>7. "Failed" # Nothing
    BY DEF Work!ConstantsAssumption, Work!TerminalStatus
  <1>8. Work!WorkInv(t)'
    BY <1>1, <1>2, <1>3, <1>4, <1>5, <1>7 DEF Work!WorkInv, Work!Running
  <1>9. Reports(t)
    BY <1>1 DEF Reports, Work!managerVars, Work!centerVars
  <1> QED BY <1>1, <1>2, <1>4, <1>6, <1>8, <1>9 DEF StepOf

\* An idle worker given its work.
Given(n, kind, content, pc) ==
  n = [Work!Idle EXCEPT !.kind = kind, !.content = content, !.pc = pc]

LEMMA IdleSet ==
  ASSUME NEW kind \in Work!Kinds \cup {Nothing}, NEW content \in Work!Contents \cup {Nothing},
         NEW pc \in {"gone"} \cup Work!CopyPcs \cup Work!RestorePcs \cup Work!BackupPcs
                   \cup Work!ExportPcs,
         NEW n, Given(n, kind, content, pc)
  PROVE  /\ n \in Work!Worker /\ n.kind = kind /\ n.content = content /\ n.pc = pc
         /\ n.unit = 1 /\ n.applied = 0 /\ n.failed = 0 /\ n.badRows = 0
  <1>1. PICK w : w = Work!Idle
    OBVIOUS
  <1>2. /\ w.kind = Nothing /\ w.content = Nothing /\ w.pc = "none" /\ w.page = 1
        /\ w.unit = 1 /\ w.applied = 0 /\ w.failed = 0 /\ w.badRows = 0
    BY <1>1 DEF Work!Idle
  <1>3. w \in Work!Worker
    BY <1>1 DEF Work!Idle, Work!Worker
  <1>4. n = [w EXCEPT !.kind = kind, !.content = content, !.pc = pc]
    BY <1>1 DEF Given
  <1>5. /\ n \in Work!Worker /\ n.kind = kind /\ n.content = content /\ n.pc = pc
        /\ n.unit = w.unit /\ n.applied = w.applied /\ n.failed = w.failed
        /\ n.badRows = w.badRows
    BY <1>3, <1>4 DEF Work!Worker
  <1> QED BY <1>2, <1>5

\* A task starts.
LEMMA StartKeeps ==
  ASSUME Work!ConstantsAssumption, Work!TasksInv, NEW t \in Tasks, NEW kind \in Work!Kinds,
         NEW content \in Work!Contents, Work!Start(t, kind, content)
  PROVE  Work!TasksInv'
  <1> DEFINE pc == Work!FirstPc(kind, content)
             n == [Work!Idle EXCEPT !.kind = kind, !.content = content, !.pc = pc]
  <1>1. /\ Work!ManagerTypes /\ Work!WorkTypes /\ Work!CenterInv /\ Work!WorkInv(t)
        /\ worker[t].pc = "none" /\ Work!Spawn(t) /\ Work!OnlyWorker /\ Work!To(t, n)
        /\ kind \in {"restore", "export"} => content = "Data"
    BY DEF Work!TasksInv, Work!Start
  <1>2. /\ kind = "copy" => pc = IF content = "Data" THEN "page" ELSE "structure"
        /\ kind = "restore" => pc = "statement"
        /\ kind = "backup" => pc = "open"
        /\ kind = "export" => pc = "start"
        /\ kind \in {"copy", "restore", "backup", "export"}
    BY DEF Work!FirstPc, Work!Kinds
  <1>3. pc \in {"page", "structure", "statement", "open", "start"}
    BY <1>2
  <1>4. /\ n \in Work!Worker /\ n.kind = kind /\ n.content = content /\ n.pc = pc
        /\ n.unit = 1 /\ n.applied = 0 /\ n.failed = 0 /\ n.badRows = 0
    <2>1. /\ kind \in Work!Kinds \cup {Nothing} /\ content \in Work!Contents \cup {Nothing}
          /\ pc \in {"gone"} \cup Work!CopyPcs \cup Work!RestorePcs \cup Work!BackupPcs
                    \cup Work!ExportPcs
      BY <1>3 DEF Work!CopyPcs, Work!RestorePcs, Work!BackupPcs, Work!ExportPcs
    <2> HIDE DEF pc
    <2>2. Given(n, kind, content, pc)
      BY DEF Given
    <2> HIDE DEF n
    <2> QED BY <2>1, <2>2, IdleSet
  <1> HIDE DEF pc, n
  <1>5. /\ worker' \in [Tasks -> Work!Worker] /\ worker'[t] = n
        /\ \A u \in Tasks \ {t} : worker'[u] = worker[u]
    BY <1>1, <1>4, WorkerSet
  <1>6. UNCHANGED <<limits, pipe, dest, output, late, crashed>>
    BY <1>1 DEF Work!OnlyWorker
  <1>7. Work!WorkTypes' /\ Alone(t)
    BY <1>1, <1>5, <1>6 DEF Work!WorkTypes, Alone
  <1>8. /\ Work!ManagerTypes' /\ Work!CenterInv' /\ UNCHANGED <<token, completed>>
        /\ entries'[t] # Nothing /\ entries'[t].status = "Running"
        /\ \A u \in Tasks \ {t} : entries'[u] = entries[u]
    BY <1>1, TaskBegins
  <1>9. /\ pipe[t] = Work!NoPipe /\ dest[t] = {} /\ output[t] = "old" /\ t \notin crashed
        /\ late[t] <= 1 /\ (late[t] > 0 => token[t])
    BY <1>1 DEF Work!WorkInv
  <1>10. /\ pipe[t].queue = <<>> /\ pipe[t].closed = FALSE /\ pipe[t].writer = "new"
         /\ pipe[t].rows = 0
    BY <1>9 DEF Work!NoPipe
  <1>11. Work!Units \in Nat /\ Work!Units' = Work!Units
    BY <1>1, <1>6 DEF Work!WorkTypes, Work!ConstantsAssumption, Work!Units
  <1>12. /\ Work!HasStructure(n) <=> content # "Data"
         /\ content = "Data" => Work!HasData(n) /\ Work!Before(n) = {}
    <2>1. content \in {"Structure", "Data", "StructureAndData"}
      BY DEF Work!Contents
    <2>2. 1..(1 - 1) = {}
      OBVIOUS
    <2> QED BY <1>4, <2>1, <2>2 DEF Work!HasStructure, Work!HasData, Work!Before
  <1>13. kind = "copy" => Work!CopyInv(t)'
    <2>1. CASE kind = "copy" /\ content = "Data"
      BY <1>2, <1>4, <1>5, <1>6, <1>9, <1>11, <1>12, <2>1 DEF Work!CopyInv, Work!CopyPcs, Work!Wrote
    <2>2. CASE kind = "copy" /\ content # "Data"
      BY <1>2, <1>4, <1>5, <1>6, <1>9, <1>12, <2>2 DEF Work!CopyInv, Work!CopyPcs
    <2> QED BY <2>1, <2>2
  <1>14. kind = "restore" => Work!RestoreInv(t)'
    BY <1>1, <1>2, <1>4, <1>5, <1>6, <1>9, <1>11, <1>12 DEF Work!RestoreInv, Work!RestorePcs, Work!Wrote
  <1>15. kind = "backup" => Work!BackupInv(t)'
    BY <1>2, <1>4, <1>5, <1>6, <1>9 DEF Work!BackupInv, Work!BackupPcs
  <1>16. kind = "export" => Work!ExportInv(t)'
    <2>1. SUFFICES ASSUME kind = "export"
                   PROVE  Work!ExportState(n, pipe[t], token[t], Work!Units, output[t])
      BY <1>5, <1>6, <1>8, <1>11 DEF Work!ExportInv
    <2>2. Work!Shaped(pipe[t].queue) /\ ~Work!Finishes(pipe[t])
      BY <1>10 DEF Work!Shaped, Work!Finishes, Work!Closing
    <2> QED BY <1>2, <1>4, <1>9, <1>10, <1>11, <2>1, <2>2 DEF Work!ExportState, Work!ExportPcs
  <1>17. Work!WorkInv(t)'
    <2>1. kind # Nothing
      BY DEF Work!ConstantsAssumption
    <2>2. n.pc \notin {"none", "returned", "gone", "create", "insert", "execute"}
      BY <1>3, <1>4
    <2> QED BY <1>4, <1>5, <1>6, <1>8, <1>9, <1>10, <1>13, <1>14, <1>15, <1>16, <2>1, <2>2
            DEF Work!WorkInv
  <1>18. Work!EntryInv(t)'
    <2>1. "Running" \notin Work!TerminalStatus
      BY DEF Work!TerminalStatus
    <2> QED BY <1>3, <1>4, <1>5, <1>8, <2>1 DEF Work!EntryInv, Work!IsTerminal
  <1>19. \A u \in Tasks \ {t} : Same(u)
    BY <1>8 DEF Same
  <1> QED BY <1>1, <1>6, <1>7, <1>8, <1>17, <1>18, <1>19, TaskMoves

\* A task ends: its entry says what its worker returned.
LEMMA EndsKeeps ==
  ASSUME Work!ConstantsAssumption, Work!TasksInv, NEW t \in Tasks, Work!Ends(t)
  PROVE  Work!TasksInv'
  <1> DEFINE w == worker[t]
             o == w.outcome
             n == [Work!Idle EXCEPT !.kind = w.kind, !.content = w.content, !.pc = "gone"]
  <1>1. /\ Work!ManagerTypes /\ Work!WorkTypes /\ Work!CenterInv /\ Work!WorkInv(t)
        /\ Work!EntryInv(t)
        /\ w.pc = "returned" /\ Work!Finish(t, o) /\ Work!OnlyWorker /\ Work!To(t, n)
        /\ \A i \in DOMAIN completed : worker[completed[i]].pc = "gone"
    BY DEF Work!TasksInv, Work!Ends
  <1>2. w \in Work!Worker /\ o \in Work!TerminalStatus /\ w.kind # Nothing /\ entries[t] # Nothing
    BY <1>1 DEF Work!WorkTypes, Work!WorkInv, Work!EntryInv, Work!Worker
  <1>3. /\ n \in Work!Worker /\ n.kind = w.kind /\ n.content = w.content /\ n.pc = "gone"
    <2>1. w.kind \in Work!Kinds \cup {Nothing} /\ w.content \in Work!Contents \cup {Nothing}
      BY <1>2 DEF Work!Worker
    <2>2. "gone" \in {"gone"} \cup Work!CopyPcs \cup Work!RestorePcs \cup Work!BackupPcs
                       \cup Work!ExportPcs
      OBVIOUS
    <2>3. Given(n, w.kind, w.content, "gone")
      BY DEF Given
    <2> HIDE DEF n
    <2> QED BY <2>1, <2>2, <2>3, IdleSet
  <1> HIDE DEF n
  <1>4. /\ worker' \in [Tasks -> Work!Worker] /\ worker'[t] = n
        /\ \A u \in Tasks \ {t} : worker'[u] = worker[u]
    BY <1>1, <1>3, WorkerSet
  <1>5. UNCHANGED <<limits, pipe, dest, output, late, crashed>>
    BY <1>1 DEF Work!OnlyWorker
  <1>6. Work!WorkTypes' /\ Alone(t)
    BY <1>1, <1>4, <1>5 DEF Work!WorkTypes, Alone
  <1>7. /\ Work!ManagerTypes' /\ Work!CenterInv' /\ UNCHANGED token
        /\ entries'[t] # Nothing => entries'[t].status = o
        /\ \A u \in Tasks \ {t} : \/ entries'[u] = entries[u]
                                  \/ /\ entries'[u] = Nothing
                                     /\ \E i \in DOMAIN completed : completed[i] = u
        /\ \A i \in DOMAIN completed' :
             completed'[i] = t \/ \E j \in DOMAIN completed : completed'[i] = completed[j]
    <2> HIDE DEF o
    <2> QED BY <1>1, <1>2, TaskFinishes
  <1>8. t \notin crashed => Work!Tells(t, o)
    BY <1>1 DEF Work!WorkInv, Work!Settled
  <1>9. Work!Tells(t, o) => Work!Tells(t, entries[t].status)' \/ entries'[t] = Nothing
    <2>1. Work!WholeCopy(t)' = Work!WholeCopy(t)
      BY <1>3, <1>4, <1>5 DEF Work!WholeCopy, Work!Units, Work!HasStructure, Work!HasData
    <2> HIDE DEF o
    <2> QED BY <1>3, <1>4, <1>5, <1>7, <2>1 DEF Work!Tells
  <1>10. Work!EntryInv(t)'
    BY <1>3, <1>4, <1>5, <1>8, <1>9 DEF Work!EntryInv
  <1>11. t \notin crashed => Work!Settled(t)'
    BY <1>1, <1>3, <1>4, <1>5 DEF Work!WorkInv, Work!Settled
  <1>12. Work!WorkInv(t)'
    BY <1>1, <1>2, <1>3, <1>4, <1>5, <1>7, <1>11 DEF Work!WorkInv, Work!Running
  <1>13. \A u \in Tasks \ {t} : Same(u)
    BY <1>1, <1>7 DEF Same
  <1>14. /\ \A u \in Tasks : token[u] => token'[u]
         /\ \A i \in DOMAIN completed' :
              \/ completed'[i] = t /\ worker'[t].pc = "gone"
              \/ \E j \in DOMAIN completed : completed'[i] = completed[j]
    BY <1>3, <1>4, <1>7
  <1> QED BY <1>1, <1>3, <1>4, <1>5, <1>6, <1>7, <1>10, <1>12, <1>13, <1>14, TaskMoves

\* The center, the user and the sessions leave the workers.
LEMMA WorkersRest ==
  ASSUME Work!TasksInv, UNCHANGED <<limits, worker, pipe, dest, output, late, crashed>>,
         Work!ManagerTypes', Work!CenterInv', UNCHANGED completed,
         \A u \in Tasks : (token[u] => token'[u]) /\ Same(u)
  PROVE  Work!TasksInv'
  <1>1. ASSUME NEW u \in Tasks PROVE Work!WorkInv(u)' /\ Work!EntryInv(u)'
    <2>1. Work!WorkInv(u) /\ Work!EntryInv(u)
      BY DEF Work!TasksInv
    <2>2. Work!WorkInv(u)'
      BY <2>1, OthersStay
    <2>3. Work!EntryInv(u)'
      BY <2>1, EntryStays
    <2> QED BY <2>2, <2>3
  <1>2. Work!WorkTypes'
    BY DEF Work!TasksInv, Work!WorkTypes
  <1>3. (\A u \in Tasks : Work!WorkInv(u) /\ Work!EntryInv(u))'
    BY <1>1
  <1>4. (\A i \in DOMAIN completed : worker[completed[i]].pc = "gone")'
    BY DEF Work!TasksInv
  <1> QED BY <1>2, <1>3, <1>4 DEF Work!TasksInv

LEMMA TasksStart ==
  ASSUME Work!ConstantsAssumption, Work!Init
  PROVE  Work!TasksInv
  <1>1. /\ entries = [t \in Tasks |-> Nothing] /\ token = [t \in Tasks |-> FALSE]
        /\ completed = <<>> /\ cancels = [t \in Tasks |-> Nothing]
        /\ center = [tasks |-> [t \in Tasks |-> Nothing], loading |-> "asked",
                     loaded |-> [t \in Tasks |-> Nothing], pending |-> FALSE, unread |-> FALSE]
        /\ limits \in Limits /\ worker = [t \in Tasks |-> Work!Idle]
        /\ pipe = [t \in Tasks |-> Work!NoPipe] /\ dest = [t \in Tasks |-> {}]
        /\ output = [t \in Tasks |-> "old"] /\ late = [t \in Tasks |-> 0] /\ crashed = {}
    BY DEF Work!Init, Work!ManagerInit
  <1>2. Work!ManagerTypes
    <2>1. [t \in Tasks |-> Nothing] \in Work!Listing
      BY DEF Work!Listing
    <2>2. center \in Work!Center
      BY <1>1, <2>1 DEF Work!Center
    <2> QED BY <1>1, <2>1, <2>2 DEF Work!ManagerTypes, Work!Requests
  <1>3. Work!CenterInv
    BY <1>1 DEF Work!CenterInv, Work!Due
  <1>4. Work!Idle \in Work!Worker /\ Work!Idle.pc = "none" /\ Work!Idle.kind = Nothing
    BY DEF Work!Idle, Work!Worker
  <1>5. Work!NoPipe \in Work!Pipe /\ Work!NoPipe.writer = "new"
    <2>1. <<>> \in Seq(Work!Messages)
      OBVIOUS
    <2> QED BY <2>1 DEF Work!NoPipe, Work!Pipe
  <1>6. Work!WorkTypes
    BY <1>1, <1>4, <1>5 DEF Work!WorkTypes
  <1>7. ASSUME NEW t \in Tasks PROVE Work!WorkInv(t) /\ Work!EntryInv(t)
    <2>1. Work!WorkInv(t)
      BY <1>1, <1>4, <1>5 DEF Work!WorkInv, Work!Running
    <2>2. Work!EntryInv(t)
      BY <1>1, <1>4 DEF Work!EntryInv
    <2> QED BY <2>1, <2>2
  <1>8. DOMAIN completed = {}
    BY <1>1
  <1> QED BY <1>2, <1>3, <1>6, <1>7, <1>8 DEF Work!TasksInv

LEMMA TasksKeep ==
  ASSUME Work!ConstantsAssumption, Work!TasksInv, [Work!Next]_Work!vars
  PROVE  Work!TasksInv'
  <1>1. /\ Work!WorkTypes /\ Work!ManagerTypes /\ Work!CenterInv /\ limits \in Limits
        /\ \A t \in Tasks : Work!WorkInv(t)
    BY DEF Work!TasksInv, Work!WorkTypes
  <1>2. ASSUME NEW t \in limits.tasks, NEW k \in limits.kinds, NEW c \in limits.contents,
               Work!Start(t, k, c)
        PROVE  Work!TasksInv'
    <2>1. t \in Tasks /\ k \in Work!Kinds /\ c \in Work!Contents
      BY <1>1 DEF Work!ConstantsAssumption
    <2> QED BY <1>2, <2>1, StartKeeps
  <1>3. ASSUME NEW t \in Tasks, Work!Copies(t) PROVE Work!TasksInv'
    BY <1>1, <1>3, CopiesKeep, StepKeeps
  <1>4. ASSUME NEW t \in Tasks, Work!Restores(t) PROVE Work!TasksInv'
    BY <1>1, <1>4, RestoresKeep, StepKeeps
  <1>5. ASSUME NEW t \in Tasks, Work!BacksUp(t) PROVE Work!TasksInv'
    BY <1>1, <1>5, BackupsKeep, StepKeeps
  <1>6. ASSUME NEW t \in Tasks, Work!Exports(t) PROVE Work!TasksInv'
    BY <1>1, <1>6, ExportsKeep, StepKeeps
  <1>7. ASSUME NEW t \in Tasks, Work!Ends(t) PROVE Work!TasksInv'
    BY <1>7, EndsKeeps
  <1>8. ASSUME NEW t \in Tasks, Work!Writer(t) PROVE Work!TasksInv'
    BY <1>1, <1>8, WriterKeeps, WriterStepKeeps
  <1>9. ASSUME NEW t \in Tasks, Work!Panics(t) PROVE Work!TasksInv'
    BY <1>1, <1>9, PanicsKeeps, StepKeeps
  <1>10. CASE UNCHANGED <<limits, worker, pipe, dest, output, late, crashed, entries, token,
                          completed, center, cancels>>
    <2>1. Work!ManagerTypes' /\ Work!CenterInv'
      BY <1>1, <1>10 DEF Work!ManagerTypes, Work!CenterInv, Work!Due
    <2>2. \A u \in Tasks : (token[u] => token'[u]) /\ Same(u)
      BY <1>10 DEF Same
    <2> QED BY <1>10, <2>1, <2>2, WorkersRest
  <1>11. CASE Work!CenterNext(limits.cancels) /\ UNCHANGED <<limits, Work!workVars>>
    <2>1. limits.cancels \in SUBSET Tasks
      BY <1>1 DEF Work!ConstantsAssumption
    <2>2. /\ Work!ManagerTypes' /\ Work!CenterInv' /\ UNCHANGED completed
          /\ \A u \in Tasks : /\ token[u] => token'[u]
                              /\ entries'[u] = Nothing <=> entries[u] = Nothing
                              /\ entries[u] # Nothing =>
                                   \/ entries'[u].status = entries[u].status
                                   \/ /\ ~Work!IsTerminal(entries[u])
                                      /\ entries'[u].status = "Cancelling"
      BY <1>1, <1>11, <2>1, CenterMoves
    <2>3. \A u \in Tasks : (token[u] => token'[u]) /\ Same(u)
      BY <2>2 DEF Same
    <2>4. UNCHANGED <<limits, worker, pipe, dest, output, late, crashed>>
      BY <1>11 DEF Work!workVars
    <2> QED BY <2>2, <2>3, <2>4, WorkersRest
  <1>12. CASE Work!Next
    <2>1. CASE \E t \in limits.tasks, k \in limits.kinds, c \in limits.contents : Work!Start(t, k, c)
      BY <1>2, <2>1
    <2>2. CASE \E t \in Tasks : Work!Works(t) \/ Work!Writer(t) \/ Work!Panics(t)
      BY <1>3, <1>4, <1>5, <1>6, <1>7, <1>8, <1>9, <2>2 DEF Work!Works
    <2>3. CASE \E s \in limits.retires : Work!Retire(s)
      BY <1>10, <2>3 DEF Work!Retire, Work!managerVars, Work!centerVars
    <2> QED BY <1>11, <1>12, <2>1, <2>2, <2>3 DEF Work!Next
  <1>13. CASE UNCHANGED Work!vars
    BY <1>10, <1>13 DEF Work!vars, Work!workVars
  <1> QED BY <1>12, <1>13

\* The inductive invariant of the tasks: at each of its steps, a copy or a
\* restore that has not failed has written exactly the units before the one it
\* is at, a backup has not touched its file, and the rows of an export are those
\* its writer has and those still in the channel; the center that has nothing
\* on its way shows what the manager has.
THEOREM TasksHold ==
  ASSUME Work!ConstantsAssumption
  PROVE  Work!Spec => []Work!TasksInv
  <1>1. Work!Init => Work!TasksInv
    BY TasksStart
  <1>2. Work!TasksInv /\ [Work!Next]_Work!vars => Work!TasksInv'
    BY TasksKeep
  <1> QED BY <1>1, <1>2, PTL DEF Work!Spec

\* A finished task says what it did, whatever was cancelled, lost or failed on
\* the way (transfer/mod.rs, restore.rs, backup/execute.rs, export_service.rs),
\* and a task center with nothing to hear, to load or to cancel shows what the
\* manager has (task_center_item.rs): for any number of tasks, of units, of rows
\* per page and of messages in the channel.
THEOREM TasksAreTrue ==
  ASSUME Work!ConstantsAssumption
  PROVE  Work!Spec => []TasksAreShownAsTheyWere
  <1>1. Work!TasksInv => TasksAreShownAsTheyWere
    <2>1. SUFFICES ASSUME Work!TasksInv PROVE TasksAreShownAsTheyWere
      OBVIOUS
    <2>2. \A t \in Tasks : late[t] <= 1
      BY <2>1 DEF Work!TasksInv, Work!WorkInv
    <2>3. ASSUME NEW t \in Tasks \ crashed, entries[t] # Nothing
          PROVE  Work!Tells(t, entries[t].status)
      <3>1. Work!EntryInv(t) /\ entries[t] \in Work!Entry
        BY <2>1, <2>3 DEF Work!TasksInv, Work!ManagerTypes, Work!Listing
      <3>2. CASE worker[t].pc = "gone"
        BY <2>3, <3>1, <3>2 DEF Work!EntryInv
      <3>3. CASE worker[t].pc # "gone"
        <4>1. ~Work!IsTerminal(entries[t])
          BY <2>3, <3>1, <3>3 DEF Work!EntryInv
        <4> QED BY <4>1 DEF Work!IsTerminal, Work!TerminalStatus, Work!Tells
      <3> QED BY <3>2, <3>3
    <2>4. Work!QuietCenterIsCurrent
      <3>1. SUFFICES ASSUME center.loading = "no", ~center.unread,
                            \A t \in Tasks : cancels[t] = Nothing
                     PROVE  center.tasks = entries
        BY DEF Work!QuietCenterIsCurrent
      <3>2. ~Work!Due
        <4>1. "answered" # Nothing
          BY DEF Work!ConstantsAssumption
        <4> QED BY <2>1, <3>1, <4>1 DEF Work!TasksInv, Work!CenterInv, Work!Due
      <3> QED BY <2>1, <3>1, <3>2 DEF Work!TasksInv, Work!CenterInv
    <2> QED BY <2>2, <2>3, <2>4 DEF TasksAreShownAsTheyWere, Work!OutcomeTellsEffects
  <1> QED BY <1>1, TasksHold, PTL

===============================================================================
