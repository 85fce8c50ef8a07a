------------------------------ MODULE McpSync ------------------------------
(***************************************************************************)
(* The occupancy protocol between the App and its HTTP sidecar.  A sidecar *)
(* session acquires a generation from the App's registry before it opens a *)
(* driver, reports it connected, and releases it when the driver is gone;  *)
(* the App asks sessions to disconnect with commands they long-poll.       *)
(*                                                                         *)
(* One service, so the service identifier is left out.  A handler of the   *)
(* registry is one step together with its answer: while a call waits for   *)
(* the answer it does nothing else.  limits.faults names what may go wrong: *)
(*   "loss"     a request, or its answer, does not arrive;                 *)
(*   "abandon"  the future of a tool call is dropped at one of its awaits; *)
(*   "recheck"  a profile that was readable cannot be read a moment later. *)
(* A request whose caller is gone is handled before the caller goes or     *)
(* never: the connection closes with it and the server drops the handler.  *)
(***************************************************************************)
EXTENDS Naturals, Sequences, Functions

CONSTANTS Sessions, Connections, Calls, Callers, None, Control,
          Limits

ASSUME ConstantsAssumption ==
  /\ Control # None /\ Control \notin Calls /\ None \notin Calls
  /\ None \notin Sessions \X Connections
  /\ \A l \in Limits : /\ l.operations \subseteq {"connect", "test", "disconnect"}
                      /\ l.faults \subseteq {"loss", "abandon", "recheck"}
                      /\ l.generations \in Nat /\ l.commands \in Nat /\ l.callers \subseteq Callers

VARIABLES
  limits,         \* what may go wrong and the bounds of this behaviour, chosen once
  entry,          \* App: registry entry of each owner; generation 0 is none
  nextGeneration, \* App: the last generation given out
  queue,          \* App: commands each session has not answered yet
  nextCommand,    \* App: number of force_disconnect calls that queued some
  closed,         \* App: sessions whose end was reported
  serviceClosed,  \* App: the service was reset
  force,          \* App: callers of force_disconnect and what they wait for
  session,        \* sidecar: open, or dropped and its end unsent, or ended
  driver,         \* sidecar: generation of the open driver; 0 is none
  holder,         \* sidecar: who holds a connection's lifecycle lock
  loop,           \* sidecar: the control loop of each session
  call            \* sidecar: tool calls and the cleanups they leave behind

registryVars == <<entry, nextGeneration, queue, nextCommand, closed, serviceClosed, force>>
sidecarVars == <<limits, session, driver, holder, loop, call>>
vars == <<registryVars, sidecarVars>>

Owners == Sessions \X Connections
Generations == 1..limits.generations
Ids == Owners \X (1..limits.commands)
Command == [id : Ids, owner : Owners, generation : Generations, was : BOOLEAN]
NoEntry == [generation |-> 0, connected |-> FALSE, disconnecting |-> FALSE]
IdleForce == [step |-> "idle", asked |-> {}, pending |-> {}, failed |-> FALSE]
IdleLoop == [step |-> "poll", command |-> None, ok |-> FALSE]
IdleCall == [step |-> "idle", op |-> "none", owner |-> None, generation |-> 0, own |-> FALSE]

TypeOK ==
  /\ entry \in [Owners -> [generation : 0..limits.generations, connected : BOOLEAN, disconnecting : BOOLEAN]]
  /\ nextGeneration \in 0..limits.generations /\ nextCommand \in 0..limits.commands
  /\ \A s \in Sessions : /\ Range(queue[s]) \subseteq Command
                         /\ loop[s].step \in {"poll", "lock", "handle", "report"}
                         /\ loop[s].command \in Command \cup {None}
  /\ closed \subseteq Sessions /\ serviceClosed \in BOOLEAN
  /\ force \in [Callers -> [step : {"idle", "waiting", "done"}, asked : SUBSET (Owners \X Generations),
                            pending : SUBSET Ids, failed : BOOLEAN]]
  /\ session \in [Sessions -> {"open", "ending", "ended"}]
  /\ driver \in [Owners -> 0..limits.generations]
  /\ holder \in [Owners -> Calls \cup {None, Control}]
  /\ call \in [Calls -> [op : {"none", "connect", "test", "disconnect"}, owner : Owners \cup {None},
                         generation : 0..limits.generations, own : BOOLEAN,
                         step : {"idle", "lock", "acquire", "dial", "commit", "rollback", "release",
                                 "prepare", "run", "stop", "tell", "cleanLock", "clean"}]]

Init ==
  /\ limits \in Limits
  /\ entry = [o \in Owners |-> NoEntry] /\ nextGeneration = 0
  /\ queue = [s \in Sessions |-> <<>>] /\ nextCommand = 0
  /\ closed = {} /\ serviceClosed = FALSE
  /\ force = [f \in Callers |-> IdleForce]
  /\ session = [s \in Sessions |-> "open"]
  /\ driver = [o \in Owners |-> 0]
  /\ holder = [o \in Owners |-> None]
  /\ loop = [s \in Sessions |-> IdleLoop]
  /\ call = [k \in Calls |-> IdleCall]

-----------------------------------------------------------------------------
(* The App's registry *)

Open(o) == ~serviceClosed /\ o[1] \notin closed
Acquired(o, g) == entry[o].generation = g /\ g # 0

\* Drop the commands in gone from the queue of session s; the others keep their order.
Retained(cmds, gone) ==
  LET kept[i \in 0..Len(cmds)] == IF i = 0 THEN <<>>
                                  ELSE IF cmds[i] \in gone THEN kept[i - 1]
                                  ELSE Append(kept[i - 1], cmds[i])
  IN kept[Len(cmds)]
WithoutCommands(s, gone) == [queue EXCEPT ![s] = Retained(@, gone)]

\* resolve_waiters: whoever waits for one of ids learns the outcome.
Resolved(ids, ok) ==
  [f \in Callers |-> IF force[f].pending \cap ids = {} THEN force[f]
                     ELSE [force[f] EXCEPT !.pending = @ \ ids, !.failed = @ \/ ~ok]]

IdsOf(cmds) == {cmd.id : cmd \in cmds}

\* Mutant: a new entry gets the last generation again.
AcquireSameGeneration(o, g) ==
  /\ UNCHANGED <<queue, nextCommand, closed, serviceClosed, force>>
  /\ \/ g = 0 /\ UNCHANGED <<entry, nextGeneration>>
     \/ /\ Open(o) /\ Acquired(o, g) /\ ~entry[o].disconnecting
        /\ UNCHANGED <<entry, nextGeneration>>
     \/ /\ Open(o) /\ entry[o].generation = 0
        /\ g = IF nextGeneration = 0 THEN 1 ELSE nextGeneration
        /\ nextGeneration' = g
        /\ entry' = [entry EXCEPT ![o] = [NoEntry EXCEPT !.generation = g]]

\* A generation for owner o: the one it has, a new one, or g = 0, a refusal,
\* which needs no reason here: the profile may have another revision by now.
Acquire(o, g) ==
  /\ UNCHANGED <<queue, nextCommand, closed, serviceClosed, force>>
  /\ \/ g = 0 /\ UNCHANGED <<entry, nextGeneration>>
     \/ /\ Open(o) /\ Acquired(o, g) /\ ~entry[o].disconnecting
        /\ UNCHANGED <<entry, nextGeneration>>
     \/ /\ Open(o) /\ entry[o].generation = 0
        /\ g = nextGeneration + 1 /\ g <= limits.generations
        /\ nextGeneration' = g
        /\ entry' = [entry EXCEPT ![o] = [NoEntry EXCEPT !.generation = g]]

\* Accepted only for the generation the owner has and nobody is ending.
Connects(o, g) == Open(o) /\ Acquired(o, g) /\ ~entry[o].disconnecting
Connected(o, g) ==
  /\ entry' = IF Connects(o, g) THEN [entry EXCEPT ![o].connected = TRUE] ELSE entry
  /\ UNCHANGED <<nextGeneration, queue, nextCommand, closed, serviceClosed, force>>

\* The answer is a success unless the owner is closed.
Released(o, g) ==
  LET ends == {cmd \in Range(queue[o[1]]) : cmd.owner = o /\ cmd.generation = g}
  IN /\ UNCHANGED <<nextGeneration, nextCommand, closed, serviceClosed>>
     /\ IF Open(o) /\ Acquired(o, g)
        THEN /\ entry' = [entry EXCEPT ![o] = NoEntry]
             /\ queue' = WithoutCommands(o[1], ends)
             /\ force' = Resolved(IdsOf(ends), TRUE)
        ELSE UNCHANGED <<entry, queue, force>>

\* Mutant: a failed disconnect leaves the phase as it is.
ControlResultKeepsPhase(cmd, ok) ==
  LET o == cmd.owner
  IN /\ UNCHANGED <<nextGeneration, nextCommand, closed, serviceClosed>>
     /\ queue' = WithoutCommands(o[1], {cmd})
     /\ entry' = IF Acquired(o, cmd.generation) /\ ok THEN [entry EXCEPT ![o] = NoEntry] ELSE entry
     /\ force' = Resolved({cmd.id}, ok)

\* A session answers a command: the entry goes, or its phase comes back.
ControlResult(cmd, ok) ==
  LET o == cmd.owner
      restored == [entry[o] EXCEPT !.connected = cmd.was, !.disconnecting = FALSE]
  IN /\ UNCHANGED <<nextGeneration, nextCommand, closed, serviceClosed>>
     /\ IF cmd \in Range(queue[o[1]])
        THEN /\ queue' = WithoutCommands(o[1], {cmd})
             /\ entry' = IF ~Acquired(o, cmd.generation) THEN entry
                         ELSE [entry EXCEPT ![o] = IF ok THEN NoEntry ELSE restored]
             /\ force' = Resolved({cmd.id}, ok)
        ELSE UNCHANGED <<entry, queue, force>>

CloseSession(s) ==
  /\ UNCHANGED <<nextGeneration, nextCommand, serviceClosed>>
  /\ IF serviceClosed THEN UNCHANGED <<entry, queue, closed, force>>
     ELSE /\ closed' = closed \cup {s}
          /\ entry' = [o \in Owners |-> IF o[1] = s THEN NoEntry ELSE entry[o]]
          /\ queue' = [queue EXCEPT ![s] = <<>>]
          /\ force' = Resolved(IdsOf(Range(queue[s])), TRUE)

\* The sidecar stopped, or could not be stopped: the App forgets its sessions.
ResetService ==
  /\ ~serviceClosed /\ serviceClosed' = TRUE /\ closed' = {}
  /\ entry' = [o \in Owners |-> NoEntry]
  /\ queue' = [s \in Sessions |-> <<>>]
  /\ force' = Resolved(UNION {IdsOf(Range(queue[s])) : s \in Sessions}, TRUE)
  /\ UNCHANGED <<nextGeneration, nextCommand, sidecarVars>>

\* One command per owner of connection c, unless one for its generation waits.
ForceDisconnect(f, c) ==
  LET asked == {o \in Owners : o[2] = c /\ entry[o].generation # 0}
      Waiting(o) == {cmd \in Range(queue[o[1]]) :
                       cmd.owner = o /\ cmd.generation = entry[o].generation}
      n == nextCommand + 1
      New(o) == [id |-> <<o, n>>, owner |-> o, generation |-> entry[o].generation,
                 was |-> entry[o].connected]
      Of(o) == IF Waiting(o) = {} THEN {New(o)} ELSE Waiting(o)
      fresh == {o \in asked : Waiting(o) = {}}
  IN /\ force[f].step = "idle" /\ asked # {} /\ n <= limits.commands
     /\ nextCommand' = n
     /\ queue' = [s \in Sessions |-> IF <<s, c>> \in fresh THEN Append(queue[s], New(<<s, c>>)) ELSE queue[s]]
     /\ entry' = [o \in Owners |-> IF o \in asked THEN [entry[o] EXCEPT !.disconnecting = TRUE] ELSE entry[o]]
     /\ force' = [force EXCEPT ![f] = [step |-> "waiting", failed |-> FALSE,
                                       asked |-> {<<o, entry[o].generation>> : o \in asked},
                                       pending |-> IdsOf(UNION {Of(o) : o \in asked})]]
     /\ UNCHANGED <<nextGeneration, closed, serviceClosed, sidecarVars>>

\* Every session answered; the caller returns success only if all succeeded.
ForceReturns(f) ==
  /\ force[f].step = "waiting" /\ force[f].pending = {}
  /\ force' = [force EXCEPT ![f] = IF @.failed THEN IdleForce ELSE [@ EXCEPT !.step = "done"]]
  /\ UNCHANGED <<entry, nextGeneration, queue, nextCommand, closed, serviceClosed, sidecarVars>>

\* Ten seconds passed: an error, while the commands stay queued.
ForceTimesOut(f) ==
  /\ force[f].step = "waiting" /\ force[f].pending # {}
  /\ force' = [force EXCEPT ![f] = IdleForce]
  /\ UNCHANGED <<entry, nextGeneration, queue, nextCommand, closed, serviceClosed, sidecarVars>>

\* The caller has read the outcome and may ask again.
ForceAgain(f) ==
  /\ force[f].step = "done"
  /\ force' = [force EXCEPT ![f] = IdleForce]
  /\ UNCHANGED <<entry, nextGeneration, queue, nextCommand, closed, serviceClosed, sidecarVars>>

-----------------------------------------------------------------------------
(* Tool calls of the sidecar *)

Owner(k) == call[k].owner
Generation(k) == call[k].generation
At(k, step) == call[k].step = step

GoTo(k, step) == call' = [call EXCEPT ![k].step = step]
End(k) == call' = [call EXCEPT ![k] = IdleCall]
Lock(o, who) == holder[o] = None /\ holder' = [holder EXCEPT ![o] = who]
Unlock(o) == holder' = [holder EXCEPT ![o] = None]
Lossy == limits.faults \cap {"loss", "abandon"} # {}

\* Mutant: a dropped test is forgotten before its release was answered.
ActiveTestsForgotten(o) == {k \in Calls : call[k].op = "test" /\ Owner(k) = o
                                            /\ call[k].step \in {"prepare", "run", "release"}}
\* The registered test of a connection, until its release was answered.
ActiveTests(o) == {k \in Calls : call[k].op = "test" /\ Owner(k) = o
                                   /\ call[k].step \in {"prepare", "run", "release", "clean"}}
\* A test whose future, and shared usage lease, still exist.
Running(k) == call[k].op = "test" /\ call[k].step \in {"prepare", "run"}

BeginCall(k, op, o) ==
  /\ At(k, "idle") /\ session[o[1]] = "open"
  /\ call' = [call EXCEPT ![k] = [IdleCall EXCEPT !.step = "lock", !.op = op, !.owner = o]]
  /\ UNCHANGED <<registryVars, limits, session, driver, holder, loop>>

\* Refused while a test is registered, or when the profile cannot be read.
Refused(k) ==
  /\ At(k, "lock") /\ call[k].op \in {"connect", "test"} /\ holder[Owner(k)] = None
  /\ End(k)
  /\ UNCHANGED <<registryVars, limits, session, driver, holder, loop>>

EnterConnect(k) ==
  /\ At(k, "lock") /\ call[k].op = "connect" /\ ActiveTests(Owner(k)) = {}
  /\ Lock(Owner(k), k)
  /\ GoTo(k, "acquire")
  /\ UNCHANGED <<registryVars, limits, session, driver, loop>>

\* A test of a connected profile uses the generation of its driver.
EnterTest(k) ==
  LET o == Owner(k)
  IN /\ At(k, "lock") /\ call[k].op = "test" /\ ActiveTests(o) = {}
     /\ Lock(o, k)
     /\ IF driver[o] = 0 THEN GoTo(k, "acquire")
        ELSE call' = [call EXCEPT ![k].step = "prepare", ![k].generation = driver[o]]
     /\ UNCHANGED <<registryVars, limits, session, driver, loop>>

\* The answer carries a generation to go on with, or the call fails.
AcquireAnswered(k) ==
  LET o == Owner(k)
      test == call[k].op = "test"
  IN /\ At(k, "acquire")
     /\ \E g \in 0..limits.generations :
          /\ Acquire(o, g)
          /\ IF g = 0 THEN End(k) /\ Unlock(o)
             ELSE /\ call' = [call EXCEPT ![k].step = IF test THEN "prepare" ELSE "dial",
                                          ![k].generation = g, ![k].own = test]
                  /\ UNCHANGED holder
     /\ UNCHANGED <<limits, session, driver, loop>>

\* No answer: nothing on this side remembers the generation.
AcquireInterrupted(k) ==
  /\ Lossy /\ At(k, "acquire")
  /\ UNCHANGED registryVars \/ \E g \in Generations : Acquire(Owner(k), g)
  /\ End(k) /\ Unlock(Owner(k))
  /\ UNCHANGED <<limits, session, driver, loop>>

\* An open driver of the same generation is kept, any other is in the way.
Dial(k) ==
  LET o == Owner(k)
  IN /\ At(k, "dial")
     /\ \/ driver[o] = 0 /\ driver' = [driver EXCEPT ![o] = Generation(k)] /\ GoTo(k, "commit")
        \/ driver[o] = Generation(k) /\ UNCHANGED driver /\ GoTo(k, "commit")
     /\ UNCHANGED <<registryVars, limits, session, holder, loop>>

DialFails(k) ==
  /\ At(k, "dial")
  /\ driver[Owner(k)] = Generation(k) => "recheck" \in limits.faults
  /\ GoTo(k, "release")
  /\ UNCHANGED <<registryVars, limits, session, driver, holder, loop>>

Commit(k) ==
  LET o == Owner(k)
  IN /\ At(k, "commit")
     /\ Connected(o, Generation(k))
     /\ IF Connects(o, Generation(k)) THEN End(k) /\ Unlock(o)
        ELSE GoTo(k, "rollback") /\ UNCHANGED holder
     /\ UNCHANGED <<limits, session, driver, loop>>

CommitLost(k) ==
  /\ "loss" \in limits.faults /\ At(k, "commit")
  /\ UNCHANGED registryVars \/ Connected(Owner(k), Generation(k))
  /\ GoTo(k, "rollback")
  /\ UNCHANGED <<limits, session, driver, holder, loop>>

\* Mutant: a connect the App refused gives the generation up and keeps the driver.
RollbackKeepsDriver(k) ==
  /\ At(k, "rollback") /\ GoTo(k, "release")
  /\ UNCHANGED <<registryVars, limits, session, driver, holder, loop>>

\* catalog.disconnect closes whatever driver the profile has.
Rollback(k) ==
  /\ At(k, "rollback")
  /\ driver' = [driver EXCEPT ![Owner(k)] = 0]
  /\ GoTo(k, "release")
  /\ UNCHANGED <<registryVars, limits, session, holder, loop>>

\* A test that cannot be prepared, or that has run, drops its future.
TestEnds(k) ==
  LET o == Owner(k)
  IN /\ \/ At(k, "prepare") /\ Unlock(o)
        \/ At(k, "run") /\ UNCHANGED holder
     /\ IF call[k].own THEN GoTo(k, "release") ELSE End(k)
     /\ UNCHANGED <<registryVars, limits, session, driver, loop>>

TestRuns(k) ==
  /\ At(k, "prepare") /\ Unlock(Owner(k))
  /\ GoTo(k, "run")
  /\ UNCHANGED <<registryVars, limits, session, driver, loop>>

\* A call returns: a connect gives its lock up, a test holds none.
UnlockCall(k) == IF holder[Owner(k)] = k THEN Unlock(Owner(k)) ELSE UNCHANGED holder

\* A refused release leaves the lease pending: its drop spawns the cleanup.
Cleanup(k) == GoTo(k, IF call[k].op = "test" THEN "clean" ELSE "cleanLock")

Release(k) ==
  /\ At(k, "release")
  /\ Released(Owner(k), Generation(k))
  /\ IF Open(Owner(k)) THEN End(k) ELSE Cleanup(k)
  /\ UnlockCall(k)
  /\ UNCHANGED <<limits, session, driver, loop>>

ReleaseInterrupted(k) ==
  /\ Lossy /\ At(k, "release")
  /\ UNCHANGED registryVars \/ Released(Owner(k), Generation(k))
  /\ Cleanup(k) /\ UnlockCall(k)
  /\ UNCHANGED <<limits, session, driver, loop>>

\* The cleanup of a connect takes the lock for the driver, not for Released.
CleanDriver(k) ==
  LET o == Owner(k)
  IN /\ At(k, "cleanLock") /\ holder[o] = None
     /\ driver' = IF driver[o] = Generation(k) THEN [driver EXCEPT ![o] = 0] ELSE driver
     /\ GoTo(k, "clean")
     /\ UNCHANGED <<registryVars, limits, session, holder, loop>>

CleanRelease(k) ==
  /\ At(k, "clean")
  /\ Released(Owner(k), Generation(k)) \/ (Lossy /\ UNCHANGED registryVars)
  /\ End(k)
  /\ UNCHANGED <<limits, session, driver, holder, loop>>

\* A disconnect cancels the registered test and remembers its generation.
EnterDisconnect(k) ==
  LET o == Owner(k)
      tests == ActiveTests(o)
  IN /\ At(k, "lock") /\ call[k].op = "disconnect"
     /\ Lock(o, k)
     /\ call' = [call EXCEPT ![k].step = "stop",
                             ![k].generation = IF tests = {} THEN 0 ELSE Generation(CHOOSE t \in tests : TRUE)]
     /\ UNCHANGED <<registryVars, limits, session, driver, loop>>

\* It waits for the test's future, holding the lock, and closes the driver.
Stop(k) ==
  LET o == Owner(k)
      g == IF Generation(k) # 0 THEN Generation(k) ELSE driver[o]
  IN /\ At(k, "stop") /\ \A t \in ActiveTests(o) : ~Running(t)
     /\ driver' = [driver EXCEPT ![o] = 0]
     /\ IF g = 0 THEN End(k) /\ Unlock(o)
        ELSE call' = [call EXCEPT ![k].step = "tell", ![k].generation = g] /\ UNCHANGED holder
     /\ UNCHANGED <<registryVars, limits, session, loop>>

\* Whatever the answer, a disconnect has nothing left to undo.
Tell(k) ==
  /\ At(k, "tell")
  /\ Released(Owner(k), Generation(k)) \/ (Lossy /\ UNCHANGED registryVars)
  /\ End(k) /\ Unlock(Owner(k))
  /\ UNCHANGED <<limits, session, driver, loop>>

\* The future of a call is dropped: locks are freed, a pending lease cleans up.
Abandon(k) ==
  LET pending == call[k].own \/ call[k].step \in {"dial", "commit", "rollback"}
  IN /\ "abandon" \in limits.faults
     /\ call[k].step \in {"lock", "dial", "commit", "rollback", "prepare", "run", "stop"}
     /\ UNCHANGED registryVars \/ (At(k, "commit") /\ Connected(Owner(k), Generation(k)))
     /\ IF pending THEN Cleanup(k) ELSE End(k)
     /\ UnlockCall(k)
     /\ UNCHANGED <<limits, session, driver, loop>>

-----------------------------------------------------------------------------
(* The control loop of a session, and the session's end *)

Poll(s) ==
  /\ session[s] = "open" /\ loop[s].step = "poll"
  /\ ~serviceClosed /\ s \notin closed /\ queue[s] # <<>>
  /\ loop' = [loop EXCEPT ![s] = [step |-> "lock", command |-> Head(queue[s]), ok |-> FALSE]]
  /\ UNCHANGED <<registryVars, limits, session, driver, holder, call>>

TakeControl(s) ==
  /\ loop[s].step = "lock" /\ Lock(loop[s].command.owner, Control)
  /\ loop' = [loop EXCEPT ![s].step = "handle"]
  /\ UNCHANGED <<registryVars, limits, session, driver, call>>

\* Mutant: a test is cancelled, and the command answered, before its future is gone.
HandleWithoutWaiting(s) ==
  LET o == loop[s].command.owner
  IN /\ loop[s].step = "handle"
     /\ driver' = IF driver[o] = loop[s].command.generation THEN [driver EXCEPT ![o] = 0] ELSE driver
     /\ loop' = [loop EXCEPT ![s].step = "report", ![s].ok = TRUE]
     /\ Unlock(o)
     /\ UNCHANGED <<registryVars, limits, session, call>>

\* Mutant: the lock is kept after a command was handled.
HandleKeepsLock(s) ==
  LET cmd == loop[s].command
  IN /\ loop[s].step = "handle" /\ \A k \in ActiveTests(cmd.owner) : ~Running(k)
     /\ driver' = [driver EXCEPT ![cmd.owner] = IF @ = cmd.generation THEN 0 ELSE @]
     /\ loop' = [loop EXCEPT ![s].step = "report", ![s].ok = TRUE]
     /\ UNCHANGED <<registryVars, limits, session, holder, call>>

\* A test of this generation is cancelled and its future awaited; only if it
\* does not own the generation is there a driver to close, and that may fail.
Handle(s) ==
  LET cmd == loop[s].command
      o == cmd.owner
      tests == {k \in ActiveTests(o) : Generation(k) = cmd.generation}
      mine == driver[o] = cmd.generation /\ \A k \in tests : ~call[k].own
  IN /\ loop[s].step = "handle" /\ \A k \in tests : ~Running(k)
     /\ driver' = IF mine THEN [driver EXCEPT ![o] = 0] ELSE driver
     /\ \E ok \in IF mine THEN BOOLEAN ELSE {TRUE} :
          loop' = [loop EXCEPT ![s].step = "report", ![s].ok = ok]
     /\ Unlock(o)
     /\ UNCHANGED <<registryVars, limits, session, call>>

Report(s) ==
  /\ loop[s].step = "report"
  /\ ControlResult(loop[s].command, loop[s].ok) \/ ("loss" \in limits.faults /\ UNCHANGED registryVars)
  /\ loop' = [loop EXCEPT ![s] = IdleLoop]
  /\ UNCHANGED <<limits, session, driver, holder, call>>

\* The last clone of a session goes: its loop is aborted, its drivers drop.
DropSession(s) ==
  /\ session[s] = "open" /\ \A k \in Calls : ~At(k, "idle") => Owner(k)[1] # s
  /\ session' = [session EXCEPT ![s] = "ending"]
  /\ driver' = [o \in Owners |-> IF o[1] = s THEN 0 ELSE driver[o]]
  /\ holder' = [o \in Owners |-> IF o[1] = s THEN None ELSE holder[o]]
  /\ loop' = [loop EXCEPT ![s] = IdleLoop]
  /\ UNCHANGED <<registryVars, limits, call>>

SendClosed(s) ==
  /\ session[s] = "ending"
  /\ CloseSession(s) \/ ("loss" \in limits.faults /\ UNCHANGED registryVars)
  /\ session' = [session EXCEPT ![s] = "ended"]
  /\ UNCHANGED <<limits, driver, holder, loop, call>>

-----------------------------------------------------------------------------

ConnectStep(k) ==
  \/ EnterConnect(k) \/ AcquireAnswered(k) \/ AcquireInterrupted(k) \/ Dial(k) \/ DialFails(k)
  \/ Commit(k) \/ CommitLost(k) \/ Rollback(k) \/ Release(k) \/ ReleaseInterrupted(k)
CleanupStep(k) == CleanDriver(k) \/ CleanRelease(k)
TestStep(k) == EnterTest(k) \/ TestRuns(k) \/ TestEnds(k)
DisconnectStep(k) == EnterDisconnect(k) \/ Stop(k) \/ Tell(k)
CallStep(k) == ConnectStep(k) \/ CleanupStep(k) \/ TestStep(k) \/ DisconnectStep(k)
ControlStep(s) == Poll(s) \/ TakeControl(s) \/ Handle(s) \/ Report(s)

Next ==
  \/ \E f \in limits.callers : \/ \E c \in Connections : ForceDisconnect(f, c)
                        \/ ForceReturns(f) \/ ForceTimesOut(f) \/ ForceAgain(f)
  \/ \E k \in Calls : \/ \E op \in limits.operations, o \in Owners : BeginCall(k, op, o)
                      \/ CallStep(k) \/ Refused(k) \/ Abandon(k)
  \/ \E s \in Sessions : ControlStep(s) \/ DropSession(s) \/ SendClosed(s)
  \/ ResetService

\* A task goes on when it can.  A tokio mutex serves its waiters in order.
Fairness ==
  /\ \A k \in Calls : SF_vars(CallStep(k) \/ Refused(k))
  /\ \A s \in Sessions : WF_vars(ControlStep(s)) /\ SF_vars(TakeControl(s)) /\ WF_vars(SendClosed(s))

Spec == Init /\ [][Next]_vars
FairSpec == Spec /\ Fairness

-----------------------------------------------------------------------------
(* Properties *)

\* No call and no cleanup is working on the connection.
Settled(o) == holder[o] = None /\ \A k \in Calls : Owner(k) = o => call[k].step \notin {"cleanLock", "clean"}

\* An open driver that nothing is working on is shown by the App as a
\* connected use of its profile, so that the profile cannot be edited.  It
\* takes that no cleanup is left behind by a dropped call or a lost answer.
OpenSessionIsShown ==
  limits.faults = {} => \A o \in Owners : driver[o] # 0 /\ Settled(o) /\ ~serviceClosed
                      => entry[o].generation = driver[o] /\ entry[o].connected

\* When force_disconnect reports success, every generation it asked for has
\* no driver and no running test.
SuccessMeansDisconnected ==
  limits.faults = {} => \A f \in Callers : force[f].step = "done" /\ ~serviceClosed =>
    \A ask \in force[f].asked :
      /\ driver[ask[1]] # ask[2]
      /\ \A k \in Calls : Owner(k) = ask[1] /\ Generation(k) = ask[2] => ~Running(k)

\* While the release of a test's generation is under way no driver uses that
\* generation, so the release ends nobody else's session.
TestReleaseHitsNoSession ==
  \A k \in Calls : call[k].op = "test" /\ call[k].own /\ ~Running(k)
                     => driver[Owner(k)] # Generation(k)

\* The App shows a connection as disconnecting exactly while a command for
\* that generation waits for an answer, and whoever waits in force_disconnect
\* waits for a queued command: nothing disconnects or waits forever, and no
\* command is left for a generation that is gone.  One that was taken off the
\* queue while its session still works on it can only meet the driver it was
\* meant for: nobody can acquire its generation again.
CommandsFitTheirGeneration ==
  /\ \A o \in Owners :
       LET cmds == {cmd \in Range(queue[o[1]]) : cmd.owner = o}
       IN IF entry[o].disconnecting
          THEN \E cmd \in cmds : cmds = {cmd} /\ Acquired(o, cmd.generation)
          ELSE cmds = {}
  /\ \A f \in Callers : force[f].pending \subseteq UNION {IdsOf(Range(queue[s])) : s \in Sessions}
  /\ \A s \in Sessions :
       LET cmd == loop[s].command
       IN loop[s].step \in {"lock", "handle"} /\ cmd \notin Range(queue[s])
            => entry[cmd.owner].generation # cmd.generation

\* What is done for one generation never reaches another one: releases of tests
\* and commands of the App keep to theirs, whatever is lost.
GenerationsStaySeparate == TestReleaseHitsNoSession /\ CommandsFitTheirGeneration

\* Every tool call returns, and so does the cleanup it may leave behind; every
\* disconnect the App asks for is answered, or its session ends, when no
\* message is lost.
CallsEnd ==
  /\ \A k \in Calls : ~At(k, "idle") ~> At(k, "idle")
  /\ \A o \in Owners : limits.faults = {} /\ entry[o].disconnecting ~> ~entry[o].disconnecting
=============================================================================
