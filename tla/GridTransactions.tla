-------------------------- MODULE GridTransactions --------------------------
\* How a data grid tab writes: the actor that owns a database transaction
\* (application/grid_transaction.rs), the saves and loads that go through it
\* (grid_service.rs) and the handlers of the tab (ui/data_grid_item).  Edits are
\* abstracted to batches: what is staged between two saves.  A session may be
\* retired at any time and every statement may fail; a commit whose answer is
\* an error may have happened or not.
EXTENDS Integers, Sequences, FiniteSets

CONSTANTS
  None,
  MaxBatches, MaxActors, MaxExports   \* bounds of the model

ASSUME BoundsAssumption == {MaxBatches, MaxActors, MaxExports} \subseteq Nat

VARIABLES
  live,     \* the session of the tab's target has not been retired
  durable,  \* [batch -> how often the database has committed it]
  actors,   \* the transactions: commands waiting, applied batches, what is written
  tab,      \* the tab's fields
  calls,    \* its background tasks, by kind
  prompt,   \* the question the user is asked
  staged,   \* number of batches staged so far
  exports,  \* number of exports so far
  gaveUp    \* batches the user has undone or agreed to lose

vars == <<live, durable, actors, tab, calls, prompt, staged, exports, gaveUp>>

Callers == {"save", "load", "mode", "export"}
Batches == 1..MaxBatches
NoActor == 0

Steps == {"begin", "own", "applied", "committing", "failing", "shared", "shared applied",
          "start", "page", "count", "old", "begun", "rolling back", "streaming", "done"}
Replies == {"ok", "refused", "error"}
Call == [step : Steps, tx : Nat, reply : Replies \cup {None}, batch : 0..MaxBatches,
         manual : BOOLEAN]
Command == [op : {"Batch", "Query", "Stream", "Commit", "Rollback"}, caller : Callers,
            batch : 0..MaxBatches]
Actor == [running : BOOLEAN, queue : Seq(Command), applied : SUBSET Batches,
          written : SUBSET Batches]
Tab == [open : BOOLEAN,
        kind : {"Ready", "Loading", "Saving", "Idle", "Failed", "SaveFailed", "Unavailable"},
        changes : 0..MaxBatches, manual : BOOLEAN, tx : Nat, busy : BOOLEAN,
        recovery : SUBSET Batches]

ASSUME NoneAssumption == None \notin Replies /\ None \notin Call

\* An actor is born with an open database transaction; `applied` is its
\* recovery list, which outlives it.
NewActor == [running |-> TRUE, queue |-> <<>>, applied |-> {}, written |-> {}]
Running(t) == t # NoActor /\ actors[t].running
\* Mutant: only an open transaction is asked.
AppliedWhileRunning(t) == IF Running(t) THEN actors[t].applied ELSE {}
Applied(t) == IF t = NoActor THEN {} ELSE actors[t].applied

\* has_unsaved_changes, with the batches it stands for; 0 is no staged change.
Staged == {tab.changes} \ {0}
Unsaved == Staged \cup tab.recovery \cup Applied(tab.tx)
HasUnsavedChanges == Unsaved # {}
NotBusy == tab.kind \notin {"Loading", "Saving"}
Available == tab.kind # "Unavailable"

Init ==
  /\ live = TRUE
  /\ durable = [b \in Batches |-> 0]
  /\ actors = <<>>
  /\ tab = [open |-> TRUE, kind |-> "Ready", changes |-> 0, manual |-> FALSE,
            tx |-> NoActor, busy |-> FALSE, recovery |-> {}]
  /\ calls = [c \in Callers |-> None]
  /\ prompt = None /\ staged = 0 /\ exports = 0 /\ gaveUp = {}

-----------------------------------------------------------------------------
\* The actor.

\* The transaction's connection is dropped: what was written is rolled back,
\* and whoever waits for an answer is told that the session ended.
Ended(a) == [a EXCEPT !.running = FALSE, !.queue = <<>>, !.written = {}]
\* Mutant: the queue is dropped and nobody is told.
NobodyWaiting(a) == {}
Waiting(a) == {a.queue[i].caller : i \in DOMAIN a.queue}
Answer(cs, callers, reply) ==
  [c \in Callers |-> IF c \in callers /\ cs[c] # None THEN [cs[c] EXCEPT !.reply = reply] ELSE cs[c]]

\* A command of the queue; one whose caller has gone away is skipped.  A failed
\* statement is rolled back to its savepoint and the transaction goes on; an
\* error of the connection ends it.
Perform(t, reply) ==
  LET a == actors[t]
      command == Head(a.queue)
      rest == [a EXCEPT !.queue = Tail(@)]
      end == reply = "error" \/ command.op \in {"Commit", "Rollback"}
  IN  /\ Running(t) /\ a.queue # <<>>
      /\ reply = "refused" => command.op \in {"Batch", "Query", "Stream"}
      /\ IF calls[command.caller] = None \/ calls[command.caller].tx # t
         THEN reply = "ok" /\ actors' = [actors EXCEPT ![t] = rest]
              /\ UNCHANGED <<durable, calls>>
         ELSE /\ LET done == IF reply # "ok" THEN rest
                             ELSE CASE command.op = "Batch" ->
                                         [rest EXCEPT !.applied = @ \cup {command.batch},
                                                      !.written = @ \cup {command.batch}]
                                    [] command.op \in {"Commit", "Rollback"} ->
                                         [rest EXCEPT !.applied = {}]
                                    [] OTHER -> rest
                 IN  actors' = [actors EXCEPT ![t] = IF end THEN Ended(done) ELSE done]
              /\ calls' = LET told == Answer(calls, {command.caller}, reply)
                          IN  IF end THEN Answer(told, Waiting(rest), "error") ELSE told
              /\ \/ command.op = "Commit"  \* also one that answers with an error
                    /\ durable' = [b \in Batches |-> durable[b] + IF b \in a.written THEN 1 ELSE 0]
                 \/ ~(command.op = "Commit" /\ reply = "ok") /\ UNCHANGED durable
      /\ UNCHANGED <<live, tab, prompt, staged, exports, gaveUp>>

\* The actor sees the retirement, or nobody holds its sender any more.  A
\* commit that was under way may have happened.
Held(t) == (tab.open /\ tab.tx = t) \/ \E c \in Callers : calls[c] # None /\ calls[c].tx = t
Stop(t) ==
  LET a == actors[t]
  IN  /\ Running(t)
      /\ ~live \/ (~Held(t) /\ a.queue = <<>>)
      /\ \/ UNCHANGED durable
         \/ /\ a.queue # <<>> /\ Head(a.queue).op = "Commit"
            /\ durable' = [b \in Batches |-> durable[b] + IF b \in a.written THEN 1 ELSE 0]
      /\ actors' = [actors EXCEPT ![t] = Ended(a)]
      /\ calls' = Answer(calls, Waiting(a), "error")
      /\ UNCHANGED <<live, tab, prompt, staged, exports, gaveUp>>

\* The connection is disconnected or replaced.
Retire ==
  /\ live /\ live' = FALSE
  /\ UNCHANGED <<durable, actors, tab, calls, prompt, staged, exports, gaveUp>>

-----------------------------------------------------------------------------
\* The calls.

\* GridTransaction::request: a command for the actor, or "session is closed".
Request(c, step, t, op, batch) ==
  /\ calls' = [calls EXCEPT ![c].step = step, ![c].tx = t,
                            ![c].reply = IF Running(t) THEN None ELSE "error"]
  /\ actors' = IF ~Running(t) THEN actors
               ELSE [actors EXCEPT ![t].queue =
                       Append(@, [op |-> op, caller |-> c, batch |-> batch])]
At(c, step) == calls[c] # None /\ calls[c].step = step
Result(c, result) == calls' = [calls EXCEPT ![c].step = "done", ![c].reply = result]
StartCall(c, step, t) ==
  calls' = [calls EXCEPT ![c] = [step |-> step, tx |-> t, reply |-> None,
                                 batch |-> tab.changes, manual |-> TRUE]]
world == <<live, durable, tab, prompt, staged, exports, gaveUp>>

\* begin_transaction: refused without the session, or by the database.
Begin(c, step) ==
  \/ /\ live /\ Len(actors) < MaxActors
     /\ actors' = Append(actors, NewActor)
     /\ calls' = [calls EXCEPT ![c].step = step, ![c].tx = Len(actors) + 1]
  \/ Result(c, "error") /\ UNCHANGED actors

\* save_with_isolation: a transaction of its own around the batch.
SaveBegins == At("save", "begin") /\ Begin("save", "own") /\ UNCHANGED world

\* save_in: through the transaction, if the session is still the same.
SaveApplies ==
  /\ At("save", "own") \/ At("save", "shared")
  /\ IF live THEN Request("save", IF At("save", "own") THEN "applied" ELSE "shared applied",
                          calls["save"].tx, "Batch", calls["save"].batch)
     ELSE IF At("save", "own") THEN Request("save", "failing", calls["save"].tx, "Rollback", 0)
     ELSE Result("save", "error") /\ UNCHANGED actors
  /\ UNCHANGED world

\* The transaction of its own is committed, or rolled back after a failure.
SaveCommits ==
  /\ At("save", "applied") /\ calls["save"].reply # None
  /\ IF calls["save"].reply = "ok"
     THEN Request("save", "committing", calls["save"].tx, "Commit", 0)
     ELSE Request("save", "failing", calls["save"].tx, "Rollback", 0)
  /\ UNCHANGED world

\* load_in: the page and then the count, whose failure is not one of the load.
LoadQueries ==
  /\ At("load", "start")
  /\ IF ~live THEN Result("load", "error") /\ UNCHANGED actors
     ELSE IF calls["load"].tx = NoActor
     THEN (\E reply \in {"ok", "refused"} : Result("load", reply)) /\ UNCHANGED actors
     ELSE Request("load", "page", calls["load"].tx, "Query", 0)
  /\ UNCHANGED world

LoadCounts ==
  /\ At("load", "page") /\ calls["load"].reply # None
  /\ IF calls["load"].reply = "ok" THEN Request("load", "count", calls["load"].tx, "Query", 0)
     ELSE Result("load", "error") /\ UNCHANGED actors
  /\ UNCHANGED world

\* change_transaction_configuration: the old transaction is rolled back unless
\* it is closed, then a new one begins when the mode is manual.
ModeStarts ==
  /\ At("mode", "start")
  /\ IF Running(calls["mode"].tx) THEN Request("mode", "old", calls["mode"].tx, "Rollback", 0)
     ELSE calls' = [calls EXCEPT !["mode"].step = "begin", !["mode"].tx = NoActor]
          /\ UNCHANGED actors
  /\ UNCHANGED world

ModeFinishesOld ==
  /\ At("mode", "old") /\ calls["mode"].reply # None
  /\ IF calls["mode"].reply = "ok"
     THEN calls' = [calls EXCEPT !["mode"].step = "begin", !["mode"].tx = NoActor]
     ELSE Result("mode", "error")
  /\ UNCHANGED <<actors, world>>

ModeBegins ==
  /\ At("mode", "begin")
  /\ IF calls["mode"].manual THEN Begin("mode", "begun")
     ELSE Result("mode", "ok") /\ UNCHANGED actors
  /\ UNCHANGED world

CallStep == \/ SaveBegins \/ SaveApplies \/ SaveCommits \/ LoadQueries \/ LoadCounts
            \/ ModeStarts \/ ModeFinishesOld \/ ModeBegins

-----------------------------------------------------------------------------
\* The tab: results.  A closed tab no longer takes them.
Load(t, cs) ==
  /\ tab' = [t EXCEPT !.kind = "Loading"]
  /\ calls' = [cs EXCEPT !["load"] = [step |-> "start", tx |-> t.tx, reply |-> None,
                                      batch |-> 0, manual |-> TRUE]]
\* load, on the tab as it is after a step: nothing while busy, gone or changed.
TryLoad(t, cs) ==
  IF t.kind \in {"Loading", "Saving", "Unavailable"} \/ t.changes # 0
  THEN tab' = t /\ calls' = cs
  ELSE Load(t, cs)
Without(c) == [calls EXCEPT ![c] = None]
Settled(c, steps) == calls[c] # None /\ calls[c].step \in steps /\ calls[c].reply # None
quiet == <<live, durable, prompt, staged, exports, gaveUp>>

FinishSave ==
  /\ Settled("save", {"committing", "shared applied", "failing", "done"})
  /\ LET call == calls["save"]
         ok == call.step \in {"committing", "shared applied"} /\ call.reply = "ok"
         t == [tab EXCEPT !.recovery = IF ~ok /\ call.step = "committing"
                                       THEN Applied(call.tx) ELSE {}]
     IN  IF ~tab.open \/ tab.kind # "Saving"
         THEN tab' = (IF tab.open THEN t ELSE tab) /\ calls' = Without("save")
         ELSE IF ok THEN TryLoad([t EXCEPT !.kind = "Idle", !.changes = 0], Without("save"))
         ELSE tab' = [t EXCEPT !.kind = "SaveFailed"] /\ calls' = Without("save")
  /\ UNCHANGED <<actors, quiet>>

FinishLoad ==
  /\ Settled("load", {"count", "done"})
  /\ calls' = Without("load")
  /\ tab' = IF ~tab.open \/ tab.kind # "Loading" THEN tab
            ELSE [tab EXCEPT !.kind =
                    IF calls["load"].step = "count" \/ calls["load"].reply = "ok"
                    THEN "Ready" ELSE "Failed"]
  /\ UNCHANGED <<actors, quiet>>

\* The mode is changed: the tab holds the new transaction and loads through it.
FinishMode ==
  /\ calls["mode"] # None
  /\ LET call == calls["mode"]
     IN  /\ call.step = "begun" \/ (call.step = "done" /\ call.reply # None)
         /\ IF ~tab.open THEN tab' = tab /\ calls' = Without("mode")
            ELSE IF call.reply = "error"
            THEN tab' = [tab EXCEPT !.busy = FALSE, !.manual = FALSE] /\ calls' = Without("mode")
            ELSE TryLoad([tab EXCEPT !.busy = FALSE, !.tx = call.tx, !.manual = call.manual],
                         Without("mode"))
  /\ UNCHANGED <<actors, quiet>>

\* change_transaction_configuration on the tab t: nothing may be unsaved.
ChangeConfiguration(t, cs, manual) ==
  IF t.changes # 0 \/ t.recovery # {} \/ Applied(t.tx) # {} \/ t.busy
     \/ t.kind \in {"Loading", "Saving", "Unavailable"} \/ (~manual /\ ~t.manual)
  THEN tab' = t /\ calls' = cs
  ELSE /\ tab' = [t EXCEPT !.busy = TRUE, !.tx = NoActor]
       /\ calls' = [cs EXCEPT !["mode"] = [step |-> "start", tx |-> t.tx, reply |-> None,
                                           batch |-> 0, manual |-> manual]]

\* The result of Commit or Roll Back: a rollback takes the staged changes with
\* it, and after either the manual mode begins its next transaction.
FinishTransaction ==
  /\ Settled("mode", {"committing", "rolling back"})
  /\ LET commit == calls["mode"].step = "committing"
     IN  IF ~tab.open
         THEN tab' = tab /\ calls' = Without("mode") /\ gaveUp' = gaveUp
         ELSE IF calls["mode"].reply = "ok"
         THEN /\ ChangeConfiguration([tab EXCEPT !.busy = FALSE, !.tx = NoActor,
                                        !.changes = IF commit THEN @ ELSE 0,
                                        !.kind = IF ~commit /\ @ = "SaveFailed" THEN "Ready" ELSE @],
                                     Without("mode"), TRUE)
              /\ gaveUp' = IF commit THEN gaveUp ELSE gaveUp \cup Staged
         ELSE /\ tab' = [tab EXCEPT !.busy = FALSE]
              /\ calls' = Without("mode") /\ gaveUp' = gaveUp
  /\ UNCHANGED <<live, durable, actors, prompt, staged, exports>>

\* An export has its answer and leaves the tab alone.
FinishExport ==
  /\ Settled("export", {"streaming"})
  /\ calls' = Without("export")
  /\ UNCHANGED <<actors, tab, quiet>>

Results == FinishSave \/ FinishLoad \/ FinishMode \/ FinishTransaction \/ FinishExport

\* The workspace tells the tab that the session is gone.
InvalidateSession ==
  /\ tab.open /\ ~live /\ Available
  /\ tab' = [tab EXCEPT !.kind = "Unavailable"]
  /\ UNCHANGED <<actors, calls, quiet>>

-----------------------------------------------------------------------------
\* The tab: the user.  A prompt is modal.
User == tab.open /\ prompt = None

\* A first edit after a save, a discard or an undo opens a new batch.
Stage ==
  /\ User /\ tab.changes = 0 /\ NotBusy /\ Available /\ staged < MaxBatches
  /\ staged' = staged + 1
  /\ tab' = [tab EXCEPT !.changes = staged + 1]
  /\ UNCHANGED <<live, durable, actors, calls, prompt, exports, gaveUp>>

UndoAll ==
  /\ User /\ tab.changes # 0 /\ tab.kind # "Saving"
  /\ gaveUp' = gaveUp \cup Staged
  /\ tab' = [tab EXCEPT !.changes = 0]
  /\ UNCHANGED <<live, durable, actors, calls, prompt, staged, exports>>

\* Mutant: what has an unknown outcome is saved again.
SaveAgain ==
  /\ User /\ tab.changes # 0 /\ NotBusy /\ Available
  /\ ~tab.busy /\ (tab.manual => Running(tab.tx))
  /\ tab' = [tab EXCEPT !.kind = "Saving"]
  /\ StartCall("save", IF tab.tx # NoActor THEN "shared" ELSE "begin", tab.tx)
  /\ UNCHANGED <<actors, quiet>>

\* start_save: not while an outcome is unknown, the mode is being changed or
\* the manual mode has no transaction.
Save ==
  /\ User /\ tab.changes # 0 /\ NotBusy /\ Available
  /\ tab.recovery = {} /\ ~tab.busy /\ (tab.manual => Running(tab.tx))
  /\ tab' = [tab EXCEPT !.kind = "Saving"]
  /\ StartCall("save", IF tab.tx # NoActor THEN "shared" ELSE "begin", tab.tx)
  /\ UNCHANGED <<actors, quiet>>

\* refresh_active, and apply_filter, which only looks at the staged changes.
Refresh ==
  /\ User /\ tab.changes = 0 /\ ~tab.busy /\ tab.recovery = {} /\ NotBusy /\ Available
  /\ Load(tab, calls)
  /\ UNCHANGED <<actors, quiet>>
ApplyFilter ==
  /\ User /\ tab.changes = 0 /\ NotBusy /\ Available
  /\ Load(tab, calls)
  /\ UNCHANGED <<actors, quiet>>

ChooseMode(manual) ==
  /\ User
  /\ ChangeConfiguration(tab, calls, manual) /\ tab' # tab
  /\ UNCHANGED <<actors, quiet>>

\* finish_transaction: the transaction must be open, the tab not busy.
CanFinish == ~tab.busy /\ NotBusy /\ Running(tab.tx)
Finish(step, op) ==
  /\ tab' = [tab EXCEPT !.busy = TRUE]
  /\ calls' = [calls EXCEPT !["mode"] = [step |-> step, tx |-> tab.tx, reply |-> None,
                                         batch |-> 0, manual |-> TRUE]]
  /\ actors' = [actors EXCEPT ![tab.tx].queue =
                  Append(@, [op |-> op, caller |-> "mode", batch |-> 0])]

CommitTransaction ==
  /\ User /\ tab.changes = 0 /\ CanFinish
  /\ Finish("committing", "Commit")
  /\ UNCHANGED quiet

\* Roll Back, or Discard while the transaction holds changes.
AskRollback ==
  /\ User /\ ~tab.busy /\ (tab.manual \/ Applied(tab.tx) # {})
  /\ prompt' = "Rollback"
  /\ UNCHANGED <<live, durable, actors, tab, calls, staged, exports, gaveUp>>

AnswerRollback(yes) ==
  /\ prompt = "Rollback" /\ prompt' = None
  /\ IF yes /\ tab.open /\ CanFinish
     THEN Finish("rolling back", "Rollback") /\ gaveUp' = gaveUp \cup Unsaved
     ELSE UNCHANGED <<actors, tab, calls, gaveUp>>
  /\ UNCHANGED <<live, durable, staged, exports>>

AskDiscard ==
  /\ User /\ HasUnsavedChanges /\ Applied(tab.tx) = {}
  /\ prompt' = "Discard"
  /\ UNCHANGED <<live, durable, actors, tab, calls, staged, exports, gaveUp>>

\* confirm_discard_changes: an unknown outcome is given up with the changes,
\* and the page is loaded to see it.
AnswerDiscard(yes) ==
  /\ prompt = "Discard" /\ prompt' = None
  /\ IF ~yes \/ ~tab.open THEN UNCHANGED <<tab, calls, gaveUp>>
     ELSE /\ gaveUp' = gaveUp \cup Unsaved
          /\ LET t == [tab EXCEPT !.recovery = {}, !.changes = IF tab.kind = "Saving" THEN @ ELSE 0,
                                  !.kind = IF @ = "SaveFailed" THEN "Ready" ELSE @]
             IN  IF tab.recovery # {} THEN TryLoad(t, calls) ELSE tab' = t /\ calls' = calls
  /\ UNCHANGED <<live, durable, actors, staged, exports>>

\* Export all rows, through the transaction when there is one; the task may be
\* cancelled, and its command then has no caller.
Export ==
  /\ User /\ exports < MaxExports /\ calls["export"] = None /\ Running(tab.tx)
  /\ exports' = exports + 1
  /\ calls' = [calls EXCEPT !["export"] = [step |-> "streaming", tx |-> tab.tx, reply |-> None,
                                           batch |-> 0, manual |-> TRUE]]
  /\ actors' = [actors EXCEPT ![tab.tx].queue =
                  Append(@, [op |-> "Stream", caller |-> "export", batch |-> 0])]
  /\ UNCHANGED <<live, durable, tab, prompt, staged, gaveUp>>

CancelExport ==
  /\ calls["export"] # None
  /\ calls' = Without("export")
  /\ UNCHANGED <<actors, tab, quiet>>

\* close_tab asks only when something is unsaved.
CloseTab ==
  /\ User
  /\ IF HasUnsavedChanges THEN prompt' = "Close" /\ tab' = tab
     ELSE prompt' = prompt /\ tab' = [tab EXCEPT !.open = FALSE]
  /\ UNCHANGED <<live, durable, actors, calls, staged, exports, gaveUp>>

AnswerClose(yes) ==
  /\ prompt = "Close" /\ prompt' = None
  /\ IF yes THEN tab' = [tab EXCEPT !.open = FALSE] /\ gaveUp' = gaveUp \cup Unsaved
     ELSE UNCHANGED <<tab, gaveUp>>
  /\ UNCHANGED <<live, durable, actors, calls, staged, exports>>

UserStep ==
  \/ Stage \/ UndoAll \/ Save \/ Refresh \/ ApplyFilter
  \/ \E manual \in BOOLEAN : ChooseMode(manual)
  \/ CommitTransaction \/ AskRollback \/ AskDiscard
  \/ Export \/ CancelExport \/ CloseTab
  \/ \E yes \in BOOLEAN : AnswerRollback(yes) \/ AnswerDiscard(yes) \/ AnswerClose(yes)

ActorStep(t) == Stop(t) \/ \E reply \in {"ok", "refused", "error"} : Perform(t, reply)

Next ==
  \/ \E t \in DOMAIN actors : ActorStep(t)
  \/ CallStep \/ Results
  \/ Retire \/ InvalidateSession
  \/ UserStep

\* The runtime polls what is ready, and a statement of the database returns.
Fairness ==
  /\ \A t \in 1..MaxActors : WF_vars(t \in DOMAIN actors /\ ActorStep(t))
  /\ WF_vars(SaveBegins \/ SaveApplies \/ SaveCommits \/ FinishSave)
  /\ WF_vars(LoadQueries \/ LoadCounts \/ FinishLoad)
  /\ WF_vars(ModeStarts \/ ModeFinishesOld \/ ModeBegins \/ FinishMode \/ FinishTransaction)
  /\ WF_vars(FinishExport) /\ WF_vars(InvalidateSession)

Spec == Init /\ [][Next]_vars /\ Fairness

-----------------------------------------------------------------------------
\* Type invariant.
TypeOK ==
  /\ live \in BOOLEAN /\ durable \in [Batches -> Nat]
  /\ actors \in Seq(Actor) /\ tab \in Tab /\ tab.tx \in 0..Len(actors)
  /\ calls \in [Callers -> Call \cup {None}]
  /\ \A c \in Callers : calls[c] # None => calls[c].tx \in 0..Len(actors)
  /\ prompt \in {None, "Rollback", "Discard", "Close"}
  /\ staged \in 0..MaxBatches /\ tab.changes <= staged
  /\ exports \in 0..MaxExports /\ gaveUp \subseteq Batches

\* Whatever the user has staged is in the database, is still counted as unsaved
\* by the open tab, so that closing it asks, or was given up by the user
\* (has_unsaved_changes, finish_save, finish_transaction, the recovery list).
NoSilentLoss ==
  \A b \in 1..staged : durable[b] > 0 \/ b \in gaveUp \/ (tab.open /\ b \in Unsaved)

\* A batch reaches the database once: one whose commit has an unknown outcome
\* is not sent again (start_save, save_recovery_sql).
NeverWrittenTwice == \A b \in Batches : durable[b] <= 1

\* Both: an edit reaches the database once, or the user knows that it has not.
EditsArriveOnce == NoSilentLoss /\ NeverWrittenTwice

\* A change of mode, a commit or a rollback ends; once the session is retired
\* every operation of the tab ends, in whatever step it was, and no transaction
\* stays open (the actor's select, the answers of its queue).
OperationsEnd ==
  /\ (calls["mode"] # None) ~> (calls["mode"] = None)
  /\ ~live ~> /\ \A c \in Callers : calls[c] = None
              /\ \A t \in DOMAIN actors : ~Running(t)
=============================================================================
