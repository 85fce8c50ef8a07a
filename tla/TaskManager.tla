---------------------------- MODULE TaskManager ----------------------------
\* The background tasks (tasks/mod.rs) and the task center that lists them
\* (ui/task_center_item.rs).  The module has the variables and what the handlers
\* do to them; Transfers composes them with the work the tasks do.
\*
\* An event is emitted as soon as the lock of the entries is released: the two
\* are one step here, because a load that comes between reads the newer list.
EXTENDS Integers, Sequences, FiniteSets

CONSTANTS
  None,
  Tasks,
  MaxCompleted   \* MAX_COMPLETED_TASKS

VARIABLES
  entries,    \* [task -> its entry, None before it starts and once it is pruned]
  token,      \* [task -> its cancellation token is cancelled]
  completed,  \* the terminal entries by completed_at
  center,     \* TaskCenterItem: the list shown, the load in flight, events unread
  cancels     \* [task -> the user's request to cancel it]

managerVars == <<entries, token, completed>>
centerVars == <<center, cancels>>

TerminalStatus == {"Completed", "Partial", "Failed", "Cancelled"}
IsTerminal(e) == e.status \in TerminalStatus

ManagerInit ==
  /\ entries = [t \in Tasks |-> None]
  /\ token = [t \in Tasks |-> FALSE]
  /\ completed = <<>>
  /\ center = [tasks |-> [t \in Tasks |-> None], loading |-> "asked",
               loaded |-> [t \in Tasks |-> None], pending |-> FALSE, unread |-> FALSE]
  /\ cancels = [t \in Tasks |-> None]

Emit == center' = [center EXCEPT !.unread = TRUE]

\* spawn, up to the first event; the worker starts after it.
Spawn(t) ==
  /\ entries' = [entries EXCEPT ![t] = [status |-> "Running", progress |-> 0]]
  /\ Emit
  /\ UNCHANGED <<token, completed, cancels>>

\* update_progress: nothing of a task that is being cancelled.
Progress(t, p) ==
  IF entries[t].status = "Running"
  THEN /\ entries' = [entries EXCEPT ![t].progress = IF p > @ THEN p ELSE @]
       /\ Emit
       /\ UNCHANGED <<token, completed, cancels>>
  ELSE UNCHANGED <<managerVars, centerVars>>

\* prune_completed: the oldest terminal entries beyond the limit.
Beyond(done) == IF Len(done) > MaxCompleted THEN Len(done) - MaxCompleted ELSE 0
Pruned(done) == {done[i] : i \in 1..Beyond(done)}

\* finish and complete: the outcome becomes the status, whatever it was.
Finish(t, outcome) ==
  LET done == Append(completed, t)
      gone == Pruned(done)
  IN  /\ entries' = [u \in Tasks |->
                       IF u \in gone THEN None
                       ELSE IF u = t THEN [entries[t] EXCEPT !.status = outcome]
                       ELSE entries[u]]
      /\ completed' = SubSeq(done, Beyond(done) + 1, Len(done))
      /\ Emit
      /\ UNCHANGED <<token, cancels>>

-----------------------------------------------------------------------------
\* The task center.

\* Mutant: what happens during a load is not loaded again.
RefreshOnce(c) == IF c.loading # "no" THEN c ELSE [c EXCEPT !.loading = "asked"]

\* refresh: one load at a time, and one more if anything happens meanwhile.
Refresh(c) ==
  IF c.loading # "no" THEN [c EXCEPT !.pending = TRUE]
  ELSE [c EXCEPT !.loading = "asked"]

\* An event of a task, or the news that events were missed.
HearEvent ==
  /\ center.unread
  /\ center' = Refresh([center EXCEPT !.unread = FALSE])
  /\ UNCHANGED <<managerVars, cancels>>

\* list_tasks, on the worker.
LoadReads ==
  /\ center.loading = "asked"
  /\ center' = [center EXCEPT !.loading = "read", !.loaded = entries]
  /\ UNCHANGED <<managerVars, cancels>>

LoadReturns ==
  /\ center.loading = "read"
  /\ LET c == [center EXCEPT !.tasks = center.loaded, !.loading = "no", !.pending = FALSE,
                             !.loaded = [t \in Tasks |-> None]]
     IN  center' = IF center.pending THEN Refresh(c) ELSE c
  /\ UNCHANGED <<managerVars, cancels>>

\* The cancel button of a task that is shown as running.
AskCancel(t) ==
  /\ center.tasks[t] # None /\ ~IsTerminal(center.tasks[t])
  /\ cancels[t] = None
  /\ cancels' = [cancels EXCEPT ![t] = "asked"]
  /\ UNCHANGED <<managerVars, center>>

\* cancel_task: refused for a task that is gone or terminal.
CancelTask(t) ==
  /\ cancels[t] = "asked"
  /\ cancels' = [cancels EXCEPT ![t] = "answered"]
  /\ IF entries[t] # None /\ ~IsTerminal(entries[t])
     THEN /\ token' = [token EXCEPT ![t] = TRUE]
          /\ entries' = [entries EXCEPT ![t].status = "Cancelling"]
     ELSE UNCHANGED <<token, entries>>
  /\ UNCHANGED <<completed, center>>

\* Its answer reloads the list: cancelling emits no event.
CancelReturns(t) ==
  /\ cancels[t] = "answered"
  /\ cancels' = [cancels EXCEPT ![t] = None]
  /\ center' = Refresh(center)
  /\ UNCHANGED managerVars

CenterNext(cancellable) ==
  \/ HearEvent \/ LoadReads \/ LoadReturns
  \/ \E t \in cancellable : AskCancel(t) \/ CancelTask(t) \/ CancelReturns(t)

\* When the center has nothing left to hear, to load or to cancel, its list is
\* the manager's: however events, loads and cancellations overlapped.
QuietCenterIsCurrent ==
  (center.loading = "no" /\ ~center.unread /\ \A t \in Tasks : cancels[t] = None)
    => center.tasks = entries

-----------------------------------------------------------------------------
\* The inductive invariant of the manager and the task center.

Entry == [status : TerminalStatus \cup {"Running", "Cancelling"}, progress : Nat]
Listing == [Tasks -> Entry \cup {None}]
Center == [tasks : Listing, loading : {"no", "asked", "read"}, loaded : Listing,
           pending : BOOLEAN, unread : BOOLEAN]
Requests == {None, "asked", "answered"}

ManagerTypes ==
  /\ entries \in Listing /\ token \in [Tasks -> BOOLEAN] /\ completed \in Seq(Tasks)
  /\ center \in Center /\ cancels \in [Tasks -> Requests]

\* Something will make the center load again: an event it has not heard, a load
\* that has not read yet, one more that was asked for, or a cancellation that returns.
Due == \/ center.unread \/ center.pending \/ center.loading = "asked"
       \/ \E t \in Tasks : cancels[t] = "answered"

\* Otherwise what it shows, or is about to show, is what the manager has.
CenterInv ==
  /\ center.pending => center.loading # "no"
  /\ ~Due => entries = IF center.loading = "read" THEN center.loaded ELSE center.tasks
=============================================================================
