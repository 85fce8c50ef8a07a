----------------------------- MODULE Transfers ------------------------------
\* What the background tasks do: copying a table (transfer/table_copy.rs),
\* restoring a script (restore.rs), backing tables up (backup/execute.rs) and
\* exporting rows through a channel to a writer thread (export_service.rs and
\* its writer.rs), the latter two into a temporary file that is only renamed at
\* the end (atomic_output.rs).  A worker looks at its cancellation token at
\* fixed points; a cancellation, the loss of a session, a failed statement or a
\* failed write may come between any two of them.
\*
\* Rows, statements and tables are units, numbered; the structure of a copied
\* table is unit 0.  A source does not change while it is read.
EXTENDS TaskManager

CONSTANTS
  Sessions,    \* "source" and "target"
  Limits       \* the bounds a behaviour may be given: the tasks, those the
               \* user cancels, the sessions that may be retired, kinds,
               \* contents, units, rows per page of a copy, pages of a backed
               \* up table, capacity of the channel, whether workers panic

Kinds == {"copy", "restore", "backup", "export"}
Contents == {"Structure", "Data", "StructureAndData"}

\* What an instance assumes of the constants.
ConstantsAssumption ==
  /\ MaxCompleted \in Nat
  /\ None \notin Entry \cup Kinds \cup TerminalStatus \cup {"asked", "answered"}
  /\ \A l \in Limits : /\ l.tasks \subseteq Tasks /\ l.cancels \subseteq Tasks
                       /\ l.kinds \subseteq Kinds /\ l.contents \subseteq Contents
                       /\ {l.units, l.pages, l.channel} \subseteq Nat /\ l.pageSize \in Nat \ {0}

VARIABLES
  limits,   \* the bounds of this behaviour, chosen once
  live,     \* [session -> not retired]
  worker,   \* [task -> the worker: what it does, where it stands, its effects]
  pipe,     \* [task -> the export's channel and writer thread]
  dest,     \* [task -> units written to the database]
  output,   \* [task -> the output file: "old", "whole", "short"]
  late,     \* history: [task -> statements that wrote after the cancellation]
  crashed   \* history: the tasks whose worker panicked

workVars == <<live, worker, pipe, dest, output, late, crashed>>
vars == <<limits, entries, token, completed, center, cancels, workVars>>

Units == limits.units

NoPipe == [queue |-> <<>>, closed |-> FALSE, writer |-> "new", rows |-> 0]
Idle == [kind |-> None, content |-> None, pc |-> "none", unit |-> 1, page |-> 1,
         applied |-> 0, failed |-> 0, badRows |-> 0, outcome |-> None]

HasStructure(w) == w.content \in {"Structure", "StructureAndData"}
HasData(w) == w.content \in {"Data", "StructureAndData"}

Init ==
  /\ ManagerInit
  /\ limits \in Limits
  /\ live = [s \in Sessions |-> TRUE]
  /\ worker = [t \in Tasks |-> Idle]
  /\ pipe = [t \in Tasks |-> NoPipe]
  /\ dest = [t \in Tasks |-> {}]
  /\ output = [t \in Tasks |-> "old"]
  /\ late = [t \in Tasks |-> 0]
  /\ crashed = {}

-----------------------------------------------------------------------------
\* The outcomes.

\* TransferEffects::finish and ::interrupted.
FinishEffects(w) ==
  IF w.failed = 0 THEN "Completed" ELSE IF w.applied = 0 THEN "Failed" ELSE "Partial"
\* Mutant: the interruption is all that is reported.
InterruptedOnly(w, why) == why

Interrupted(w, why) ==
  IF w.applied = 0 /\ w.failed = 0 THEN why
  ELSE IF w.applied = 0 THEN "Failed" ELSE "Partial"

\* The worker's next state; a worker that returns leaves its outcome.
To(t, w) == worker' = [worker EXCEPT ![t] = w]
Returns(w, outcome) == [w EXCEPT !.pc = "returned", !.outcome = outcome]
At(t, kind, pc) == worker[t].kind = kind /\ worker[t].pc = pc

\* Rows that failed since the page began count once the page, or the copy, ends.
Recorded(w) == [w EXCEPT !.failed = @ + w.badRows, !.badRows = 0]

\* The steps of a worker that only read, write the database, or do neither.
OnlyWorker == UNCHANGED <<limits, live, pipe, dest, output, late, crashed>>
Quietly == OnlyWorker /\ UNCHANGED <<managerVars, centerVars>>
Writes(t, unit) ==
  /\ dest' = [dest EXCEPT ![t] = @ \cup {unit}]
  /\ late' = [late EXCEPT ![t] = IF token[t] THEN @ + 1 ELSE @]
  /\ UNCHANGED <<limits, live, pipe, output, crashed>>

\* A statement through a session: it succeeds, fails, or the session is gone.
Answers(s) == IF live[s] THEN {"ok", "error"} ELSE {"gone"}

-----------------------------------------------------------------------------
\* Starting and ending.

FirstPc(kind, content) ==
  CASE kind = "copy"    -> IF content = "Data" THEN "page" ELSE "structure"
    [] kind = "restore" -> "statement"
    [] kind = "backup"  -> "open"
    [] kind = "export"  -> "start"

\* start_table_copy, start_restore, start_backup and start_export_from: all but
\* the last look at the sessions first.
Start(t, kind, content) ==
  /\ worker[t].pc = "none"
  /\ kind \in {"restore", "export"} => content = "Data"
  /\ kind # "export" => \A s \in Sessions : live[s]
  /\ To(t, [Idle EXCEPT !.kind = kind, !.content = content, !.pc = FirstPc(kind, content)])
  /\ Spawn(t)
  /\ OnlyWorker

\* The second task of spawn: it waits for the worker, and reports a panic.
Ends(t) ==
  /\ worker[t].pc = "returned"
  /\ Finish(t, worker[t].outcome)
  /\ To(t, [Idle EXCEPT !.kind = worker[t].kind, !.content = worker[t].content, !.pc = "gone"])
  /\ OnlyWorker

Running(t) == worker[t].pc \notin {"none", "returned", "gone"}

Panics(t) ==
  /\ Running(t) /\ limits.panics
  /\ To(t, Returns(worker[t], "Failed"))
  /\ crashed' = crashed \cup {t}
  /\ pipe' = [pipe EXCEPT ![t].closed = worker[t].pc # "start"]
  /\ UNCHANGED <<limits, live, dest, output, late, managerVars, centerVars>>

Retire(s) ==
  /\ live[s] /\ live' = [live EXCEPT ![s] = FALSE]
  /\ UNCHANGED <<limits, worker, pipe, dest, output, late, crashed, managerVars, centerVars>>

-----------------------------------------------------------------------------
\* Copying a table.

\* ensure_not_cancelled before the structure is read and before it is created.
CopyChecks(t) ==
  /\ \E next \in {<<"structure", "describe">>, <<"recheck", "create">>, <<"page", "read">>} :
       /\ At(t, "copy", next[1])
       /\ To(t, IF token[t] THEN Returns(worker[t], Interrupted(worker[t], "Cancelled"))
                ELSE [worker[t] EXCEPT !.pc = next[2]])
  /\ Quietly

CopyDescribes(t) ==
  /\ At(t, "copy", "describe")
  /\ \E a \in Answers("source") :
       To(t, IF a = "ok" THEN [worker[t] EXCEPT !.pc = "recheck"]
             ELSE Returns(worker[t], Interrupted(worker[t], "Failed")))
  /\ Quietly

CopyCreates(t) ==
  /\ At(t, "copy", "create")
  /\ \E a \in Answers("target") :
       LET w == [worker[t] EXCEPT !.applied = @ + 1] IN
       IF a # "ok"
       THEN To(t, Returns(worker[t], Interrupted(worker[t], "Failed"))) /\ Quietly
       ELSE /\ Writes(t, 0)
            /\ IF HasData(w) THEN To(t, [w EXCEPT !.pc = "page"]) /\ Progress(t, 1)
               ELSE To(t, Returns(w, FinishEffects(w))) /\ UNCHANGED <<managerVars, centerVars>>

\* A page of the source: a page that cannot be read ends the copy as a failure
\* of its own, an empty one ends it well.
CopyReads(t) ==
  /\ At(t, "copy", "read")
  /\ \E a \in Answers("source") :
       LET w == worker[t]
           broken == [w EXCEPT !.failed = @ + 1]
       IN  To(t, CASE a = "gone" -> Returns(w, Interrupted(w, "Failed"))
                   [] a = "error" -> Returns(broken, FinishEffects(broken))
                   [] a = "ok" /\ w.unit > Units -> Returns(w, FinishEffects(w))
                   [] OTHER -> [w EXCEPT !.pc = "row"])
  /\ Quietly

\* Before each row; a row that has no SQL form ends the copy too.
CopyChecksRow(t) ==
  /\ At(t, "copy", "row")
  /\ LET w == Recorded(worker[t]) IN
     \/ token[t] /\ To(t, Returns(w, Interrupted(w, "Cancelled")))
     \/ ~token[t] /\ To(t, [worker[t] EXCEPT !.pc = "insert"])
     \/ ~token[t] /\ To(t, Returns(w, Interrupted(w, "Failed")))
  /\ Quietly

\* After a row: the next one, the next page, or the end after a short page.
AfterRow(t, w) ==
  LET next == [w EXCEPT !.unit = @ + 1]
      page == Recorded(next)
      endOfPage == w.unit % limits.pageSize = 0
  IN  CASE w.unit < Units /\ ~endOfPage ->
             To(t, [next EXCEPT !.pc = "row"]) /\ UNCHANGED <<managerVars, centerVars>>
        [] endOfPage -> To(t, [page EXCEPT !.pc = "page"]) /\ Progress(t, 1)
        [] OTHER -> To(t, Returns(page, FinishEffects(page))) /\ Progress(t, 1)

CopyInserts(t) ==
  /\ At(t, "copy", "insert")
  /\ \E a \in Answers("target") :
       LET w == worker[t]
           lost == Recorded(w)
       IN  CASE a = "gone" -> To(t, Returns(lost, Interrupted(lost, "Failed"))) /\ Quietly
             [] a = "error" -> AfterRow(t, [w EXCEPT !.badRows = @ + 1]) /\ OnlyWorker
             [] a = "ok" -> AfterRow(t, [w EXCEPT !.applied = @ + 1]) /\ Writes(t, w.unit)

-----------------------------------------------------------------------------
\* Restoring the statements of the spool, which is fixed before the task starts.

RestoreChecks(t) ==
  /\ At(t, "restore", "statement")
  /\ LET w == worker[t]
         more == w.unit <= Units
     IN
     \/ ~more /\ To(t, Returns(w, FinishEffects(w)))
     \/ more /\ token[t] /\ To(t, Returns(w, Interrupted(w, "Cancelled")))
     \/ more /\ ~token[t] /\ To(t, [w EXCEPT !.pc = "execute"])
     \/ more /\ ~token[t] /\ To(t, Returns(w, Interrupted(w, "Failed")))   \* the spool fails
  /\ Quietly

RestoreExecutes(t) ==
  /\ At(t, "restore", "execute")
  /\ \E a \in Answers("target") :
       LET w == worker[t]
           done == [w EXCEPT !.pc = "statement", !.unit = @ + 1,
                             !.applied = IF a = "ok" THEN @ + 1 ELSE @,
                             !.failed = IF a = "ok" THEN @ ELSE @ + 1]
       IN  IF a = "gone" THEN To(t, Returns(w, Interrupted(w, "Failed"))) /\ Quietly
           ELSE /\ To(t, done) /\ Progress(t, w.unit)
                /\ IF a = "ok" THEN Writes(t, w.unit) ELSE OnlyWorker

-----------------------------------------------------------------------------
\* Backing up: a table that cannot be read or rendered leaves a gap (`failed`);
\* a failed write to the temporary file ends the task, and so does the session.

BackupReturns(t, outcome) == To(t, Returns(worker[t], outcome))

\* Every look at the token, with the step it guards.
BackupChecks(t) ==
  /\ \E next \in {<<"open", "create">>, <<"table", "content">>, <<"data", "fetch">>,
                  <<"seal", "finish">>, <<"last", "commit">>} :
       /\ At(t, "backup", next[1])
       /\ IF token[t] THEN BackupReturns(t, "Cancelled")
          ELSE To(t, [worker[t] EXCEPT !.pc =
                        CASE next[2] # "content" -> next[2]
                          [] next[2] = "content" /\ HasStructure(worker[t]) -> "describe"
                          [] OTHER -> "data"])
  /\ Quietly

BackupWrites(t) ==
  /\ \E next \in {<<"create", IF Units = 0 THEN "seal" ELSE "table">>, <<"finish", "last">>} :
       /\ At(t, "backup", next[1])
       /\ \/ BackupReturns(t, "Failed")
          \/ To(t, [worker[t] EXCEPT !.pc = next[2]])
  /\ Quietly

\* The session is gone: a cancellation is reported before the failure.
Fatal(t) == BackupReturns(t, IF token[t] THEN "Cancelled" ELSE "Failed")

\* The end of a table, with the gaps it leaves.
TableDone(t, w) ==
  /\ To(t, [w EXCEPT !.unit = @ + 1, !.page = 1,
                     !.pc = IF w.unit < Units THEN "table" ELSE "seal"])
  /\ Progress(t, w.unit)

BackupDescribes(t) ==
  /\ At(t, "backup", "describe")
  /\ \/ live["source"] /\ BackupReturns(t, "Failed") /\ UNCHANGED <<managerVars, centerVars>>
     \/ \E a \in Answers("source") :
          LET w == [worker[t] EXCEPT !.failed = IF a = "ok" THEN @ ELSE 1] IN
          CASE a = "gone" -> Fatal(t) /\ UNCHANGED <<managerVars, centerVars>>
            [] a # "gone" /\ HasData(w) ->
                 To(t, [w EXCEPT !.pc = "data"]) /\ UNCHANGED <<managerVars, centerVars>>
            [] OTHER -> TableDone(t, w)
  /\ OnlyWorker

\* A page of rows; the table ends with a page that is not full or cannot be read.
BackupFetches(t) ==
  /\ At(t, "backup", "fetch")
  /\ \/ live["source"] /\ BackupReturns(t, "Failed") /\ UNCHANGED <<managerVars, centerVars>>
     \/ \E a \in Answers("source"), gap \in {0, 1} :
          LET w == [worker[t] EXCEPT !.failed = IF a = "ok" /\ gap = 0 THEN @ ELSE 1] IN
          CASE a = "gone" -> Fatal(t) /\ UNCHANGED <<managerVars, centerVars>>
            [] OTHER ->
                 \/ TableDone(t, w)
                 \/ /\ a = "ok" /\ gap = 0 /\ w.page < limits.pages
                    /\ To(t, [w EXCEPT !.pc = "data", !.page = @ + 1])
                    /\ UNCHANGED <<managerVars, centerVars>>
  /\ OnlyWorker

\* commit of the AtomicOutput: the file is replaced as a whole, or left alone.
BackupCommits(t) ==
  /\ At(t, "backup", "commit")
  /\ \/ BackupReturns(t, "Failed") /\ UNCHANGED output
     \/ /\ BackupReturns(t, IF worker[t].failed = 0 THEN "Completed" ELSE "Partial")
        /\ output' = [output EXCEPT ![t] = IF worker[t].failed = 0 THEN "whole" ELSE "short"]
  /\ UNCHANGED <<limits, live, pipe, dest, late, crashed, managerVars, centerVars>>

-----------------------------------------------------------------------------
\* Exporting: a producer that streams the rows, a channel, a writer thread.  The
\* worker's `failed` says that the query failed, `page` that the producer saw
\* the cancellation at the end of the stream (2) or did not (1).

OnlyPipe(t, p) ==
  /\ pipe' = [pipe EXCEPT ![t] = p]
  /\ UNCHANGED <<limits, live, dest, late, crashed, managerVars, centerVars>>

\* Mutant: a writer that failed is taken for one that is slow.
WriterAliveUntilWritten(p) == p.writer # "written"

WriterAlive(p) == p.writer \notin {"failed", "written"}
ExportReturns(t, ok) ==
  To(t, Returns(worker[t], IF ok THEN "Completed" ELSE IF token[t] THEN "Cancelled" ELSE "Failed"))

ExportStarts(t) ==
  /\ At(t, "export", "start")
  /\ IF token[t] THEN ExportReturns(t, FALSE) /\ UNCHANGED <<managerVars, centerVars>>
     ELSE To(t, [worker[t] EXCEPT !.pc = "query"]) /\ Progress(t, 1)
  /\ OnlyWorker

\* The session is checked, then its driver stays locked for the whole stream;
\* the column names are the first message.
ExportQueries(t) ==
  /\ At(t, "export", "query")
  /\ \E a \in Answers("source") :
       IF a = "ok"
       THEN /\ To(t, [worker[t] EXCEPT !.pc = "stream"])
            /\ OnlyPipe(t, IF WriterAlive(pipe[t])
                           THEN [pipe[t] EXCEPT !.queue = Append(@, "columns")] ELSE pipe[t])
       ELSE /\ To(t, [worker[t] EXCEPT !.pc = "end", !.failed = 1])
            /\ OnlyPipe(t, pipe[t])
  /\ UNCHANGED output

\* A row is sent if it is wanted, which waits for room in the channel.
ExportStreams(t) ==
  /\ At(t, "export", "stream")
  /\ LET wanted == WriterAlive(pipe[t]) /\ ~token[t] IN
     \/ /\ worker[t].unit <= Units
        /\ wanted => Len(pipe[t].queue) < limits.channel
        /\ To(t, [worker[t] EXCEPT !.unit = @ + 1])
        /\ OnlyPipe(t, IF wanted THEN [pipe[t] EXCEPT !.queue = Append(@, "row")] ELSE pipe[t])
     \/ /\ worker[t].unit > Units
        /\ To(t, [worker[t] EXCEPT !.pc = "end"]) /\ OnlyPipe(t, pipe[t])
     \/ /\ To(t, [worker[t] EXCEPT !.pc = "end", !.failed = 1]) /\ OnlyPipe(t, pipe[t])
  /\ UNCHANGED output

\* The finish message is only for a stream that was not cut short; then the
\* channel is closed.
ExportCloses(t) ==
  /\ At(t, "export", "end")
  /\ LET whole == worker[t].failed = 0 /\ ~token[t] IN
     /\ (whole /\ WriterAlive(pipe[t])) => Len(pipe[t].queue) < limits.channel
     /\ To(t, [worker[t] EXCEPT !.pc = "await", !.page = IF token[t] THEN 2 ELSE 1])
     /\ OnlyPipe(t, [pipe[t] EXCEPT !.closed = TRUE,
                       !.queue = IF whole /\ WriterAlive(pipe[t]) THEN Append(@, "finish") ELSE @])
  /\ UNCHANGED output

ExportAwaits(t) ==
  /\ At(t, "export", "await") /\ ~WriterAlive(pipe[t])
  /\ ExportReturns(t, worker[t].failed = 0 /\ worker[t].page = 1 /\ pipe[t].writer = "written")
  /\ Quietly

\* write_export, on its own thread; whatever it cannot open or write fails it.
WriterStarted(t) ==
  worker[t].kind = "export" /\ (worker[t].pc \notin {"start", "returned", "gone"} \/ pipe[t].closed)
WriterFails(t) ==
  OnlyPipe(t, [pipe[t] EXCEPT !.writer = "failed", !.queue = <<>>]) /\ UNCHANGED output

WriterOpens(t) ==
  /\ WriterStarted(t) /\ pipe[t].writer = "new"
  /\ \/ WriterFails(t)
     \/ OnlyPipe(t, [pipe[t] EXCEPT !.writer = "columns"]) /\ UNCHANGED output
  /\ UNCHANGED worker

\* The channel's next message; the look at the token before it comes first.
WriterReceives(t) ==
  /\ pipe[t].writer \in {"columns", "rows"}
  /\ LET p == pipe[t]
         rest == [p EXCEPT !.queue = Tail(@)]
     IN
     \/ p.writer = "rows" /\ token[t] /\ WriterFails(t)
     \/ p.queue = <<>> /\ p.closed /\ WriterFails(t)
     \/ p.queue # <<>> /\ WriterFails(t)
     \/ /\ p.queue # <<>> /\ (p.writer = "columns" \/ ~token[t])
        /\ OnlyPipe(t, CASE Head(p.queue) = "columns" -> [rest EXCEPT !.writer = "rows"]
                         [] Head(p.queue) = "row" -> [rest EXCEPT !.rows = @ + 1]
                         [] Head(p.queue) = "finish" -> [rest EXCEPT !.writer = "sealed"])
        /\ UNCHANGED output
  /\ UNCHANGED worker

WriterChecks(t) ==
  /\ pipe[t].writer = "sealed"
  /\ IF token[t] THEN WriterFails(t)
     ELSE OnlyPipe(t, [pipe[t] EXCEPT !.writer = "commit"]) /\ UNCHANGED output
  /\ UNCHANGED worker

WriterCommits(t) ==
  /\ pipe[t].writer = "commit"
  /\ \/ WriterFails(t)
     \/ /\ OnlyPipe(t, [pipe[t] EXCEPT !.writer = "written"])
        /\ output' = [output EXCEPT ![t] = IF pipe[t].rows = Units THEN "whole" ELSE "short"]
  /\ UNCHANGED worker

-----------------------------------------------------------------------------
Copies(t) ==
  CopyChecks(t) \/ CopyDescribes(t) \/ CopyCreates(t) \/ CopyReads(t) \/ CopyChecksRow(t)
  \/ CopyInserts(t)
Restores(t) == RestoreChecks(t) \/ RestoreExecutes(t)
BacksUp(t) ==
  BackupChecks(t) \/ BackupWrites(t) \/ BackupDescribes(t) \/ BackupFetches(t) \/ BackupCommits(t)
Exports(t) ==
  ExportStarts(t) \/ ExportQueries(t) \/ ExportStreams(t) \/ ExportCloses(t) \/ ExportAwaits(t)
Writer(t) == WriterOpens(t) \/ WriterReceives(t) \/ WriterChecks(t) \/ WriterCommits(t)

Works(t) == Copies(t) \/ Restores(t) \/ BacksUp(t) \/ Exports(t) \/ Ends(t)

Next ==
  \/ \E t \in limits.tasks, k \in limits.kinds, c \in limits.contents : Start(t, k, c)
  \/ \E t \in Tasks : Works(t) \/ Writer(t) \/ Panics(t)
  \/ \E s \in limits.retires : Retire(s)
  \/ CenterNext(limits.cancels) /\ UNCHANGED <<limits, workVars>>

\* The runtime keeps polling the workers and running the writer thread, and
\* every statement answers.
Fairness == \A t \in Tasks : WF_vars(Works(t)) /\ WF_vars(Writer(t))

Spec == Init /\ [][Next]_vars /\ Fairness

-----------------------------------------------------------------------------
\* What a finished task says is what it did: a copy or a restore that is reported
\* as cancelled or failed has changed nothing, one that is complete has done all
\* of it, and a partial one something; an output file is replaced only by a task
\* that says so, and is whole unless that says partial.  (A panic of the worker
\* is reported as a failure whatever was done before.)  After a cancellation at
\* most the statement under way still reaches the database.
WholeCopy(t) == (IF HasStructure(worker[t]) THEN {0} ELSE {})
                \cup (IF HasData(worker[t]) THEN 1..Units ELSE {})
Tells(t, status) ==
  IF worker[t].kind \in {"copy", "restore"}
  THEN /\ status = "Completed" => dest[t] = WholeCopy(t)
       /\ status = "Partial" => dest[t] # {}
       /\ status \in {"Cancelled", "Failed"} => dest[t] = {}
  ELSE /\ status = "Completed" => output[t] = "whole"
       /\ status = "Partial" => output[t] = "short"
       /\ status \in {"Cancelled", "Failed"} => output[t] = "old"
OutcomeTellsEffects ==
  /\ \A t \in Tasks : late[t] <= 1
  /\ \A t \in Tasks \ crashed : entries[t] # None => Tells(t, entries[t].status)

\* A started task ends: cancelled, interrupted, failing or panicking, and even
\* when the writer of an export dies before its producer or the reverse.
TasksEnd == \A t \in Tasks : Running(t) ~> worker[t].pc = "gone"

-----------------------------------------------------------------------------
\* The inductive invariant: what each kind of worker has done when it stands at
\* one of its steps.

CopyPcs == {"structure", "describe", "recheck", "create", "page", "read", "row", "insert"}
RestorePcs == {"statement", "execute"}
BackupPcs == {"open", "create", "table", "describe", "data", "fetch", "seal", "finish", "last",
              "commit"}
ExportPcs == {"start", "query", "stream", "end", "await"}

Worker == [kind : Kinds \cup {None}, content : Contents \cup {None},
           pc : {"none", "returned", "gone"} \cup CopyPcs \cup RestorePcs \cup BackupPcs \cup ExportPcs,
           unit : Nat, page : Nat, applied : Nat, failed : Nat, badRows : Nat,
           outcome : TerminalStatus \cup {None}]
Messages == {"columns", "row", "finish"}
Pipe == [queue : Seq(Messages), closed : BOOLEAN,
         writer : {"new", "columns", "rows", "sealed", "commit", "written", "failed"}, rows : Nat]

WorkTypes ==
  /\ limits \in Limits /\ worker \in [Tasks -> Worker] /\ pipe \in [Tasks -> Pipe]
  /\ dest \in [Tasks -> SUBSET Nat] /\ output \in [Tasks -> {"old", "whole", "short"}]
  /\ late \in [Tasks -> Nat] /\ crashed \subseteq Tasks

\* A copy or restore without a failure so far has written every unit before the
\* one it is at; one that has applied nothing has written nothing.
Before(w) == (IF HasStructure(w) THEN {0} ELSE {}) \cup 1..(w.unit - 1)
Wrote(t) ==
  /\ worker[t].unit \in 1..Units + 1
  /\ dest[t] = {} <=> worker[t].applied = 0
  /\ worker[t].failed = 0 /\ worker[t].badRows = 0 => dest[t] = Before(worker[t])

CopyInv(t) ==
  LET w == worker[t] IN
  /\ w.pc \in CopyPcs
  /\ w.pc \in {"structure", "describe", "recheck", "create"} =>
       /\ HasStructure(w) /\ w.unit = 1 /\ dest[t] = {}
       /\ w.applied = 0 /\ w.failed = 0
  /\ w.pc \in {"page", "read", "row", "insert"} => HasData(w) /\ Wrote(t)
  /\ w.pc \notin {"row", "insert"} => w.badRows = 0
  /\ w.pc \in {"row", "insert"} => w.unit <= Units

RestoreInv(t) ==
  LET w == worker[t] IN
  /\ w.pc \in RestorePcs /\ w.content = "Data" /\ w.badRows = 0
  /\ Wrote(t)
  /\ w.pc = "execute" => w.unit <= Units

BackupInv(t) == worker[t].pc \in BackupPcs /\ output[t] = "old"

\* The messages of an export are its columns, its rows and, only at the end of a
\* stream that was not cut short, "finish": the rows that arrived and those in
\* the channel are those that were sent.
Shaped(q) ==
  \A i \in 1..Len(q) : (q[i] = "columns" => i = 1) /\ (q[i] = "finish" => i = Len(q))
Closing(q) == q # <<>> /\ q[Len(q)] = "finish"
RowsIn(q) == Len(q) - (IF q # <<>> /\ q[1] = "columns" THEN 1 ELSE 0)
                    - (IF Closing(q) THEN 1 ELSE 0)
Finishes(p) == Closing(p.queue) \/ p.writer \in {"sealed", "commit", "written"}

ExportState(w, p, cancelled, units, file) ==
  /\ w.pc \in ExportPcs
  /\ Shaped(p.queue)
  /\ w.pc \in {"start", "query"} => w.unit = 1 /\ p.queue = <<>> /\ p.rows = 0
  /\ w.pc = "start" => p.writer = "new"
  /\ w.pc \in {"start", "query", "stream"} => w.failed = 0
  /\ w.pc # "await" => ~p.closed /\ ~Finishes(p)
  /\ w.unit \in 1..units + 1
  /\ w.pc = "end" /\ w.failed = 0 => w.unit = units + 1
  /\ w.pc \in {"stream", "end"} /\ w.failed = 0 /\ ~cancelled /\ WriterAlive(p) =>
       p.rows + RowsIn(p.queue) = w.unit - 1
  /\ Finishes(p) => w.failed = 0 /\ w.page = 1
  /\ Finishes(p) /\ WriterAlive(p) => p.rows + RowsIn(p.queue) = units
  /\ p.writer \in {"sealed", "commit", "failed"} => p.queue = <<>>
  /\ file = IF p.writer = "written" THEN "whole" ELSE "old"

ExportInv(t) == ExportState(worker[t], pipe[t], token[t], Units, output[t])

\* A worker that has returned says what it did, and its writer is done.
Settled(t) ==
  /\ worker[t].pc = "returned" => Tells(t, worker[t].outcome)
  /\ pipe[t].closed \/ pipe[t].writer # "new" => pipe[t].writer \in {"failed", "written"}

WorkInv(t) ==
  /\ late[t] <= 1
  /\ late[t] > 0 => token[t] /\ worker[t].pc \notin {"create", "insert", "execute"}
  /\ worker[t].pc = "none" =>
       worker[t] = Idle /\ pipe[t] = NoPipe /\ dest[t] = {} /\ output[t] = "old"
  /\ worker[t].pc # "none" => worker[t].kind # None
  /\ worker[t].pc = "returned" => worker[t].outcome # None
  /\ t \in crashed => worker[t].pc \in {"returned", "gone"}
  /\ worker[t].kind # "export" => pipe[t].writer = "new"
  /\ Running(t) => /\ worker[t].kind = "copy" => CopyInv(t)
                   /\ worker[t].kind = "restore" => RestoreInv(t)
                   /\ worker[t].kind = "backup" => BackupInv(t)
                   /\ worker[t].kind = "export" => ExportInv(t)
                   /\ worker[t].kind # "export" => ~pipe[t].closed
  /\ worker[t].pc \in {"returned", "gone"} /\ t \notin crashed => Settled(t)

\* The entry of a task: it is terminal when its worker is gone, and only then.
EntryInv(t) ==
  /\ worker[t].pc = "none" => entries[t] = None
  /\ worker[t].pc \notin {"none", "gone"} => entries[t] # None /\ ~IsTerminal(entries[t])
  /\ worker[t].pc = "gone" /\ t \notin crashed /\ entries[t] # None => Tells(t, entries[t].status)

TasksInv ==
  /\ ManagerTypes /\ WorkTypes /\ CenterInv
  /\ \A t \in Tasks : WorkInv(t) /\ EntryInv(t)
  /\ \A i \in DOMAIN completed : worker[completed[i]].pc = "gone"
=============================================================================
