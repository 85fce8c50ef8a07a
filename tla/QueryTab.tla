------------------------------ MODULE QueryTab ------------------------------
\* A query tab: the file behind its editor (application/query_file.rs), the
\* context the statements run in, the results and their selection
\* (application/query_workspace.rs, query_result_selection.rs), the way a run
\* reaches the database (query_service.rs), and the handlers of the tab
\* (ui/query_item).  Every file operation, run and list of choices is a
\* background task: the user keeps typing, choosing and clicking meanwhile, and
\* sessions come and go.
\*
\* A request's generation number is only ever compared with the latest one, so
\* a task carries `current` instead: a new request, or whatever else bumps the
\* counter, makes the earlier tasks stale.
EXTENDS Integers, Sequences, FiniteSets

CONSTANTS
  None,
  Texts, Empty,    \* contents the user types; Empty is what Clear leaves
  Broken,          \* what a write that failed halfway leaves in a file
  Paths,
  Databases,
  SchemasOf,       \* [Databases -> the schemas its catalog lists]
  Limits           \* the bounds a behaviour may be given: texts, paths, results
                   \* of statements ([ok, rows]), sessions, runs and loads

\* What a file or the editor may hold, and a file operation: what it read or is
\* to write, and how far it is.
Contents == Texts \cup {Broken}
FileOps == [kind : {"open", "save"}, path : Paths, text : Contents,
            phase : {"start", "truncated", "done", "failed"}]

\* What an instance assumes of the constants.
ConstantsAssumption ==
  /\ Empty \in Texts /\ Broken \notin Texts /\ None \notin FileOps
  /\ \A l \in Limits : /\ l.texts \subseteq Texts /\ l.paths \subseteq Paths
                       /\ \A o \in l.outcomes : \A i \in DOMAIN o : o[i].rows \in Nat
                       /\ {l.sessions, l.runs, l.loads} \subseteq Nat

VARIABLES
  limits,    \* the bounds of this behaviour, chosen once
  session,   \* generation of the connection's session, 0 when there is none
  opened,    \* sessions opened so far
  panel,     \* the session the connection panel shows
  disk,      \* the content of each file
  text,      \* the editor's text
  file,      \* QueryFileState: path, saved text, operation, error
  asking,    \* which file prompt is open
  target,    \* the tab's target: a database in a session
  schema,    \* the selected schema
  runs,      \* executions in flight
  shown,     \* results, index of the active one, selection, error
  chart,     \* the chart: whether it is shown, and the data it holds
  picker     \* the context picker: loads in flight, busy, the open menu

vars == <<limits, session, opened, panel, disk, text, file, asking, target, schema, runs,
          shown, chart, picker>>
world == <<limits, session, opened, panel>>
fileVars == <<disk, text, file, asking>>
contextVars == <<target, schema, runs, shown, chart, picker>>

NoSelection == [kind |-> "None", anchor |-> 0, rows |-> {}]
NoResults == [results |-> <<>>, active |-> 1, selection |-> NoSelection, error |-> FALSE]
NoChart == [showing |-> FALSE, data |-> None]
Released == [run |-> None]

Running == \E r \in runs : r.current
Stale(tasks) == {[t EXCEPT !.current = FALSE] : t \in tasks}
FileBusy == asking # None \/ file.op # None
Dirty == text # file.saved
ActiveResult == IF shown.active \in DOMAIN shown.results
                THEN shown.results[shown.active] ELSE None

Init ==
  /\ limits \in Limits
  /\ session = 0 /\ opened = 0 /\ panel = 0
  /\ disk \in [Paths -> limits.texts]
  /\ text = Empty
  /\ file = [path |-> None, saved |-> Empty, op |-> None, error |-> FALSE]
  /\ asking = None
  /\ target = None /\ schema = None
  /\ runs = {} /\ shown = NoResults /\ chart = NoChart
  /\ picker = [loads |-> {}, busy |-> FALSE, menu |-> None]

-----------------------------------------------------------------------------
\* The file.

\* Whatever the editor changes reaches update_text.
Type(t) ==
  /\ text # t /\ text' = t
  /\ UNCHANGED <<world, disk, file, asking, contextVars>>

\* The Clear button empties the editor, the results and the chart.
ClearTab ==
  /\ ~Running
  /\ text' = Empty /\ shown' = NoResults /\ chart' = NoChart
  /\ UNCHANGED <<world, disk, file, asking, target, schema, runs, picker>>

\* prompt_to_open_query_file: a dirty tab asks first.
OpenFile ==
  /\ ~FileBusy
  /\ asking' = IF Dirty THEN "discard" ELSE "open"
  /\ UNCHANGED <<world, disk, text, file, contextVars>>

\* The answer leads on to the picker without looking at the text again.
AnswerDiscard(yes) ==
  /\ asking = "discard"
  /\ asking' = IF yes THEN "open" ELSE None
  /\ UNCHANGED <<world, disk, text, file, contextVars>>

Begin(kind, path, contents) ==
  [file EXCEPT !.op = [kind |-> kind, path |-> path, text |-> contents, phase |-> "start"],
               !.error = FALSE]

SaveFile ==
  /\ ~FileBusy
  /\ IF file.path = None
     THEN asking' = "save" /\ UNCHANGED file
     ELSE file' = Begin("save", file.path, text) /\ UNCHANGED asking
  /\ UNCHANGED <<world, disk, text, contextVars>>

\* The path picker returns a path, nothing, or an error.
AnswerPath(path) ==
  /\ asking \in {"open", "save"}
  /\ asking' = None
  /\ \/ file' = IF asking = "open" THEN Begin("open", path, Empty)
                ELSE Begin("save", path, text)
     \/ file' = file
     \/ file' = [file EXCEPT !.error = TRUE]
  /\ UNCHANGED <<world, disk, text, contextVars>>

\* execute, on the worker: the write truncates the file before it fills it.
FileRuns ==
  /\ file.op # None
  /\ \/ /\ file.op.phase = "start" /\ file.op.kind = "open"
        /\ file' = [file EXCEPT !.op.phase = "done", !.op.text = disk[file.op.path]]
        /\ UNCHANGED disk
     \/ /\ file.op.phase = "start" /\ file.op.kind = "save"
        /\ disk' = [disk EXCEPT ![file.op.path] = Broken]
        /\ file' = [file EXCEPT !.op.phase = "truncated"]
     \/ /\ file.op.phase = "truncated"
        /\ disk' = [disk EXCEPT ![file.op.path] = file.op.text]
        /\ file' = [file EXCEPT !.op.phase = "done"]
     \/ /\ file.op.phase # "done"
        /\ file' = [file EXCEPT !.op.phase = "failed"]
        /\ UNCHANGED disk
  /\ UNCHANGED <<world, text, asking, contextVars>>

\* Mutant: what the editor holds by then is taken for what was written.
FinishFileOfEditor(completed) ==
  IF completed.phase = "failed"
  THEN [file EXCEPT !.op = None, !.error = TRUE]
  ELSE [path |-> completed.path, saved |-> text, op |-> None, error |-> FALSE]

\* finish: back on the main thread.
FinishFile(completed) ==
  IF completed.phase = "failed"
  THEN [file EXCEPT !.op = None, !.error = TRUE]
  ELSE [path |-> completed.path, saved |-> completed.text, op |-> None, error |-> FALSE]

\* The result of run_file_request: an opened file replaces the editor's text
\* and clears the results; the chart stays.
FileReturns ==
  /\ file.op # None /\ file.op.phase \in {"done", "failed"}
  /\ file' = FinishFile(file.op)
  /\ IF file.op.kind = "open" /\ file.op.phase = "done"
     THEN text' = file.op.text /\ shown' = NoResults /\ runs' = Stale(runs)
     ELSE UNCHANGED <<text, shown, runs>>
  /\ UNCHANGED <<world, disk, asking, target, schema, chart, picker>>

-----------------------------------------------------------------------------
\* The context.

\* set_target, of the tab and of its state: a different target drops what
\* belongs to the old one.
SetTarget(t) ==
  IF t = target
  THEN UNCHANGED <<target, schema, runs, shown, chart, picker>>
  ELSE /\ target' = t /\ schema' = None
       /\ runs' = Stale(runs) /\ shown' = NoResults /\ chart' = NoChart
       /\ picker' = [loads |-> Stale(picker.loads), busy |-> FALSE, menu |-> None]

\* clear_target is set_target(None), and dismisses the picker in any case.
ClearTarget ==
  /\ target' = None /\ schema' = None /\ chart' = NoChart
  /\ picker' = [loads |-> Stale(picker.loads), busy |-> FALSE, menu |-> None]
  /\ IF target = None THEN UNCHANGED <<runs, shown>>
     ELSE runs' = Stale(runs) /\ shown' = NoResults

\* A database is selected in the connection panel: nothing holds it back.
SelectInPanel(d) ==
  /\ panel # 0
  /\ SetTarget([database |-> d, session |-> panel])
  /\ UNCHANGED <<world, fileVars>>

\* The panel learns the sessions as they are: QuerySessionsChanged.
SessionsChanged ==
  /\ panel # session /\ panel' = session
  /\ IF target # None /\ target.session # session
     THEN ClearTarget ELSE UNCHANGED contextVars
  /\ UNCHANGED <<limits, session, opened, fileVars>>

\* Its own disconnect or deletion invalidates the session or one target.
Invalidate ==
  /\ target # None /\ target.session = panel
  /\ ClearTarget
  /\ UNCHANGED <<world, fileVars>>

Connect ==
  /\ opened < limits.sessions
  /\ opened' = opened + 1 /\ session' = opened + 1
  /\ UNCHANGED <<limits, panel, fileVars, contextVars>>

Retire ==
  /\ session # 0 /\ session' = 0
  /\ UNCHANGED <<limits, opened, panel, fileVars, contextVars>>

\* open_context_picker, for a database or for a schema of the target's.
OpenPicker(kind) ==
  /\ ~Running /\ ~FileBusy /\ ~picker.busy
  /\ kind = "schema" => target # None
  /\ Cardinality(picker.loads) < limits.loads
  /\ picker' = [loads |-> Stale(picker.loads)
                          \cup {[kind |-> kind, target |-> target, current |-> TRUE]},
                busy |-> TRUE, menu |-> None]
  /\ UNCHANGED <<world, fileVars, target, schema, runs, shown, chart>>

\* The databases of the open session, or the schemas of the database the load
\* was started for; a catalog that fails leaves a message in their place.
Choices(l) ==
  IF l.kind = "schema" THEN {None} \cup SchemasOf[l.target.database]
  ELSE {[database |-> d, session |-> session] : d \in IF session = 0 THEN {} ELSE Databases}

LoadReturns(l) ==
  /\ \/ /\ ~l.current
        /\ picker' = [picker EXCEPT !.loads = @ \ {l}]
     \/ /\ l.current
        /\ \E menu \in {None} \cup (IF Running THEN {}
                                    ELSE {[kind |-> l.kind, choices |-> c] :
                                            c \in {{}, Choices(l)}}) :
             picker' = [loads |-> picker.loads \ {l}, busy |-> FALSE, menu |-> menu]
  /\ UNCHANGED <<world, fileVars, target, schema, runs, shown, chart>>

\* A choice is refused while the tab runs or its file is busy; either way the
\* menu closes.
ChooseDatabase(c) ==
  /\ ~Running /\ ~FileBusy
  /\ IF c = target
     THEN /\ picker' = [picker EXCEPT !.menu = None]
          /\ UNCHANGED <<target, schema, runs, shown, chart>>
     ELSE SetTarget(c)
  /\ UNCHANGED <<world, fileVars>>

\* select_query_schema drops the results of the schema before.
ChooseSchema(s) ==
  /\ ~Running /\ ~FileBusy /\ target # None
  /\ schema' = s
  /\ IF s = schema THEN UNCHANGED <<runs, shown, chart>>
     ELSE runs' = Stale(runs) /\ shown' = NoResults /\ chart' = NoChart
  /\ picker' = [picker EXCEPT !.menu = None]
  /\ UNCHANGED <<world, fileVars, target>>

DismissMenu ==
  /\ picker.menu # None /\ picker' = [picker EXCEPT !.menu = None]
  /\ UNCHANGED <<world, fileVars, target, schema, runs, shown, chart>>

-----------------------------------------------------------------------------
\* Runs and results.

\* execute and execute_explain: a document that cannot be prepared only leaves
\* an error; otherwise the results are dropped and the chart's data released.
Execute(prepared) ==
  /\ ~Running
  /\ IF prepared /\ target # None
     THEN /\ Cardinality(runs) < limits.runs
          /\ runs' = runs \cup {[target |-> target, schema |-> schema, handle |-> 0,
                                 phase |-> "start", current |-> TRUE]}
          /\ shown' = NoResults
          /\ chart' = [chart EXCEPT !.data = IF @ = None THEN None ELSE Released]
     ELSE /\ shown' = [shown EXCEPT !.error = TRUE]
          /\ UNCHANGED <<runs, chart>>
  /\ UNCHANGED <<world, fileVars, target, schema, picker>>

\* execute_in_context: the session must still be the target's, and must not be
\* retired before its driver is locked.
RunAdvances(r) ==
  LET Becomes(x) == runs' = (runs \ {r}) \cup {x} IN
  /\ \/ /\ r.phase = "start" /\ session = r.target.session
        /\ Becomes([r EXCEPT !.phase = "acquired", !.handle = session])
     \/ /\ r.phase = "start" /\ session # r.target.session
        /\ Becomes([r EXCEPT !.phase = "failed"])
     \/ /\ r.phase = "acquired" /\ session = r.handle
        /\ Becomes([r EXCEPT !.phase = "executed"])
     \/ /\ r.phase = "acquired"
        /\ Becomes([r EXCEPT !.phase = "failed"])
  /\ UNCHANGED <<world, fileVars, target, schema, shown, chart, picker>>

\* What the statements of a run returned, with where they ran.
ResultsOf(r, outcome) ==
  [i \in DOMAIN outcome |->
     [target |-> r.target, schema |-> r.schema, ran |-> r.handle, index |-> i,
      ok |-> outcome[i].ok, rows |-> outcome[i].rows]]

FirstFailure(results) ==
  LET failed == {i \in DOMAIN results : ~results[i].ok}
  IN  IF failed = {} THEN 1 ELSE CHOOSE i \in failed : \A j \in failed : i <= j

\* sync_chart: the chart follows the active result while it is shown, and
\* gives its data back while it is not.
SyncChart(showing, s) ==
  LET active == IF s.active \in DOMAIN s.results THEN s.results[s.active] ELSE None IN
  IF active = None \/ (active # None /\ ~active.ok) THEN NoChart
  ELSE IF showing THEN [showing |-> TRUE, data |-> active]
  ELSE [showing |-> FALSE, data |-> IF chart.data = None THEN None ELSE Released]

\* Mutant: whatever returns last is shown.
AcceptsAnyRun(r) == r.target = target

\* finish_execution's guard: the latest request, for the target as it is now.
Accepts(r) == r.current /\ r.target = target

\* finish_execution, and the chart after it.
Finished(r, s) ==
  /\ runs' = runs \ {r}
  /\ IF Accepts(r) THEN shown' = s /\ chart' = SyncChart(chart.showing, s)
     ELSE UNCHANGED <<shown, chart>>
  /\ UNCHANGED <<world, fileVars, target, schema, picker>>

RunReturns(r, outcome) ==
  /\ r.phase = "executed"
  /\ LET results == ResultsOf(r, outcome) IN
       Finished(r, [results |-> results, active |-> FirstFailure(results),
                    selection |-> NoSelection, error |-> FALSE])

RunFails(r) ==
  /\ r.phase = "failed"
  /\ Finished(r, [NoResults EXCEPT !.error = TRUE])

\* A tab of the results.
SelectResult(i) ==
  /\ i \in DOMAIN shown.results /\ i # shown.active
  /\ shown' = [shown EXCEPT !.active = i, !.selection = NoSelection]
  /\ chart' = SyncChart(chart.showing, shown')
  /\ UNCHANGED <<world, fileVars, target, schema, runs, picker>>

\* toggle_chart is offered for a successful result.
ToggleChart ==
  /\ ActiveResult # None /\ ActiveResult.ok
  /\ chart' = SyncChart(~chart.showing, shown)
  /\ UNCHANGED <<world, fileVars, target, schema, runs, shown, picker>>

\* Clicks in the grid, on a cell or on a row number; columns are left out.
Between(a, b) == IF a <= b THEN a..b ELSE b..a

CellSelection(row, extend) ==
  LET sel == shown.selection
      anchor == IF extend /\ sel.kind = "Cells" THEN sel.anchor ELSE row
  IN  [kind |-> "Cells", anchor |-> anchor, rows |-> Between(anchor, row)]

RowSelection(row, extend, toggle) ==
  LET sel == shown.selection
      flipped == IF row \in sel.rows THEN sel.rows \ {row} ELSE sel.rows \cup {row}
  IN  CASE sel.kind = "Rows" /\ extend ->
             [sel EXCEPT !.rows = @ \cup Between(sel.anchor, row)]
        [] sel.kind = "Rows" /\ ~extend /\ toggle ->
             IF flipped = {} THEN NoSelection
             ELSE [kind |-> "Rows", anchor |-> row, rows |-> flipped]
        [] OTHER -> [kind |-> "Rows", anchor |-> row, rows |-> {row}]

AllRows == IF ActiveResult.rows = 0 THEN NoSelection
           ELSE [kind |-> "Rows", anchor |-> 1, rows |-> 1..ActiveResult.rows]

Select ==
  /\ ActiveResult # None
  /\ \/ \E row \in 1..ActiveResult.rows, extend \in BOOLEAN, toggle \in BOOLEAN :
          shown' = [shown EXCEPT !.selection = RowSelection(row, extend, toggle)]
     \/ \E row \in 1..ActiveResult.rows, extend \in BOOLEAN :
          shown' = [shown EXCEPT !.selection = CellSelection(row, extend)]
     \/ shown' = [shown EXCEPT !.selection = AllRows]
     \/ shown' = [shown EXCEPT !.selection = NoSelection]
  /\ UNCHANGED <<world, fileVars, target, schema, runs, chart, picker>>

-----------------------------------------------------------------------------
FileNext ==
  \/ \E t \in limits.texts : Type(t)
  \/ ClearTab \/ OpenFile \/ SaveFile \/ FileRuns \/ FileReturns
  \/ \E yes \in BOOLEAN : AnswerDiscard(yes)
  \/ \E p \in limits.paths : AnswerPath(p)

ContextNext ==
  \/ Connect \/ Retire \/ SessionsChanged \/ Invalidate \/ DismissMenu
  \/ \E d \in Databases : SelectInPanel(d)
  \/ \E k \in {"database", "schema"} : OpenPicker(k)
  \/ \E l \in picker.loads : LoadReturns(l)
  \/ /\ picker.menu # None
     /\ \E c \in picker.menu.choices :
          \/ picker.menu.kind = "database" /\ ChooseDatabase(c)
          \/ picker.menu.kind = "schema" /\ ChooseSchema(c)

RunNext ==
  \/ \E prepared \in BOOLEAN : Execute(prepared)
  \/ \E r \in runs : RunAdvances(r) \/ RunFails(r) \/ \E o \in limits.outcomes : RunReturns(r, o)
  \/ \E i \in DOMAIN shown.results : SelectResult(i)
  \/ ToggleChart \/ Select

Next == FileNext \/ ContextNext \/ RunNext

Spec == Init /\ [][Next]_vars

-----------------------------------------------------------------------------
\* What is shown below the editor was produced by the target and the schema
\* that are shown above it, in that very session, and so will be what the run
\* in flight returns: whatever was chosen, lost or reopened meanwhile.  The
\* selection lies within the active result, so that a copy finds every
\* selected row: results are replaced, dropped and switched under it.  The
\* schema is one of the target's database, and so is every schema the open menu
\* offers: a list that was asked for another database never shows up.
ResultsBelongToContext ==
  /\ \A i \in DOMAIN shown.results :
       LET r == shown.results[i] IN
       /\ r.target = target /\ r.schema = schema
       /\ target # None /\ r.ran = target.session
  /\ \A r \in runs : r.current => r.target = target /\ r.schema = schema
  /\ chart.data \notin {None, Released} =>
       chart.data.target = target /\ chart.data.schema = schema
  /\ shown.selection.rows # {} =>
       ActiveResult # None /\ shown.selection.rows \subseteq 1..ActiveResult.rows
  /\ schema # None => target # None /\ schema \in SchemasOf[target.database]
  /\ (picker.menu # None /\ picker.menu.kind = "schema") =>
       target # None /\ picker.menu.choices \subseteq {None} \cup SchemasOf[target.database]

\* A tab that is clean, has no file operation under way and shows no error holds
\* what its file holds, although the user types while a file is written.
CleanMeansSaved ==
  (file.path # None /\ file.op = None /\ ~file.error /\ ~Dirty) => disk[file.path] = text

-----------------------------------------------------------------------------
\* The inductive invariant that both rest on.

Targets == [database : Databases, session : Nat]
Schemas == {None} \cup UNION {SchemasOf[d] : d \in Databases}
Run == [target : Targets, schema : Schemas, handle : Nat, current : BOOLEAN,
        phase : {"start", "acquired", "executed", "failed"}]
Menu == [kind : {"database", "schema"}, choices : SUBSET (Targets \cup Schemas)]
Load == [kind : {"database", "schema"}, target : Targets \cup {None}, current : BOOLEAN]
Picker == [loads : SUBSET Load, busy : BOOLEAN, menu : Menu \cup {None}]
FileState == [path : Paths \cup {None}, saved : Contents, op : FileOps \cup {None}, error : BOOLEAN]

TypeInv ==
  /\ limits \in Limits /\ {session, opened, panel} \subseteq Nat
  /\ disk \in [Paths -> Contents] /\ text \in Contents
  /\ file \in FileState
  /\ target \in Targets \cup {None} /\ schema \in Schemas
  /\ runs \subseteq Run /\ picker \in Picker

\* A file operation that is done left its text in its file, and a tab without an
\* error knows what its file holds: nothing else writes it.
FileInv ==
  /\ file.op # None /\ file.op.phase = "done" => disk[file.op.path] = file.op.text
  /\ file.path # None /\ file.op = None /\ ~file.error => disk[file.path] = file.saved

\* A run has a target and, once it reached a driver, holds its session; the latest
\* one is for the tab's context, from which results and chart come.
OfContext(r) == r.target = target /\ r.schema = schema
RunInv ==
  /\ \A r \in runs : /\ r.target # None /\ (r.current => OfContext(r))
                     /\ r.phase \in {"acquired", "executed"} => r.handle = r.target.session
  /\ \A i \in DOMAIN shown.results :
       /\ OfContext(shown.results[i])
       /\ target # None /\ shown.results[i].ran = target.session
       /\ shown.results[i].rows \in Nat
  /\ chart = [showing |-> chart.showing, data |-> chart.data]
  /\ chart.data \notin {None, Released} => OfContext(chart.data)

\* The selection and its anchor lie within the active result.
SelectionInv ==
  /\ shown = [results |-> shown.results, active |-> shown.active,
              selection |-> shown.selection, error |-> shown.error]
  /\ shown.selection \in [kind : {"None", "Rows", "Cells"}, anchor : Nat, rows : SUBSET Nat]
  /\ shown.selection.kind = "None" => shown.selection.rows = {}
  /\ shown.selection.kind # "None" =>
       /\ ActiveResult # None
       /\ {shown.selection.anchor} \cup shown.selection.rows \subseteq 1..ActiveResult.rows

\* The latest load was asked for the tab's target, and so was the open menu; the
\* schema is one of its database.
PickerInv ==
  /\ \A l \in picker.loads : l.current => /\ l.target = target
                                          /\ l.kind = "schema" => target # None
  /\ schema # None => target # None /\ schema \in SchemasOf[target.database]
  /\ picker.menu # None =>
       /\ picker.menu.kind = "database" => picker.menu.choices \subseteq Targets
       /\ picker.menu.kind = "schema" =>
            target # None /\ picker.menu.choices \subseteq {None} \cup SchemasOf[target.database]

TabInv == TypeInv /\ FileInv /\ RunInv /\ SelectionInv /\ PickerInv
=============================================================================
