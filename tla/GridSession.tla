---------------------------- MODULE GridSession ----------------------------
\* A data grid tab: the session of one table (application/grid_session.rs) and
\* the handlers of the tab that edit it (ui/data_grid_item).  The user pages,
\* edits cells, adds, deletes and pastes rows, undoes, saves or discards, while
\* loads and saves run in the background and the connection session may end.
\* Prompts are modal: while one is shown the user can only answer it.
EXTENDS GridChanges, TLC

CONSTANTS
  None,
  Pages,        \* what a load may return: sequences of rows
  PrimaryKeys,  \* the columns that are marked as primary key
  Writable,     \* the engine's rows can be written (StructuredSql)
  Options,      \* filter and sort of a query, the first one the initial one
  NoOptions,
  Pasted,       \* the blocks the clipboard may hold: sequences of rows of values
  Inputs,       \* [column -> what the user may type into it that parses]
  Invalid,      \* an input the column's type rejects
  MaxPage, MaxLoads, MaxSaves, MaxDrafts, MaxHistory   \* bounds of the model

ASSUME ConstantsAssumption ==
  /\ NoOptions \in Options /\ Writable \in BOOLEAN /\ PrimaryKeys \subseteq Nat
  /\ {MaxPage, MaxLoads, MaxSaves, MaxDrafts, MaxHistory} \subseteq Nat \ {0}

VARIABLES
  state,     \* GridState: kind, generation of the request, page
  query,     \* page number and options
  nextLoad,  \* next_load_generation
  nextSave,  \* next_save_generation
  loads,     \* load requests whose result has not arrived
  saves,     \* save requests whose result has not arrived
  changes,   \* the staged changes
  selected,  \* the selected rows
  anchor,    \* row_anchor
  editing,   \* the open cell editor
  prompt,    \* the question the user is asked
  busy       \* transaction_busy, while the transaction mode is switched

requestVars == <<nextLoad, nextSave, loads, saves>>
selectionVars == <<selected, anchor>>
vars == <<state, query, requestVars, changes, selectionVars, editing, prompt, busy>>

Columns == DOMAIN Inputs
Key == CHOOSE k \in PrimaryKeys : TRUE
Kinds == {"Idle", "Loading", "Saving", "Ready", "Failed", "SaveFailed", "Unavailable"}
Rows == IF state.page = None THEN {} ELSE DOMAIN state.page
Cells == Rows \X Columns

\* editability(), and require_editable with it.
Editability ==
  IF ~Writable THEN "ReadOnlyEngine"
  ELSE IF state.page = None THEN "AwaitingData"
  ELSE CASE Cardinality(PrimaryKeys) = 0 -> "MissingPrimaryKey"
         [] Cardinality(PrimaryKeys) = 1 -> "Editable"
         [] OTHER                        -> "CompositePrimaryKey"
Available == state.kind # "Unavailable"
NotBusy == state.kind \notin {"Loading", "Saving"}
RequireEditable == Available /\ NotBusy /\ Editability = "Editable"
IdleAndClean(c) == Available /\ NotBusy /\ ~HasChanges(c)

\* Cells deleted from view and drafts that are gone cannot be staged.
CanStage(target) ==
  /\ RequireEditable
  /\ IF target.kind = "Cell" THEN target.cell \in Cells /\ target.cell[1] \notin changes.deleted
     ELSE DraftIndex(changes, target.id) # {}

-----------------------------------------------------------------------------
\* The cell editor.
CellTarget(cell) == [kind |-> "Cell", cell |-> cell, id |-> 0]
DraftTarget(id, column) == [kind |-> "Draft", cell |-> <<0, column>>, id |-> id]
Editor(target, value) == [target |-> target, initial |-> value, value |-> value]
Modified == editing # None /\ editing.value # editing.initial
LocalChanges == HasChanges(changes) \/ Modified

\* commit_cell_edit: an unmodified editor closes, a modified one is staged; the
\* handlers go on only when it was accepted, and then see CommittedChanges.
Commits == Modified => editing.value # Invalid /\ CanStage(editing.target)
CommittedChanges ==
  IF ~Modified THEN changes
  ELSE IF editing.target.kind = "Cell"
       THEN StageCellValue(changes, state.page, editing.target.cell, editing.value)
       ELSE SetDraftValue(changes, editing.target.id, editing.target.cell[2], editing.value)

\* begin_load on the session as it is after a step: it does nothing when the
\* session is busy, gone, or has changes.
BeginLoad(s, q, c) ==
  IF s.kind \in {"Loading", "Saving", "Unavailable"} \/ HasChanges(c)
  THEN state' = s /\ query' = q /\ UNCHANGED <<nextLoad, loads>>
  ELSE /\ nextLoad < MaxLoads
       /\ nextLoad' = nextLoad + 1
       /\ loads' = loads \cup {[generation |-> nextLoad + 1, query |-> q]}
       /\ state' = [kind |-> "Loading", generation |-> nextLoad + 1, page |-> s.page]
       /\ query' = q

Moded(kind, page) == [kind |-> kind, generation |-> 0, page |-> page]
ClearSelection == selected' = {} /\ anchor' = None

Init ==
  /\ state = [kind |-> "Loading", generation |-> 1, page |-> None]
  /\ query = [page |-> 1, options |-> NoOptions]
  /\ nextLoad = 1 /\ loads = {[generation |-> 1, query |-> query]}
  /\ nextSave = 0 /\ saves = {}
  /\ changes = NoChanges
  /\ selected = {} /\ anchor = None
  /\ editing = None /\ prompt = None /\ busy = FALSE

-----------------------------------------------------------------------------
\* Mutant: the selection stays.
FinishLoadKeepsSelection(request, page) ==
  /\ request \in loads
  /\ loads' = loads \ {request}
  /\ IF state.kind # "Loading" \/ state.generation # request.generation
        \/ request.query # query
     THEN UNCHANGED state
     ELSE state' = IF page # None THEN Moded("Ready", page) ELSE Moded("Failed", state.page)
  /\ UNCHANGED <<query, nextLoad, nextSave, saves, changes, selectionVars, editing, prompt, busy>>

\* The result of a load.  A page replaces the old one and clears the selection.
FinishLoad(request, page) ==
  /\ request \in loads
  /\ loads' = loads \ {request}
  /\ IF state.kind # "Loading" \/ state.generation # request.generation
        \/ request.query # query
     THEN UNCHANGED <<state, selectionVars>>
     ELSE IF page # None THEN state' = Moded("Ready", page) /\ ClearSelection
          ELSE state' = Moded("Failed", state.page) /\ UNCHANGED selectionVars
  /\ UNCHANGED <<query, nextLoad, nextSave, saves, changes, editing, prompt, busy>>

\* The result of a save; after a success the page is loaded again.
FinishSave(request, ok) ==
  /\ request \in saves
  /\ saves' = saves \ {request}
  /\ IF state.kind # "Saving" \/ state.generation # request.generation
     THEN UNCHANGED <<state, query, nextLoad, loads, changes, selectionVars>>
     ELSE IF ok
          THEN /\ changes' = Clear(changes) /\ ClearSelection
               /\ BeginLoad(Moded("Idle", None), query, Clear(changes))
          ELSE /\ state' = Moded("SaveFailed", state.page)
               /\ UNCHANGED <<query, nextLoad, loads, changes, selectionVars>>
  /\ UNCHANGED <<nextSave, editing, prompt, busy>>

\* The connection's session ended: invalidate_session.  The page and the
\* changes stay on the screen.
InvalidateSession ==
  /\ state.kind # "Unavailable"
  /\ state' = Moded("Unavailable", state.page)
  /\ UNCHANGED <<query, requestVars, changes, selectionVars, editing, prompt, busy>>

-----------------------------------------------------------------------------
\* Navigation: prepare_for_navigation, then the query, then a load.
PrepareForNavigation == prompt = None /\ ~LocalChanges /\ ~busy

Refresh ==
  /\ PrepareForNavigation
  /\ editing' = None
  /\ BeginLoad(state, query, changes)
  /\ UNCHANGED <<nextSave, saves, changes, selectionVars, prompt, busy>>

\* set_page from previous_page and next_page, set_query_options from a click on
\* a column: the page that was shown is dropped and the new query is loaded.
Navigate(q) ==
  /\ PrepareForNavigation /\ IdleAndClean(changes) /\ q # query
  /\ editing' = None /\ ClearSelection
  /\ BeginLoad(Moded("Idle", None), q, changes)
  /\ UNCHANGED <<nextSave, saves, changes, prompt, busy>>

ChangePage(number) ==
  /\ number \in {query.page - 1, query.page + 1} /\ number \in 1..MaxPage
  /\ Navigate([query EXCEPT !.page = number])

SortColumn(options) == state.page # None /\ Navigate([page |-> 1, options |-> options])

\* apply_filter commits the open editor instead of refusing, and is not kept
\* out by a switch of the transaction mode.
ApplyFilter(options) ==
  /\ prompt = None /\ Commits /\ ~HasChanges(CommittedChanges)
  /\ Available /\ NotBusy /\ state.page # None /\ query.options # options
  /\ editing' = None /\ changes' = CommittedChanges /\ ClearSelection
  /\ BeginLoad(Moded("Idle", None), [page |-> 1, options |-> options], CommittedChanges)
  /\ UNCHANGED <<nextSave, saves, prompt, busy>>

\* change_transaction_configuration: nothing may be unsaved when it starts, and
\* the page is loaded again when it is done.
BeginSwitch ==
  /\ prompt = None /\ ~busy /\ ~LocalChanges /\ Available /\ NotBusy
  /\ busy' = TRUE
  /\ UNCHANGED <<state, query, requestVars, changes, selectionVars, editing, prompt>>

FinishSwitch(ok) ==
  /\ busy /\ busy' = FALSE
  /\ IF ok THEN BeginLoad(state, query, changes)
     ELSE UNCHANGED <<state, query, nextLoad, loads>>
  /\ UNCHANGED <<nextSave, saves, changes, selectionVars, editing, prompt>>

-----------------------------------------------------------------------------
\* Editing.
OpenEditor(target, value) ==
  /\ prompt = None /\ editing = None
  /\ editing' = Editor(target, value)

BeginCellEdit(cell) ==
  /\ RequireEditable /\ cell \in Cells /\ cell[1] \notin changes.deleted
  /\ OpenEditor(CellTarget(cell), CellValue(changes, state.page, cell))
  /\ selected' = {} /\ anchor' = None  \* select_cell
  /\ UNCHANGED <<state, query, requestVars, changes, prompt, busy>>

BeginDraftEdit(i, column) ==
  /\ Available /\ NotBusy /\ state.page # None
  /\ OpenEditor(DraftTarget(changes.drafts[i].id, column), changes.drafts[i].values[column])
  /\ ClearSelection
  /\ UNCHANGED <<state, query, requestVars, changes, prompt, busy>>

\* A change of the text, or the NULL button.
Type(value) ==
  /\ prompt = None /\ editing # None /\ value # editing.value
  /\ editing' = [editing EXCEPT !.value = value]
  /\ UNCHANGED <<state, query, requestVars, changes, selectionVars, prompt, busy>>

CommitCellEdit ==
  /\ prompt = None /\ editing # None /\ Commits
  /\ editing' = None /\ changes' = CommittedChanges
  /\ UNCHANGED <<state, query, requestVars, selectionVars, prompt, busy>>

CancelCellEdit ==
  /\ prompt = None /\ editing # None
  /\ editing' = None
  /\ UNCHANGED <<state, query, requestVars, changes, selectionVars, prompt, busy>>

\* "Use DEFAULT" of the editor of a draft.
UseDefault ==
  /\ prompt = None /\ editing # None /\ editing.target.kind = "Draft" /\ CanStage(editing.target)
  /\ editing' = None
  /\ changes' = SetDraftValue(changes, editing.target.id, editing.target.cell[2], Unset)
  /\ UNCHANGED <<state, query, requestVars, selectionVars, prompt, busy>>

AddRow ==
  /\ prompt = None /\ Commits /\ RequireEditable /\ ~busy
  /\ changes.nextDraft < MaxDrafts
  /\ LET c == InsertDraft(CommittedChanges, Columns)
         first == IF Columns \ PrimaryKeys # {} THEN CHOOSE k \in Columns \ PrimaryKeys : TRUE
                  ELSE CHOOSE k \in Columns : TRUE
     IN  changes' = c /\ editing' = Editor(DraftTarget(c.nextDraft, first), Unset)
  /\ ClearSelection
  /\ UNCHANGED <<state, query, requestVars, prompt, busy>>

\* Removing a draft drops its own editor and commits any other one.
RemoveDraftRow(i) ==
  LET id == changes.drafts[i].id
      own == editing # None /\ editing.target.kind = "Draft" /\ editing.target.id = id
  IN  /\ prompt = None /\ RequireEditable /\ (own \/ Commits)
      /\ editing' = None
      /\ changes' = RemoveDraft(IF own THEN changes ELSE CommittedChanges, id)
      /\ UNCHANGED <<state, query, requestVars, selectionVars, prompt, busy>>

\* A block of the clipboard, pasted with its first cell on `cell`.
Paste(cell, block) ==
  LET width == Len(block[1])
      at(i) == <<cell[1] + ((i - 1) \div width), cell[2] + ((i - 1) % width)>>
      assignments == [i \in 1..(Len(block) * width) |->
        [cell |-> at(i), value |-> block[((i - 1) \div width) + 1][((i - 1) % width) + 1]]]
  IN  /\ prompt = None /\ editing = None /\ RequireEditable
      /\ \A i \in DOMAIN assignments :
           at(i) \in Cells /\ at(i)[1] \notin changes.deleted
           /\ assignments[i].value \in Inputs[at(i)[2]]
      /\ changes' = StageCellValues(changes, state.page, assignments)
      /\ UNCHANGED <<state, query, requestVars, selectionVars, editing, prompt, busy>>

-----------------------------------------------------------------------------
\* The selection of rows: GridSelection::select_row.
Span(a, b) == IF a <= b THEN a..b ELSE b..a
SelectRows(mode, row) ==
  CASE mode = "Replace" -> {row}
    [] mode = "Toggle"  -> IF row \in selected THEN selected \ {row} ELSE selected \cup {row}
    [] mode = "Extend"  -> Span(IF anchor = None THEN row ELSE anchor, row) \ changes'.deleted

SelectRow(row, mode) ==
  /\ prompt = None /\ Commits /\ row \in Rows /\ row \notin changes.deleted
  /\ editing' = None /\ changes' = CommittedChanges
  /\ selected' = SelectRows(mode, row) /\ anchor' = row
  /\ UNCHANGED <<state, query, requestVars, prompt, busy>>

ClearGridSelection ==
  /\ prompt = None /\ (selected # {} \/ anchor # None)
  /\ ClearSelection
  /\ UNCHANGED <<state, query, requestVars, changes, editing, prompt, busy>>

\* Deleting asks first.  The prompt holds what the user was asked about (the
\* code passes only the number of rows to it) and the answer is applied to the
\* selection of that later moment.
DeleteSelectedRows ==
  /\ prompt = None /\ Commits /\ selected # {}
  /\ editing' = None /\ changes' = CommittedChanges
  /\ prompt' = [kind |-> "Delete", rows |-> selected, page |-> state.page]
  /\ UNCHANGED <<state, query, requestVars, selectionVars, busy>>

AnswerDelete(yes) ==
  /\ prompt # None /\ prompt.kind = "Delete" /\ prompt' = None
  /\ LET rows == selected \ changes.deleted
     IN  IF yes /\ RequireEditable /\ rows # {}
         THEN changes' = DeleteRows(changes, rows) /\ ClearSelection
         ELSE UNCHANGED <<changes, selectionVars>>
  /\ UNCHANGED <<state, query, requestVars, editing, busy>>

-----------------------------------------------------------------------------
\* start_save with the changes c: refused while the transaction mode is being
\* switched; a plan is made only of an editable page whose rows all have a key.
\* An edit outside the page would end the program, see ChangesStayWithTheirRow.
StartSave(c) ==
  IF /\ ~busy /\ HasChanges(c) /\ RequireEditable
     /\ \A cell \in DOMAIN c.edits : cell \in Cells
     /\ NamesEveryRow(c, state.page, Key)
  THEN /\ nextSave < MaxSaves
       /\ nextSave' = nextSave + 1
       /\ saves' = saves \cup {[generation |-> nextSave + 1,
                               plan |-> SavePlan(c, state.page, Key)]}
       /\ state' = [state EXCEPT !.kind = "Saving", !.generation = nextSave + 1]
  ELSE UNCHANGED <<state, nextSave, saves>>

\* Changed keys are asked about first.
SaveChanges ==
  /\ prompt = None /\ Commits /\ HasChanges(CommittedChanges)
  /\ editing' = None /\ changes' = CommittedChanges
  /\ IF PrimaryKeyEditCount(CommittedChanges, Key) > 0
     THEN prompt' = [kind |-> "SaveKeys"] /\ UNCHANGED <<state, nextSave, saves>>
     ELSE prompt' = prompt /\ StartSave(CommittedChanges)
  /\ UNCHANGED <<query, nextLoad, loads, selectionVars, busy>>

AnswerSave(yes) ==
  /\ prompt # None /\ prompt.kind = "SaveKeys" /\ prompt' = None
  /\ IF yes THEN StartSave(changes) ELSE UNCHANGED <<state, nextSave, saves>>
  /\ UNCHANGED <<query, nextLoad, loads, changes, selectionVars, editing, busy>>

\* Undo drops the open editor; only a running save keeps it out.
UndoChanges ==
  /\ prompt = None
  /\ editing' = None
  /\ changes' = IF state.kind # "Saving" /\ CanUndo(changes) THEN Undo(changes) ELSE changes
  /\ UNCHANGED <<state, query, requestVars, selectionVars, prompt, busy>>

DiscardChanges ==
  /\ prompt = None /\ LocalChanges
  /\ prompt' = [kind |-> "Discard"]
  /\ UNCHANGED <<state, query, requestVars, changes, selectionVars, editing, busy>>

AnswerDiscard(yes) ==
  /\ prompt # None /\ prompt.kind = "Discard" /\ prompt' = None
  /\ IF ~yes THEN UNCHANGED <<state, query, nextLoad, loads, changes, selectionVars, editing>>
     ELSE /\ editing' = None
          /\ IF state.kind = "Saving"
             THEN UNCHANGED <<state, query, nextLoad, loads, changes, selectionVars>>
             ELSE LET s == IF state.kind = "SaveFailed" THEN Moded("Ready", state.page) ELSE state
                      changed == HasChanges(changes) \/ CanUndo(changes)
                  IN  /\ changes' = Clear(changes) /\ ClearSelection
                      /\ IF changed /\ s.page = None
                         THEN BeginLoad(s, query, Clear(changes))
                         ELSE state' = s /\ UNCHANGED <<query, nextLoad, loads>>
  /\ UNCHANGED <<nextSave, saves, busy>>

-----------------------------------------------------------------------------
Step ==
  \/ \E r \in loads, p \in Pages \cup {None} : FinishLoad(r, p)
  \/ \E r \in saves, ok \in BOOLEAN : FinishSave(r, ok)
  \/ InvalidateSession
  \/ Refresh
  \/ \E n \in 1..MaxPage : ChangePage(n)
  \/ \E o \in Options : SortColumn(o) \/ ApplyFilter(o)
  \/ BeginSwitch
  \/ \E ok \in BOOLEAN : FinishSwitch(ok)
  \/ \E cell \in Cells : BeginCellEdit(cell)
  \/ \E i \in DOMAIN changes.drafts, k \in Columns : BeginDraftEdit(i, k)
  \/ editing # None /\ \E v \in Inputs[editing.target.cell[2]] \cup {Invalid} : Type(v)
  \/ CommitCellEdit \/ CancelCellEdit \/ UseDefault
  \/ AddRow
  \/ \E i \in DOMAIN changes.drafts : RemoveDraftRow(i)
  \/ \E cell \in Cells, block \in Pasted : Paste(cell, block)
  \/ \E row \in Rows, mode \in {"Replace", "Toggle", "Extend"} : SelectRow(row, mode)
  \/ ClearGridSelection
  \/ DeleteSelectedRows
  \/ SaveChanges
  \/ UndoChanges
  \/ DiscardChanges
  \/ \E yes \in BOOLEAN : AnswerDelete(yes) \/ AnswerSave(yes) \/ AnswerDiscard(yes)

\* MaxHistory bounds what the user stages on top of each other.
Next == Step /\ Len(changes'.history) <= MaxHistory

Spec == Init /\ [][Next]_vars

-----------------------------------------------------------------------------
\* Type invariant of the tab's state.
TypeOK ==
  /\ state.kind \in Kinds /\ state.generation \in 0..MaxLoads + MaxSaves
  /\ state.page \in Pages \cup {None}
  /\ query \in [page : 1..MaxPage, options : Options]
  /\ nextLoad \in 0..MaxLoads /\ nextSave \in 0..MaxSaves
  /\ \A cell \in DOMAIN changes.edits : cell[2] \in Columns
  /\ selected \subseteq Nat /\ anchor \in Nat \cup {None}
  /\ editing # None => editing.target.kind \in {"Cell", "Draft"}
  /\ busy \in BOOLEAN

\* Walking the whole history back leaves no change behind: every staged change
\* can be undone, in whatever order edits, pastes, drafts and deletions came
\* (GridChangeSet::undo_entry).
Unwound == FoldRight(LAMBDA entry, c : UndoEntry(c, entry), changes.history, changes)
UndoRestoresThePage == ~HasChanges(Unwound)

\* The rows of a table after a statement of a plan, None when the database
\* refuses it: keys are unique and not NULL.
Refused(rows, statement) ==
  CASE statement.kind = "Update" ->
         /\ statement.column = Key
         /\ \E r \in rows : r[Key] = statement.key
         /\ \/ statement.value = Null
            \/ \E r \in rows : r[Key] = statement.value /\ r[Key] # statement.key
    [] statement.kind = "Insert" -> \E r \in rows : r[Key] = statement.values[Key]
    [] OTHER -> FALSE
Apply(rows, statement) ==
  IF rows = None \/ Refused(rows, statement) THEN None
  ELSE CASE statement.kind = "Update" ->
              {IF r[Key] = statement.key THEN [r EXCEPT ![statement.column] = statement.value]
               ELSE r : r \in rows}
         [] statement.kind = "Insert" -> rows \cup {statement.values}
         [] statement.kind = "Delete" -> {r \in rows : r[Key] \notin statement.keys}
ShownRows ==
  {[k \in Columns |-> CellValue(changes, state.page, <<r, k>>)] : r \in Rows \ changes.deleted}
  \cup {changes.drafts[i].values : i \in DOMAIN changes.drafts}

\* What a save does is what the grid shows: executed in its order on the rows
\* of the page, the plan either is refused as a whole or leaves the edited rows
\* without the deleted ones and with the drafts, whichever keys were edited
\* (GridChangeSet::save_plan, save_statements).
SaveWritesWhatIsShown ==
  \A request \in saves : state.kind = "Saving" =>
    FoldLeft(Apply, Range(state.page), request.plan) \in {None, ShownRows}

\* A confirmed deletion marks only rows the question was about, on the page it
\* was asked on, although loads go on behind the prompt (delete_selected_rows,
\* stage_delete_selection).
DeletesOnlyConfirmedRows ==
  [][changes'.deleted \ changes.deleted # {} /\ prompt # None
       => /\ prompt.kind = "Delete" /\ prompt.page = state.page
          /\ changes'.deleted \ changes.deleted \subseteq prompt.rows]_vars

\* An edit stays with the row it was made on: its old value is the value of its
\* cell on the page (docs/plans/gpui-milestone-0-acceptance.md:88).
ChangesStayWithTheirRow ==
  \A cell \in DOMAIN changes.edits :
    cell \in Cells /\ changes.edits[cell].old = state.page[cell[1]][cell[2]]
=============================================================================
