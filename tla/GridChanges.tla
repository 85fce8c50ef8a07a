---------------------------- MODULE GridChanges ----------------------------
\* The change set of a data grid: cell edits, draft rows and deleted rows on
\* top of one page, with the history that undo walks back, and the statements
\* a save makes of it (application/grid_session/changes.rs).  A page is a
\* sequence of rows, a row a sequence of values, a cell a pair <<row, column>>.
EXTENDS Integers, Sequences, FiniteSets, SequencesExt

CONSTANTS
  Null,       \* SQL NULL
  Unset       \* a draft value left to the column's default

\* The edits are a function from the edited cells to [old, new].
NoChanges ==
  [edits |-> << >>, drafts |-> << >>, deleted |-> {}, history |-> << >>, nextDraft |-> 0]

HasChanges(c) == DOMAIN c.edits # {} \/ c.drafts # << >> \/ c.deleted # {}
CanUndo(c) == c.history # << >>
CellValue(c, page, cell) ==
  IF cell \in DOMAIN c.edits THEN c.edits[cell].new ELSE page[cell[1]][cell[2]]

\* clear(): everything but the draft counter.
Clear(c) == [NoChanges EXCEPT !.nextDraft = c.nextDraft]

-----------------------------------------------------------------------------
Without(f, S) == [x \in DOMAIN f \ S |-> f[x]]
Put(f, x, v) == [y \in DOMAIN f \cup {x} |-> IF y = x THEN v ELSE f[y]]
Remember(c, entry) == [c EXCEPT !.history = Append(@, entry)]

\* An entry of the history about one cell; an absent edit is remembered as {}.
CellEntry(c, cell) ==
  [kind |-> "Cell", cell |-> cell,
   previous |-> IF cell \in DOMAIN c.edits THEN {c.edits[cell]} ELSE {}]

\* Typing the original value back takes the edit away again.
WithCell(c, page, cell, value) ==
  LET original == page[cell[1]][cell[2]]
  IN  IF original = value THEN [c EXCEPT !.edits = Without(@, {cell})]
      ELSE [c EXCEPT !.edits = Put(@, cell, [old |-> original, new |-> value])]

\* Mutant: the history remembers the edit that was just made.
StageCellValueTooLate(c, page, cell, value) ==
  IF CellValue(c, page, cell) = value THEN c
  ELSE LET d == WithCell(c, page, cell, value) IN Remember(d, CellEntry(d, cell))

StageCellValue(c, page, cell, value) ==
  IF CellValue(c, page, cell) = value THEN c
  ELSE Remember(WithCell(c, page, cell, value), CellEntry(c, cell))

\* A paste: the assignments in order, and one entry of the history for all.
StageCellValues(c, page, assignments) ==
  LET done == FoldLeft(LAMBDA d, a : StageCellValue(d, page, a.cell, a.value),
                       c, assignments)
      entries == SubSeq(done.history, Len(c.history) + 1, Len(done.history))
  IN  IF entries = << >> THEN done
      ELSE [done EXCEPT !.history = Append(c.history, [kind |-> "Batch", entries |-> entries])]

DraftIndex(c, id) == {i \in DOMAIN c.drafts : c.drafts[i].id = id}

InsertDraft(c, columns) ==
  LET id == c.nextDraft + 1
  IN  Remember([c EXCEPT !.nextDraft = id,
                         !.drafts = Append(@, [id |-> id, values |-> [k \in columns |-> Unset]])],
               [kind |-> "DraftAdded", id |-> id])

\* Both set_draft_value and, with Unset, unset_draft_value.
SetDraftValue(c, id, column, value) ==
  LET i == CHOOSE j \in DraftIndex(c, id) : TRUE
      previous == c.drafts[i].values[column]
  IN  IF previous = value THEN c
      ELSE Remember([c EXCEPT !.drafts[i].values[column] = value],
                    [kind |-> "DraftCell", id |-> id, column |-> column, previous |-> previous])

RemoveDraft(c, id) ==
  LET i == CHOOSE j \in DraftIndex(c, id) : TRUE
  IN  Remember([c EXCEPT !.drafts = RemoveAt(@, i)],
               [kind |-> "DraftRemoved", index |-> i, draft |-> c.drafts[i]])

\* Deleting rows drops the edits of these rows and remembers them.
DeleteRows(c, rows) ==
  LET cells == {cell \in DOMAIN c.edits : cell[1] \in rows}
  IN  Remember([c EXCEPT !.edits = Without(@, cells), !.deleted = @ \cup rows],
               [kind |-> "RowsDeleted", rows |-> rows,
                removed |-> [cell \in cells |-> c.edits[cell]]])

-----------------------------------------------------------------------------
UndoCell(c, entry) ==
  IF entry.previous = {} THEN [c EXCEPT !.edits = Without(@, {entry.cell})]
  ELSE [c EXCEPT !.edits = Put(@, entry.cell, CHOOSE e \in entry.previous : TRUE)]

UndoDraftCell(c, entry) ==
  [c EXCEPT !.drafts = [i \in DOMAIN @ |->
     IF @[i].id = entry.id THEN [@[i] EXCEPT !.values[entry.column] = entry.previous] ELSE @[i]]]

UndoDraftRemoved(c, entry) ==
  LET n == Len(c.drafts)
  IN  [c EXCEPT !.drafts = InsertAt(@, IF entry.index > n + 1 THEN n + 1 ELSE entry.index,
                                    entry.draft)]

UndoRowsDeleted(c, entry) ==
  LET cells == DOMAIN entry.removed
  IN  [c EXCEPT !.deleted = @ \ entry.rows,
                !.edits = [x \in DOMAIN @ \cup cells |->
                             IF x \in cells THEN entry.removed[x] ELSE @[x]]]

\* undo_entry: the entries of a batch, all about cells, from the last one back.
UndoEntry(c, entry) ==
  CASE entry.kind = "Cell"         -> UndoCell(c, entry)
    [] entry.kind = "DraftAdded"   ->
         [c EXCEPT !.drafts = SelectSeq(@, LAMBDA d : d.id # entry.id)]
    [] entry.kind = "DraftCell"    -> UndoDraftCell(c, entry)
    [] entry.kind = "DraftRemoved" -> UndoDraftRemoved(c, entry)
    [] entry.kind = "RowsDeleted"  -> UndoRowsDeleted(c, entry)
    [] entry.kind = "Batch"        ->
         FoldRight(LAMBDA e, d : UndoCell(d, e), entry.entries, c)

Undo(c) == UndoEntry([c EXCEPT !.history = Front(@)], Last(c.history))

-----------------------------------------------------------------------------
\* Mutant: the edits of a row in the order of its columns.
BeforeInColumns(key, a, b) == a[1] < b[1] \/ (a[1] = b[1] /\ a[2] < b[2])

\* The plan of a save and its statements.  A row is named by the key it has on
\* the page, so within a row the edit of the key column goes last.
Before(key, a, b) ==
  \/ a[1] < b[1]
  \/ a[1] = b[1] /\ a[2] # key /\ b[2] = key
  \/ a[1] = b[1] /\ (a[2] = key <=> b[2] = key) /\ a[2] < b[2]

Updates(c, page, key) ==
  LET cells == SetToSortSeq(DOMAIN c.edits, LAMBDA a, b : Before(key, a, b))
  IN  [i \in DOMAIN cells |->
         [kind |-> "Update", key |-> page[cells[i][1]][key],
          column |-> cells[i][2], value |-> c.edits[cells[i]].new]]

Inserts(c) == [i \in DOMAIN c.drafts |-> [kind |-> "Insert", values |-> c.drafts[i].values]]

Deletes(c, page, key) ==
  IF c.deleted = {} THEN << >>
  ELSE << [kind |-> "Delete", keys |-> {page[r][key] : r \in c.deleted}] >>

\* A row without a key value cannot be named: MissingRowIdentity.
NamesEveryRow(c, page, key) ==
  \A r \in {cell[1] : cell \in DOMAIN c.edits} \cup c.deleted : page[r][key] # Null

SavePlan(c, page, key) == Updates(c, page, key) \o Inserts(c) \o Deletes(c, page, key)
PrimaryKeyEditCount(c, key) == Cardinality({cell \in DOMAIN c.edits : cell[2] = key})
=============================================================================
