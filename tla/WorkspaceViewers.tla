-------------------------- MODULE WorkspaceViewers --------------------------
(***************************************************************************)
(* A tab that shows something of one database session: the structure of a  *)
(* table, a diagram, documents, a Redis key, metrics or a definition.      *)
(* Loads and changes run in the background; the panel says, sooner or      *)
(* later, that the session has ended; and a click is dispatched by the     *)
(* buttons as they were drawn, which the item may have left behind.        *)
(*                                                                         *)
(* One connection and one tab.  What a server answers is abstracted to the *)
(* sessions it was read through and, for a Redis key, its rows.            *)
(***************************************************************************)
EXTENDS Naturals, Sequences

CONSTANTS Kinds,       \* subset of Viewers: which tabs are opened
          Queries,     \* pages and filters of a document tab
          Rows,        \* what the batches of a Redis key may hold
          None,
          MaxSession,  \* bound on the sessions ever opened
          MaxLoads     \* bound on the request generation of the tab

VARIABLES
  live,      \* the session that is installed, 0 is none
  latest,    \* the last one that was
  item,      \* the state of the tab
  drawn,     \* the state its buttons were drawn from
  calls,     \* calls in the background
  deleting,  \* the deletion of a Redis key was asked for and not answered yet
  removal    \* history: the row last clicked for removal and the one sent

vars == <<live, latest, item, drawn, calls, deleting, removal>>

Viewers == {"structure", "diagram", "documents", "redis", "performance", "definition"}

\* What a load can answer.
Answers(call) ==
  {[sources |-> call.sources, query |-> call.query, rows |-> rows] :
     rows \in IF item.kind = "redis" THEN Rows ELSE {<<>>}}

\* A tab before its first load, and with a request that is not answered.
New(kind) ==
  [kind |-> kind, of |-> 1, available |-> TRUE, loading |-> 0, loads |-> 0, shown |-> None,
   query |-> CHOOSE q \in Queries : TRUE, failed |-> FALSE, auto |-> FALSE, busy |-> FALSE]
Requested(i) == [i EXCEPT !.loads = @ + 1, !.loading = i.loads + 1, !.failed = FALSE]

\* A failure keeps what is shown.
Done(i, answer) ==
  [i EXCEPT !.loading = 0, !.failed = answer = None, !.shown = IF answer = None THEN @ ELSE answer]

-----------------------------------------------------------------------------
(* The structure of a table forgets what it showed when it loads again, and  *)
(* relies on its buttons not to load once its session has ended.             *)

StructureBegin(i) ==
  IF i.loading # 0 THEN i ELSE [Requested(i) EXCEPT !.available = TRUE, !.shown = None]

StructureOpened == StructureBegin(New("structure"))

StructureFinish(i, call) ==
  IF i.loading # call.generation THEN i ELSE Done(i, call.answer)

StructureEnd(i) ==
  IF i.available THEN [i EXCEPT !.available = FALSE, !.loading = 0, !.shown = None] ELSE i

StructurePane(i) ==
  IF i.loading = 0 /\ ~i.failed /\ i.available THEN i.shown ELSE None

StructureOffers(i) == IF i.loading = 0 /\ i.available THEN {"refresh"} ELSE {}

-----------------------------------------------------------------------------
(* A diagram keeps the one it has until the next one has come.               *)

DiagramBegin(i) == IF i.loading # 0 \/ ~i.available THEN i ELSE Requested(i)

DiagramOpened == DiagramBegin(New("diagram"))

DiagramFinish(i, call) ==
  IF i.loading # call.generation THEN i ELSE Done(i, call.answer)

DiagramEnd(i) ==
  IF i.available THEN [i EXCEPT !.available = FALSE, !.loading = 0, !.shown = None] ELSE i

DiagramPane(i) == IF i.available THEN i.shown ELSE None

DiagramOffers(i) == IF i.loading = 0 /\ i.available THEN {"refresh"} ELSE {}

-----------------------------------------------------------------------------
(* Documents, by page and filter; the page outlives the session, unseen.     *)

DocumentsBegin(i) ==
  IF i.loading # 0 THEN i ELSE [Requested(i) EXCEPT !.available = TRUE]

DocumentsOpened == DocumentsBegin(New("documents"))

DocumentsFinish(i, call) ==
  IF i.loading # call.generation \/ i.query # call.query THEN i ELSE Done(i, call.answer)

DocumentsEnd(i) == [i EXCEPT !.available = FALSE, !.loading = 0]

DocumentsPane(i) == IF i.available THEN i.shown ELSE None

\* The buttons of the pages are drawn for an ended session, too.
DocumentsOffers(i) ==
  IF i.loading # 0 THEN {} ELSE {"turn"} \cup IF i.available THEN {"refresh", "filter"} ELSE {}

\* A page or a filter is only changed when nothing loads.
NotEnded(i) == i.available
NotLoading(i) == i.available /\ i.loading = 0

-----------------------------------------------------------------------------
(* A Redis key: a load supersedes another, an answer is that of the last.    *)

IsBusy(i) == i.busy \/ (i.kind = "redis" /\ i.loading # 0)

RedisBegin(i) == IF i.available THEN Requested(i) ELSE i

RedisOpened == RedisBegin([New("redis") EXCEPT !.failed = TRUE])

\* A key that is shown stays so, with a notice, when its load fails.
RedisFinishLate(i, call) ==
  [Done(i, call.answer) EXCEPT !.failed = call.answer = None /\ i.shown = None]
RedisFinish(i, call) == IF i.loads # call.generation THEN i ELSE RedisFinishLate(i, call)

RedisEnd(i) ==
  [i EXCEPT !.loads = @ + 1, !.available = FALSE, !.loading = 0, !.busy = FALSE, !.shown = None]

RedisPane(i) == IF i.available THEN i.shown ELSE None

Editable(i) == ~IsBusy(i) /\ RedisPane(i) # None

\* The rows that have a button, which carries the generation they are drawn in.
RowsOffered(i) == IF Editable(i) THEN DOMAIN i.shown.rows ELSE {}
ChangesOffered(i) == IF Editable(i) THEN {"change"} ELSE {}
BatchesOffered(i) == IF Editable(i) THEN {"next"} ELSE {}
RedisOffers(i) ==
  IF IsBusy(i) \/ ~i.available THEN {}
  ELSE {"refresh"} \cup IF Editable(i) THEN {"delete"} ELSE {}

-----------------------------------------------------------------------------
(* Metrics, which a timer loads again while it is on.                        *)

PerformanceBegin(i) == IF i.loading # 0 \/ ~i.available THEN i ELSE Requested(i)

PerformanceOpened == PerformanceBegin(New("performance"))

PerformanceFinish(i, call) ==
  IF i.loading # call.generation THEN i ELSE Done(i, call.answer)

PerformanceEnd(i) ==
  [i EXCEPT !.loads = @ + 1, !.loading = 0, !.available = FALSE, !.shown = None,
            !.failed = TRUE, !.auto = FALSE]

PerformancePane(i) == i.shown

PerformanceOffers(i) ==
  IF i.available THEN {"auto"} \cup IF i.loading = 0 THEN {"refresh"} ELSE {} ELSE {}

-----------------------------------------------------------------------------
(* A definition was read before its tab was opened, and stays as a snapshot. *)

DefinitionOpened ==
  LET i == New("definition")
  IN [i EXCEPT !.shown = [sources |-> {1}, query |-> i.query, rows |-> <<>>]]

DefinitionEnd(i) == IF i.available THEN [i EXCEPT !.available = FALSE] ELSE i

DefinitionPane(i) == i.shown

-----------------------------------------------------------------------------
(* The item of a tab, whichever it is. *)

Begin(i) ==
  CASE i.kind = "structure" -> StructureBegin(i)
    [] i.kind = "diagram" -> DiagramBegin(i)
    [] i.kind = "documents" -> DocumentsBegin(i)
    [] i.kind = "redis" -> RedisBegin(i)
    [] i.kind = "performance" -> PerformanceBegin(i)

Finish(i, call) ==
  CASE i.kind = "structure" -> StructureFinish(i, call)
    [] i.kind = "diagram" -> DiagramFinish(i, call)
    [] i.kind = "documents" -> DocumentsFinish(i, call)
    [] i.kind = "redis" -> RedisFinish(i, call)
    [] i.kind = "performance" -> PerformanceFinish(i, call)

End(i) ==
  CASE i.kind = "structure" -> StructureEnd(i)
    [] i.kind = "diagram" -> DiagramEnd(i)
    [] i.kind = "documents" -> DocumentsEnd(i)
    [] i.kind = "redis" -> RedisEnd(i)
    [] i.kind = "performance" -> PerformanceEnd(i)
    [] i.kind = "definition" -> DefinitionEnd(i)

\* What the tab presents as the content of its session, if anything.
Pane(i) ==
  CASE i.kind = "structure" -> StructurePane(i)
    [] i.kind = "diagram" -> DiagramPane(i)
    [] i.kind = "documents" -> DocumentsPane(i)
    [] i.kind = "redis" -> RedisPane(i)
    [] i.kind = "performance" -> PerformancePane(i)
    [] i.kind = "definition" -> DefinitionPane(i)

\* The buttons that are enabled.
Offers(i) ==
  CASE i.kind = "structure" -> StructureOffers(i)
    [] i.kind = "diagram" -> DiagramOffers(i)
    [] i.kind = "documents" -> DocumentsOffers(i)
    [] i.kind = "redis" -> RedisOffers(i) \cup ChangesOffered(i) \cup BatchesOffered(i)
    [] i.kind = "performance" -> PerformanceOffers(i)
    [] i.kind = "definition" -> {}

Call(what, i) ==
  [what |-> what, generation |-> i.loads, query |-> i.query, at |-> "start", sources |-> {},
   answer |-> None]

\* The load of i, if it is not refused.
Load(i) ==
  /\ i.loads < MaxLoads
  /\ item' = Begin(i)
  /\ calls' = IF item'.loads = i.loads THEN calls ELSE calls \cup {Call("load", item')}

\* The tab was opened for the session that was live.
Init ==
  /\ live = 1 /\ latest = 1
  /\ item \in {i \in {StructureOpened, DiagramOpened, DocumentsOpened, RedisOpened,
                      PerformanceOpened, DefinitionOpened} : i.kind \in Kinds}
  /\ calls = IF item.loading # 0 THEN {Call("load", item)} ELSE {}
  /\ drawn = item /\ deleting = "no" /\ removal = None

-----------------------------------------------------------------------------
(* Sessions, and calls on them. *)

Connect ==
  /\ live = 0 /\ latest < MaxSession
  /\ latest' = latest + 1 /\ live' = latest'
  /\ UNCHANGED <<item, drawn, calls, deleting, removal>>

Disconnect ==
  /\ live # 0 /\ live' = 0
  /\ UNCHANGED <<latest, item, drawn, calls, deleting, removal>>

Become(call, new) == calls' = (calls \ {call}) \cup {new}

Answered(call, answer) == [call EXCEPT !.at = "answered", !.answer = answer]

AnySession(call) == TRUE
RightSession(call) == item.kind = "structure" \/ live = item.of

\* The services take the session of the connection and compare its generation;
\* the catalog, which reads a structure, does not.
TakeSession(call) ==
  /\ call.at = "start"
  /\ Become(call, IF live # 0 /\ RightSession(call)
                  THEN [call EXCEPT !.at = "read", !.sources = {live}]
                  ELSE Answered(call, None))
  /\ UNCHANGED <<live, latest, item, drawn, deleting, removal>>

\* The driver is used under its lock, and answers an error once it is closed.
Read(call) ==
  /\ call.at = "read"
  /\ \E answer \in Answers(call) \cup {None} :
       /\ answer # None => call.what = "load" /\ live \in call.sources
       /\ Become(call, Answered(call, answer))
  /\ UNCHANGED <<live, latest, item, drawn, deleting, removal>>

\* Each part of a structure is read from the session that is live by then.
ReadNextPart(call) ==
  /\ call.at = "read" /\ item.kind = "structure"
  /\ live # 0 /\ live \notin call.sources
  /\ Become(call, [call EXCEPT !.sources = @ \cup {live}])
  /\ UNCHANGED <<live, latest, item, drawn, deleting, removal>>

FinishLoad(call) ==
  /\ call.at = "answered" /\ call.what = "load"
  /\ calls' = calls \ {call}
  /\ item' = Finish(item, call)
  /\ UNCHANGED <<live, latest, drawn, deleting, removal>>

\* The answer of a change of a Redis key is followed by a load of it.
FinishMutation(call) ==
  /\ call.at = "answered" /\ call.what = "mutate"
  /\ IF item.loads = call.generation
     THEN /\ item.loads < MaxLoads
          /\ item' = Begin([item EXCEPT !.busy = FALSE])
          /\ calls' = (calls \ {call}) \cup
                        IF item'.loads = item.loads THEN {} ELSE {Call("load", item')}
     ELSE calls' = calls \ {call} /\ UNCHANGED item
  /\ UNCHANGED <<live, latest, drawn, deleting, removal>>

-----------------------------------------------------------------------------
(* The panel says that a session has ended: before it ends or after. *)

Invalidate(generation) ==
  /\ IF item.of = generation
     THEN item.loads < MaxLoads /\ item' = End(item)
     ELSE UNCHANGED item
  /\ UNCHANGED <<live, latest, drawn, calls, deleting, removal>>

-----------------------------------------------------------------------------
(* Clicks. *)

Draw ==
  /\ drawn' = item
  /\ UNCHANGED <<live, latest, item, calls, deleting, removal>>

Refresh ==
  /\ "refresh" \in Offers(drawn)
  /\ IF IsBusy(item) THEN UNCHANGED <<item, calls>> ELSE Load(item)
  /\ UNCHANGED <<live, latest, drawn, deleting, removal>>

\* The key that refreshes what is active goes past the buttons.
RefreshActive ==
  /\ item.kind \in {"performance", "diagram"}
  /\ Load(item)
  /\ UNCHANGED <<live, latest, drawn, deleting, removal>>

\* A filter that is the same is loaded again, one that is not JSON is refused.
ApplyFilter(query) ==
  /\ "filter" \in Offers(drawn)
  /\ \/ NotLoading(item) /\ Load([item EXCEPT !.query = query])
     \/ UNCHANGED <<item, calls>>
  /\ UNCHANGED <<live, latest, drawn, deleting, removal>>

TurnPage(query) ==
  /\ "turn" \in Offers(drawn)
  /\ IF NotLoading(item) /\ query # item.query
     THEN Load([item EXCEPT !.query = query]) ELSE UNCHANGED <<item, calls>>
  /\ UNCHANGED <<live, latest, drawn, deleting, removal>>

NextBatch ==
  /\ "next" \in Offers(drawn)
  /\ IF IsBusy(item) \/ item.shown = None THEN UNCHANGED <<item, calls>> ELSE Load(item)
  /\ UNCHANGED <<live, latest, drawn, deleting, removal>>

StartMutation(i) ==
  IF IsBusy(i) \/ ~i.available THEN UNCHANGED <<item, calls>>
  ELSE item' = [i EXCEPT !.busy = TRUE] /\ calls' = calls \cup {Call("mutate", i)}

\* Setting a string or a field, adding to a list or a set.
Change ==
  /\ "change" \in Offers(drawn)
  /\ StartMutation(item)
  /\ UNCHANGED <<live, latest, drawn, deleting, removal>>

AnyRows(i) == ~IsBusy(i)
RowsAsDrawn(i) == ~IsBusy(i) /\ i.loads = drawn.loads

RemoveEntry(index) ==
  /\ drawn.kind = "redis" /\ index \in RowsOffered(drawn)
  /\ IF RowsAsDrawn(item) /\ item.shown # None /\ index \in DOMAIN item.shown.rows
     THEN /\ StartMutation(item)
          /\ removal' = [clicked |-> drawn.shown.rows[index], sent |-> item.shown.rows[index]]
     ELSE UNCHANGED <<item, calls, removal>>
  /\ UNCHANGED <<live, latest, drawn, deleting>>

AskDelete ==
  /\ "delete" \in Offers(drawn)
  /\ ~IsBusy(item) /\ deleting = "no" /\ deleting' = "asked"
  /\ UNCHANGED <<live, latest, item, drawn, calls, removal>>

ConfirmDelete(ok) ==
  /\ deleting = "asked" /\ deleting' = "no"
  /\ IF ok THEN StartMutation(item) ELSE UNCHANGED <<item, calls>>
  /\ UNCHANGED <<live, latest, drawn, removal>>

\* The refresh of metrics every few seconds.
ToggleAutoRefresh ==
  /\ "auto" \in Offers(drawn)
  /\ item' = IF item.available THEN [item EXCEPT !.auto = ~@] ELSE item
  /\ UNCHANGED <<live, latest, drawn, calls, deleting, removal>>

AutoRefresh ==
  /\ item.kind = "performance" /\ item.auto
  /\ Load(item)
  /\ UNCHANGED <<live, latest, drawn, deleting, removal>>

-----------------------------------------------------------------------------
CallStep == \E call \in calls :
  TakeSession(call) \/ Read(call) \/ FinishLoad(call) \/ FinishMutation(call)

Next ==
  \/ Connect \/ Disconnect
  \/ CallStep \/ \E call \in calls : ReadNextPart(call)
  \/ \E generation \in 1..latest : Invalidate(generation)
  \/ Draw \/ Refresh \/ RefreshActive \/ NextBatch \/ Change \/ AskDelete
  \/ \E query \in Queries : ApplyFilter(query) \/ TurnPage(query)
  \/ \E index \in UNION {DOMAIN rows : rows \in Rows} : RemoveEntry(index)
  \/ \E ok \in BOOLEAN : ConfirmDelete(ok)
  \/ ToggleAutoRefresh \/ AutoRefresh

\* Calls run on the background executor and are answered; nobody has to click.
Fairness == WF_vars(CallStep)

Spec == Init /\ [][Next]_vars /\ Fairness

-----------------------------------------------------------------------------
\* What a tab presents was read through the session it was opened for, except for
\* the parts of a structure; documents that are presented as loaded are those
\* of the page and the filter shown with them; a tab that knows its session has
\* ended presents nothing, or a definition; and the row of a Redis key that is
\* removed is the one that was clicked.
ViewersShowTheirSession ==
  /\ Pane(item) # None /\ item.kind # "structure" => Pane(item).sources = {item.of}
  /\ Pane(item) # None /\ item.loading = 0 /\ ~item.failed => Pane(item).query = item.query
  /\ ~item.available /\ item.kind # "definition" => Pane(item) = None
  /\ removal # None => removal.sent = removal.clicked

\* A diagram, metrics, a key and a definition that were told their session has
\* ended stay so: no late answer, click or timer brings them back.
EndedTabsStayEnded ==
  [][item.kind \notin {"structure", "documents"} /\ ~item.available
       => /\ ~item'.available /\ item'.loading = 0 /\ ~item'.busy /\ ~item'.auto
          /\ item'.shown = item.shown]_vars

\* A tab does not load for ever.
LoadsEnd == item.loading # 0 ~> item.loading = 0
=============================================================================
