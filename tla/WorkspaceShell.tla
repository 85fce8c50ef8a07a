--------------------------- MODULE WorkspaceShell ---------------------------
(***************************************************************************)
(* The App's workspace: its tabs, the prompts that guard them, the dialog  *)
(* over them and the end of the application.  Handlers run one at a time,  *)
(* but the answer of a prompt, of a form or of a file dialog reaches them  *)
(* later, when the tabs may be others than those it was asked about.       *)
(*                                                                         *)
(* What a tab shows is left to the modules of its item; here it has a key  *)
(* that identifies what it was opened for and may hold unsaved changes.    *)
(***************************************************************************)
EXTENDS Naturals, Sequences, Functions

CONSTANTS Keys,        \* what tabs other than queries are opened for
          Editable,    \* those of them that can hold unsaved changes
          TaskCenter,  \* the one of the task center
          None,
          MaxTabs      \* bound on the tabs ever opened

VARIABLES
  tabs,      \* the tabs in order: id, key, dirty
  active,    \* index of the active tab, from 0
  lastId,    \* the last id given to a tab
  prompt,    \* the prompt in front of the window
  consents,  \* prompts answered with OK whose handler has not run yet
  modal,     \* the dialog and whether its form is running
  running,   \* forms whose call has not been answered
  transfer,  \* how far the choice of a backup or a restore has come
  ended      \* whether the application was told to quit or to restart

tabVars == <<tabs, active, lastId>>
vars == <<tabVars, prompt, consents, modal, running, transfer, ended>>

Forms == {"profile", "mutation", "copy"}
Commands == {"new", "close", "next", "previous", "restart"}
NoModal == [form |-> None, busy |-> FALSE]

Init ==
  /\ tabs = <<>> /\ active = 0 /\ lastId = 0
  /\ prompt = None /\ consents = {}
  /\ modal = NoModal /\ running = {} /\ transfer = "none" /\ ended = "no"

Ids == {t.id : t \in Range(tabs)}
Tab(id) == CHOOSE t \in Range(tabs) : t.id = id
IsActive(t) == active < Len(tabs) /\ tabs[active + 1] = t
Unsaved == {t \in Range(tabs) : t.dirty}

-----------------------------------------------------------------------------
(* The list of tabs. *)

Add(key) ==
  /\ lastId < MaxTabs
  /\ lastId' = lastId + 1
  /\ tabs' = Append(tabs, [id |-> lastId', key |-> key, dirty |-> FALSE])
  /\ active' = Len(tabs)

Activate(id) ==
  /\ active' = CHOOSE i \in 0..Len(tabs) - 1 : tabs[i + 1].id = id
  /\ UNCHANGED <<tabs, lastId>>

AfterCloseOfTheLast(index, count) ==
  IF active = count THEN IF active = 0 THEN 0 ELSE active - 1 ELSE active

AfterClose(index, count) ==
  IF index < active \/ active = count THEN IF active = 0 THEN 0 ELSE active - 1 ELSE active

CloseNowTheActive(id) ==
  IF id \in Ids
  THEN /\ tabs' = SelectSeq(tabs, LAMBDA t : ~IsActive(t))
       /\ active' = AfterClose(active, Len(tabs) - 1)
       /\ UNCHANGED lastId
  ELSE UNCHANGED tabVars

\* A tab that is gone already is not closed twice.
CloseNow(id) ==
  IF id \in Ids
  THEN /\ tabs' = SelectSeq(tabs, LAMBDA t : t.id # id)
       /\ active' = AfterClose((CHOOSE i \in 1..Len(tabs) : tabs[i].id = id) - 1, Len(tabs) - 1)
       /\ UNCHANGED lastId
  ELSE UNCHANGED tabVars

AlreadyActive(key) == {t \in Range(tabs) : t.key = key /\ IsActive(t)}
AlreadyOpen(key) == {t \in Range(tabs) : t.key = key}

OpenOrActivate(key) ==
  IF AlreadyOpen(key) = {} THEN Add(key)
  ELSE Activate((CHOOSE t \in AlreadyOpen(key) : TRUE).id)

Ask(kind, id) == prompt' = [kind |-> kind, id |-> id]

\* A tab with changes is closed by the answer of a prompt; no second prompt is
\* put in front of one.
Close(id) ==
  IF Tab(id).dirty
  THEN /\ IF prompt = None THEN Ask("close", id) ELSE UNCHANGED prompt
       /\ UNCHANGED tabVars
  ELSE CloseNow(id) /\ UNCHANGED prompt

-----------------------------------------------------------------------------
(* Commands, from the keyboard or the palette. *)

Restart ==
  /\ UNCHANGED tabVars
  /\ IF Unsaved = {} THEN ended' = "restart" /\ UNCHANGED prompt
     ELSE /\ UNCHANGED ended
          /\ IF prompt = None THEN Ask("restart", None) ELSE UNCHANGED prompt

Step(by) ==
  /\ UNCHANGED <<tabs, lastId, prompt, ended>>
  /\ active' = IF tabs = <<>> THEN active ELSE (active + by) % Len(tabs)

Execute(command) ==
  \/ command = "new" /\ Add(lastId + 1) /\ UNCHANGED <<prompt, ended>>
  \/ /\ command = "close" /\ UNCHANGED ended
     /\ IF active < Len(tabs) THEN Close(tabs[active + 1].id) ELSE UNCHANGED <<tabVars, prompt>>
  \/ command = "next" /\ Step(1)
  \/ command = "previous" /\ Step(Len(tabs) - 1)
  \/ command = "restart" /\ Restart

Key(command) ==
  /\ modal = NoModal /\ command # "restart"
  /\ Execute(command)
  /\ UNCHANGED <<consents, modal, running, transfer>>

\* The palette closes before its command runs.
PaletteCommand(command) ==
  /\ modal.form = "palette" /\ modal' = NoModal
  /\ Execute(command)
  /\ UNCHANGED <<consents, running, transfer>>

\* The dialog covers the tab bar.
Click(id) ==
  /\ modal = NoModal
  /\ Activate(id)
  /\ UNCHANGED <<prompt, consents, modal, running, transfer, ended>>

ClickClose(id) ==
  /\ modal = NoModal
  /\ Close(id)
  /\ UNCHANGED <<consents, modal, running, transfer, ended>>

\* The panel asks for a tab, at once or when a definition has arrived.
Open(key) ==
  /\ OpenOrActivate(key)
  /\ UNCHANGED <<prompt, consents, modal, running, transfer, ended>>

Change(id, dirty) ==
  /\ Tab(id).dirty # dirty /\ (Tab(id).key = id \/ Tab(id).key \in Editable)
  /\ tabs' = [i \in DOMAIN tabs |->
                IF tabs[i].id = id THEN [tabs[i] EXCEPT !.dirty = dirty] ELSE tabs[i]]
  /\ UNCHANGED <<active, lastId, prompt, consents, modal, running, transfer, ended>>

\* Quitting is an action of the application; no dialog hides it.
Quit ==
  /\ UNCHANGED <<tabVars, consents, modal, running, transfer>>
  /\ IF prompt # None THEN UNCHANGED <<prompt, ended>>
     ELSE IF Unsaved = {} THEN ended' = "quit" /\ UNCHANGED prompt
     ELSE Ask("quit", None) /\ UNCHANGED ended

-----------------------------------------------------------------------------
(* Prompts. *)

Asked(p) == p.kind \in {"content", "drop"}

Answer(ok) ==
  /\ prompt # None /\ prompt' = None
  /\ consents' = IF ok THEN consents \cup {prompt} ELSE consents
  /\ transfer' = IF Asked(prompt) /\ ~ok THEN "none" ELSE transfer
  /\ UNCHANGED <<tabVars, modal, running, ended>>

\* The handler of the answer.  The prompt for what a backup drops is put up
\* whatever is in front of the window; a prompt it replaces is not answered.
Act(p) ==
  /\ p \in consents /\ consents' = consents \ {p}
  /\ UNCHANGED <<modal, running>>
  /\ \/ p.kind = "close" /\ CloseNow(p.id) /\ UNCHANGED <<prompt, transfer, ended>>
     \/ /\ p.kind \in {"quit", "restart"} /\ ended' = p.kind
        /\ UNCHANGED <<tabVars, prompt, transfer>>
     \/ p.kind = "content" /\ Ask("drop", None) /\ UNCHANGED <<tabVars, transfer, ended>>
     \/ /\ Asked(p) /\ transfer' = "path"
        /\ UNCHANGED <<tabVars, prompt, ended>>

-----------------------------------------------------------------------------
(* Backups and restores, one choice at a time. *)

ChooseBackup ==
  /\ transfer = "none"
  /\ prompt = None /\ Ask("content", None) /\ transfer' = "asked"
  /\ UNCHANGED <<tabVars, consents, modal, running, ended>>

ChooseRestore ==
  /\ transfer = "none" /\ transfer' = "path"
  /\ UNCHANGED <<tabVars, prompt, consents, modal, running, ended>>

ChoosePath ==
  /\ transfer = "path" /\ transfer' \in {"none", "start"}
  /\ UNCHANGED <<tabVars, prompt, consents, modal, running, ended>>

FinishStart ==
  /\ transfer = "start" /\ transfer' = "none"
  /\ OpenOrActivate(TaskCenter) \/ UNCHANGED tabVars
  /\ UNCHANGED <<prompt, consents, modal, running, ended>>

-----------------------------------------------------------------------------
(* Dialogs. *)

AlwaysDismiss == TRUE
MayDismiss == ~modal.busy

Hide == modal' = IF MayDismiss THEN NoModal ELSE modal

Toggle(form) ==
  IF MayDismiss /\ modal.form # form THEN modal' = [form |-> form, busy |-> FALSE] ELSE Hide

TogglePalette ==
  /\ modal.form \in {None, "palette"}
  /\ Toggle("palette")
  /\ UNCHANGED <<tabVars, prompt, consents, running, transfer, ended>>

OpenForm(form) ==
  /\ Toggle(form)
  /\ UNCHANGED <<tabVars, prompt, consents, running, transfer, ended>>

Dismiss ==
  /\ modal # NoModal /\ Hide
  /\ UNCHANGED <<tabVars, prompt, consents, running, transfer, ended>>

Submit ==
  /\ modal.form \in Forms /\ ~modal.busy
  /\ modal' = [modal EXCEPT !.busy = TRUE] /\ running' = running \cup {modal.form}
  /\ UNCHANGED <<tabVars, prompt, consents, transfer, ended>>

\* A form that succeeds is idle again, then says so and asks to be dismissed.
\* A test of a connection leaves the form open, as a failure does.
FormAnswers(form, ok) ==
  /\ form \in running /\ running' = running \ {form}
  /\ modal' = IF modal.form # form THEN modal
              ELSE IF ok THEN NoModal ELSE [modal EXCEPT !.busy = FALSE]
  /\ IF ok /\ form = "copy" THEN OpenOrActivate(TaskCenter) ELSE UNCHANGED tabVars
  /\ UNCHANGED <<prompt, consents, transfer, ended>>

-----------------------------------------------------------------------------
Next ==
  /\ ended = "no"
  /\ \/ \E command \in Commands : Key(command) \/ PaletteCommand(command)
     \/ \E id \in Ids : Click(id) \/ ClickClose(id) \/ \E dirty \in BOOLEAN : Change(id, dirty)
     \/ \E key \in Keys : Open(key)
     \/ Quit
     \/ \E ok \in BOOLEAN : Answer(ok)
     \/ \E p \in consents : Act(p)
     \/ ChooseBackup \/ ChooseRestore \/ ChoosePath \/ FinishStart
     \/ TogglePalette \/ Dismiss \/ Submit
     \/ \E form \in Forms : OpenForm(form) \/ \E ok \in BOOLEAN : FormAnswers(form, ok)

Spec == Init /\ [][Next]_vars

-----------------------------------------------------------------------------
Consent(kind, id) == [kind |-> kind, id |-> id] \in consents

\* Unsaved changes go away with their tab only when the prompt that named this
\* tab was answered with OK, and with the application only when the prompt of
\* its end was; and a form that waits for an answer is the dialog that is shown,
\* so that the answer finds it.
NothingLostUnasked ==
  /\ [](\A form \in running : modal = [form |-> form, busy |-> TRUE])
  /\ [][/\ \A t \in Unsaved : t.id \notin Ids' => Consent("close", t.id)
        /\ ended' # ended /\ Unsaved # {} => Consent(ended', None)]_vars

\* What is open has one tab, an active one if there is any, and closing another
\* tab, by whoever and however late, leaves the active one active.
ActiveTabIsKept ==
  /\ [](/\ \A t, u \in Range(tabs) : t.key = u.key => t = u
        /\ tabs # <<>> => active < Len(tabs))
  /\ [][\A t \in Range(tabs) :
          /\ IsActive(t) /\ t.id \in Ids' /\ Ids' \subseteq Ids /\ Ids' # Ids
          => tabs'[active' + 1].id = t.id]_vars
=============================================================================
