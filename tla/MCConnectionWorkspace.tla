------------------------ MODULE MCConnectionWorkspace ------------------------
\* The connection panel, the tabs beside it and what a tab shows: instances of
\* ConnectionWorkspace, WorkspaceShell and WorkspaceViewers for TLC.  A
\* behaviour is one of the three and keeps the variables of the others.
EXTENDS ConnectionWorkspace, FiniteSets

CONSTANTS grid, taskCenter, q1, q2, a, b

VARIABLES
  part,   \* what this behaviour is of
  tabs, active, lastId, asking, consents, modal, running, transfer, ended,   \* the tabs
  live, latest, item, drawn, calls, deleting, removal                        \* a viewer

shellVars == <<tabs, active, lastId, asking, consents, modal, running, transfer, ended>>
viewerVars == <<live, latest, item, drawn, calls, deleting, removal>>

Shell == INSTANCE WorkspaceShell WITH
  Keys <- {grid, taskCenter}, Editable <- {grid}, TaskCenter <- taskCenter,
  MaxTabs <- 3, prompt <- asking

\* A Redis key is empty, or has batches whose rows differ.
Viewer == INSTANCE WorkspaceViewers WITH
  Kinds <- {"structure", "diagram", "documents", "redis", "performance", "definition"},
  Queries <- {q1, q2}, Rows <- {<<>>, <<a>>, <<b, a>>}, MaxSession <- 2, MaxLoads <- 3

\* The panel after its first refresh, when nothing is on its way.
Settled ==
  /\ profile = [p \in Profiles |-> "new"]
  /\ session = [p \in Profiles |-> 0] /\ sessions = 0 /\ usage = {}
  /\ version = [side \in {"manager", "registry"} |-> 0]
  /\ events = <<>> /\ lagged = FALSE /\ unsent = 0
  /\ form = "none" /\ prompt = None
  /\ view = "idle" /\ shown = [manager |-> Manager, registry |-> Registry] /\ epoch = 1
  /\ operation = [p \in Profiles |-> 0] /\ tasks = [t \in {} |-> None]
  /\ lists = [p \in Profiles |-> NoList] /\ requests = 0 /\ loads = [r \in {} |-> None]
  /\ picker = Closed /\ inputs = 0

\* The panel and the viewer stay in states where nothing has to happen in the
\* behaviours of another part, so that the fairness of each is the run's.
MCInit ==
  /\ Shell!Init /\ Viewer!Init
  /\ part \in {"panel", "shell", "viewer"}
  /\ part = "viewer" \/ item.kind = "definition"
  /\ IF part = "panel" THEN Init ELSE Settled

MCNext ==
  /\ UNCHANGED part
  /\ \/ part = "panel" /\ Next /\ UNCHANGED <<shellVars, viewerVars>>
     \/ part = "shell" /\ Shell!Next /\ UNCHANGED <<vars, viewerVars>>
     \/ part = "viewer" /\ Viewer!Next /\ UNCHANGED <<vars, shellVars>>

MCSpec ==
  /\ MCInit /\ [][MCNext]_<<part, vars, shellVars, viewerVars>>
  /\ Fairness /\ Viewer!Fairness

\* One answer of a prompt and one form at a time are on their way, and no dialog
\* opens while a backup or a restore is chosen.
Small ==
  /\ Cardinality(consents) <= 1 /\ Cardinality(running) <= 1
  /\ transfer = "none" \/ modal.form = None

\* The properties of WorkspaceShell: unsaved changes and running forms do not
\* go away unasked, and neither do the one tab of a key and the active one.
TabsAndFormsAreKept == Shell!NothingLostUnasked /\ Shell!ActiveTabIsKept

\* The properties of WorkspaceViewers: a tab shows its own session, stays ended,
\* and does not load for ever.
ViewersStayTrue ==
  /\ Viewer!ViewersShowTheirSession /\ [][Viewer!ViewersShowTheirSession']_viewerVars
  /\ Viewer!EndedTabsStayEnded
LoadsEnd == Viewer!LoadsEnd
=============================================================================
