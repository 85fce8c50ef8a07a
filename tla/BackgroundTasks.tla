--------------------------- MODULE BackgroundTasks ---------------------------
(***************************************************************************)
(* The background tasks and the task center (Transfers) with what they     *)
(* promise; under these names the module can be extended together with     *)
(* that of another component.                                              *)
(***************************************************************************)
CONSTANTS
  Tasks, MaxCompleted, Sessions, Limits,
  Nothing   \* the None of a task

VARIABLES
  entries, token, completed, center, cancels, limits, live, worker, pipe, dest, output,
  late, crashed

Work == INSTANCE Transfers WITH None <- Nothing

(* What a finished task says is what it did (transfer/mod.rs, `finish` and *)
(* `interrupted`), and a task center with nothing on its way shows what    *)
(* the tasks say (task_center_item.rs, `refresh`).                         *)
TasksAreShownAsTheyWere == Work!OutcomeTellsEffects /\ Work!QuietCenterIsCurrent

=============================================================================
