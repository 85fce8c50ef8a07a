---------------------------- MODULE MCTransfers -----------------------------
\* Transfers for TLC.
EXTENDS BackgroundTasks, Naturals

CONSTANTS t1, t2

\* A behaviour does one kind of work in full, starts more tasks than the history
\* keeps, or finds nothing to do.
AnyContent == {"Structure", "Data", "StructureAndData"}
Base ==
  [tasks |-> {t1}, cancels |-> {t1}, retires |-> Sessions, kinds |-> {},
   contents |-> AnyContent, units |-> 2, pageSize |-> 1, pages |-> 2, channel |-> 1,
   panics |-> FALSE]
MCLimits ==
  {[Base EXCEPT !.kinds = {"copy"}, !.contents = {"Structure", "StructureAndData"}],
   [Base EXCEPT !.kinds = {"copy"}, !.contents = {"Data"}, !.units = 3, !.pageSize = 2],
   [Base EXCEPT !.kinds = {"restore", "backup"}, !.panics = TRUE],
   [Base EXCEPT !.kinds = {"export"}, !.panics = TRUE],
   [Base EXCEPT !.kinds = {"copy", "restore", "backup", "export"}, !.retires = {},
                !.contents = {"Data"}, !.units = 0],
   [Base EXCEPT !.tasks = {t1, t2}, !.retires = {}, !.kinds = {"restore"},
                !.contents = {"Data"}, !.units = 1]}

ASSUME TransfersAssumption == Work!ConstantsAssumption

Spec == Work!Spec
TasksEnd == Work!TasksEnd
=============================================================================
