------------------------------ MODULE QueryTabs ------------------------------
(***************************************************************************)
(* The query tabs (QueryTab) with what they promise; under these names the *)
(* module can be extended together with that of another component.         *)
(***************************************************************************)
CONSTANTS
  Texts, Empty, Broken, Paths, Databases, SchemasOf, Limits,
  Nothing   \* the None of a tab

VARIABLES
  limits, session, opened, panel, disk, text, file, asking, target, schema, runs, shown,
  chart, picker

QTab == INSTANCE QueryTab WITH None <- Nothing

(* Results, chart, selection and picker belong to the tab's context, and   *)
(* what looks saved is saved (query_workspace.rs, `finish_execution`;      *)
(* query_file.rs, `finish`).                                               *)
QueryTabIsTrue == QTab!ResultsBelongToContext /\ QTab!CleanMeansSaved

=============================================================================
