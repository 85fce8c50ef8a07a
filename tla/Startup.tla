------------------------------- MODULE Startup -------------------------------
(***************************************************************************)
(* The repository when processes start: its file, which every process      *)
(* creates or upgrades (RepositoryFile), and the import of an earlier      *)
(* program's profiles (LegacyMigration), with what each of them promises.  *)
(* The two share nothing.                                                  *)
(***************************************************************************)
CONSTANTS
  Openers, MaxRevision, MaxAttempts,       \* of the file
  Callers, Ids, Refs, Empty, MaxEdits,     \* of the import
  Nil, MaxStops   \* of both; Nil is their None

VARIABLES
  past, main, wal, opening, probe,         \* the file
  passwords, profiles, revision, complete, vault, rows, call, removed   \* the import

File == INSTANCE RepositoryFile WITH Processes <- Openers, None <- Nil
Import == INSTANCE LegacyMigration WITH legacy <- passwords, None <- Nil

(* Processes that open the repository agree on one complete set of tables, *)
(* and the App's look judges one moment of it (`initialize_schema`,        *)
(* `inspect_native_state`).                                                *)
RepositoryIsAgreedOn == File!RepositoryIsAgreedOn

(* A migration that reports success has stored every profile with its      *)
(* password, and none revives a deleted profile or loses a secret          *)
(* (`migrate_legacy`, `verify_enabled_credentials`).                       *)
ImportsKeepSecrets == Import!ImportsKeepSecrets

=============================================================================
