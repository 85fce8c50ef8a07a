---------------------------- MODULE RepositoryFile ----------------------------
(***************************************************************************)
(* The file of the connection repository while processes start: every      *)
(* process creates or upgrades the tables, statement by statement and      *)
(* without a transaction around them (`initialize_schema`), and the App    *)
(* first looks at copies of the files without opening them                 *)
(* (`inspect_native_state`).  The database is in WAL mode: `main` says up  *)
(* to which commit its file has been written, `wal` which commits the log  *)
(* holds.  All processes are of this version.                              *)
(***************************************************************************)
EXTENDS Naturals, FiniteSets, Sequences

CONSTANTS
  Processes,      \* processes that open the repository
  None,           \* no repository, no log, no identifier
  MaxRevision,    \* bound: saved profiles
  MaxAttempts,    \* how often the probe reads the files (4 in the code)
  MaxStops        \* bound: processes that stop

VARIABLES
  past,       \* the contents of the database, commit by commit
  main, wal,  \* the files
  opening,    \* by process: the statement it is at, what it read, whether storage failed it
  probe       \* the App's look at the files

vars == <<past, main, wal, opening, probe>>

RepositoryFileAssumption ==
  /\ MaxRevision \in Nat /\ MaxAttempts \in Nat \ {0} /\ MaxStops \in Nat
  /\ None \notin Processes /\ None \notin [from : Nat, to : Nat]

(* Tables, columns and rows that a version 4 repository has.               *)
Tables == {"state", "profiles", "meta", "cleanup"}
Columns == {"group", "tags", "cleanup_after"}
Objects == Tables \cup Columns \cup {"revision", "id"}

SchemaVersion == 4
MinSupportedSchemaVersion == 2

(* A profile carries the revision that saved it.                           *)
Repository(version, objects) ==
  [version |-> version, objects |-> objects, id |-> IF "id" \in objects THEN "old" ELSE None,
   revision |-> 0, profile |-> 0]

(* What earlier and later versions of the program left behind, or nothing. *)
Found == {<<>>,
          <<Repository(2, Objects \ Columns)>>,
          <<Repository(3, Objects \ {"group", "tags"})>>,
          <<Repository(4, Objects)>>,
          <<Repository(5, Objects)>>}

NoCopy == [main |-> 0, wal |-> None]

Init ==
  /\ past \in Found
  /\ main = Len(past)
  /\ wal = None
  /\ opening = [p \in Processes |-> [at |-> "closed", next |-> 1, id |-> None, failed |-> FALSE]]
  /\ \E at \in {"none", "never"} :   \* whether an App looks
       probe = [at |-> at, attempt |-> 1, first |-> NoCopy, second |-> NoCopy, since |-> 0]

Exists == past # <<>>
db == past[Len(past)]

-----------------------------------------------------------------------------
(* A commit appends to the log; a log that is checkpointed in full may be  *)
(* started anew.                                                           *)
Commit(content) ==
  IF Exists /\ content = db THEN UNCHANGED <<past, main, wal>>
  ELSE /\ past' = Append(past, content)
       /\ UNCHANGED main
       /\ \/ wal # None /\ wal' = [wal EXCEPT !.to = Len(past')]
          \/ (IF wal = None THEN TRUE ELSE main = wal.to) /\ wal' = [from |-> main, to |-> Len(past')]

Checkpoint ==
  /\ wal # None /\ main < Len(past)
  /\ main' = main + 1
  /\ UNCHANGED <<past, wal, opening, probe>>

(* The last connection takes the log away.                                 *)
RemoveLog ==
  /\ wal # None /\ main = Len(past)
  /\ \A p \in Processes : opening[p].at \in {"closed", "failed", "unsupported", "stopped"}
  /\ wal' = None
  /\ UNCHANGED <<past, main, opening, probe>>

-----------------------------------------------------------------------------
(* Opening.  A column is looked for, added when it is missing, and looked  *)
(* for again when adding it failed.                                        *)
Statements == <<"version", "state", "revision", "profiles", "look group", "look tags", "meta", "id",
                "read id", "cleanup", "look cleanup_after", "set version">>
Looks == [column \in Columns |->
            CASE column = "group" -> 5 [] column = "tags" -> 6 [] column = "cleanup_after" -> 11]

Runs(p, statement) == opening[p].at = "run" /\ Statements[opening[p].next] = statement
Becomes(p, at) == opening' = [opening EXCEPT ![p].at = at]
Proceeds(p) == opening' = [opening EXCEPT ![p].at = "run", ![p].next = @ + 1]
Has(object) == object \in db.objects
With(objects) == [db EXCEPT !.objects = @ \cup objects]

(* The file is created when there is none.                                 *)
Open(p) ==
  /\ opening[p].at = "closed"
  /\ opening' = [opening EXCEPT ![p].at = "run", ![p].next = 1]
  /\ IF Exists THEN UNCHANGED <<past, main, wal>> ELSE Commit(Repository(0, {}))
  /\ UNCHANGED probe

ReadVersion(p) ==
  /\ Runs(p, "version")
  /\ IF db.version > SchemaVersion THEN Becomes(p, "unsupported") ELSE Proceeds(p)
  /\ UNCHANGED <<past, main, wal, probe>>

(* CREATE TABLE IF NOT EXISTS and INSERT OR IGNORE.                        *)
Created(statement) ==
  IF Has(statement) THEN db
  ELSE With(CASE statement = "profiles" -> {"profiles", "group", "tags"}
              [] statement = "cleanup" -> {"cleanup", "cleanup_after"}
              [] OTHER -> {statement})

Create(p) ==
  \E statement \in {"state", "revision", "profiles", "meta", "cleanup"} :
    /\ Runs(p, statement)
    /\ Commit(Created(statement))
    /\ Proceeds(p)
    /\ UNCHANGED probe

DrawId(p) ==
  /\ Runs(p, "id")
  /\ Commit(IF Has("id") THEN db ELSE [With({"id"}) EXCEPT !.id = p])
  /\ Proceeds(p)
  /\ UNCHANGED probe

ReadId(p) ==
  /\ Runs(p, "read id")
  /\ opening' = [opening EXCEPT ![p].id = db.id, ![p].next = @ + 1]
  /\ UNCHANGED <<past, main, wal, probe>>

LookFor(p, column) ==
  /\ opening[p].at = "run" /\ opening[p].next = Looks[column]
  /\ IF Has(column) THEN Proceeds(p) ELSE Becomes(p, "add")
  /\ UNCHANGED <<past, main, wal, probe>>

(* Mutant: an ALTER TABLE that fails is the end.                           *)
NoLookAfterFailure == "failed"

AfterFailedAlter == "look again"

(* A column that a peer has added meanwhile makes ALTER TABLE fail.        *)
AddColumn(p, column) ==
  /\ opening[p].at = "add" /\ opening[p].next = Looks[column]
  /\ IF Has(column)
     THEN Becomes(p, AfterFailedAlter) /\ UNCHANGED <<past, main, wal>>
     ELSE Proceeds(p) /\ Commit(With({column}))
  /\ UNCHANGED probe

LookAgain(p, column) ==
  /\ opening[p].at = "look again" /\ opening[p].next = Looks[column]
  /\ IF Has(column) THEN Proceeds(p) ELSE Becomes(p, "failed")
  /\ UNCHANGED <<past, main, wal, probe>>

SetVersion(p) ==
  /\ Runs(p, "set version")
  /\ Commit([db EXCEPT !.version = SchemaVersion])
  /\ Becomes(p, "ready")
  /\ UNCHANGED probe

Running(p) == opening[p].at \in {"run", "add", "look again"}

(* Storage fails a statement.                                              *)
Fail(p) ==
  /\ Running(p) /\ ~opening[p].failed
  /\ opening' = [opening EXCEPT ![p].failed = TRUE,
                                ![p].at = IF @ = "add" THEN AfterFailedAlter ELSE "failed"]
  /\ UNCHANGED <<past, main, wal, probe>>

(* The next call of the process opens again (`get_or_try_init`).           *)
Retry(p) ==
  /\ opening[p].at = "failed"
  /\ Becomes(p, "closed")
  /\ UNCHANGED <<past, main, wal, probe>>

(* The process stops between two statements, or when it is done.           *)
Stop(p) ==
  /\ Running(p) \/ opening[p].at = "ready"
  /\ Cardinality({q \in Processes : opening[q].at = "stopped"}) < MaxStops
  /\ Becomes(p, "stopped")
  /\ UNCHANGED <<past, main, wal, probe>>

(* Somebody who is ready saves a profile.                                  *)
Save(p) ==
  /\ opening[p].at = "ready" /\ db.revision < MaxRevision
  /\ Commit([db EXCEPT !.revision = @ + 1, !.profile = db.revision + 1])
  /\ UNCHANGED <<opening, probe>>

-----------------------------------------------------------------------------
(* The probe: the files are read twice, one after the other, and copied    *)
(* when both times they were the same.                                     *)
ProbeBegins ==
  /\ probe.at = "none"
  /\ probe' = [probe EXCEPT !.at = IF Exists THEN "first main" ELSE "fresh", !.since = Len(past)]
  /\ UNCHANGED <<past, main, wal, opening>>

Reads(at, next, read) ==
  /\ probe.at = at
  /\ probe' = [read EXCEPT !.at = next]
  /\ UNCHANGED <<past, main, wal, opening>>

ProbeReads ==
  \/ Reads("first main", "first wal", [probe EXCEPT !.first.main = main])
  \/ Reads("first wal", "second main", [probe EXCEPT !.first.wal = wal])
  \/ Reads("second main", "second wal", [probe EXCEPT !.second.main = main])
  \/ Reads("second wal", "compare", [probe EXCEPT !.second.wal = wal])

(* Mutant: one reading of the files is enough.                             *)
AlwaysStable == TRUE

Stable == probe.first = probe.second

ProbeCompares ==
  /\ probe.at = "compare"
  /\ probe' = CASE Stable -> [probe EXCEPT !.at = "copied", !.second = NoCopy]
                [] ~Stable /\ probe.attempt < MaxAttempts ->
                     [probe EXCEPT !.at = "first main", !.attempt = @ + 1,
                                   !.first = NoCopy, !.second = NoCopy]
                [] OTHER -> [probe EXCEPT !.at = "busy", !.first = NoCopy, !.second = NoCopy]
  /\ UNCHANGED <<past, main, wal, opening>>

(* What SQLite makes of a copy: pages of the log, else pages of the file.  *)
Copied == IF probe.first.wal = None THEN probe.first.main ELSE probe.first.wal.to
Consistent ==
  probe.first.wal # None => probe.first.main \in probe.first.wal.from .. probe.first.wal.to

Verdict(content) ==
  IF content.version \notin MinSupportedSchemaVersion .. SchemaVersion THEN "unsupported"
  ELSE IF \/ ~ Tables \cup {"revision", "id", "cleanup_after"} \subseteq content.objects
          \/ content.version = SchemaVersion /\ ~ {"group", "tags"} \subseteq content.objects
          \/ content.profile > content.revision
       THEN "corrupt" ELSE "accepted"

ProbeValidates ==
  /\ probe.at = "copied"
  /\ probe' = [probe EXCEPT !.at = IF Consistent THEN Verdict(past[Copied]) ELSE "corrupt",
                            !.first = NoCopy]
  /\ UNCHANGED <<past, main, wal, opening>>

-----------------------------------------------------------------------------
Process(p) ==
  \/ Open(p) \/ ReadVersion(p) \/ Create(p) \/ DrawId(p) \/ ReadId(p) \/ SetVersion(p)
  \/ \E c \in Columns : LookFor(p, c) \/ AddColumn(p, c) \/ LookAgain(p, c)
  \/ Fail(p) \/ Retry(p) \/ Stop(p) \/ Save(p)

Next ==
  \/ \E p \in Processes : Process(p)
  \/ Checkpoint \/ RemoveLog
  \/ ProbeBegins \/ ProbeReads \/ ProbeCompares \/ ProbeValidates

Spec == Init /\ [][Next]_vars

-----------------------------------------------------------------------------
(* Whatever processes create or upgrade the repository together and        *)
(* wherever one of them stops: a process that is ready finds every table,  *)
(* column and row, the current version, and the identifier everybody else  *)
(* has; and no process fails because of what another one did.              *)
OpeningsAgree ==
  \A p \in Processes :
    /\ opening[p].at = "ready" => /\ db.objects = Objects
                                  /\ db.version = SchemaVersion
                                  /\ db.id = opening[p].id
    /\ opening[p].at = "failed" => opening[p].failed

(* What the probe judges is the repository as it was at one moment since   *)
(* the probe began, whatever is committed and checkpointed meanwhile; in   *)
(* particular a repository that is being used is never taken for corrupt.  *)
ProbeSeesOneMoment ==
  /\ probe.at = "copied" => Consistent /\ Copied \in probe.since .. Len(past)
  /\ probe.at = "corrupt" => \E n \in probe.since .. Len(past) : past[n].objects # Objects

(* Both together.                                                          *)
RepositoryIsAgreedOn == OpeningsAgree /\ ProbeSeesOneMoment

-----------------------------------------------------------------------------
(* The inductive invariant, and the words its proof needs: what each       *)
(* statement of `initialize_schema` has seen to, what a commit keeps, and  *)
(* what the two readings of the App's look say about the files.  The proof *)
(* is in CredentialVaultProofs.                                            *)

(* The types of the state.                                                 *)
Identifiers == Processes \cup {None, "old"}
Content == [version : Nat, objects : SUBSET Objects, id : Identifiers, revision : Nat, profile : Nat]
Log == [from : Nat, to : Nat]
Copy == [main : Nat, wal : Log \cup {None}]
Opening ==
  [at : {"closed", "run", "add", "look again", "failed", "unsupported", "ready", "stopped"},
   next : 1..12, id : Identifiers, failed : BOOLEAN]
Reading == {"first main", "first wal", "second main", "second wal", "compare", "copied"}
Probe ==
  [at : Reading \cup {"none", "never", "fresh", "busy", "unsupported", "corrupt", "accepted"},
   attempt : Nat, first : Copy, second : Copy, since : Nat]

FileTypes ==
  /\ past \in Seq(Content) /\ main \in Nat /\ wal \in Log \cup {None}
  /\ opening \in [Processes -> Opening] /\ probe \in Probe

\* The log holds all that the file does not.
Files ==
  /\ main <= Len(past)
  /\ IF wal = None THEN main = Len(past) ELSE wal.from <= main /\ wal.to = Len(past)
  /\ \A n \in 1..Len(past) : past[n].profile <= past[n].revision

\* What the statements before the n-th have seen to.
Ensured(n) ==
  {o \in Objects : \/ o = "state" /\ n > 2
                   \/ o = "revision" /\ n > 3
                   \/ o = "profiles" /\ n > 4
                   \/ o = "group" /\ n > 5
                   \/ o = "tags" /\ n > 6
                   \/ o = "meta" /\ n > 7
                   \/ o = "id" /\ n > 8
                   \/ o = "cleanup" /\ n > 10
                   \/ o = "cleanup_after" /\ n > 11}

\* A process relies on what it has seen to, and fails only by itself.
OpeningFits(p) ==
  /\ opening[p].at \in {"run", "add", "look again", "ready"} =>
       Exists /\ Ensured(opening[p].next) \subseteq db.objects
  /\ opening[p].at \in {"run", "add", "look again", "ready"} /\ opening[p].next > 9 =>
       opening[p].id = db.id
  /\ opening[p].at = "ready" => opening[p].next = 12 /\ db.version = SchemaVersion
  /\ opening[p].at = "look again" =>
       opening[p].failed \/ \E c \in Columns : opening[p].next = Looks[c] /\ c \in db.objects
  /\ opening[p].at = "failed" => opening[p].failed

\* The file only grows, so that whoever read it twice without a change has
\* read the log that belongs to it in between.
OneMoment == Consistent /\ Copied \in probe.since .. Len(past)
ProbeFits ==
  /\ probe.at \in Reading \cup {"corrupt"} => probe.since \in 1..Len(past)
  /\ probe.at \in {"first wal", "second main"} => probe.first.main <= main
  /\ probe.at = "second main" /\ probe.first.main = main => OneMoment
  /\ probe.at \in {"second wal", "compare"} /\ probe.first.main = probe.second.main => OneMoment
  /\ probe.at = "copied" => OneMoment
  /\ probe.at = "corrupt" => \E n \in probe.since .. Len(past) : past[n].objects # Objects

\* The inductive invariant.
Inv == FileTypes /\ Files /\ (\A p \in Processes : OpeningFits(p)) /\ ProbeFits

-----------------------------------------------------------------------------
\* What a commit does to the files, when the content is right.
Keeps(content) ==
  /\ content \in Content /\ content.profile <= content.revision
  /\ Exists => /\ db.objects \subseteq content.objects
               /\ "id" \in db.objects => content.id = db.id
               /\ db.version = SchemaVersion => content.version = SchemaVersion
Grows ==
  /\ past' \in Seq(Content) /\ main' \in Nat /\ wal' \in Log \cup {None} /\ Files'
  /\ Len(past) <= Len(past') /\ main <= main'
  /\ \A n \in 1..Len(past) : past'[n] = past[n]
  /\ Exists => /\ Exists' /\ db.objects \subseteq db'.objects
               /\ "id" \in db.objects => db'.id = db.id
               /\ db.version = SchemaVersion => db'.version = SchemaVersion

=============================================================================
