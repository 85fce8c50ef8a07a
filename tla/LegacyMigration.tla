---------------------------- MODULE LegacyMigration ----------------------------
(***************************************************************************)
(* Importing the profiles of an earlier program (`migrate_legacy`) and     *)
(* verifying the credentials of all profiles (`verify_enabled_credentials`)*)
(* while other processes save and delete profiles.  Each call checks first *)
(* and relies later on the revision that nothing has changed: one step per *)
(* statement, transaction and access to the vault.  What a save or a       *)
(* deletion does in several steps is ConnectionRepository; here it is one. *)
(***************************************************************************)
EXTENDS Naturals, FiniteSets

CONSTANTS
  Callers,       \* processes; each makes one call
  Ids,           \* the profiles of the earlier program
  Refs,          \* references of the vault
  None,          \* no profile, no reference, no secret
  Empty,         \* the password of a profile without one
  MaxEdits,      \* bound: profiles saved and deleted by others
  MaxStops       \* bound: processes that stop

VARIABLES
  legacy,        \* the passwords of the profiles to import
  profiles, revision, complete,   \* the repository
  vault,         \* the secret of each reference
  rows,          \* pending_credential_cleanup: staged, or ready to be cleaned up
  call,          \* the call of each process
  removed        \* profiles that were deleted after the import was complete

vars == <<legacy, profiles, revision, complete, vault, rows, call, removed>>

Passwords == {"old", "new"}

LegacyMigrationAssumption ==
  /\ None \notin Refs \cup Ids \cup {Empty} \cup Passwords /\ Empty \notin Refs
  /\ None \notin [same : BOOLEAN, ref : Refs \cup {None}, revision : Nat]
  /\ MaxEdits \in Nat /\ MaxStops \in Nat

NoCall == [kind |-> None, at |-> "idle", todo |-> {}, id |-> None, record |-> None,
           scoped |-> FALSE, since |-> 0,
           verified |-> [i \in Ids |-> 0], missing |-> {}, conflict |-> FALSE,
           prepared |-> [i \in Ids |-> None], fresh |-> None, failed |-> FALSE]

Init ==
  /\ legacy \in [Ids -> {"old", Empty}]
  /\ profiles = [i \in Ids |-> None]
  /\ revision = 0
  /\ complete = FALSE
  /\ vault = [r \in Refs |-> None]
  /\ rows = [r \in Refs |-> "none"]
  /\ call = [c \in Callers |-> NoCall]
  /\ removed = {}

-----------------------------------------------------------------------------
Referenced(r) == \E i \in Ids : profiles[i] # None /\ profiles[i].ref = r

(* References are random and never drawn twice.                            *)
Unused(r) ==
  /\ vault[r] = None /\ rows[r] = "none" /\ ~Referenced(r)
  /\ \A c \in Callers : r # call[c].fresh /\ \A i \in Ids : r # call[c].prepared[i]

(* `cleanup_credential_with_pool`: what is still referenced stays.         *)
Cleaned(refs) ==
  /\ vault' = [r \in Refs |-> IF r \in refs /\ ~Referenced(r) THEN None ELSE vault[r]]
  /\ rows' = [r \in Refs |-> IF r \in refs THEN "none" ELSE rows[r]]

At(c, at) == call[c].at = at
Set(c, new) == call' = [call EXCEPT ![c] = new]
Goes(c, at) == Set(c, [call[c] EXCEPT !.at = at])

(* The call first retries the cleanups that are ready; each may fail.      *)
Migrate(c) ==
  /\ At(c, "idle")
  /\ Set(c, [NoCall EXCEPT !.kind = "migrate", !.at = "complete?"])
  /\ \E refs \in SUBSET {r \in Refs : rows[r] = "ready"} : Cleaned(refs)
  /\ UNCHANGED <<legacy, profiles, revision, complete, removed>>

CheckComplete(c) ==
  /\ At(c, "complete?")
  /\ IF complete THEN Goes(c, "scope") ELSE Set(c, [call[c] EXCEPT !.at = "compare", !.todo = Ids])
  /\ UNCHANGED <<legacy, profiles, revision, complete, vault, rows, removed>>

Verify(c) ==
  /\ At(c, "idle")
  /\ Set(c, [NoCall EXCEPT !.kind = "verify", !.at = "scope"])
  /\ UNCHANGED <<legacy, profiles, revision, complete, vault, rows, removed>>

(* The revision, and with it the profiles, that the checks are about.      *)
Scope(c) ==
  /\ At(c, "scope")
  /\ Set(c, [call[c] EXCEPT !.at = "compare", !.scoped = TRUE, !.since = revision,
               !.todo = IF call[c].kind = "migrate" THEN Ids
                        ELSE {i \in Ids : profiles[i] # None /\ profiles[i].ref # None}])
  /\ UNCHANGED <<legacy, profiles, revision, complete, vault, rows, removed>>

-----------------------------------------------------------------------------
(* One profile after the other: its record, then its secret.               *)
Matched(c, i, record) ==
  [call[c] EXCEPT !.at = "compare", !.todo = @ \ {i}, !.verified[i] = record.revision]
Conflicting(c, i) == [call[c] EXCEPT !.at = "compare", !.todo = @ \ {i}, !.conflict = TRUE]

ReadRecord(c) ==
  /\ At(c, "compare")
  /\ \E i \in call[c].todo :
       LET record == profiles[i]
           differs == call[c].kind = "migrate"
                        /\ (~record.same \/ (record.ref = None) # (legacy[i] = Empty))
       IN Set(c, IF record = None THEN [call[c] EXCEPT !.todo = @ \ {i}, !.missing = @ \cup {i}]
                 ELSE IF differs THEN Conflicting(c, i)
                 ELSE IF record.ref = None THEN Matched(c, i, record)
                 ELSE [call[c] EXCEPT !.at = "secret", !.id = i, !.record = record])
  /\ UNCHANGED <<legacy, profiles, revision, complete, vault, rows, removed>>

ReadSecret(c) ==
  /\ At(c, "secret")
  /\ LET secret == vault[call[c].record.ref]
         fits == IF call[c].kind = "migrate" THEN secret = legacy[call[c].id] ELSE secret # None
         new == IF fits THEN Matched(c, call[c].id, call[c].record) ELSE Conflicting(c, call[c].id)
     IN Set(c, [new EXCEPT !.id = None, !.record = None])
  /\ UNCHANGED <<legacy, profiles, revision, complete, vault, rows, removed>>

(* Mutant: the revision is not read again.                                 *)
NothingRechecked(c) == TRUE

Unchanged(c) == revision = call[c].since

(* An import that was complete, and a verification, end here.              *)
Compared(c) ==
  /\ At(c, "compare") /\ call[c].todo = {}
  /\ Goes(c, CASE call[c].conflict -> "failed"
               [] ~call[c].conflict /\ ~call[c].scoped -> "prepare"
               [] OTHER -> IF call[c].missing = {} /\ Unchanged(c) THEN "ok" ELSE "failed")
  /\ UNCHANGED <<legacy, profiles, revision, complete, vault, rows, removed>>

-----------------------------------------------------------------------------
(* What is missing gets its secret first, and a row that remembers it.     *)
Put(c) ==
  /\ At(c, "prepare")
  /\ \E i \in {j \in call[c].missing : call[c].prepared[j] = None} :
       IF legacy[i] = Empty
       THEN /\ Set(c, [call[c] EXCEPT !.prepared[i] = Empty])
            /\ UNCHANGED vault
       ELSE \E r \in Refs :
              /\ Unused(r)
              /\ vault' = [vault EXCEPT ![r] = legacy[i]]
              /\ Set(c, [call[c] EXCEPT !.at = "stage", !.id = i, !.fresh = r])
  /\ UNCHANGED <<legacy, profiles, revision, complete, rows, removed>>

Stage(c) ==
  /\ At(c, "stage")
  /\ rows' = [rows EXCEPT ![call[c].fresh] = "staged"]
  /\ Set(c, [call[c] EXCEPT !.at = "prepare", !.prepared[call[c].id] = call[c].fresh,
                            !.id = None, !.fresh = None])
  /\ UNCHANGED <<legacy, profiles, revision, complete, vault, removed>>

Prepared(c) == {i \in Ids : call[c].prepared[i] # None}
Reference(c, i) == IF call[c].prepared[i] = Empty THEN None ELSE call[c].prepared[i]

(* Mutant: the transaction does not look whether somebody has finished.    *)
ImportedAnyway(c) ==
  /\ \A i \in Ids : call[c].verified[i] > 0 =>
       profiles[i] # None /\ profiles[i].revision = call[c].verified[i]
  /\ \A i \in Prepared(c) : profiles[i] = None

(* Refused when somebody else has finished the import, or has changed what *)
(* was compared, or has created what was missing.                          *)
Importable(c) ==
  /\ ~complete
  /\ \A i \in Ids : call[c].verified[i] > 0 =>
       profiles[i] # None /\ profiles[i].revision = call[c].verified[i]
  /\ \A i \in Prepared(c) : profiles[i] = None

Imported(c) ==
  /\ revision' = IF Prepared(c) = {} THEN revision ELSE revision + 1
  /\ profiles' = [i \in Ids |->
       IF i \in Prepared(c)
       THEN [same |-> TRUE, ref |-> Reference(c, i), revision |-> revision']
       ELSE profiles[i]]
  /\ complete' = TRUE
  /\ rows' = [r \in Refs |-> IF \E i \in Prepared(c) : r = Reference(c, i) THEN "none" ELSE rows[r]]

ReadyToCommit(c) == At(c, "prepare") /\ call[c].missing = Prepared(c)

CommitMigration(c) ==
  /\ ReadyToCommit(c)
  /\ IF Importable(c) THEN Imported(c) /\ Goes(c, "ok")
     ELSE Goes(c, "undo") /\ UNCHANGED <<profiles, revision, complete, rows>>
  /\ UNCHANGED <<legacy, vault, removed>>

(* A commit whose answer is an error may have happened.                    *)
CommitUnanswered(c) ==
  /\ ReadyToCommit(c) /\ Importable(c) /\ ~call[c].failed
  /\ Imported(c)
  /\ Set(c, [call[c] EXCEPT !.at = "undo", !.failed = TRUE])
  /\ UNCHANGED <<legacy, vault, removed>>

Drawn(c) == {r \in Refs : r = call[c].fresh \/ \E i \in Ids : r = call[c].prepared[i]}
GivenUp(n, r) ==
  [n EXCEPT !.fresh = IF @ = r THEN None ELSE @,
            !.prepared = [i \in Ids |-> IF @[i] = r THEN None ELSE @[i]]]

(* Every prepared secret is scheduled for its cleanup, which is tried at   *)
(* once; the vault may refuse.                                             *)
Undo(c) ==
  /\ At(c, "undo")
  /\ IF Drawn(c) = {} THEN Goes(c, "failed") /\ UNCHANGED <<vault, rows>>
     ELSE \E r \in Drawn(c) :
            /\ \/ Cleaned({r})
               \/ ~Referenced(r) /\ rows' = [rows EXCEPT ![r] = "ready"] /\ UNCHANGED vault
            /\ Set(c, GivenUp(call[c], r))
  /\ UNCHANGED <<legacy, profiles, revision, complete, removed>>

(* The database or the vault fails a step, once a call.                    *)
Fail(c) ==
  /\ call[c].at \in {"complete?", "scope", "compare", "secret", "prepare", "stage"}
  /\ ~call[c].failed
  /\ Set(c, [call[c] EXCEPT !.failed = TRUE,
               !.at = IF @ \in {"prepare", "stage"} THEN "undo" ELSE "failed"])
  /\ UNCHANGED <<legacy, profiles, revision, complete, vault, rows, removed>>

(* The process stops.  It does not know anything any more; what it held    *)
(* stays written down here.                                                *)
Stop(c) ==
  /\ call[c].at \notin {"idle", "ok", "failed", "stopped"}
  /\ Cardinality({d \in Callers : At(d, "stopped")}) < MaxStops
  /\ Goes(c, "stopped")
  /\ UNCHANGED <<legacy, profiles, revision, complete, vault, rows, removed>>

-----------------------------------------------------------------------------
(* Others save a profile, with or without a new password, and delete one.  *)
Revised(i, profile) ==
  /\ revision < MaxEdits
  /\ revision' = revision + 1
  /\ profiles' = [profiles EXCEPT ![i] = profile]
  /\ UNCHANGED <<legacy, complete, call>>

RefOf(i) == IF profiles[i] = None THEN None ELSE profiles[i].ref

(* A new password gets a new reference, an empty one none; without either  *)
(* the stored one is kept.                                                 *)
SaveProfile(i) ==
  /\ \E same \in BOOLEAN :
       \/ /\ profiles[i] # None
          /\ Revised(i, [profiles[i] EXCEPT !.revision = revision + 1])
          /\ UNCHANGED vault
       \/ \E ref \in {None} \cup {r \in Refs : Unused(r)}, password \in Passwords :
            /\ Revised(i, [same |-> same, ref |-> ref, revision |-> revision + 1])
            /\ vault' = [r \in Refs |-> IF r = ref THEN password
                                      ELSE IF r = RefOf(i) THEN None ELSE vault[r]]
  /\ removed' = removed \ {i}
  /\ UNCHANGED rows

DeleteProfile(i) ==
  /\ profiles[i] # None
  /\ Revised(i, None)
  /\ vault' = [r \in Refs |-> IF r = RefOf(i) THEN None ELSE vault[r]]
  /\ removed' = IF complete THEN removed \cup {i} ELSE removed
  /\ UNCHANGED rows

-----------------------------------------------------------------------------
Call(c) ==
  \/ Migrate(c) \/ CheckComplete(c) \/ Verify(c) \/ Scope(c)
  \/ ReadRecord(c) \/ ReadSecret(c) \/ Compared(c)
  \/ Put(c) \/ Stage(c) \/ CommitMigration(c) \/ CommitUnanswered(c) \/ Undo(c)
  \/ Fail(c) \/ Stop(c)

Next ==
  \/ \E c \in Callers : Call(c)
  \/ \E i \in Ids : SaveProfile(i) \/ DeleteProfile(i)

Spec == Init /\ [][Next]_vars

-----------------------------------------------------------------------------
HasSecret(i) == profiles[i] # None /\ profiles[i].ref # None
Stored(i) ==
  /\ profiles[i] # None /\ profiles[i].same
  /\ IF legacy[i] = Empty THEN profiles[i].ref = None
     ELSE profiles[i].ref # None /\ vault[profiles[i].ref] = legacy[i]

(* At the moment a call reports success -- after which the earlier program *)
(* may delete its data -- all profiles it was given are stored with their  *)
(* passwords, whatever was saved or deleted while they were compared one   *)
(* by one; and at the moment a verification succeeds every profile has its *)
(* secret.                                                                 *)
SuccessMeansStored ==
  [][\A c \in Callers : ~At(c, "ok") /\ At(c, "ok")' =>
        IF call[c].kind = "migrate" THEN (\A i \in Ids : Stored(i))'
        ELSE (\A i \in Ids : HasSecret(i) => vault[profiles[i].ref] # None)']_vars

(* An import brings back no profile that was deleted after an import was   *)
(* complete; it leaves no profile without its secret, and no secret that   *)
(* neither a profile nor a row knows, unless its process stops between the *)
(* two steps.                                                              *)
NothingRevivedOrLost ==
  /\ \A i \in removed : profiles[i] = None
  /\ \A i \in Ids : HasSecret(i) => vault[profiles[i].ref] # None
  /\ \A r \in Refs : vault[r] # None /\ ~Referenced(r) /\ rows[r] = "none" =>
       \E c \in Callers : call[c].fresh = r

(* The two together: an import keeps the profiles and their secrets.       *)
ImportsKeepSecrets ==
  /\ SuccessMeansStored
  /\ NothingRevivedOrLost /\ [][NothingRevivedOrLost']_vars

-----------------------------------------------------------------------------
(* The inductive invariant: what a call that compared profiles one by one  *)
(* may still rely on, and who answers for each secret of the vault.  The   *)
(* proof is in CredentialVaultProofs.                                      *)

(* The types of the state.                                                 *)
Profile == [same : BOOLEAN, ref : Refs \cup {None}, revision : Nat]
CallRecord ==
  [kind : {None, "migrate", "verify"},
   at : {"idle", "complete?", "scope", "compare", "secret", "prepare", "stage", "undo",
         "ok", "failed", "stopped"},
   todo : SUBSET Ids, id : Ids \cup {None}, record : Profile \cup {None},
   scoped : BOOLEAN, since : Nat, verified : [Ids -> Nat], missing : SUBSET Ids,
   conflict : BOOLEAN, prepared : [Ids -> Refs \cup {None, Empty}],
   fresh : Refs \cup {None}, failed : BOOLEAN]

MigrationTypes ==
  /\ legacy \in [Ids -> {"old", Empty}] /\ profiles \in [Ids -> Profile \cup {None}]
  /\ revision \in Nat /\ complete \in BOOLEAN
  /\ vault \in [Refs -> Passwords \cup {None}] /\ rows \in [Refs -> {"none", "staged", "ready"}]
  /\ call \in [Callers -> CallRecord] /\ removed \in SUBSET Ids

\* Every saved profile has a revision, and a reference of its own with a
\* secret; nothing is removed before an import is complete.
Repository ==
  /\ \A i \in Ids : profiles[i] # None => profiles[i].revision \in 1..revision
  /\ \A i, j \in Ids : HasSecret(i) /\ HasSecret(j) /\ i # j => profiles[i].ref # profiles[j].ref
  /\ \A i \in Ids : HasSecret(i) => vault[profiles[i].ref] # None
  /\ \A i \in removed : profiles[i] = None
  /\ ~complete => removed = {}

\* The references a call has drawn and not given up are nobody else's.
Owned(n) == {n.fresh, None} \cup {n.prepared[i] : i \in Ids}
Alone(c) ==
  /\ \A d \in Callers : d # c => Owned(call[c]) \cap Owned(call[d]) \subseteq {None, Empty}
  /\ \A i, j \in Ids : i # j /\ call[c].prepared[i] = call[c].prepared[j] =>
                         call[c].prepared[i] \in {None, Empty}
  /\ \A i \in Ids : call[c].prepared[i] # None => call[c].prepared[i] # call[c].fresh

\* What the call n, a migration, has compared, and what it may conclude from
\* revisions: a profile with the revision that was compared is that profile.
HasRevision(i, revised) == profiles[i] # None /\ profiles[i].revision = revised
Compares(n) ==
  /\ \A i \in Ids : n.verified[i] <= revision
  /\ \A i \in Ids : \/ i \in n.todo \/ i \in n.missing \/ n.conflict
                    \/ n.at = "secret" /\ i = n.id
                    \/ n.verified[i] > 0
  /\ \A i \in Ids : n.verified[i] > 0 /\ HasRevision(i, n.verified[i]) => Stored(i)
ScopeFits(n) ==
  /\ n.since <= revision
  /\ n.since = revision => \A i \in Ids : n.verified[i] > 0 => HasRevision(i, n.verified[i])
ReadsSecret(n) ==
  /\ n.record.ref # None /\ n.record.revision \in 1..revision
  /\ n.record.same /\ legacy[n.id] # Empty
  /\ HasRevision(n.id, n.record.revision) => profiles[n.id] = n.record
  /\ n.scoped /\ n.since = revision => profiles[n.id] = n.record

\* What a migration has prepared waits for its profile, with a row; the
\* reference drawn last has none yet.
Waits(r, i, row) ==
  legacy[i] # Empty /\ vault[r] = legacy[i] /\ rows[r] = row /\ ~Referenced(r)
Prepares(n) ==
  /\ ~n.scoped /\ n.todo = {} /\ ~n.conflict
  /\ \A i \in Ids : /\ n.prepared[i] = Empty => legacy[i] = Empty
                    /\ n.prepared[i] \in Refs => Waits(n.prepared[i], i, "staged")
Draws(n) ==
  /\ n.id \in Ids /\ n.fresh \in Refs /\ n.prepared[n.id] = None
  /\ Waits(n.fresh, n.id, "none")

Fits(n) ==
  /\ n.at \in {"idle", "complete?", "scope", "compare", "secret"} =>
       n.fresh = None /\ \A i \in Ids : n.prepared[i] = None
  /\ n.at \in {"complete?", "scope"} => ~n.scoped /\ \A i \in Ids : n.verified[i] = 0
  /\ n.at \in {"compare", "secret", "prepare", "stage"} /\ n.kind = "migrate" =>
       Compares(n) /\ (n.scoped => ScopeFits(n))
  /\ n.at = "secret" => n.id \in Ids /\ n.record # None
  /\ n.at = "secret" /\ n.kind = "migrate" => ReadsSecret(n)
  /\ n.at \in {"prepare", "stage"} => Prepares(n)
  /\ n.at = "prepare" => n.fresh = None
  /\ n.at = "stage" => Draws(n)
CallFits(c) == Fits(call[c])

\* A secret that neither a profile nor a row knows is one a call has just put.
Answered ==
  \A r \in Refs : vault[r] # None /\ ~Referenced(r) /\ rows[r] = "none" =>
    \E c \in Callers : call[c].fresh = r

MInv ==
  /\ MigrationTypes /\ Repository /\ Answered
  /\ \A c \in Callers : Alone(c) /\ CallFits(c)

-----------------------------------------------------------------------------
\* What a step may do to the repository while a call compares: a profile that
\* keeps its revision stays, with its secret.
History ==
  /\ legacy' = legacy /\ revision \in Nat /\ revision' \in Nat /\ revision <= revision'
  /\ \A i \in Ids : \/ profiles'[i] = profiles[i] \/ profiles'[i] = None
                    \/ profiles'[i].revision > revision
  /\ revision' = revision => profiles' = profiles
  /\ \A i \in Ids : HasSecret(i) /\ profiles'[i] = profiles[i] =>
       vault'[profiles[i].ref] = vault[profiles[i].ref]

\* And to the references of a call it is not a step of.
Spares(n) ==
  \A r \in Owned(n) \cap Refs : ~Referenced(r) /\ rows[r] # "ready" =>
    vault'[r] = vault[r] /\ rows'[r] = rows[r] /\ ~Referenced(r)'

=============================================================================
