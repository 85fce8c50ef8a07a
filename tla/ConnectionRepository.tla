------------------------- MODULE ConnectionRepository -------------------------
(***************************************************************************)
(* The shared repository of connection profiles (connection_repository/)   *)
(* with the credential vault it refers to and the OS locks that keep a     *)
(* profile in use from being changed (connection_usage.rs).                *)
(*                                                                         *)
(* Every App process saves and deletes profiles; it runs one such          *)
(* operation at a time (application/connections.rs holds a mutex around    *)
(* it).  MCP servers only read, under a shared lock.  A secret lives in    *)
(* the vault under a random reference that a profile row then names, and   *)
(* the two are not written together: a table of pending cleanups records   *)
(* the references that may be left over.  Every SQL statement that runs    *)
(* alone, every transaction and every vault call is one action, and a      *)
(* process may stop between any two.                                       *)
(***************************************************************************)
EXTENDS Naturals

CONSTANTS
    Connections,    \* ids of connection profiles
    Apps,           \* App processes
    Clients,        \* MCP servers, each with at most one connection in use
    References,     \* the pool of credential references (random UUIDs)
    Endpoints,      \* endpoint, account and database of a profile
    FileEndpoint,   \* the endpoint of a SQLite profile, which has no password
    None,           \* no reference, no endpoint, no process
    MaxRevision     \* bound: nothing is committed past this revision

ASSUME NoneAssumption == None \notin Connections \cup Apps \cup References \cup Endpoints

VARIABLES
    revision,   \* shared_connection_state.revision
    profile,    \* shared_connections: revision, credential_ref and endpoint
    vault,      \* the endpoint each stored secret is bound to
    staged,     \* pending_credential_cleanup rows that wait for their writer
    ready,      \* pending_credential_cleanup rows that are due
    drawn,      \* history: references given out so far
    lost,       \* history: secrets whose writer stopped before it wrote a row
    guard,      \* owner of the exclusive lock on each connection
    op,         \* the save or delete each App runs
    client      \* the connection each MCP server uses

vars == <<revision, profile, vault, staged, ready, drawn, lost, guard, op, client>>
rows == <<revision, profile>>
secrets == <<vault, drawn>>
pending == <<staged, ready>>

Absent == [revision |-> 0, reference |-> None, endpoint |-> None]

Profile == {Absent} \cup
           [revision : Nat \ {0}, reference : References \cup {None}, endpoint : Endpoints]

Steps == {"idle", "list", "sweep", "unlist", "erase", "forget",
          "read", "put", "stage", "commit", "schedule"}

Operation == [step : Steps, kind : {"save", "delete"}, conn : Connections \cup {None},
              expected : Nat, endpoint : Endpoints \cup {None}, secret : BOOLEAN,
              old : References \cup {None}, fresh : References \cup {None},
              done : BOOLEAN, queue : SUBSET References, ref : References \cup {None}]

Idle == [step |-> "idle", kind |-> "save", conn |-> None, expected |-> 0,
         endpoint |-> None, secret |-> FALSE, old |-> None, fresh |-> None,
         done |-> FALSE, queue |-> {}, ref |-> None]

Client == [step : {"idle", "leased", "read", "open"}, conn : Connections \cup {None},
           record : Profile]

Unused == [step |-> "idle", conn |-> None, record |-> Absent]

Init ==
    /\ revision = 0
    /\ profile = [c \in Connections |-> Absent]
    /\ vault = [r \in References |-> None]
    /\ staged = {}
    /\ ready = {}
    /\ drawn = {}
    /\ lost = {}
    /\ guard = [c \in Connections |-> None]
    /\ op = [a \in Apps |-> Idle]
    /\ client = [k \in Clients |-> Unused]

-----------------------------------------------------------------------------
(* Building blocks                                                          *)

Referenced(r) == \E c \in Connections : profile[c].reference = r

InUse(c) == \E k \in Clients : client[k].step # "idle" /\ client[k].conn = c

(* The call of App a goes on as o.                                          *)
Proceed(a, o) == op' = [op EXCEPT ![a] = o]

Goto(a, step) == Proceed(a, [op[a] EXCEPT !.step = step])

(* Only the cleanup of these references is left to do.                      *)
CleanAndReturn(a, refs) ==
    Proceed(a, [Idle EXCEPT !.step = "sweep", !.conn = op[a].conn,
                            !.done = TRUE, !.queue = refs])

(* The reference in hand is dealt with.                                     *)
NextReference(a) == Proceed(a, [op[a] EXCEPT !.step = "sweep", !.ref = None])

(* The call returns, or its future is dropped, and with it the guard.       *)
Finish(a) ==
    /\ Proceed(a, Idle)
    /\ guard' = [guard EXCEPT ![op[a].conn] = None]

(* The reference the row will hold: a password typed now, else the one read *)
(* before; a SQLite profile that is updated drops its credential.           *)
NewReference(a) ==
    IF op[a].fresh # None THEN op[a].fresh
    ELSE IF op[a].endpoint = FileEndpoint THEN None
    ELSE op[a].old

(* The credential that the commit leaves without a profile.                 *)
Dropped(a) ==
    (IF op[a].kind = "delete" THEN {profile[op[a].conn].reference}
                              ELSE {op[a].old} \ {NewReference(a)}) \ {None}

(* A secret of the operation that neither a row nor a profile mentions.     *)
Untracked(a) == {r \in {op[a].fresh} \ (staged \cup ready \cup {None}) : ~ Referenced(r)}

-----------------------------------------------------------------------------
(* The call starts under the exclusive lock                                 *)

(* Variant: the lock does not see the shared locks of MCP servers.          *)
LockIgnoringClients(a, c) == guard[c] = None /\ guard' = [guard EXCEPT ![c] = a]

(* ConnectionUsageLocks::try_acquire_mutation                               *)
AcquireMutationGuard(a, c) ==
    /\ guard[c] = None
    /\ ~ InUse(c)
    /\ guard' = [guard EXCEPT ![c] = a]

(* expected = 0 stands for a request without expected_revision: a create.   *)
BeginSave(a, c, expected, endpoint, secret) ==
    /\ op[a].step = "idle"
    /\ AcquireMutationGuard(a, c)
    /\ Proceed(a, [Idle EXCEPT !.step = "list", !.conn = c, !.secret = secret,
                               !.expected = expected, !.endpoint = endpoint])
    /\ UNCHANGED <<rows, secrets, pending, lost, client>>

BeginDelete(a, c, expected) ==
    /\ op[a].step = "idle"
    /\ AcquireMutationGuard(a, c)
    /\ Proceed(a, [Idle EXCEPT !.step = "list", !.kind = "delete", !.conn = c,
                               !.expected = expected])
    /\ UNCHANGED <<rows, secrets, pending, lost, client>>

-----------------------------------------------------------------------------
(* Cleanup of credentials that are due                                      *)

(* retry_pending_credential_cleanup reads the rows that are due, or fails   *)
(* to, and the operation goes on all the same.                              *)
ListReady(a) ==
    /\ op[a].step = "list"
    /\ \E due \in {ready, {}} :
           Proceed(a, [op[a] EXCEPT !.step = "sweep", !.queue = due])
    /\ UNCHANGED <<rows, secrets, pending, lost, guard, client>>

(* Variant: the cleanup does not ask whether a profile holds the reference. *)
SkipCount(a) ==
    /\ op[a].step = "sweep"
    /\ \E r \in op[a].queue :
           Proceed(a, [op[a] EXCEPT !.step = "erase", !.ref = r, !.queue = @ \ {r}])
    /\ UNCHANGED <<rows, secrets, pending, lost, guard, client>>

(* cleanup_credential_with_pool counts the profiles that hold the reference *)
CountReferences(a) ==
    /\ op[a].step = "sweep"
    /\ \E r \in op[a].queue :
           Proceed(a, [op[a] EXCEPT !.step = IF Referenced(r) THEN "unlist" ELSE "erase",
                                    !.ref = r, !.queue = @ \ {r}])
    /\ UNCHANGED <<rows, secrets, pending, lost, guard, client>>

CountFails(a) ==
    /\ op[a].step = "sweep"
    /\ \E r \in op[a].queue : Proceed(a, [op[a] EXCEPT !.queue = @ \ {r}])
    /\ UNCHANGED <<rows, secrets, pending, lost, guard, client>>

(* DELETE ... AND EXISTS: only while some profile still holds the reference *)
Unlist(a) ==
    /\ op[a].step = "unlist"
    /\ LET kept == {r \in {op[a].ref} : Referenced(r)}
       IN  staged' = staged \ kept /\ ready' = ready \ kept
    /\ NextReference(a)
    /\ UNCHANGED <<rows, secrets, lost, guard, client>>

(* vault.delete                                                             *)
Erase(a) ==
    /\ op[a].step = "erase"
    /\ vault' = [vault EXCEPT ![op[a].ref] = None]
    /\ Goto(a, "forget")
    /\ UNCHANGED <<rows, drawn, pending, lost, guard, client>>

Forget(a) ==
    /\ op[a].step = "forget"
    /\ staged' = staged \ {op[a].ref}
    /\ ready' = ready \ {op[a].ref}
    /\ NextReference(a)
    /\ UNCHANGED <<rows, secrets, lost, guard, client>>

(* The vault or the database refuses: the row stays for a later retry.      *)
CleanFails(a) ==
    /\ op[a].step \in {"unlist", "erase", "forget"}
    /\ NextReference(a)
    /\ UNCHANGED <<rows, secrets, pending, lost, guard, client>>

(* An update, a create with a password, and a create without or a delete.   *)
FirstStep(a) ==
    CASE op[a].kind = "save" /\ op[a].expected # 0 -> "read"
      [] op[a].kind = "save" /\ op[a].expected = 0 /\ op[a].secret -> "put"
      [] OTHER -> "commit"

(* After the retry the operation itself begins; after its own cleanup it    *)
(* returns.                                                                 *)
SweepDone(a) ==
    /\ op[a].step = "sweep"
    /\ op[a].queue = {}
    /\ IF op[a].done THEN Finish(a)
       ELSE Goto(a, FirstStep(a)) /\ UNCHANGED guard
    /\ UNCHANGED <<rows, secrets, pending, lost, client>>

-----------------------------------------------------------------------------
(* Save: read, put, stage, commit                                           *)

(* An update writes a secret when one was typed and the engine has one.     *)
AfterRead(a) ==
    IF op[a].secret /\ op[a].endpoint # FileEndpoint THEN "put" ELSE "commit"

(* Variant: an unchanged password follows the profile to another endpoint.  *)
ReadWithoutFingerprint(a) ==
    /\ op[a].step = "read"
    /\ profile[op[a].conn].revision = op[a].expected
    /\ Proceed(a, [op[a] EXCEPT !.old = profile[op[a].conn].reference,
                                !.step = AfterRead(a)])
    /\ UNCHANGED <<rows, secrets, pending, lost, guard, client>>

(* update() reads the record: the expected revision, and without a new      *)
(* password the endpoint the stored one was saved for.                      *)
ReadRecord(a) ==
    LET current == profile[op[a].conn]
    IN  /\ op[a].step = "read"
        /\ current.revision = op[a].expected
        /\ \/ op[a].secret
           \/ op[a].endpoint \in {FileEndpoint, current.endpoint}
           \/ current.reference = None
        /\ Proceed(a, [op[a] EXCEPT !.old = current.reference, !.step = AfterRead(a)])
        /\ UNCHANGED <<rows, secrets, pending, lost, guard, client>>

(* Not found, a conflict, CredentialReentryRequired, or an error.           *)
ReadFails(a) ==
    /\ op[a].step = "read"
    /\ Finish(a)
    /\ UNCHANGED <<rows, secrets, pending, lost, client>>

(* vault.put under a reference nobody has had                               *)
Put(a) ==
    /\ op[a].step = "put"
    /\ \E r \in References \ drawn :
           /\ drawn' = drawn \cup {r}
           /\ vault' = [vault EXCEPT ![r] = op[a].endpoint]
           /\ Proceed(a, [op[a] EXCEPT !.step = "stage", !.fresh = r])
    /\ UNCHANGED <<rows, pending, lost, guard, client>>

PutFails(a) ==
    /\ op[a].step = "put"
    /\ Finish(a)
    /\ UNCHANGED <<rows, secrets, pending, lost, client>>

(* stage_credential_cleanup: a row that no retry looks at.                  *)
Stage(a) ==
    /\ op[a].step = "stage"
    /\ staged' = staged \cup {op[a].fresh}
    /\ Goto(a, "commit")
    /\ UNCHANGED <<rows, secrets, ready, lost, guard, client>>

(* An error says nothing about whether the row was written.                 *)
StageFails(a) ==
    /\ op[a].step = "stage"
    /\ staged' \in {staged, staged \cup {op[a].fresh}}
    /\ Goto(a, "schedule")
    /\ UNCHANGED <<rows, secrets, ready, lost, guard, client>>

-----------------------------------------------------------------------------
(* The transaction, its failure and the cleanup that follows                *)

(* INSERT (expected = 0: no such row), UPDATE or DELETE under the expected  *)
(* revision, the next revision, and the cleanup rows, all or nothing.       *)
WriteRows(a) ==
    /\ op[a].step = "commit"
    /\ revision < MaxRevision
    /\ profile[op[a].conn].revision = op[a].expected
    /\ revision' = revision + 1
    /\ profile' = [profile EXCEPT ![op[a].conn] =
                       IF op[a].kind = "delete" THEN Absent
                       ELSE [revision |-> revision', reference |-> NewReference(a),
                             endpoint |-> op[a].endpoint]]
    /\ staged' = staged \ {NewReference(a)}
    /\ ready' = (ready \cup (Dropped(a) \ staged)) \ {NewReference(a)}

(* The replaced or deleted credential is cleaned up right away.             *)
Commit(a) ==
    /\ WriteRows(a)
    /\ CleanAndReturn(a, Dropped(a))
    /\ UNCHANGED <<secrets, lost, guard, client>>

(* A failed call returns; one that wrote a secret has it cleaned up first.  *)
GiveUp(a) ==
    IF op[a].fresh = None THEN Finish(a) ELSE Goto(a, "schedule") /\ UNCHANGED guard

(* The write took effect, its confirmation was lost.                        *)
CommitUnconfirmed(a) ==
    /\ WriteRows(a)
    /\ GiveUp(a)
    /\ UNCHANGED <<secrets, lost, client>>

(* A conflict or an error: nothing was written.                             *)
CommitFails(a) ==
    /\ op[a].step = "commit"
    /\ GiveUp(a)
    /\ UNCHANGED <<rows, secrets, pending, lost, client>>

(* schedule_credential_cleanup: the row is due from now on.                 *)
Schedule(a) ==
    /\ op[a].step = "schedule"
    /\ staged' = staged \ {op[a].fresh}
    /\ ready' = ready \cup {op[a].fresh}
    /\ CleanAndReturn(a, {op[a].fresh})
    /\ UNCHANGED <<rows, secrets, lost, guard, client>>

ScheduleFails(a) ==
    /\ op[a].step = "schedule"
    /\ lost' = lost \cup Untracked(a)
    /\ Finish(a)
    /\ UNCHANGED <<rows, secrets, pending, client>>

(* The process ends or drops the call at an await; the kernel drops its     *)
(* lock, SQLite the transaction it had open.                                *)
Abandon(a) ==
    /\ op[a].step # "idle"
    /\ lost' = lost \cup (IF op[a].step \in {"stage", "schedule"} THEN Untracked(a) ELSE {})
    /\ Finish(a)
    /\ UNCHANGED <<rows, secrets, pending, client>>

-----------------------------------------------------------------------------
(* MCP servers                                                              *)

(* ConnectionUsageLocks::try_acquire_usage                                  *)
AcquireUsage(k, c) ==
    /\ client[k].step = "idle"
    /\ guard[c] = None
    /\ client' = [client EXCEPT ![k] = [Unused EXCEPT !.step = "leased", !.conn = c]]
    /\ UNCHANGED <<rows, secrets, pending, lost, guard, op>>

(* Catalog::profile, then resolve_config in two awaits                      *)
ReadProfile(k) ==
    /\ client[k].step = "leased"
    /\ profile[client[k].conn] # Absent
    /\ client' = [client EXCEPT ![k].step = "read", ![k].record = profile[client[k].conn]]
    /\ UNCHANGED <<rows, secrets, pending, lost, guard, op>>

OpenDriver(k) ==
    /\ client[k].step = "read"
    /\ client[k].record.reference # None =>
           vault[client[k].record.reference] = client[k].record.endpoint
    /\ client' = [client EXCEPT ![k].step = "open"]
    /\ UNCHANGED <<rows, secrets, pending, lost, guard, op>>

(* A failure, a disconnect, or the end of the process                       *)
ReleaseUsage(k) ==
    /\ client[k].step # "idle"
    /\ client' = [client EXCEPT ![k] = Unused]
    /\ UNCHANGED <<rows, secrets, pending, lost, guard, op>>

Begin(a) ==
    \E c \in Connections, expected \in 0..revision :
        \/ \E endpoint \in Endpoints, secret \in BOOLEAN :
               BeginSave(a, c, expected, endpoint, secret)
        \/ expected # 0 /\ BeginDelete(a, c, expected)

Continue(a) ==
    \/ ListReady(a) \/ CountReferences(a) \/ CountFails(a) \/ Unlist(a)
    \/ Erase(a) \/ Forget(a) \/ CleanFails(a) \/ SweepDone(a)
    \/ ReadRecord(a) \/ ReadFails(a) \/ Put(a) \/ PutFails(a)
    \/ Stage(a) \/ StageFails(a)
    \/ Commit(a) \/ CommitUnconfirmed(a) \/ CommitFails(a)
    \/ Schedule(a) \/ ScheduleFails(a) \/ Abandon(a)

Use(k) ==
    \/ \E c \in Connections : AcquireUsage(k, c)
    \/ ReadProfile(k) \/ OpenDriver(k) \/ ReleaseUsage(k)

Next ==
    \/ \E a \in Apps : Begin(a) \/ Continue(a)
    \/ \E k \in Clients : Use(k)

Spec == Init /\ [][Next]_vars

-----------------------------------------------------------------------------
(* Properties                                                               *)

TypeOK ==
    /\ revision \in Nat
    /\ profile \in [Connections -> Profile]
    /\ vault \in [References -> Endpoints \cup {None}]
    /\ staged \in SUBSET References
    /\ ready \in SUBSET References
    /\ drawn \in SUBSET References
    /\ lost \in SUBSET References
    /\ guard \in [Connections -> Apps \cup {None}]
    /\ op \in [Apps -> Operation]
    /\ client \in [Clients -> Client]

(* The secret a profile names is in the vault, although cleanups that other *)
(* processes began earlier erase secrets at any moment (mutations.rs        *)
(* cleanup_credential_with_pool).                                           *)
NoDanglingReference ==
    \A c \in Connections :
        profile[c].reference # None => vault[profile[c].reference] # None

(* A stored password is never sent anywhere but to the endpoint, account    *)
(* and database it was typed for (mutations.rs update, fingerprint check).  *)
SecretStaysWithEndpoint ==
    \A c \in Connections :
        profile[c].reference # None =>
            vault[profile[c].reference] \in {None, profile[c].endpoint}

(* No secret is forgotten: it is in use, listed for cleanup, held by a call *)
(* that will list it, or its writer stopped before it could write a row.    *)
NoForgottenSecret ==
    \A r \in References :
        vault[r] # None =>
            \/ Referenced(r)
            \/ r \in staged \cup ready \cup lost
            \/ \E a \in Apps : op[a].step \in {"stage", "schedule"} /\ op[a].fresh = r

(* Secrets and profiles match, both ways.                                   *)
SecretsFitProfiles == NoDanglingReference /\ NoForgottenSecret

(* While an MCP server holds its lease the configuration it read remains    *)
(* the stored one and its password stays readable (docs/mcp.md, leases).    *)
LeasedConfigIsCurrent ==
    \A k \in Clients :
        client[k].step \in {"read", "open"} =>
            /\ profile[client[k].conn] = client[k].record
            /\ client[k].record.reference # None =>
                   vault[client[k].record.reference] = client[k].record.endpoint

(* A credential that a call is about to commit is nobody's to clean up.     *)
NoCleanupOfCandidate ==
    \A a, b \in Apps :
        op[a].step \in {"stage", "commit"} /\ op[a].fresh # None =>
            /\ op[a].fresh \notin ready
            /\ op[b].step \in {"erase", "forget", "unlist"} => op[b].ref # op[a].fresh
=============================================================================
