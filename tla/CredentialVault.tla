--------------------------- MODULE CredentialVault ---------------------------
\* The credential vault (credential_vault/system.rs, envelope.rs): passwords are
\* encrypted with one master key that the keyring of the operating system keeps,
\* and stored as envelopes in an SQLite file that all processes share.  Older
\* versions kept each password in the keyring: an App moves such an item into an
\* envelope when it is first read; a sidecar never touches it.
\*
\* A process has one vault, whose operation_lock admits one call at a time.  A
\* transaction begins with BEGIN IMMEDIATE, so it owns the file's write lock
\* until it ends, while the keyring, which may ask the user, is waited for.
\* What it writes is written by its last statement, so statement and COMMIT are
\* one step.  A keyring item is read, written or removed in one step.
EXTENDS Naturals

CONSTANTS
  Apps, Sidecars,  \* processes
  References, None,
  MaxKeys          \* master keys ever generated

ASSUME ProcessesAssumption == Apps \cap Sidecars = {} /\ None \notin Apps \cup Sidecars \cup References
ASSUME KeysAssumption == MaxKeys \in Nat

VARIABLES
  master,    \* keyring: the master key, or 0
  legacy,    \* keyring: references with an item of their own
  envelopes, \* credential_envelopes: [reference -> envelope or None]
  writer,    \* the process whose transaction holds the write lock
  cached,    \* master_key: [process -> key or 0]
  op,        \* the call a process is in
  keys,      \* master keys generated so far
  used,      \* references a profile was ever given
  asked,     \* history: references whose deletion was asked for
  gone       \* history: references whose deletion succeeded

vars == <<master, legacy, envelopes, writer, cached, op, keys, used, asked, gone>>
keyring == <<master, legacy, keys>>
history == <<used, asked, gone>>

Processes == Apps \cup Sidecars
Envelope == [key : 1..MaxKeys, pending : BOOLEAN]
ASSUME NoneAssumption == None \notin Envelope
Idle == [name |-> "none", ref |-> None, step |-> "idle", key |-> 0, pending |-> FALSE,
         empty |-> FALSE]
Steps == {"idle", "verify", "bootstrap", "read", "store", "insert", "load", "decrypt", "migrate",
          "legacy", "reverify", "copy", "cleanup", "clear", "mark", "delete", "erase", "remove"}
Op == [name : {"none", "put", "get", "delete"}, ref : References \cup {None}, step : Steps,
       key : 0..MaxKeys, pending : BOOLEAN, empty : BOOLEAN]

TypeOK ==
  /\ master \in 0..MaxKeys /\ keys \in 0..MaxKeys
  /\ legacy \subseteq References
  /\ envelopes \in [References -> Envelope \cup {None}]
  /\ writer \in Processes \cup {None}
  /\ cached \in [Processes -> 0..MaxKeys]
  /\ op \in [Processes -> Op]
  /\ used \subseteq References /\ asked \subseteq References /\ gone \subseteq References

\* Passwords of an older version may be there, and nothing else yet.
Init ==
  /\ master = 0 /\ keys = 0 /\ legacy \in SUBSET References
  /\ envelopes = [r \in References |-> None]
  /\ writer = None
  /\ cached = [p \in Processes |-> 0]
  /\ op = [p \in Processes |-> Idle]
  /\ used = legacy /\ asked = {} /\ gone = {}

At(p, step) == op[p].step = step
GoTo(p, step) == op' = [op EXCEPT ![p].step = step]
End(p) == op' = [op EXCEPT ![p] = Idle]
Stored(p) == envelopes[op[p].ref]
Lock(p) == writer = None /\ writer' = p
Release(p) == writer' = IF writer = p THEN None ELSE writer

-----------------------------------------------------------------------------
(* The master key                                                           *)

\* What a call does once it has the key.
Keyed(o) == IF o.name = "put" THEN "insert" ELSE IF o.key # 0 THEN "decrypt" ELSE "migrate"

\* bootstrap_master: the transaction sees whether there are envelopes ...
BootstrapUnlocked(p) ==
  /\ At(p, "bootstrap")
  /\ op' = [op EXCEPT ![p].step = "read", ![p].empty = \A r \in References : envelopes[r] = None]
  /\ UNCHANGED <<keyring, envelopes, writer, cached, history>>

Bootstrap(p) ==
  /\ At(p, "bootstrap") /\ Lock(p)
  /\ op' = [op EXCEPT ![p].step = "read", ![p].empty = \A r \in References : envelopes[r] = None]
  /\ UNCHANGED <<keyring, envelopes, cached, history>>

\* The process remembers the key; a call of put encrypts with it.
Remembers(p, key) ==
  /\ cached' = [cached EXCEPT ![p] = key]
  /\ op' = [op EXCEPT ![p].step = Keyed(op[p]), ![p].key = IF op[p].name = "put" THEN key ELSE op[p].key]
  /\ Release(p)

\* ... then the keyring is read; a missing key is replaced only if there are
\* no envelopes.
ReadMaster(p) ==
  /\ At(p, "read")
  /\ \/ master # 0 /\ Remembers(p, master)
     \/ master = 0 /\ op[p].empty /\ GoTo(p, "store") /\ UNCHANGED <<writer, cached>>
  /\ UNCHANGED <<keyring, envelopes, history>>

StoreMaster(p) ==
  /\ At(p, "store") /\ keys < MaxKeys
  /\ keys' = keys + 1 /\ master' = keys'
  /\ Remembers(p, keys')
  /\ UNCHANGED <<legacy, envelopes, history>>

\* verify_cached_master_for_write: before an envelope is written the keyring
\* must still have the key that the process remembers.
Verify(p) ==
  /\ op[p].step \in {"verify", "reverify"} /\ master = cached[p] /\ master # 0
  /\ op' = [op EXCEPT ![p].step = IF At(p, "verify") THEN "insert" ELSE "copy", ![p].key = master]
  /\ UNCHANGED <<keyring, envelopes, writer, cached, history>>

-----------------------------------------------------------------------------
(* put                                                                      *)

BeginPut(p) ==
  /\ At(p, "idle") /\ p \in Apps
  /\ op' = [op EXCEPT ![p] = [Idle EXCEPT !.name = "put",
                                          !.step = IF cached[p] = 0 THEN "bootstrap" ELSE "verify"]]
  /\ UNCHANGED <<keyring, envelopes, writer, cached, history>>

\* A reference is drawn; the statement waits for the write lock.
Insert(p) ==
  /\ At(p, "insert") /\ writer = None
  /\ \E r \in References \ used :
       /\ envelopes' = [envelopes EXCEPT ![r] = [key |-> op[p].key, pending |-> FALSE]]
       /\ used' = used \cup {r}
  /\ End(p)
  /\ UNCHANGED <<keyring, writer, cached, asked, gone>>

-----------------------------------------------------------------------------
(* get                                                                      *)

BeginGet(p, r) ==
  /\ At(p, "idle") /\ r \in used
  /\ op' = [op EXCEPT ![p] = [Idle EXCEPT !.name = "get", !.ref = r, !.step = "load"]]
  /\ UNCHANGED <<keyring, envelopes, writer, cached, history>>

\* An envelope is decrypted; without one the item of an older version is moved.
\* A sidecar refuses what an App has still to do.
Load(p) ==
  /\ At(p, "load")
  /\ \/ /\ Stored(p) # None /\ (p \in Sidecars => ~Stored(p).pending)
        /\ op' = [op EXCEPT ![p].step = IF cached[p] = 0 THEN "bootstrap" ELSE "decrypt",
                            ![p].key = Stored(p).key, ![p].pending = Stored(p).pending]
     \/ /\ Stored(p) = None /\ p \in Apps
        /\ GoTo(p, IF cached[p] = 0 THEN "bootstrap" ELSE "migrate")
  /\ UNCHANGED <<keyring, envelopes, writer, cached, history>>

Decrypt(p) ==
  /\ At(p, "decrypt") /\ op[p].key = cached[p]
  /\ IF op[p].pending THEN GoTo(p, "cleanup") ELSE End(p)
  /\ UNCHANGED <<keyring, envelopes, writer, cached, history>>

\* migrate_legacy: another process may have moved the item meanwhile.
\* Mutant: the transaction begins with the insertion.
MigrateUnlocked(p) ==
  /\ At(p, "migrate") /\ Stored(p) = None
  /\ GoTo(p, "legacy")
  /\ UNCHANGED <<keyring, envelopes, writer, cached, history>>

Migrate(p) ==
  /\ At(p, "migrate") /\ writer = None
  /\ \/ /\ Stored(p) # None
        /\ op' = [op EXCEPT ![p].step = "decrypt", ![p].key = Stored(p).key,
                            ![p].pending = Stored(p).pending]
        /\ UNCHANGED writer
     \/ Stored(p) = None /\ GoTo(p, "legacy") /\ writer' = p
  /\ UNCHANGED <<keyring, envelopes, cached, history>>

ReadLegacy(p) ==
  /\ At(p, "legacy") /\ op[p].ref \in legacy
  /\ GoTo(p, "reverify")
  /\ UNCHANGED <<keyring, envelopes, writer, cached, history>>

\* The envelope is committed before the item is removed.
Copy(p) ==
  /\ At(p, "copy")
  /\ envelopes' = [envelopes EXCEPT ![op[p].ref] = [key |-> op[p].key, pending |-> TRUE]]
  /\ GoTo(p, "cleanup") /\ Release(p)
  /\ UNCHANGED <<keyring, cached, history>>

-----------------------------------------------------------------------------
(* cleanup_legacy_if_pending                                                *)

Cleanup(p) ==
  /\ At(p, "cleanup") /\ writer = None
  /\ IF Stored(p) # None /\ Stored(p).pending
     THEN GoTo(p, "clear") /\ writer' = p
     ELSE End(p) /\ UNCHANGED writer
  /\ UNCHANGED <<keyring, envelopes, cached, history>>

ClearLegacy(p) ==
  /\ At(p, "clear")
  /\ legacy' = legacy \ {op[p].ref}
  /\ GoTo(p, "mark")
  /\ UNCHANGED <<master, keys, envelopes, writer, cached, history>>

Mark(p) ==
  /\ At(p, "mark")
  /\ envelopes' = [envelopes EXCEPT ![op[p].ref].pending = FALSE]
  /\ End(p) /\ Release(p)
  /\ UNCHANGED <<keyring, cached, history>>

-----------------------------------------------------------------------------
(* delete                                                                   *)

BeginDelete(p, r) ==
  /\ At(p, "idle") /\ r \in used
  /\ op' = [op EXCEPT ![p] = [Idle EXCEPT !.name = "delete", !.ref = r, !.step = "delete"]]
  /\ asked' = asked \cup {r}
  /\ UNCHANGED <<keyring, envelopes, writer, cached, used, gone>>

\* An item of an older version goes first, if there may be one.
Delete(p) ==
  LET old == Stored(p) = None \/ Stored(p).pending
  IN /\ At(p, "delete") /\ Lock(p) /\ (p \in Sidecars => ~old)
     /\ GoTo(p, IF old THEN "erase" ELSE "remove")
     /\ UNCHANGED <<keyring, envelopes, cached, history>>

EraseLegacy(p) ==
  /\ At(p, "erase")
  /\ legacy' = legacy \ {op[p].ref}
  /\ GoTo(p, "remove")
  /\ UNCHANGED <<master, keys, envelopes, writer, cached, history>>

Remove(p) ==
  /\ At(p, "remove")
  /\ envelopes' = [envelopes EXCEPT ![op[p].ref] = None]
  /\ gone' = gone \cup {op[p].ref}
  /\ End(p) /\ Release(p)
  /\ UNCHANGED <<keyring, cached, used, asked>>

-----------------------------------------------------------------------------
(* Failures                                                                 *)

\* The keyring or the file answers with an error, the wait for the lock times
\* out, a check fails: the transaction is rolled back.
Fail(p) ==
  /\ ~At(p, "idle")
  /\ End(p) /\ Release(p)
  /\ UNCHANGED <<keyring, envelopes, cached, history>>

\* The process stops and another takes its place.
Crash(p) ==
  /\ End(p) /\ Release(p)
  /\ cached' = [cached EXCEPT ![p] = 0]
  /\ UNCHANGED <<keyring, envelopes, history>>

\* The user removes the master key from the keyring, but not between the last
\* look at it and the insertion of put, which no transaction protects.
RemoveMaster ==
  /\ master # 0 /\ \A p \in Processes : ~At(p, "insert")
  /\ master' = 0
  /\ UNCHANGED <<legacy, keys, envelopes, writer, cached, op, history>>

-----------------------------------------------------------------------------

Step(p) ==
  \/ Bootstrap(p) \/ ReadMaster(p) \/ StoreMaster(p) \/ Verify(p)
  \/ BeginPut(p) \/ Insert(p)
  \/ Load(p) \/ Decrypt(p) \/ Migrate(p) \/ ReadLegacy(p) \/ Copy(p)
  \/ Cleanup(p) \/ ClearLegacy(p) \/ Mark(p)
  \/ Delete(p) \/ EraseLegacy(p) \/ Remove(p)
  \/ Fail(p) \/ Crash(p)

Next ==
  \/ \E p \in Processes : Step(p) \/ \E r \in References : BeginGet(p, r) \/ BeginDelete(p, r)
  \/ RemoveMaster

Spec == Init /\ [][Next]_vars

-----------------------------------------------------------------------------
(* Properties *)

\* All envelopes can be opened with one key, and while the keyring has a key it
\* is that one: processes that start together agree on the key, and a key that
\* was lost is never replaced while something is encrypted with it.
OneKeyOpensAll ==
  \A r \in References : envelopes[r] # None =>
    /\ master \in {0, envelopes[r].key}
    /\ \A s \in References : envelopes[s] # None => envelopes[s].key = envelopes[r].key

\* A password is in the keyring or in an envelope until its deletion is asked
\* for, in both only while the envelope says so, and never comes back once it
\* was deleted: whatever fails, stops or overlaps.
SecretsLiveUntilDeleted ==
  \A r \in References :
    /\ r \in used \ asked => r \in legacy \/ envelopes[r] # None
    /\ r \in legacy /\ envelopes[r] # None => envelopes[r].pending
    /\ r \in gone => r \notin legacy /\ envelopes[r] = None
=============================================================================
