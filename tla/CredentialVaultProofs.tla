----------------------- MODULE CredentialVaultProofs -----------------------
(***************************************************************************)
(* TLAPS proofs about CredentialVault: types, that one key opens all       *)
(* envelopes, and that a password lives exactly until it is deleted, for   *)
(* any number of processes, references and keys.  About Startup as well:   *)
(* that imports keep the passwords they put into the vault, and that       *)
(* processes agree on the file of the repository they open.                *)
(***************************************************************************)
EXTENDS CredentialVault, Startup, Sequences, TLAPS

-----------------------------------------------------------------------------
(* The inductive invariant *)

\* The steps inside of a transaction.
Locked == {"read", "store", "legacy", "reverify", "copy", "clear", "mark", "erase", "remove"}
\* The steps of get that work on its reference, and those of delete.
GetSteps == {"load", "decrypt", "migrate", "legacy", "reverify", "copy", "cleanup", "clear", "mark"}
DeleteSteps == {"delete", "erase", "remove"}

NoEnvelopes == \A r \in References : envelopes[r] = None

\* What process p relies on in its master key ...
KeyInv(p) ==
  /\ op[p].step \in Locked => writer = p
  /\ At(p, "read") /\ op[p].empty => NoEnvelopes
  /\ At(p, "store") => master = 0 /\ NoEnvelopes
  /\ At(p, "insert") => master = op[p].key /\ op[p].key # 0
  /\ At(p, "copy") =>
       /\ op[p].key # 0 /\ master \in {0, op[p].key}
       /\ \A r \in References : envelopes[r] # None => envelopes[r].key = op[p].key

\* ... and in its reference.
RefInv(p) ==
  LET r == op[p].ref IN
  /\ op[p].name \in {"get", "delete"} => r \in used
  /\ op[p].step \in GetSteps => op[p].name = "get"
  /\ op[p].step \in DeleteSteps => op[p].name = "delete"
  /\ op[p].step \in {"bootstrap", "read", "store"} => op[p].name \in {"put", "get"}
  /\ op[p].step \in {"legacy", "reverify", "copy"} => envelopes[r] = None
  /\ op[p].step \in {"reverify", "copy"} => r \in legacy
  /\ op[p].step \in {"clear", "mark"} => envelopes[r] # None /\ envelopes[r].pending
  /\ op[p].step \in {"mark", "remove"} => r \notin legacy
  /\ op[p].step \in DeleteSteps => r \in asked

UsedInv == legacy \subseteq used /\ gone \subseteq used

IInv ==
  /\ TypeOK /\ UsedInv /\ OneKeyOpensAll /\ SecretsLiveUntilDeleted
  /\ \A p \in Processes : KeyInv(p) /\ RefInv(p)

-----------------------------------------------------------------------------
(* Calls *)

\* A step of process p writes p's call and no other.
Wrote(p) == op' \in [Processes -> Op] /\ \A q \in Processes : q # p => op[q]' = op[q]

\* What another process holds the write lock for stays as it is.
LockKept(p) ==
  \A q \in Processes : q # p /\ op[q].step \in Locked =>
    writer' = writer /\ master' = master /\ legacy' = legacy /\ envelopes' = envelopes

LEMMA IdleOp == Idle \in Op
  BY KeysAssumption DEF Op, Idle, Steps

\* The ways in which a step writes its call.
LEMMA SetStep ==
  ASSUME TypeOK, NEW p \in Processes, NEW s \in Steps, GoTo(p, s)
  PROVE  /\ Wrote(p) /\ (op[p].step)' = s /\ (op[p].key)' = op[p].key
         /\ (op[p].name)' = op[p].name /\ (op[p].ref)' = op[p].ref
         /\ (op[p].empty)' = op[p].empty
<1>0. op \in [Processes -> Op] /\ op[p] \in Op
  BY DEF TypeOK
<1> QED
  BY <1>0 DEF Op, Wrote, GoTo

LEMMA SetStepKey ==
  ASSUME TypeOK, NEW p \in Processes, NEW s \in Steps, NEW k \in 0..MaxKeys,
         op' = [op EXCEPT ![p].step = s, ![p].key = k]
  PROVE  /\ Wrote(p) /\ (op[p].step)' = s /\ (op[p].key)' = k
         /\ (op[p].name)' = op[p].name /\ (op[p].ref)' = op[p].ref
<1>0. op \in [Processes -> Op] /\ op[p] \in Op
  BY DEF TypeOK
<1> QED
  BY <1>0 DEF Op, Wrote

LEMMA SetStepEnvelope ==
  ASSUME TypeOK, NEW p \in Processes, NEW s \in Steps, NEW k \in 0..MaxKeys, NEW b \in BOOLEAN,
         op' = [op EXCEPT ![p].step = s, ![p].key = k, ![p].pending = b]
  PROVE  /\ Wrote(p) /\ (op[p].step)' = s /\ (op[p].key)' = k
         /\ (op[p].name)' = op[p].name /\ (op[p].ref)' = op[p].ref
<1>0. op \in [Processes -> Op] /\ op[p] \in Op
  BY DEF TypeOK
<1> QED
  BY <1>0 DEF Op, Wrote

LEMMA SetStepEmpty ==
  ASSUME TypeOK, NEW p \in Processes, NEW s \in Steps, NEW b \in BOOLEAN,
         op' = [op EXCEPT ![p].step = s, ![p].empty = b]
  PROVE  /\ Wrote(p) /\ (op[p].step)' = s /\ (op[p].empty)' = b
         /\ (op[p].name)' = op[p].name /\ (op[p].ref)' = op[p].ref
<1>0. op \in [Processes -> Op] /\ op[p] \in Op
  BY DEF TypeOK
<1> QED
  BY <1>0 DEF Op, Wrote

LEMMA SetCall ==
  ASSUME TypeOK, NEW p \in Processes, NEW o \in Op, op' = [op EXCEPT ![p] = o]
  PROVE  Wrote(p) /\ op[p]' = o
  BY DEF Wrote, TypeOK

\* An idle process relies on nothing.
LEMMA SetIdle ==
  ASSUME TypeOK, NEW p \in Processes, End(p)
  PROVE  Wrote(p) /\ KeyInv(p)' /\ RefInv(p)'
<1>1. Wrote(p) /\ op[p]' = Idle
  BY IdleOp, SetCall DEF End
<1>2. Idle.step = "idle" /\ Idle.name = "none"
  BY DEF Idle
<1> QED
  BY <1>1, <1>2 DEF KeyInv, RefInv, At, Locked, GetSteps, DeleteSteps

-----------------------------------------------------------------------------
(* What a step leaves to the others *)

\* A step that respects the lock, replaces no master key and forgets no reference
\* takes nothing from the other processes.
LEMMA Others ==
  ASSUME IInv, NEW p \in Processes, Wrote(p), LockKept(p), used \subseteq used',
         asked \subseteq asked', master # 0 => master' = master, KeyInv(p)', RefInv(p)'
  PROVE  \A q \in Processes : KeyInv(q)' /\ RefInv(q)'
<1> SUFFICES ASSUME NEW q \in Processes, q # p
             PROVE  KeyInv(q)' /\ RefInv(q)'
  OBVIOUS
<1>1. op[q]' = op[q] /\ KeyInv(q) /\ RefInv(q)
  BY DEF Wrote, IInv
<1>2. CASE op[q].step \in Locked
  <2>1. writer' = writer /\ master' = master /\ legacy' = legacy /\ envelopes' = envelopes
    BY <1>2 DEF LockKept
  <2>2. KeyInv(q)'
    BY <1>1, <1>2, <2>1 DEF KeyInv, At, Locked, NoEnvelopes
  <2>3. RefInv(q)'
    BY <1>1, <1>2, <2>1 DEF RefInv, Locked
  <2> QED
    BY <2>2, <2>3
<1>3. CASE op[q].step \notin Locked
  <2>1. KeyInv(q)'
    BY <1>1, <1>3 DEF KeyInv, At, Locked
  <2>2. RefInv(q)'
    BY <1>1, <1>3 DEF RefInv, Locked
  <2> QED
    BY <2>1, <2>2
<1> QED
  BY <1>2, <1>3

LEMMA NoneIsNoProcess == None \notin Processes
  BY ProcessesAssumption DEF Processes

\* Whoever holds the lock, or takes it, leaves no other process in a transaction.
LEMMA Holder ==
  ASSUME IInv, NEW p \in Processes, writer \in {p, None}
  PROVE  LockKept(p)
<1>1. ASSUME NEW q \in Processes, q # p  PROVE op[q].step \notin Locked
  BY <1>1, NoneIsNoProcess DEF IInv, KeyInv
<1> QED
  BY <1>1 DEF LockKept

\* A step that writes neither envelopes nor the keyring keeps the lock to
\* another process.
LEMMA Bystander ==
  ASSUME IInv, NEW p \in Processes, writer' = writer \/ Release(p) \/ Lock(p),
         UNCHANGED <<keyring, envelopes>>
  PROVE  LockKept(p)
<1>1. ASSUME NEW q \in Processes, q # p, op[q].step \in Locked  PROVE writer' = writer
  <2>1. writer = q
    BY <1>1 DEF IInv, KeyInv
  <2> QED
    BY <1>1, <2>1, NoneIsNoProcess DEF Release, Lock
<1> QED
  BY <1>1 DEF LockKept, keyring

\* ... and keeps what is said of envelopes and keyring.
LEMMA StoreKept ==
  ASSUME IInv, UNCHANGED <<keyring, envelopes, used, gone>>, asked \subseteq asked'
  PROVE  UsedInv' /\ OneKeyOpensAll' /\ SecretsLiveUntilDeleted'
<1> USE DEF IInv, keyring
<1>1. UsedInv' /\ OneKeyOpensAll'
  BY DEF UsedInv, OneKeyOpensAll
<1>2. SecretsLiveUntilDeleted'
  BY DEF SecretsLiveUntilDeleted
<1> QED
  BY <1>1, <1>2

\* The types of a step that writes neither envelopes nor the keyring.
LEMMA TypeKept ==
  ASSUME IInv, NEW p \in Processes, Wrote(p), UNCHANGED <<keyring, envelopes, used, gone>>,
         writer' = writer \/ Release(p) \/ Lock(p) \/ writer' = p,
         cached' = cached \/ \E k \in 0..MaxKeys : cached' = [cached EXCEPT ![p] = k],
         asked' = asked \/ \E r \in References : asked' = asked \cup {r}
  PROVE  TypeOK'
<1>1. TypeOK
  BY DEF IInv
<1>2. (writer \in Processes \cup {None})' /\ (cached \in [Processes -> 0..MaxKeys])'
  BY <1>1 DEF TypeOK, Release, Lock
<1> QED
  BY <1>1, <1>2 DEF TypeOK, Wrote, keyring

\* A step that only moves a call on.
LEMMA CallStep ==
  ASSUME IInv, NEW p \in Processes, Wrote(p), UNCHANGED <<keyring, envelopes, used, gone>>,
         writer' = writer \/ Release(p) \/ Lock(p) \/ writer' = p,
         LockKept(p), KeyInv(p)', RefInv(p)',
         cached' = cached \/ \E k \in 0..MaxKeys : cached' = [cached EXCEPT ![p] = k],
         asked' = asked \/ \E r \in References : asked' = asked \cup {r}
  PROVE  IInv'
<1>0. asked \subseteq asked' /\ used \subseteq used' /\ master' = master
  BY DEF keyring
<1>1. TypeOK'
  BY TypeKept
<1>2. UsedInv' /\ OneKeyOpensAll' /\ SecretsLiveUntilDeleted'
  BY <1>0, StoreKept
<1>3. \A q \in Processes : KeyInv(q)' /\ RefInv(q)'
  BY <1>0, Others
<1> QED
  BY <1>1, <1>2, <1>3 DEF IInv

-----------------------------------------------------------------------------
(* The steps of a call *)

LEMMA BootstrapStep ==
  ASSUME IInv, NEW p \in Processes, Bootstrap(p)
  PROVE  IInv'
<1> DEFINE b == \A r \in References : envelopes[r] = None
<1>0. TypeOK /\ KeyInv(p) /\ RefInv(p) /\ At(p, "bootstrap") /\ Lock(p)
  BY DEF IInv, Bootstrap
<1>1. op' = [op EXCEPT ![p].step = "read", ![p].empty = b] /\ b \in BOOLEAN
  BY DEF Bootstrap
<1>2. /\ Wrote(p) /\ (op[p].step)' = "read" /\ (op[p].empty)' = b
      /\ (op[p].name)' = op[p].name /\ (op[p].ref)' = op[p].ref
  <2> HIDE DEF b
  <2> QED
    BY <1>0, <1>1, SetStepEmpty DEF Steps
<1>3. UNCHANGED <<keyring, envelopes, cached, history>> /\ writer' = p /\ writer = None
  BY DEF Bootstrap, Lock
<1>4. KeyInv(p)'
  BY <1>2, <1>3 DEF KeyInv, At, NoEnvelopes
<1>5. RefInv(p)'
  BY <1>0, <1>2, <1>3 DEF RefInv, At, GetSteps, DeleteSteps, history
<1> QED
  BY <1>2, <1>3, <1>4, <1>5, Holder, CallStep DEF history

LEMMA RememberStep ==
  ASSUME IInv, NEW p \in Processes, NEW k \in 1..MaxKeys, Remembers(p, k),
         op[p].step \in {"read", "store"}
  PROVE  /\ Wrote(p) /\ (op[p].step)' \in {"insert", "decrypt", "migrate"}
         /\ (op[p].step)' = "insert" => (op[p].key)' = k
         /\ (op[p].step)' \in {"decrypt", "migrate"} => (op[p].name)' = "get"
         /\ (op[p].name)' = op[p].name /\ (op[p].ref)' = op[p].ref
         /\ writer = p /\ writer' = None /\ cached' = [cached EXCEPT ![p] = k]
<1> DEFINE s == Keyed(op[p])
           j == IF op[p].name = "put" THEN k ELSE op[p].key
<1>0. TypeOK /\ op[p].name \in {"put", "get"} /\ writer = p /\ op[p] \in Op
  BY DEF IInv, TypeOK, KeyInv, RefInv, Locked
<1>1. s \in {"insert", "decrypt", "migrate"} /\ (s = "insert" => op[p].name = "put")
      /\ (s # "insert" => op[p].name = "get")
  BY <1>0 DEF Keyed
<1>2. j \in 0..MaxKeys /\ s \in Steps
  BY <1>0, <1>1, KeysAssumption DEF Op, Steps
<1>3. op' = [op EXCEPT ![p].step = s, ![p].key = j]
  BY DEF Remembers
<1>4. s = "insert" => j = k
  BY <1>1
<1> HIDE DEF s, j
<1>5. /\ Wrote(p) /\ (op[p].step)' = s /\ (op[p].key)' = j
      /\ (op[p].name)' = op[p].name /\ (op[p].ref)' = op[p].ref
  BY <1>0, <1>2, <1>3, SetStepKey
<1> QED
  BY <1>0, <1>1, <1>4, <1>5 DEF Remembers, Release

LEMMA ReadMasterStep ==
  ASSUME IInv, NEW p \in Processes, ReadMaster(p)
  PROVE  IInv'
<1>0. /\ TypeOK /\ KeyInv(p) /\ RefInv(p) /\ op[p].step = "read" /\ writer = p
      /\ UNCHANGED <<keyring, envelopes, history>>
  BY DEF IInv, ReadMaster, At, KeyInv, Locked
<1>1. LockKept(p)
  BY <1>0, Holder
<1>2. CASE master # 0 /\ Remembers(p, master)
  <2>0. master \in 1..MaxKeys
    BY <1>0, <1>2, KeysAssumption DEF TypeOK
  <2>1. /\ Wrote(p) /\ (op[p].step)' \in {"insert", "decrypt", "migrate"}
        /\ (op[p].step)' = "insert" => (op[p].key)' = master
        /\ (op[p].step)' \in {"decrypt", "migrate"} => (op[p].name)' = "get"
        /\ (op[p].name)' = op[p].name /\ (op[p].ref)' = op[p].ref
        /\ writer' = None /\ cached' = [cached EXCEPT ![p] = master]
    BY <1>0, <1>2, <2>0, RememberStep
  <2>2. KeyInv(p)'
    BY <1>0, <1>2, <2>1 DEF KeyInv, At, Locked, keyring
  <2>3. RefInv(p)'
    BY <1>0, <2>1 DEF RefInv, GetSteps, DeleteSteps, history
  <2>4. Release(p)
    BY <1>2 DEF Remembers
  <2>5. master \in 0..MaxKeys
    BY <1>0 DEF TypeOK
  <2> QED
    BY <1>0, <1>1, <2>1, <2>2, <2>3, <2>4, <2>5, CallStep DEF history
<1>3. CASE master = 0 /\ op[p].empty /\ GoTo(p, "store") /\ UNCHANGED <<writer, cached>>
  <2>1. /\ Wrote(p) /\ (op[p].step)' = "store"
        /\ (op[p].name)' = op[p].name /\ (op[p].ref)' = op[p].ref
    BY <1>0, <1>3, SetStep DEF Steps
  <2>2. KeyInv(p)'
    BY <1>0, <1>3, <2>1 DEF KeyInv, At, Locked, NoEnvelopes, keyring
  <2>3. RefInv(p)'
    BY <1>0, <2>1 DEF RefInv, GetSteps, DeleteSteps, history
  <2> QED
    BY <1>0, <1>1, <1>3, <2>1, <2>2, <2>3, CallStep DEF history
<1> QED
  BY <1>2, <1>3 DEF ReadMaster

LEMMA StoreMasterStep ==
  ASSUME IInv, NEW p \in Processes, StoreMaster(p)
  PROVE  IInv'
<1>0. /\ TypeOK /\ KeyInv(p) /\ RefInv(p) /\ op[p].step = "store" /\ writer = p
      /\ UNCHANGED <<legacy, envelopes, history>> /\ master = 0 /\ NoEnvelopes
  BY DEF IInv, StoreMaster, At, KeyInv, Locked
<1>1. LockKept(p)
  BY <1>0, Holder
<1>2. keys' \in 1..MaxKeys /\ master' = keys' /\ Remembers(p, keys')
  BY <1>0, KeysAssumption DEF TypeOK, StoreMaster
<1>3. /\ Wrote(p) /\ (op[p].step)' \in {"insert", "decrypt", "migrate"}
      /\ (op[p].step)' = "insert" => (op[p].key)' = keys'
      /\ (op[p].step)' \in {"decrypt", "migrate"} => (op[p].name)' = "get"
      /\ (op[p].name)' = op[p].name /\ (op[p].ref)' = op[p].ref
      /\ writer' = None /\ cached' = [cached EXCEPT ![p] = keys']
  BY <1>0, <1>2, RememberStep
<1>4. TypeOK'
  BY <1>0, <1>2, <1>3, KeysAssumption DEF TypeOK, Wrote, history
<1>5. UsedInv' /\ OneKeyOpensAll' /\ SecretsLiveUntilDeleted'
  BY <1>0 DEF IInv, UsedInv, OneKeyOpensAll, SecretsLiveUntilDeleted, NoEnvelopes, history
<1>6. KeyInv(p)'
  BY <1>2, <1>3 DEF KeyInv, At, Locked
<1>7. RefInv(p)'
  BY <1>0, <1>3 DEF RefInv, GetSteps, DeleteSteps, history
<1>8. \A q \in Processes : KeyInv(q)' /\ RefInv(q)'
  BY <1>0, <1>1, <1>3, <1>6, <1>7, Others DEF history
<1> QED
  BY <1>4, <1>5, <1>8 DEF IInv

LEMMA VerifyStep ==
  ASSUME IInv, NEW p \in Processes, Verify(p)
  PROVE  IInv'
<1> DEFINE s == IF At(p, "verify") THEN "insert" ELSE "copy"
<1>0. /\ TypeOK /\ KeyInv(p) /\ RefInv(p) /\ op[p].step \in {"verify", "reverify"}
      /\ UNCHANGED <<keyring, envelopes, writer, cached, history>>
  BY DEF IInv, Verify
<1>1. s \in Steps /\ master \in 0..MaxKeys /\ master # 0
  BY <1>0 DEF Steps, TypeOK, Verify
<1>2. op' = [op EXCEPT ![p].step = s, ![p].key = master]
  BY DEF Verify
<1>3. /\ Wrote(p) /\ (op[p].step)' = s /\ (op[p].key)' = master
      /\ (op[p].name)' = op[p].name /\ (op[p].ref)' = op[p].ref
  <2> HIDE DEF s
  <2> QED
    BY <1>0, <1>1, <1>2, SetStepKey
<1>4. \A r \in References : envelopes[r] # None => envelopes[r].key = master
  BY <1>1 DEF IInv, OneKeyOpensAll
<1>5. KeyInv(p)'
  BY <1>0, <1>1, <1>3, <1>4 DEF KeyInv, At, Locked, keyring
<1>6. RefInv(p)'
  BY <1>0, <1>3 DEF RefInv, At, GetSteps, DeleteSteps, history, keyring
<1>7. LockKept(p)
  BY <1>0, Bystander
<1> QED
  BY <1>0, <1>3, <1>5, <1>6, <1>7, CallStep DEF history

LEMMA BeginPutStep ==
  ASSUME IInv, NEW p \in Processes, BeginPut(p)
  PROVE  IInv'
<1> DEFINE o == [Idle EXCEPT !.name = "put", !.step = IF cached[p] = 0 THEN "bootstrap" ELSE "verify"]
<1>0. TypeOK /\ UNCHANGED <<keyring, envelopes, writer, cached, history>>
  BY DEF IInv, BeginPut
<1>1. o \in Op /\ o.name = "put" /\ o.step \in {"bootstrap", "verify"}
  BY IdleOp DEF Op, Steps
<1>2. op' = [op EXCEPT ![p] = o]
  BY DEF BeginPut
<1> HIDE DEF o
<1>3. Wrote(p) /\ op[p]' = o
  BY <1>0, <1>1, <1>2, SetCall
<1>4. KeyInv(p)'
  BY <1>1, <1>3 DEF KeyInv, At, Locked
<1>5. RefInv(p)'
  BY <1>1, <1>3 DEF RefInv, GetSteps, DeleteSteps
<1>6. LockKept(p)
  BY <1>0, Bystander
<1> QED
  BY <1>0, <1>3, <1>4, <1>5, <1>6, CallStep DEF history

LEMMA BeginGetStep ==
  ASSUME IInv, NEW p \in Processes, NEW r \in References, BeginGet(p, r)
  PROVE  IInv'
<1> DEFINE o == [Idle EXCEPT !.name = "get", !.ref = r, !.step = "load"]
<1>0. TypeOK /\ r \in used /\ UNCHANGED <<keyring, envelopes, writer, cached, history>>
  BY DEF IInv, BeginGet
<1>1. o \in Op /\ o.name = "get" /\ o.step = "load" /\ o.ref = r
  BY IdleOp DEF Op, Steps
<1>2. op' = [op EXCEPT ![p] = o]
  BY DEF BeginGet
<1> HIDE DEF o
<1>3. Wrote(p) /\ op[p]' = o
  BY <1>0, <1>1, <1>2, SetCall
<1>4. KeyInv(p)'
  BY <1>1, <1>3 DEF KeyInv, At, Locked
<1>5. RefInv(p)'
  BY <1>0, <1>1, <1>3 DEF RefInv, GetSteps, DeleteSteps, history
<1>6. LockKept(p)
  BY <1>0, Bystander
<1> QED
  BY <1>0, <1>3, <1>4, <1>5, <1>6, CallStep DEF history

LEMMA BeginDeleteStep ==
  ASSUME IInv, NEW p \in Processes, NEW r \in References, BeginDelete(p, r)
  PROVE  IInv'
<1> DEFINE o == [Idle EXCEPT !.name = "delete", !.ref = r, !.step = "delete"]
<1>0. /\ TypeOK /\ r \in used /\ UNCHANGED <<keyring, envelopes, writer, cached, used, gone>>
      /\ asked' = asked \cup {r}
  BY DEF IInv, BeginDelete
<1>1. o \in Op /\ o.name = "delete" /\ o.step = "delete" /\ o.ref = r
  BY IdleOp DEF Op, Steps
<1>2. op' = [op EXCEPT ![p] = o]
  BY DEF BeginDelete
<1> HIDE DEF o
<1>3. Wrote(p) /\ op[p]' = o
  BY <1>0, <1>1, <1>2, SetCall
<1>4. KeyInv(p)'
  BY <1>1, <1>3 DEF KeyInv, At, Locked
<1>5. RefInv(p)'
  BY <1>0, <1>1, <1>3 DEF RefInv, GetSteps, DeleteSteps
<1>6. LockKept(p)
  BY <1>0, Bystander
<1> QED
  BY <1>0, <1>3, <1>4, <1>5, <1>6, CallStep

\* A reference that is drawn is new: nothing is known of it.
LEMMA InsertStep ==
  ASSUME IInv, NEW p \in Processes, Insert(p)
  PROVE  IInv'
<1>0. /\ TypeOK /\ KeyInv(p) /\ op[p].step = "insert" /\ writer = None /\ End(p)
      /\ UNCHANGED <<keyring, writer, cached, asked, gone>>
  BY DEF IInv, Insert, At
<1>1. op[p].key \in 1..MaxKeys /\ master = op[p].key
  BY <1>0, KeysAssumption DEF TypeOK, KeyInv, At, keyring
<1>2. PICK r \in References \ used :
        /\ envelopes' = [envelopes EXCEPT ![r] = [key |-> op[p].key, pending |-> FALSE]]
        /\ used' = used \cup {r}
  BY DEF Insert
<1>3. Wrote(p) /\ KeyInv(p)' /\ RefInv(p)'
  BY <1>0, SetIdle
<1> DEFINE e == [key |-> op[p].key, pending |-> FALSE]
<1>4. e \in Envelope /\ e.key = op[p].key /\ e # None
  <2>1. e \in Envelope
    BY <1>1 DEF Envelope
  <2> QED
    BY <2>1, NoneAssumption
<1>5. /\ envelopes' = [envelopes EXCEPT ![r] = e] /\ r \notin legacy /\ r \notin gone
      /\ envelopes \in [References -> Envelope \cup {None}]
  <2>1. r \notin legacy /\ r \notin gone
    BY <1>2 DEF IInv, UsedInv
  <2>2. envelopes \in [References -> Envelope \cup {None}]
    BY <1>0 DEF TypeOK
  <2>3. envelopes' = [envelopes EXCEPT ![r] = e]
    BY <1>2
  <2> QED
    BY <2>1, <2>2, <2>3
<1> HIDE DEF e
<1>6. TypeOK'
  <2>1. envelopes' \in [References -> Envelope \cup {None}]
    BY <1>4, <1>5
  <2>2. used' \subseteq References /\ asked' \subseteq References /\ gone' \subseteq References
    BY <1>0, <1>2 DEF TypeOK
  <2>3. op' \in [Processes -> Op]
    BY <1>0, <1>3 DEF TypeOK, Wrote
  <2>4. /\ master' \in 0..MaxKeys /\ keys' \in 0..MaxKeys /\ legacy' \subseteq References
        /\ writer' \in Processes \cup {None} /\ cached' \in [Processes -> 0..MaxKeys]
    BY <1>0 DEF TypeOK, keyring
  <2> QED
    BY <2>1, <2>2, <2>3, <2>4 DEF TypeOK
<1>7. UsedInv'
  BY <1>0, <1>2 DEF IInv, UsedInv, keyring
<1>8. OneKeyOpensAll'
  BY <1>0, <1>1, <1>4, <1>5 DEF IInv, OneKeyOpensAll, keyring
<1>9. SecretsLiveUntilDeleted'
  BY <1>0, <1>2, <1>4, <1>5 DEF IInv, SecretsLiveUntilDeleted, keyring
<1>10. \A q \in Processes : KeyInv(q)' /\ RefInv(q)'
  <2>1. used \subseteq used' /\ asked' = asked /\ master' = master /\ LockKept(p)
    BY <1>0, <1>2, Holder DEF keyring
  <2> QED
    BY <1>3, <2>1, Others
<1> QED
  BY <1>6, <1>7, <1>8, <1>9, <1>10 DEF IInv

LEMMA LoadStep ==
  ASSUME IInv, NEW p \in Processes, Load(p)
  PROVE  IInv'
<1>0. /\ TypeOK /\ KeyInv(p) /\ RefInv(p) /\ op[p].step = "load"
      /\ UNCHANGED <<keyring, envelopes, writer, cached, history>>
  BY DEF IInv, Load, At
<1>1. PICK s \in {"bootstrap", "decrypt", "migrate"} :
        /\ Wrote(p) /\ (op[p].step)' = s
        /\ (op[p].name)' = op[p].name /\ (op[p].ref)' = op[p].ref
  <2>1. CASE Stored(p) # None
    <3> DEFINE s == IF cached[p] = 0 THEN "bootstrap" ELSE "decrypt"
               k == Stored(p).key
               b == Stored(p).pending
    <3>1. Stored(p) \in Envelope
      BY <1>0, <2>1 DEF Stored, TypeOK, RefInv, GetSteps, DeleteSteps
    <3>2. s \in Steps /\ s \in {"bootstrap", "decrypt"} /\ k \in 0..MaxKeys /\ b \in BOOLEAN
      BY <3>1 DEF Envelope, Steps
    <3>3. op' = [op EXCEPT ![p].step = s, ![p].key = k, ![p].pending = b]
      BY <2>1 DEF Load
    <3> HIDE DEF s, k, b
    <3> QED
      BY <1>0, <3>2, <3>3, SetStepEnvelope
  <2>2. CASE Stored(p) = None
    <3> DEFINE s == IF cached[p] = 0 THEN "bootstrap" ELSE "migrate"
    <3>1. GoTo(p, s) /\ s \in Steps /\ s \in {"bootstrap", "migrate"}
      BY <2>2 DEF Load, Steps
    <3> HIDE DEF s
    <3> QED
      BY <1>0, <3>1, SetStep
  <2> QED
    BY <2>1, <2>2
<1>2. KeyInv(p)'
  BY <1>1 DEF KeyInv, At, Locked
<1>3. RefInv(p)'
  BY <1>0, <1>1 DEF RefInv, GetSteps, DeleteSteps, history
<1>4. LockKept(p)
  BY <1>0, Bystander
<1> QED
  BY <1>0, <1>1, <1>2, <1>3, <1>4, CallStep DEF history
LEMMA DecryptStep ==
  ASSUME IInv, NEW p \in Processes, Decrypt(p)
  PROVE  IInv'
<1>0. /\ TypeOK /\ RefInv(p) /\ op[p].step = "decrypt"
      /\ UNCHANGED <<keyring, envelopes, writer, cached, history>>
  BY DEF IInv, Decrypt, At
<1>1. LockKept(p)
  BY <1>0, Bystander
<1>2. CASE op[p].pending
  <2>1. /\ Wrote(p) /\ (op[p].step)' = "cleanup"
        /\ (op[p].name)' = op[p].name /\ (op[p].ref)' = op[p].ref
    BY <1>0, <1>2, SetStep DEF Decrypt, Steps
  <2>2. KeyInv(p)' /\ RefInv(p)'
    BY <1>0, <2>1 DEF KeyInv, RefInv, At, Locked, GetSteps, DeleteSteps, history
  <2> QED
    BY <1>0, <1>1, <2>1, <2>2, CallStep DEF history
<1>3. CASE ~op[p].pending
  <2>1. End(p)
    BY <1>3 DEF Decrypt
  <2> QED
    BY <1>0, <1>1, <2>1, SetIdle, CallStep DEF history
<1> QED
  BY <1>2, <1>3

LEMMA MigrateStep ==
  ASSUME IInv, NEW p \in Processes, Migrate(p)
  PROVE  IInv'
<1>0. /\ TypeOK /\ RefInv(p) /\ op[p].step = "migrate" /\ writer = None
      /\ UNCHANGED <<keyring, envelopes, cached, history>>
  BY DEF IInv, Migrate, At
<1>1. LockKept(p)
  BY <1>0, Holder
<1>2. CASE Stored(p) # None
  <2> DEFINE k == Stored(p).key
             b == Stored(p).pending
  <2>1. Stored(p) \in Envelope
    BY <1>0, <1>2 DEF Stored, TypeOK, RefInv, GetSteps
  <2>2. "decrypt" \in Steps /\ k \in 0..MaxKeys /\ b \in BOOLEAN
    BY <2>1 DEF Envelope, Steps
  <2>3. op' = [op EXCEPT ![p].step = "decrypt", ![p].key = k, ![p].pending = b] /\ writer' = writer
    BY <1>2 DEF Migrate
  <2> HIDE DEF k, b
  <2>4. /\ Wrote(p) /\ (op[p].step)' = "decrypt"
        /\ (op[p].name)' = op[p].name /\ (op[p].ref)' = op[p].ref
    BY <1>0, <2>2, <2>3, SetStepEnvelope
  <2>5. KeyInv(p)' /\ RefInv(p)'
    BY <1>0, <2>4 DEF KeyInv, RefInv, At, Locked, GetSteps, DeleteSteps, history
  <2> QED
    BY <1>0, <1>1, <2>3, <2>4, <2>5, CallStep DEF history
<1>3. CASE Stored(p) = None
  <2>1. GoTo(p, "legacy") /\ writer' = p
    BY <1>3 DEF Migrate
  <2>2. /\ Wrote(p) /\ (op[p].step)' = "legacy"
        /\ (op[p].name)' = op[p].name /\ (op[p].ref)' = op[p].ref
    BY <1>0, <2>1, SetStep DEF Steps
  <2>3. KeyInv(p)'
    BY <2>1, <2>2 DEF KeyInv, At
  <2>4. RefInv(p)'
    BY <1>0, <1>3, <2>2 DEF RefInv, Stored, GetSteps, DeleteSteps, history
  <2> QED
    BY <1>0, <1>1, <2>1, <2>2, <2>3, <2>4, CallStep DEF history
<1> QED
  BY <1>2, <1>3

LEMMA ReadLegacyStep ==
  ASSUME IInv, NEW p \in Processes, ReadLegacy(p)
  PROVE  IInv'
<1>0. /\ TypeOK /\ KeyInv(p) /\ RefInv(p) /\ op[p].step = "legacy" /\ op[p].ref \in legacy
      /\ UNCHANGED <<keyring, envelopes, writer, cached, history>>
  BY DEF IInv, ReadLegacy, At
<1>1. /\ Wrote(p) /\ (op[p].step)' = "reverify"
      /\ (op[p].name)' = op[p].name /\ (op[p].ref)' = op[p].ref
  BY <1>0, SetStep DEF ReadLegacy, Steps
<1>2. KeyInv(p)'
  BY <1>0, <1>1 DEF KeyInv, At, Locked
<1>3. RefInv(p)'
  BY <1>0, <1>1 DEF RefInv, GetSteps, DeleteSteps, keyring, history
<1>4. LockKept(p)
  BY <1>0, Bystander
<1> QED
  BY <1>0, <1>1, <1>2, <1>3, <1>4, CallStep DEF history

\* The transaction still holds the key that opens everything else.
LEMMA CopyStep ==
  ASSUME IInv, NEW p \in Processes, Copy(p)
  PROVE  IInv'
<1> DEFINE r == op[p].ref
           e == [key |-> op[p].key, pending |-> TRUE]
<1>0. /\ TypeOK /\ KeyInv(p) /\ RefInv(p) /\ op[p].step = "copy" /\ GoTo(p, "cleanup") /\ Release(p)
      /\ UNCHANGED <<keyring, cached, history>> /\ envelopes' = [envelopes EXCEPT ![r] = e]
  BY DEF IInv, Copy, At
<1>1. /\ writer = p /\ writer' = None /\ op[p].key \in 1..MaxKeys /\ master \in {0, op[p].key}
      /\ \A s \in References : envelopes[s] # None => envelopes[s].key = op[p].key
  BY <1>0, KeysAssumption DEF KeyInv, At, Locked, Release, TypeOK, Op
<1>2. r \in References /\ r \in legacy /\ r \in used
  BY <1>0 DEF RefInv, TypeOK, GetSteps
<1>3. e \in Envelope /\ e.key = op[p].key /\ e.pending /\ e # None
  <2>1. e \in Envelope
    BY <1>1 DEF Envelope
  <2> QED
    BY <2>1, NoneAssumption
<1>4. envelopes \in [References -> Envelope \cup {None}]
  BY <1>0 DEF TypeOK
<1> HIDE DEF e
<1>5. /\ Wrote(p) /\ (op[p].step)' = "cleanup"
      /\ (op[p].name)' = op[p].name /\ (op[p].ref)' = op[p].ref
  BY <1>0, SetStep DEF Steps
<1>6. TypeOK'
  BY <1>0, <1>1, <1>2, <1>3, <1>4, <1>5 DEF TypeOK, Wrote, keyring, history
<1>7. UsedInv' /\ SecretsLiveUntilDeleted'
  BY <1>0, <1>2, <1>3, <1>4 DEF IInv, UsedInv, SecretsLiveUntilDeleted, keyring, history
<1>8. OneKeyOpensAll'
  BY <1>0, <1>1, <1>3, <1>4 DEF OneKeyOpensAll, keyring
<1>9. KeyInv(p)'
  BY <1>5 DEF KeyInv, At, Locked
<1>10. RefInv(p)'
  BY <1>0, <1>5 DEF RefInv, GetSteps, DeleteSteps, history
<1>11. \A q \in Processes : KeyInv(q)' /\ RefInv(q)'
  <2>1. used \subseteq used' /\ asked' = asked /\ master' = master /\ LockKept(p)
    BY <1>0, <1>1, Holder DEF keyring, history
  <2> QED
    BY <1>5, <1>9, <1>10, <2>1, Others
<1> QED
  BY <1>6, <1>7, <1>8, <1>11 DEF IInv

LEMMA CleanupStep ==
  ASSUME IInv, NEW p \in Processes, Cleanup(p)
  PROVE  IInv'
<1>0. /\ TypeOK /\ RefInv(p) /\ op[p].step = "cleanup" /\ writer = None
      /\ UNCHANGED <<keyring, envelopes, cached, history>>
  BY DEF IInv, Cleanup, At
<1>1. LockKept(p)
  BY <1>0, Holder
<1>2. CASE Stored(p) # None /\ Stored(p).pending
  <2>1. GoTo(p, "clear") /\ writer' = p
    BY <1>2 DEF Cleanup
  <2>2. /\ Wrote(p) /\ (op[p].step)' = "clear"
        /\ (op[p].name)' = op[p].name /\ (op[p].ref)' = op[p].ref
    BY <1>0, <2>1, SetStep DEF Steps
  <2>3. KeyInv(p)'
    BY <2>1, <2>2 DEF KeyInv, At
  <2>4. RefInv(p)'
    BY <1>0, <1>2, <2>2 DEF RefInv, Stored, GetSteps, DeleteSteps, history
  <2> QED
    BY <1>0, <1>1, <2>1, <2>2, <2>3, <2>4, CallStep DEF history
<1>3. CASE ~(Stored(p) # None /\ Stored(p).pending)
  <2>1. End(p) /\ writer' = writer
    BY <1>3 DEF Cleanup
  <2> QED
    BY <1>0, <1>1, <2>1, SetIdle, CallStep DEF history
<1> QED
  BY <1>2, <1>3

\* An older item is removed: its password has an envelope, or is to be deleted.
LEMMA LegacyRemoved ==
  ASSUME IInv, NEW p \in Processes, NEW s \in Steps, GoTo(p, s), legacy' = legacy \ {op[p].ref},
         UNCHANGED <<master, keys, envelopes, writer, cached, history>>, writer = p,
         \/ op[p].step = "clear" /\ s = "mark"
         \/ op[p].step = "erase" /\ s = "remove"
  PROVE  IInv'
<1>0. TypeOK /\ RefInv(p)
  BY DEF IInv
<1>1. /\ Wrote(p) /\ (op[p].step)' = s
      /\ (op[p].name)' = op[p].name /\ (op[p].ref)' = op[p].ref
  BY <1>0, SetStep
<1>2. op[p].ref \in asked \/ envelopes[op[p].ref] # None
  BY <1>0 DEF RefInv, DeleteSteps
<1>3. TypeOK'
  BY <1>0, <1>1 DEF TypeOK, Wrote, history
<1>4. UsedInv' /\ OneKeyOpensAll'
  BY DEF IInv, UsedInv, OneKeyOpensAll, history
<1>5. SecretsLiveUntilDeleted'
  BY <1>2 DEF IInv, SecretsLiveUntilDeleted, history
<1>6. KeyInv(p)'
  BY <1>1 DEF KeyInv, At
<1>7. RefInv(p)'
  BY <1>0, <1>1 DEF RefInv, GetSteps, DeleteSteps, history
<1>8. \A q \in Processes : KeyInv(q)' /\ RefInv(q)'
  BY <1>1, <1>6, <1>7, Holder, Others DEF history
<1> QED
  BY <1>3, <1>4, <1>5, <1>8 DEF IInv

LEMMA ClearLegacyStep ==
  ASSUME IInv, NEW p \in Processes, ClearLegacy(p)
  PROVE  IInv'
<1>1. op[p].step = "clear" /\ writer = p /\ "mark" \in Steps
  BY DEF ClearLegacy, IInv, KeyInv, At, Locked, Steps
<1> QED
  BY <1>1, LegacyRemoved DEF ClearLegacy

LEMMA EraseLegacyStep ==
  ASSUME IInv, NEW p \in Processes, EraseLegacy(p)
  PROVE  IInv'
<1>1. op[p].step = "erase" /\ writer = p /\ "remove" \in Steps
  BY DEF EraseLegacy, IInv, KeyInv, At, Locked, Steps
<1> QED
  BY <1>1, LegacyRemoved DEF EraseLegacy

LEMMA MarkStep ==
  ASSUME IInv, NEW p \in Processes, Mark(p)
  PROVE  IInv'
<1> DEFINE r == op[p].ref
<1>0. /\ TypeOK /\ KeyInv(p) /\ RefInv(p) /\ op[p].step = "mark" /\ End(p) /\ Release(p)
      /\ UNCHANGED <<keyring, cached, history>>
      /\ envelopes' = [envelopes EXCEPT ![r].pending = FALSE]
  BY DEF IInv, Mark, At
<1>1. writer = p /\ writer' = None
  BY <1>0 DEF KeyInv, Locked, Release
<1>2. r \in used /\ r \in References /\ envelopes[r] \in Envelope /\ r \notin legacy
  BY <1>0 DEF RefInv, TypeOK, GetSteps
<1>3. /\ envelopes' \in [References -> Envelope \cup {None}]
      /\ envelopes'[r] # None /\ envelopes'[r].key = envelopes[r].key
      /\ \A s \in References : s # r => envelopes'[s] = envelopes[s]
  <2>1. /\ envelopes'[r] \in Envelope /\ envelopes'[r].key = envelopes[r].key
        /\ \A s \in References : s # r => envelopes'[s] = envelopes[s]
        /\ envelopes' \in [References -> Envelope \cup {None}]
    BY <1>0, <1>2 DEF TypeOK, Envelope
  <2> QED
    BY <2>1, NoneAssumption
<1>4. Wrote(p) /\ KeyInv(p)' /\ RefInv(p)'
  BY <1>0, SetIdle
<1>5. TypeOK'
  BY <1>0, <1>1, <1>3, <1>4 DEF TypeOK, Wrote, keyring, history
<1>6. UsedInv'
  BY <1>0 DEF IInv, UsedInv, keyring, history
<1>7. OneKeyOpensAll'
  BY <1>0, <1>2, <1>3, NoneAssumption DEF IInv, OneKeyOpensAll, keyring
<1>8. SecretsLiveUntilDeleted'
  BY <1>0, <1>2, <1>3, NoneAssumption DEF IInv, SecretsLiveUntilDeleted, keyring, history
<1>9. \A q \in Processes : KeyInv(q)' /\ RefInv(q)'
  <2>1. used \subseteq used' /\ asked' = asked /\ master' = master /\ LockKept(p)
    BY <1>0, <1>1, Holder DEF keyring, history
  <2> QED
    BY <1>4, <2>1, Others
<1> QED
  BY <1>5, <1>6, <1>7, <1>8, <1>9 DEF IInv

LEMMA DeleteStep ==
  ASSUME IInv, NEW p \in Processes, Delete(p)
  PROVE  IInv'
<1>0. /\ TypeOK /\ RefInv(p) /\ op[p].step = "delete" /\ writer = None /\ writer' = p
      /\ UNCHANGED <<keyring, envelopes, cached, history>>
  BY DEF IInv, Delete, At, Lock
<1>1. PICK s \in {"erase", "remove"} :
        GoTo(p, s) /\ (s = "remove" => Stored(p) # None /\ ~Stored(p).pending)
  BY DEF Delete
<1>2. /\ Wrote(p) /\ (op[p].step)' = s
      /\ (op[p].name)' = op[p].name /\ (op[p].ref)' = op[p].ref
  BY <1>0, <1>1, SetStep DEF Steps
<1>3. op[p].ref \in References /\ (s = "remove" => op[p].ref \notin legacy)
  BY <1>0, <1>1 DEF IInv, SecretsLiveUntilDeleted, Stored, RefInv, TypeOK, DeleteSteps
<1>4. KeyInv(p)'
  BY <1>0, <1>2 DEF KeyInv, At
<1>5. RefInv(p)'
  BY <1>0, <1>2, <1>3 DEF RefInv, GetSteps, DeleteSteps, history, keyring
<1> QED
  BY <1>0, <1>2, <1>4, <1>5, Holder, CallStep DEF history

LEMMA RemoveStep ==
  ASSUME IInv, NEW p \in Processes, Remove(p)
  PROVE  IInv'
<1> DEFINE r == op[p].ref
<1>0. /\ TypeOK /\ KeyInv(p) /\ RefInv(p) /\ op[p].step = "remove" /\ End(p) /\ Release(p)
      /\ UNCHANGED <<keyring, cached, used, asked>> /\ gone' = gone \cup {r}
      /\ envelopes' = [envelopes EXCEPT ![r] = None]
  BY DEF IInv, Remove, At
<1>1. writer = p /\ writer' = None
  BY <1>0 DEF KeyInv, Locked, Release
<1>2. r \in used /\ r \in References /\ r \in asked /\ r \notin legacy
  BY <1>0 DEF RefInv, TypeOK, DeleteSteps
<1>3. Wrote(p) /\ KeyInv(p)' /\ RefInv(p)'
  BY <1>0, SetIdle
<1>4. TypeOK'
  BY <1>0, <1>1, <1>2, <1>3 DEF TypeOK, Wrote, keyring
<1>5. UsedInv'
  BY <1>0, <1>2 DEF IInv, UsedInv, keyring
<1>6. OneKeyOpensAll'
  BY <1>0 DEF IInv, TypeOK, OneKeyOpensAll, keyring
<1>7. SecretsLiveUntilDeleted'
  BY <1>0, <1>2 DEF IInv, TypeOK, SecretsLiveUntilDeleted, keyring
<1>8. \A q \in Processes : KeyInv(q)' /\ RefInv(q)'
  <2>1. used \subseteq used' /\ asked' = asked /\ master' = master /\ LockKept(p)
    BY <1>0, <1>1, Holder DEF keyring
  <2> QED
    BY <1>3, <2>1, Others
<1> QED
  BY <1>4, <1>5, <1>6, <1>7, <1>8 DEF IInv

LEMMA FailStep ==
  ASSUME IInv, NEW p \in Processes, Fail(p)
  PROVE  IInv'
<1>0. TypeOK /\ End(p) /\ Release(p) /\ UNCHANGED <<keyring, envelopes, cached, history>>
  BY DEF IInv, Fail
<1> QED
  BY <1>0, SetIdle, Bystander, CallStep DEF history

LEMMA CrashStep ==
  ASSUME IInv, NEW p \in Processes, Crash(p)
  PROVE  IInv'
<1>0. /\ TypeOK /\ End(p) /\ Release(p) /\ UNCHANGED <<keyring, envelopes, history>>
      /\ cached' = [cached EXCEPT ![p] = 0] /\ 0 \in 0..MaxKeys
  BY KeysAssumption DEF IInv, Crash
<1> QED
  BY <1>0, SetIdle, Bystander, CallStep DEF history

LEMMA RemoveMasterStep ==
  ASSUME IInv, RemoveMaster
  PROVE  IInv'
<1>0. /\ TypeOK /\ master' = 0 /\ \A p \in Processes : ~At(p, "insert")
      /\ UNCHANGED <<legacy, keys, envelopes, writer, cached, op, history>>
  BY DEF IInv, RemoveMaster
<1>1. TypeOK'
  BY <1>0, KeysAssumption DEF TypeOK, history
<1>2. UsedInv' /\ OneKeyOpensAll' /\ SecretsLiveUntilDeleted'
  BY <1>0 DEF IInv, UsedInv, OneKeyOpensAll, SecretsLiveUntilDeleted, history
<1>3. ASSUME NEW p \in Processes  PROVE KeyInv(p)' /\ RefInv(p)'
  <2>1. KeyInv(p) /\ RefInv(p)
    BY DEF IInv
  <2>2. KeyInv(p)'
    BY <1>0, <2>1 DEF KeyInv, At, NoEnvelopes
  <2>3. RefInv(p)'
    BY <1>0, <2>1 DEF RefInv, history
  <2> QED
    BY <2>2, <2>3
<1> QED
  BY <1>1, <1>2, <1>3 DEF IInv

-----------------------------------------------------------------------------
(* The theorems *)

LEMMA Initially == Init => IInv
<1> SUFFICES ASSUME Init  PROVE IInv
  OBVIOUS
<1>0. Idle.step = "idle" /\ Idle.name = "none"
  BY DEF Idle
<1>1. TypeOK
  BY IdleOp, KeysAssumption DEF Init, TypeOK
<1>2. UsedInv /\ OneKeyOpensAll /\ SecretsLiveUntilDeleted
  BY DEF Init, UsedInv, OneKeyOpensAll, SecretsLiveUntilDeleted
<1>3. ASSUME NEW p \in Processes  PROVE KeyInv(p) /\ RefInv(p)
  BY <1>0 DEF Init, KeyInv, RefInv, At, Locked, GetSteps, DeleteSteps
<1> QED
  BY <1>1, <1>2, <1>3 DEF IInv

LEMMA Inductive == IInv /\ [Next]_vars => IInv'
<1> SUFFICES ASSUME IInv, [Next]_vars  PROVE IInv'
  OBVIOUS
<1>1. CASE UNCHANGED vars
  BY <1>1 DEF IInv, vars, TypeOK, UsedInv, OneKeyOpensAll, SecretsLiveUntilDeleted, KeyInv, RefInv,
              At, NoEnvelopes
<1>2. ASSUME NEW p \in Processes, Step(p)  PROVE IInv'
  BY <1>2, BootstrapStep, ReadMasterStep, StoreMasterStep, VerifyStep, BeginPutStep, InsertStep,
     LoadStep, DecryptStep, MigrateStep, ReadLegacyStep, CopyStep, CleanupStep, ClearLegacyStep,
     MarkStep, DeleteStep, EraseLegacyStep, RemoveStep, FailStep, CrashStep DEF Step
<1>3. ASSUME NEW p \in Processes, NEW r \in References, BeginGet(p, r) \/ BeginDelete(p, r)
      PROVE  IInv'
  BY <1>3, BeginGetStep, BeginDeleteStep
<1> QED
  BY <1>1, <1>2, <1>3, RemoveMasterStep DEF Next

\* What each step of every call finds holds whatever the interleaving.
THEOREM Invariance == Spec => []IInv
  BY Initially, Inductive, PTL DEF Spec

\* Every variable of the vault keeps its type.
THEOREM TypeCorrect == Spec => []TypeOK
<1>1. IInv => TypeOK
  BY DEF IInv
<1> QED
  BY <1>1, Invariance, PTL

\* bootstrap_master, verify_cached_master_for_write and migrate_legacy never let
\* two keys open the envelopes, for any number of processes.
THEOREM OneKey == Spec => []OneKeyOpensAll
<1>1. IInv => OneKeyOpensAll
  BY DEF IInv
<1> QED
  BY <1>1, Invariance, PTL

\* migrate_legacy, cleanup_legacy_if_pending and delete lose no password and
\* bring none back, whatever fails, stops or overlaps.
THEOREM SecretsLive == Spec => []SecretsLiveUntilDeleted
<1>1. IInv => SecretsLiveUntilDeleted
  BY DEF IInv
<1> QED
  BY <1>1, Invariance, PTL

-----------------------------------------------------------------------------
(***************************************************************************)
(* Above the vault: importing the profiles of an earlier program, and with *)
(* them their passwords, while other processes save and delete             *)
(* (LegacyMigration).  What a call compared stands as long as revisions    *)
(* say so; a reference it drew is nobody else's until a profile has it;    *)
(* and every secret has a profile, a row or a call that answers for it.    *)
(***************************************************************************)
LEMMA Fields ==
  ASSUME NEW n \in Import!CallRecord
  PROVE  /\ n.todo \in SUBSET Ids /\ n.missing \in SUBSET Ids /\ n.id \in Ids \cup {Nil}
         /\ n.record \in Import!Profile \cup {Nil} /\ n.since \in Nat /\ n.verified \in [Ids -> Nat]
         /\ n.prepared \in [Ids -> Refs \cup {Nil, Empty}] /\ n.fresh \in Refs \cup {Nil}
         /\ n.scoped \in BOOLEAN /\ n.conflict \in BOOLEAN
         /\ \A i \in Ids : n.verified[i] \in Nat /\ n.prepared[i] \in Refs \cup {Nil, Empty}
  BY DEF Import!CallRecord

LEMMA NoCallType ==
  /\ Import!NoCall \in Import!CallRecord /\ Import!NoCall.fresh = Nil
     /\ \A i \in Ids : Import!NoCall.prepared[i] = Nil
  /\ Import!NoCall.verified = [i \in Ids |-> 0] /\ Import!NoCall.missing = {}
     /\ Import!NoCall.conflict = FALSE
  /\ Import!NoCall.scoped = FALSE /\ Import!NoCall.at = "idle" /\ Import!NoCall.todo = {}
  BY DEF Import!NoCall, Import!CallRecord

LEMMA SetEffect ==
  ASSUME Import!MigrationTypes, NEW c \in Callers, NEW n \in Import!CallRecord, Import!Set(c, n)
  PROVE  /\ call' \in [Callers -> Import!CallRecord] /\ call'[c] = n
         /\ \A d \in Callers : d # c => call'[d] = call[d]
  BY DEF Import!MigrationTypes, Import!Set

LEMMA StoredStays ==
  ASSUME Import!History, NEW i \in Ids, Import!Stored(i), profiles'[i] = profiles[i]
  PROVE  Import!Stored(i)'
  <1>1. passwords' = passwords
        /\ (Import!HasSecret(i) => vault'[profiles[i].ref] = vault[profiles[i].ref])
    BY DEF Import!History
  <1> QED BY <1>1 DEF Import!Stored, Import!HasSecret

LEMMA ComparesStays ==
  ASSUME Import!History, NEW n \in Import!CallRecord, Import!Compares(n)
  PROVE  Import!Compares(n)'
  <1>1. /\ revision \in Nat /\ revision' \in Nat /\ revision <= revision'
        /\ \A i \in Ids : n.verified[i] \in Nat /\ n.verified[i] <= revision
    BY Fields DEF Import!History, Import!Compares
  <1>2. \A i \in Ids : n.verified[i] <= revision'
    BY <1>1
  <1>3. ASSUME NEW i \in Ids, n.verified[i] > 0, Import!HasRevision(i, n.verified[i])'
        PROVE  Import!Stored(i)'
    <2>1. profiles'[i] # Nil /\ profiles'[i].revision = n.verified[i]
      BY <1>3 DEF Import!HasRevision
    <2>2. ~(profiles'[i].revision > revision)
      BY <1>1, <2>1
    <2>3. profiles'[i] = profiles[i]
      BY <2>1, <2>2 DEF Import!History
    <2>4. Import!Stored(i)
      BY <1>3, <2>1, <2>3 DEF Import!HasRevision, Import!Compares
    <2> QED BY <2>3, <2>4, StoredStays
  <1>4. \A i \in Ids : n.verified[i] > 0 /\ Import!HasRevision(i, n.verified[i])' => Import!Stored(i)'
    BY <1>3
  <1>5. \A i \in Ids : \/ i \in n.todo \/ i \in n.missing \/ n.conflict
                       \/ n.at = "secret" /\ i = n.id
                       \/ n.verified[i] > 0
    BY DEF Import!Compares
  <1> QED BY <1>2, <1>4, <1>5 DEF Import!Compares

LEMMA ScopeStays ==
  ASSUME Import!History, NEW n \in Import!CallRecord, Import!ScopeFits(n)
  PROVE  Import!ScopeFits(n)'
  <1>1. /\ revision \in Nat /\ revision' \in Nat /\ revision <= revision' /\ n.since \in Nat
        /\ n.since <= revision
    BY Fields DEF Import!History, Import!ScopeFits
  <1>2. n.since = revision' => revision' = revision /\ n.since = revision
    BY <1>1
  <1>3. n.since = revision' => profiles' = profiles
    BY <1>2 DEF Import!History
  <1>4. n.since <= revision'
    BY <1>1
  <1>5. n.since = revision' => \A i \in Ids : n.verified[i] > 0 => Import!HasRevision(i, n.verified[i])'
    BY <1>2, <1>3 DEF Import!ScopeFits, Import!HasRevision
  <1> QED BY <1>4, <1>5 DEF Import!ScopeFits

LEMMA ReadsSecretStays ==
  ASSUME Import!History, NEW n \in Import!CallRecord, n.id \in Ids, Import!ReadsSecret(n),
         n.scoped => Import!ScopeFits(n)
  PROVE  Import!ReadsSecret(n)'
  <1>1. PICK i : i = n.id
    OBVIOUS
  <1>2. PICK k : k = n.record.revision
    OBVIOUS
  <1>3. /\ revision \in Nat /\ revision' \in Nat /\ revision <= revision' /\ n.since \in Nat
        /\ passwords' = passwords
    BY Fields DEF Import!History
  <1>4. /\ i \in Ids /\ n.record.ref # Nil /\ k \in 1..revision
        /\ n.record.same /\ passwords[i] # Empty
        /\ Import!HasRevision(i, k) => profiles[i] = n.record
        /\ n.scoped /\ n.since = revision => profiles[i] = n.record
    BY <1>1, <1>2 DEF Import!ReadsSecret
  <1>5. k \in 1..revision' /\ ~(k > revision)
    BY <1>3, <1>4
  <1>6. Import!HasRevision(i, k)' => profiles'[i] = n.record
    <2>1. SUFFICES ASSUME profiles'[i] # Nil, profiles'[i].revision = k
                   PROVE  profiles'[i] = n.record
      BY DEF Import!HasRevision
    <2>2. profiles'[i] = profiles[i]
      BY <1>4, <1>5, <2>1 DEF Import!History
    <2> QED BY <1>4, <2>1, <2>2 DEF Import!HasRevision
  <1>7. n.scoped /\ n.since = revision' => profiles'[i] = n.record
    <2>1. SUFFICES ASSUME n.scoped, n.since = revision'
                   PROVE  profiles'[i] = n.record
      OBVIOUS
    <2>2. n.since <= revision
      BY <2>1 DEF Import!ScopeFits
    <2>3. revision' = revision
      BY <1>3, <2>1, <2>2
    <2> QED BY <1>4, <2>1, <2>3 DEF Import!History
  <1> QED BY <1>1, <1>2, <1>3, <1>4, <1>5, <1>6, <1>7 DEF Import!ReadsSecret

LEMMA WaitsStays ==
  ASSUME passwords' = passwords, NEW n, Import!Spares(n), NEW i \in Ids,
         NEW r \in Import!Owned(n) \cap Refs,
         NEW row \in {"staged", "none"}, Import!Waits(r, i, row)
  PROVE  Import!Waits(r, i, row)'
  <1>1. passwords[i] # Empty /\ vault[r] = passwords[i] /\ rows[r] = row /\ ~Import!Referenced(r)
    BY DEF Import!Waits
  <1>2. vault'[r] = vault[r] /\ rows'[r] = rows[r] /\ ~Import!Referenced(r)'
    BY <1>1 DEF Import!Spares
  <1> QED BY <1>1, <1>2 DEF Import!Waits

LEMMA PreparesStays ==
  ASSUME passwords' = passwords, NEW n, Import!Spares(n), Import!Prepares(n)
  PROVE  Import!Prepares(n)'
  <1>1. ASSUME NEW i \in Ids, n.prepared[i] \in Refs
        PROVE  Import!Waits(n.prepared[i], i, "staged")'
    <2>2. n.prepared[i] \in Import!Owned(n) \cap Refs
      BY <1>1 DEF Import!Owned
    <2>3. Import!Waits(n.prepared[i], i, "staged")
      BY <1>1 DEF Import!Prepares
    <2> QED BY <2>2, <2>3, WaitsStays
  <1>2. \A i \in Ids : n.prepared[i] = Empty => passwords'[i] = Empty
    BY DEF Import!Prepares
  <1>3. ~n.scoped /\ n.todo = {} /\ ~n.conflict
    BY DEF Import!Prepares
  <1> QED BY <1>1, <1>2, <1>3 DEF Import!Prepares

LEMMA DrawsStays ==
  ASSUME passwords' = passwords, NEW n, Import!Spares(n), Import!Draws(n)
  PROVE  Import!Draws(n)'
  <1>1. /\ n.id \in Ids /\ n.fresh \in Refs /\ n.prepared[n.id] = Nil
        /\ Import!Waits(n.fresh, n.id, "none")
    BY DEF Import!Draws
  <1>2. n.fresh \in Import!Owned(n) \cap Refs
    BY <1>1 DEF Import!Owned
  <1>3. Import!Waits(n.fresh, n.id, "none")'
    BY <1>1, <1>2, WaitsStays
  <1> QED BY <1>1, <1>3 DEF Import!Draws

LEMMA FitsStays ==
  ASSUME Import!History, NEW n \in Import!CallRecord, Import!Spares(n), Import!Fits(n)
  PROVE  Import!Fits(n)'
  <1>1. /\ n.at \in {"idle", "complete?", "scope", "compare", "secret"} =>
             n.fresh = Nil /\ \A i \in Ids : n.prepared[i] = Nil
        /\ n.at \in {"complete?", "scope"} => ~n.scoped /\ \A i \in Ids : n.verified[i] = 0
        /\ n.at = "prepare" => n.fresh = Nil
    BY DEF Import!Fits
  <1>2. ASSUME n.at \in {"compare", "secret", "prepare", "stage"}, n.kind = "migrate"
        PROVE  Import!Compares(n)' /\ (n.scoped => Import!ScopeFits(n)')
    BY <1>2, ComparesStays, ScopeStays DEF Import!Fits
  <1>8. n.at = "secret" => n.id \in Ids /\ n.record # Nil
    BY DEF Import!Fits
  <1>3. ASSUME n.at = "secret", n.kind = "migrate" PROVE Import!ReadsSecret(n)'
    BY <1>3, <1>8, ReadsSecretStays DEF Import!Fits
  <1>4. passwords' = passwords
    BY DEF Import!History
  <1>5. ASSUME n.at \in {"prepare", "stage"} PROVE Import!Prepares(n)'
    BY <1>4, <1>5, PreparesStays DEF Import!Fits
  <1>6. ASSUME n.at = "stage" PROVE Import!Draws(n)'
    BY <1>4, <1>6, DrawsStays DEF Import!Fits
  <1> QED BY <1>1, <1>2, <1>3, <1>5, <1>6, <1>8 DEF Import!Fits

\* What holds of a record holds of the call that it is.
LEMMA FitsOf ==
  ASSUME NEW c \in Callers, NEW n, call'[c] = n, Import!Fits(n)'
  PROVE  Import!CallFits(c)'
  <1>1. Import!Compares(n)' => Import!Compares(call[c])'
    BY DEF Import!Compares, Import!HasRevision
  <1>2. Import!ScopeFits(n)' => Import!ScopeFits(call[c])'
    BY DEF Import!ScopeFits, Import!HasRevision
  <1>3. Import!ReadsSecret(n)' => Import!ReadsSecret(call[c])'
    BY DEF Import!ReadsSecret, Import!HasRevision
  <1>4. Import!Prepares(n)' => Import!Prepares(call[c])'
    BY DEF Import!Prepares, Import!Waits, Import!Referenced
  <1>5. Import!Draws(n)' => Import!Draws(call[c])'
    BY DEF Import!Draws, Import!Waits, Import!Referenced
  <1> QED BY <1>1, <1>2, <1>3, <1>4, <1>5 DEF Import!CallFits, Import!Fits

LEMMA OthersFit ==
  ASSUME Import!History, NEW d \in Callers, call[d] \in Import!CallRecord, call'[d] = call[d],
         Import!Spares(call[d]),
         Import!CallFits(d)
  PROVE  Import!CallFits(d)'
  <1>1. PICK n \in Import!CallRecord : n = call[d]
    OBVIOUS
  <1>2. Import!Spares(n) /\ Import!Fits(n) /\ call'[d] = n
    BY <1>1 DEF Import!CallFits
  <1> QED BY <1>2, FitsStays, FitsOf

-----------------------------------------------------------------------------
\* Whose a reference is.
LEMMA AloneKeeps ==
  ASSUME Import!MigrationTypes, \A d \in Callers : Import!Alone(d), NEW c \in Callers,
         NEW n \in Import!CallRecord, Import!Set(c, n),
         NEW x, x \in {Nil, Empty} \/ \A d \in Callers : d # c => x \notin Import!Owned(call[d]),
         n.fresh \in Import!Owned(call[c]) \cup {x},
         \A i \in Ids : n.prepared[i] \in Import!Owned(call[c]) \cup {x},
         \A i, j \in Ids : i # j /\ n.prepared[i] = n.prepared[j] => n.prepared[i] \in {Nil, Empty},
         \A i \in Ids : n.prepared[i] # Nil => n.prepared[i] # n.fresh
  PROVE  \A d \in Callers : Import!Alone(d)'
  <1>1. call'[c] = n /\ \A d \in Callers : d # c => call'[d] = call[d]
    BY SetEffect
  <1>2. \A d \in Callers : d # c => Import!Owned(call[d])' = Import!Owned(call[d])
    BY <1>1 DEF Import!Owned
  <1>3. \A y \in Import!Owned(call[c])' : y \in Import!Owned(call[c]) \/ y = x
    BY <1>1 DEF Import!Owned
  <1>4. ASSUME NEW d \in Callers,
               d # c PROVE Import!Owned(call[c])' \cap Import!Owned(call[d])' \subseteq {Nil, Empty}
    <2>1. Import!Owned(call[c]) \cap Import!Owned(call[d]) \subseteq {Nil, Empty}
      BY <1>4 DEF Import!Alone
    <2> QED BY <1>2, <1>3, <1>4, <2>1
  <1>5. Import!Alone(c)'
    BY <1>1, <1>4 DEF Import!Alone
  <1>6. ASSUME NEW d \in Callers, d # c PROVE Import!Alone(d)'
    <2>1. ASSUME NEW e \in Callers,
                 e # d PROVE Import!Owned(call[d])' \cap Import!Owned(call[e])' \subseteq {Nil, Empty}
      <3>1. CASE e = c
        BY <1>4, <1>6, <3>1
      <3>2. CASE e # c
        BY <1>2, <1>6, <2>1, <3>2 DEF Import!Alone
      <3> QED BY <3>1, <3>2
    <2> QED BY <1>1, <1>6, <2>1 DEF Import!Alone
  <1> QED BY <1>5, <1>6

\* Nothing drawn, nothing given up.
LEMMA AloneStays ==
  ASSUME Import!MigrationTypes, \A d \in Callers : Import!Alone(d), NEW c \in Callers,
         NEW n \in Import!CallRecord, Import!Set(c, n),
         n.fresh = call[c].fresh, n.prepared = call[c].prepared
  PROVE  \A d \in Callers : Import!Alone(d)'
  <1>1. n.fresh \in Import!Owned(call[c]) /\ \A i \in Ids : n.prepared[i] \in Import!Owned(call[c])
    BY DEF Import!Owned
  <1>2. /\ \A i, j \in Ids : i # j /\ n.prepared[i] = n.prepared[j] => n.prepared[i] \in {Nil, Empty}
        /\ \A i \in Ids : n.prepared[i] # Nil => n.prepared[i] # n.fresh
    BY DEF Import!Alone
  <1> QED BY <1>1, <1>2, AloneKeeps

LEMMA CallKeeps ==
  ASSUME Import!MInv, NEW c \in Callers, NEW n \in Import!CallRecord, Import!Set(c, n), Import!History,
         \A d \in Callers : d # c => Import!Spares(call[d]), \A d \in Callers : Import!Alone(d)',
         Import!CallFits(c)',
         Import!MigrationTypes', Import!Repository', Import!Answered'
  PROVE  Import!MInv'
  <1>1. /\ Import!MigrationTypes /\ \A d \in Callers : Import!CallFits(d)
           /\ call[d] \in Import!CallRecord
    BY DEF Import!MInv, Import!MigrationTypes
  <1>2. \A d \in Callers : d # c => call'[d] = call[d]
    BY <1>1, SetEffect
  <1>3. ASSUME NEW d \in Callers, d # c PROVE Import!CallFits(d)'
    BY <1>1, <1>2, <1>3, OthersFit
  <1> QED BY <1>3 DEF Import!MInv

\* A step that only the call knows of.
LEMMA NothingMoves ==
  ASSUME Import!MInv, UNCHANGED <<passwords, profiles, revision, complete, vault, rows, removed>>
  PROVE  /\ Import!History /\ Import!Repository' /\ \A d \in Callers : Import!Spares(call[d])
         /\ call' \in [Callers -> Import!CallRecord] => Import!MigrationTypes'
         /\ \A r \in Refs : Import!Referenced(r)' <=> Import!Referenced(r)
  <1>1. Import!MigrationTypes /\ Import!Repository
    BY DEF Import!MInv
  <1>2. Import!History
    BY <1>1 DEF Import!History, Import!MigrationTypes
  <1>3. Import!Repository'
    BY <1>1 DEF Import!Repository, Import!HasSecret
  <1>4. \A r \in Refs : Import!Referenced(r)' <=> Import!Referenced(r)
    BY DEF Import!Referenced
  <1>5. \A d \in Callers : Import!Spares(call[d])
    BY <1>4 DEF Import!Spares
  <1>6. call' \in [Callers -> Import!CallRecord] => Import!MigrationTypes'
    BY <1>1 DEF Import!MigrationTypes
  <1> QED BY <1>2, <1>3, <1>4, <1>5, <1>6

LEMMA AnsweredStays ==
  ASSUME Import!MInv, NEW c \in Callers, NEW n \in Import!CallRecord, Import!Set(c, n),
         n.fresh = call[c].fresh,
         UNCHANGED <<vault, rows>>, \A r \in Refs : Import!Referenced(r)' <=> Import!Referenced(r)
  PROVE  Import!Answered'
  <1>1. /\ Import!MigrationTypes /\ Import!Answered
    BY DEF Import!MInv
  <1>2. \A d \in Callers : call'[d].fresh = call[d].fresh
    BY <1>1, SetEffect
  <1> QED BY <1>1, <1>2 DEF Import!Answered

LEMMA QuietKeeps ==
  ASSUME Import!MInv, NEW c \in Callers, NEW n \in Import!CallRecord, Import!Set(c, n),
         UNCHANGED <<passwords, profiles, revision, complete, vault, rows, removed>>,
         n.fresh = call[c].fresh, n.prepared = call[c].prepared, Import!Fits(n)
  PROVE  Import!MInv'
  <1>1. Import!MigrationTypes /\ \A d \in Callers : Import!Alone(d)
    BY DEF Import!MInv
  <1>2. \A d \in Callers : Import!Alone(d)'
    BY <1>1, AloneStays
  <1>3. /\ Import!History /\ Import!Repository' /\ \A d \in Callers : Import!Spares(call[d])
        /\ call' \in [Callers -> Import!CallRecord] => Import!MigrationTypes'
        /\ \A r \in Refs : Import!Referenced(r)' <=> Import!Referenced(r)
    BY NothingMoves
  <1>4. Import!Answered'
    BY <1>3, AnsweredStays
  <1>5. Import!MigrationTypes'
    BY <1>1, <1>3, SetEffect
  <1>6. Import!Spares(n)
    <2>1. \A r \in Refs : vault'[r] = vault[r] /\ rows'[r] = rows[r]
      OBVIOUS
    <2> QED BY <1>3, <2>1 DEF Import!Spares
  <1>7. Import!CallFits(c)'
    BY <1>1, <1>3, <1>6, SetEffect, FitsStays, FitsOf
  <1> QED BY <1>7, <1>2, <1>3, <1>4, <1>5, CallKeeps


-----------------------------------------------------------------------------
\* The steps of a call that change nothing but the call.
LEMMA Known ==
  ASSUME Import!MInv, NEW c \in Callers
  PROVE  /\ Import!MigrationTypes /\ Import!Repository /\ call[c] \in Import!CallRecord
            /\ Import!Fits(call[c])
         /\ revision \in Nat /\ passwords \in [Ids -> {"old", Empty}]
         /\ profiles \in [Ids -> Import!Profile \cup {Nil}]
  BY DEF Import!MInv, Import!MigrationTypes, Import!CallFits

LEMMA FitsEnd ==
  ASSUME NEW n \in Import!CallRecord, n.at \in {"undo", "ok", "failed", "stopped"}
  PROVE  Import!Fits(n) /\ Import!Fits(n)'
  BY DEF Import!Fits

LEMMA FitsCompare ==
  ASSUME NEW n \in Import!CallRecord, n.at = "compare", n.fresh = Nil,
         \A i \in Ids : n.prepared[i] = Nil,
         n.kind = "migrate" => Import!Compares(n) /\ (n.scoped => Import!ScopeFits(n))
  PROVE  Import!Fits(n)
  BY DEF Import!Fits

\* The comparison begins with everything to do.
LEMMA BeginsToCompare ==
  ASSUME revision \in Nat, NEW n \in Import!CallRecord, n.at = "compare", n.fresh = Nil,
         \A i \in Ids : n.prepared[i] = Nil, \A i \in Ids : n.verified[i] = 0,
         n.kind = "migrate" => n.todo = Ids, n.scoped => n.since = revision
  PROVE  Import!Fits(n)
  <1>1. n.kind = "migrate" => Import!Compares(n)
    BY DEF Import!Compares
  <1>2. n.scoped => Import!ScopeFits(n)
    BY DEF Import!ScopeFits
  <1> QED BY <1>1, <1>2, FitsCompare

LEMMA CheckCompleteKeeps ==
  ASSUME Import!MInv, NEW c \in Callers, Import!CheckComplete(c)
  PROVE  Import!MInv'
  <1>1. PICK m \in Import!CallRecord : m = call[c] /\ Import!Fits(m) /\ m.at = "complete?"
    BY Known DEF Import!CheckComplete, Import!At
  <1>2. /\ m.fresh = Nil /\ \A i \in Ids : m.prepared[i] = Nil /\ m.verified[i] = 0
        /\ ~m.scoped
    BY <1>1 DEF Import!Fits
  <1>3. UNCHANGED <<passwords, profiles, revision, complete, vault, rows, removed>>
    BY DEF Import!CheckComplete
  <1>4. CASE complete
    <2>1. PICK n : n = [m EXCEPT !.at = "scope"]
      OBVIOUS
    <2>2. /\ n \in Import!CallRecord /\ n.at = "scope" /\ n.fresh = m.fresh /\ n.prepared = m.prepared
          /\ n.verified = m.verified /\ n.scoped = m.scoped
      BY <2>1 DEF Import!CallRecord
    <2>3. Import!Set(c, n)
      BY <1>1, <1>4, <2>1 DEF Import!CheckComplete, Import!Goes
    <2>4. Import!Fits(n)
      BY <1>2, <2>2 DEF Import!Fits
    <2> QED BY <1>1, <1>3, <2>2, <2>3, <2>4, QuietKeeps
  <1>5. CASE ~complete
    <2>1. PICK n : n = [m EXCEPT !.at = "compare", !.todo = Ids]
      OBVIOUS
    <2>2. /\ n \in Import!CallRecord /\ n.at = "compare" /\ n.fresh = m.fresh /\ n.prepared = m.prepared
          /\ n.verified = m.verified /\ n.scoped = m.scoped /\ n.todo = Ids
      BY <2>1 DEF Import!CallRecord
    <2>3. Import!Set(c, n)
      BY <1>1, <1>5, <2>1 DEF Import!CheckComplete
    <2>4. Import!Fits(n)
      BY <1>2, <2>2, BeginsToCompare, Known
    <2> QED BY <1>1, <1>3, <2>2, <2>3, <2>4, QuietKeeps
  <1> QED BY <1>4, <1>5

LEMMA VerifyKeeps ==
  ASSUME Import!MInv, NEW c \in Callers, Import!Verify(c)
  PROVE  Import!MInv'
  <1>1. PICK m \in Import!CallRecord : m = call[c] /\ Import!Fits(m) /\ m.at = "idle"
    BY Known DEF Import!Verify, Import!At
  <1>2. m.fresh = Nil /\ m.prepared \in [Ids -> Refs \cup {Nil, Empty}]
        /\ \A i \in Ids : m.prepared[i] = Nil
    BY <1>1, Fields DEF Import!Fits
  <1>3. PICK n : n = [Import!NoCall EXCEPT !.kind = "verify", !.at = "scope"]
    OBVIOUS
  <1>4. /\ n \in Import!CallRecord /\ n.at = "scope" /\ n.fresh = Nil
           /\ n.prepared = [i \in Ids |-> Nil]
        /\ n.verified = [i \in Ids |-> 0] /\ n.scoped = FALSE
    BY <1>3, NoCallType DEF Import!CallRecord, Import!NoCall
  <1>5. Import!Fits(n)
    BY <1>4 DEF Import!Fits
  <1>6. n.prepared = m.prepared
    BY <1>2, <1>4
  <1>7. Import!Set(c, n) /\ UNCHANGED <<passwords, profiles, revision, complete, vault, rows, removed>>
    BY <1>3 DEF Import!Verify
  <1> QED BY <1>1, <1>2, <1>4, <1>5, <1>6, <1>7, QuietKeeps

LEMMA ScopeKeeps ==
  ASSUME Import!MInv, NEW c \in Callers, Import!Scope(c)
  PROVE  Import!MInv'
  <1>1. PICK m \in Import!CallRecord : m = call[c] /\ Import!Fits(m) /\ m.at = "scope"
    BY Known DEF Import!Scope, Import!At
  <1>2. m.fresh = Nil /\ \A i \in Ids : m.prepared[i] = Nil /\ m.verified[i] = 0
    BY <1>1 DEF Import!Fits
  <1>3. PICK todo \in SUBSET Ids :
          todo = IF m.kind = "migrate" THEN Ids
                 ELSE {i \in Ids : profiles[i] # Nil /\ profiles[i].ref # Nil}
    OBVIOUS
  <1>4. PICK n : n = [m EXCEPT !.at = "compare", !.scoped = TRUE, !.since = revision, !.todo = todo]
    OBVIOUS
  <1>5. /\ n \in Import!CallRecord /\ n.at = "compare" /\ n.fresh = m.fresh /\ n.prepared = m.prepared
        /\ n.verified = m.verified /\ n.since = revision /\ n.todo = todo /\ n.kind = m.kind
    BY <1>4, Known DEF Import!CallRecord
  <1>6. Import!Fits(n)
    BY <1>2, <1>3, <1>5, BeginsToCompare, Known
  <1>7. Import!Set(c, n) /\ UNCHANGED <<passwords, profiles, revision, complete, vault, rows, removed>>
    BY <1>1, <1>3, <1>4 DEF Import!Scope
  <1> QED BY <1>1, <1>5, <1>6, <1>7, QuietKeeps

\* Whether the profile i is stored is decided: it has the revision k, or it
\* is another.
LEMMA Matches ==
  ASSUME Import!MInv, NEW c \in Callers, NEW m \in Import!CallRecord, m = call[c],
         m.fresh = Nil, \A j \in Ids : m.prepared[j] = Nil,
         m.at \in {"compare", "secret"}, NEW i \in Ids, m.at = "secret" => i = m.id,
         NEW k \in Nat, m.kind = "migrate" => k \in 1..revision, NEW n \in Import!CallRecord,
         n.at = "compare", n.kind = m.kind, n.scoped = m.scoped, n.since = m.since,
         n.todo = m.todo \ {i}, n.missing = m.missing, n.conflict = m.conflict,
         n.verified = [m.verified EXCEPT ![i] = k], n.fresh = m.fresh, n.prepared = m.prepared,
         m.kind = "migrate" /\ Import!HasRevision(i, k) => Import!Stored(i),
         m.kind = "migrate" /\ m.scoped /\ m.since = revision => Import!HasRevision(i, k)
  PROVE  Import!Fits(n)
  <1>1. /\ m.kind = "migrate" => Import!Compares(m) /\ (m.scoped => Import!ScopeFits(m))
        /\ m.verified \in [Ids -> Nat] /\ revision \in Nat
        /\ m.kind = "migrate" => k > 0 /\ k <= revision
    BY Known, Fields DEF Import!Fits
  <1>2. n.verified[i] = k /\ \A j \in Ids : j # i => n.verified[j] = m.verified[j]
    BY <1>1
  <1>3. ASSUME m.kind = "migrate" PROVE Import!Compares(n)
    <2>1. Import!Compares(m)
      BY <1>1, <1>3
    <2>2. \A j \in Ids : n.verified[j] <= revision
      BY <1>1, <1>2, <1>3, <2>1 DEF Import!Compares
    <2>3. \A j \in Ids : \/ j \in n.todo \/ j \in n.missing \/ n.conflict
                         \/ n.at = "secret" /\ j = n.id
                         \/ n.verified[j] > 0
      BY <1>1, <1>2, <1>3, <2>1 DEF Import!Compares
    <2>4. \A j \in Ids : n.verified[j] > 0 /\ Import!HasRevision(j, n.verified[j]) => Import!Stored(j)
      BY <1>2, <1>3, <2>1 DEF Import!Compares
    <2> QED BY <2>2, <2>3, <2>4 DEF Import!Compares
  <1>4. ASSUME m.kind = "migrate", m.scoped PROVE Import!ScopeFits(n)
    <2>1. Import!ScopeFits(m)
      BY <1>1, <1>4
    <2>2. \A j \in Ids : n.since = revision /\ n.verified[j] > 0 => Import!HasRevision(j, n.verified[j])
      BY <1>2, <1>4, <2>1 DEF Import!ScopeFits
    <2> QED BY <2>1, <2>2 DEF Import!ScopeFits
  <1> QED BY <1>3, <1>4, FitsCompare

LEMMA Conflicts ==
  ASSUME Import!MInv, NEW c \in Callers, NEW m \in Import!CallRecord, m = call[c],
         m.fresh = Nil, \A j \in Ids : m.prepared[j] = Nil,
         m.at \in {"compare", "secret"}, NEW n \in Import!CallRecord,
         n.at = "compare", n.kind = m.kind, n.scoped = m.scoped, n.since = m.since,
         n.conflict = TRUE, n.verified = m.verified, n.fresh = m.fresh, n.prepared = m.prepared
  PROVE  Import!Fits(n)
  <1>1. m.kind = "migrate" => Import!Compares(m) /\ (m.scoped => Import!ScopeFits(m))
    BY Known DEF Import!Fits
  <1>2. m.kind = "migrate" => Import!Compares(n)
    BY <1>1 DEF Import!Compares
  <1>3. m.kind = "migrate" /\ m.scoped => Import!ScopeFits(n)
    BY <1>1 DEF Import!ScopeFits
  <1> QED BY <1>2, <1>3, FitsCompare

LEMMA ReadRecordKeeps ==
  ASSUME Import!MInv, NEW c \in Callers, Import!ReadRecord(c)
  PROVE  Import!MInv'
  <1>1. PICK m \in Import!CallRecord : m = call[c] /\ Import!Fits(m) /\ m.at = "compare"
    BY Known DEF Import!ReadRecord, Import!At
  <1>2. /\ m.fresh = Nil /\ \A i \in Ids : m.prepared[i] = Nil
        /\ m.kind = "migrate" => Import!Compares(m) /\ (m.scoped => Import!ScopeFits(m))
        /\ m.todo \in SUBSET Ids /\ m.missing \in SUBSET Ids /\ m.verified \in [Ids -> Nat]
    BY <1>1, Fields DEF Import!Fits
  <1>3. UNCHANGED <<passwords, profiles, revision, complete, vault, rows, removed>>
    BY DEF Import!ReadRecord
  <1>4. PICK i \in m.todo :
          LET differs == m.kind = "migrate"
                           /\ (~profiles[i].same \/ (profiles[i].ref = Nil) # (passwords[i] = Empty))
          IN Import!Set(c, IF profiles[i] = Nil
                    THEN [m EXCEPT !.todo = @ \ {i}, !.missing = @ \cup {i}]
                    ELSE IF differs THEN Import!Conflicting(c, i)
                    ELSE IF profiles[i].ref = Nil THEN Import!Matched(c, i, profiles[i])
                    ELSE [m EXCEPT !.at = "secret", !.id = i, !.record = profiles[i]])
    BY <1>1 DEF Import!ReadRecord
  <1>5. PICK record : record = profiles[i]
    OBVIOUS
  <1>6. i \in Ids /\ record \in Import!Profile \cup {Nil}
    BY <1>2, <1>5, Known
  <1>7. PICK differs \in BOOLEAN :
          differs <=> m.kind = "migrate"
                        /\ (~record.same \/ (record.ref = Nil) # (passwords[i] = Empty))
    OBVIOUS
  <1>8. CASE record = Nil
    <2>1. PICK n : n = [m EXCEPT !.todo = @ \ {i}, !.missing = @ \cup {i}]
      OBVIOUS
    <2>2. /\ n \in Import!CallRecord /\ n.at = m.at /\ n.fresh = m.fresh /\ n.prepared = m.prepared
          /\ n.verified = m.verified /\ n.since = m.since /\ n.kind = m.kind
          /\ n.scoped = m.scoped /\ n.conflict = m.conflict
          /\ n.todo = m.todo \ {i} /\ n.missing = m.missing \cup {i}
      BY <1>6, <2>1 DEF Import!CallRecord
    <2>3. Import!Set(c, n)
      BY <1>4, <1>5, <1>8, <2>1
    <2>4. m.kind = "migrate" => Import!Compares(n)
      BY <1>1, <1>2, <2>2 DEF Import!Compares
    <2>5. m.kind = "migrate" /\ m.scoped => Import!ScopeFits(n)
      BY <1>2, <2>2 DEF Import!ScopeFits
    <2>6. Import!Fits(n)
      BY <1>1, <1>2, <2>2, <2>4, <2>5, FitsCompare
    <2> QED BY <1>1, <1>3, <2>2, <2>3, <2>6, QuietKeeps
  <1>9. CASE record # Nil /\ differs
    <2>1. PICK n : n = [m EXCEPT !.at = "compare", !.todo = @ \ {i}, !.conflict = TRUE]
      OBVIOUS
    <2>2. /\ n \in Import!CallRecord /\ n.at = "compare" /\ n.fresh = m.fresh /\ n.prepared = m.prepared
          /\ n.verified = m.verified /\ n.since = m.since /\ n.kind = m.kind
          /\ n.scoped = m.scoped /\ n.conflict = TRUE
      BY <1>6, <2>1 DEF Import!CallRecord
    <2>3. Import!Set(c, n)
      BY <1>1, <1>4, <1>5, <1>7, <1>9, <2>1 DEF Import!Conflicting
    <2>4. Import!Fits(n)
      BY <1>1, <1>2, <2>2, Conflicts
    <2> QED BY <1>1, <1>3, <2>2, <2>3, <2>4, QuietKeeps
  <1>10. ASSUME record # Nil
         PROVE  /\ record.revision \in 1..revision /\ record.revision \in Nat
                /\ record = profiles[i] /\ record \in Import!Profile
                /\ Import!HasRevision(i, record.revision)
    BY <1>10, <1>5, <1>6, Known DEF Import!Repository, Import!HasRevision, Import!Profile
  <1>11. CASE record # Nil /\ ~differs /\ record.ref = Nil
    <2>1. PICK k : k = record.revision
      OBVIOUS
    <2>2. PICK n : n = [m EXCEPT !.at = "compare", !.todo = @ \ {i}, !.verified[i] = k]
      OBVIOUS
    <2>3. /\ n \in Import!CallRecord /\ n.at = "compare" /\ n.fresh = m.fresh /\ n.prepared = m.prepared
          /\ n.since = m.since /\ n.kind = m.kind /\ n.scoped = m.scoped
          /\ n.todo = m.todo \ {i} /\ n.missing = m.missing /\ n.conflict = m.conflict
          /\ n.verified = [m.verified EXCEPT ![i] = k]
      BY <1>6, <1>10, <1>11, <2>1, <2>2 DEF Import!CallRecord
    <2>4. Import!Set(c, n)
      BY <1>1, <1>4, <1>5, <1>7, <1>11, <2>1, <2>2 DEF Import!Matched
    <2>5. m.kind = "migrate" => record.same /\ passwords[i] = Empty
      BY <1>7, <1>11
    <2>6. m.kind = "migrate" => Import!Stored(i)
      BY <1>5, <1>11, <2>5 DEF Import!Stored
    <2>8. k \in Nat /\ k \in 1..revision /\ Import!HasRevision(i, k)
      BY <1>10, <1>11, <2>1
    <2>7. Import!Fits(n)
      BY <1>1, <1>2, <1>6, <2>3, <2>6, <2>8, Matches
    <2> QED BY <1>1, <1>3, <2>3, <2>4, <2>7, QuietKeeps
  <1>12. CASE record # Nil /\ ~differs /\ record.ref # Nil
    <2>1. PICK n : n = [m EXCEPT !.at = "secret", !.id = i, !.record = record]
      OBVIOUS
    <2>2. /\ n \in Import!CallRecord /\ n.at = "secret" /\ n.fresh = m.fresh /\ n.prepared = m.prepared
          /\ n.since = m.since /\ n.kind = m.kind /\ n.scoped = m.scoped
          /\ n.todo = m.todo /\ n.missing = m.missing /\ n.conflict = m.conflict
          /\ n.verified = m.verified /\ n.id = i /\ n.record = record
      BY <1>6, <2>1 DEF Import!CallRecord
    <2>3. Import!Set(c, n)
      BY <1>1, <1>4, <1>5, <1>7, <1>12, <2>1
    <2>4. m.kind = "migrate" => record.same /\ passwords[i] # Empty
      BY <1>7, <1>12
    <2>5. m.kind = "migrate" => Import!ReadsSecret(n)
      BY <1>5, <1>6, <1>10, <1>12, <2>2, <2>4 DEF Import!ReadsSecret
    <2>6. m.kind = "migrate" => Import!Compares(n)
      BY <1>1, <1>2, <2>2 DEF Import!Compares
    <2>7. m.kind = "migrate" /\ m.scoped => Import!ScopeFits(n)
      BY <1>2, <2>2 DEF Import!ScopeFits
    <2>8. Import!Fits(n)
      BY <1>2, <1>6, <1>12, <2>2, <2>5, <2>6, <2>7 DEF Import!Fits
    <2> QED BY <1>1, <1>3, <2>2, <2>3, <2>8, QuietKeeps
  <1> QED BY <1>8, <1>9, <1>11, <1>12

LEMMA ReadSecretKeeps ==
  ASSUME Import!MInv, NEW c \in Callers, Import!ReadSecret(c)
  PROVE  Import!MInv'
  <1>1. PICK m \in Import!CallRecord : m = call[c] /\ Import!Fits(m) /\ m.at = "secret"
    BY Known DEF Import!ReadSecret, Import!At
  <1>2. PICK i : i = m.id
    OBVIOUS
  <1>3. PICK record : record = m.record
    OBVIOUS
  <1>4. PICK fits \in BOOLEAN :
          fits <=> IF m.kind = "migrate" THEN vault[record.ref] = passwords[i] ELSE vault[record.ref] # Nil
    OBVIOUS
  <1>5. /\ m.fresh = Nil /\ \A j \in Ids : m.prepared[j] = Nil
        /\ m.kind = "migrate" => Import!ReadsSecret(m) /\ (m.scoped => Import!ScopeFits(m))
        /\ i \in Ids /\ record \in Import!Profile /\ record.revision \in Nat
        /\ m.todo \in SUBSET Ids /\ m.missing \in SUBSET Ids /\ m.verified \in [Ids -> Nat]
    BY <1>1, <1>2, <1>3, Fields DEF Import!Fits, Import!Profile
  <1>6. UNCHANGED <<passwords, profiles, revision, complete, vault, rows, removed>>
    BY DEF Import!ReadSecret
  <1>7. Import!Set(c, [(IF fits THEN Import!Matched(c, i, record) ELSE Import!Conflicting(c, i))
                  EXCEPT !.id = Nil, !.record = Nil])
    BY <1>1, <1>2, <1>3, <1>4 DEF Import!ReadSecret
  <1>8. CASE ~fits
    <2>1. PICK o : o = [m EXCEPT !.at = "compare", !.todo = @ \ {i}, !.conflict = TRUE]
      OBVIOUS
    <2>2. PICK n : n = [o EXCEPT !.id = Nil, !.record = Nil]
      OBVIOUS
    <2>3. /\ o \in Import!CallRecord /\ o.at = "compare" /\ o.fresh = m.fresh /\ o.prepared = m.prepared
          /\ o.verified = m.verified /\ o.since = m.since /\ o.kind = m.kind
          /\ o.scoped = m.scoped /\ o.conflict = TRUE
      BY <1>5, <2>1 DEF Import!CallRecord
    <2>4. /\ n \in Import!CallRecord /\ n.at = "compare" /\ n.fresh = m.fresh /\ n.prepared = m.prepared
          /\ n.verified = m.verified /\ n.since = m.since /\ n.kind = m.kind
          /\ n.scoped = m.scoped /\ n.conflict = TRUE
      BY <2>2, <2>3 DEF Import!CallRecord
    <2>5. Import!Set(c, n)
      BY <1>1, <1>7, <1>8, <2>1, <2>2 DEF Import!Conflicting
    <2>6. Import!Fits(n)
      BY <1>1, <1>5, <2>4, Conflicts
    <2> QED BY <1>1, <1>6, <2>4, <2>5, <2>6, QuietKeeps
  <1>9. CASE fits
    <2>0. PICK k : k = record.revision
      OBVIOUS
    <2>1. PICK o : o = [m EXCEPT !.at = "compare", !.todo = @ \ {i}, !.verified[i] = k]
      OBVIOUS
    <2>2. PICK n : n = [o EXCEPT !.id = Nil, !.record = Nil]
      OBVIOUS
    <2>3. /\ o \in Import!CallRecord /\ o.at = "compare" /\ o.fresh = m.fresh /\ o.prepared = m.prepared
          /\ o.verified = [m.verified EXCEPT ![i] = k] /\ o.since = m.since /\ o.kind = m.kind
          /\ o.scoped = m.scoped /\ o.conflict = m.conflict
          /\ o.todo = m.todo \ {i} /\ o.missing = m.missing
      BY <1>5, <2>0, <2>1 DEF Import!CallRecord
    <2>4. /\ n \in Import!CallRecord /\ n.at = "compare" /\ n.fresh = m.fresh /\ n.prepared = m.prepared
          /\ n.verified = [m.verified EXCEPT ![i] = k] /\ n.since = m.since /\ n.kind = m.kind
          /\ n.scoped = m.scoped /\ n.conflict = m.conflict
          /\ n.todo = m.todo \ {i} /\ n.missing = m.missing
      BY <2>2, <2>3 DEF Import!CallRecord
    <2>5. Import!Set(c, n)
      BY <1>1, <1>7, <1>9, <2>0, <2>1, <2>2 DEF Import!Matched
    <2>6. ASSUME m.kind = "migrate"
          PROVE  /\ k \in 1..revision /\ (Import!HasRevision(i, k) => Import!Stored(i))
                 /\ (m.scoped /\ m.since = revision => Import!HasRevision(i, k))
      <3>1. Import!ReadsSecret(m)
        BY <1>5, <2>6
      <3>2. /\ record.ref # Nil /\ k \in 1..revision /\ record.same /\ passwords[i] # Empty
            /\ Import!HasRevision(i, k) => profiles[i] = record
            /\ m.scoped /\ m.since = revision => profiles[i] = record
        BY <1>2, <1>3, <2>0, <3>1 DEF Import!ReadsSecret
      <3>3. vault[record.ref] = passwords[i]
        BY <1>4, <1>9, <2>6
      <3>4. record # Nil
        BY <1>1, <1>3 DEF Import!Fits
      <3>5. Import!HasRevision(i, k) => Import!Stored(i)
        BY <3>2, <3>3, <3>4 DEF Import!Stored
      <3>6. m.scoped /\ m.since = revision => Import!HasRevision(i, k)
        BY <2>0, <3>2, <3>4 DEF Import!HasRevision
      <3> QED BY <3>2, <3>5, <3>6
    <2>7. k \in Nat
      BY <1>5, <2>0
    <2>8. Import!Fits(n)
      BY <1>1, <1>2, <1>5, <2>4, <2>6, <2>7, Matches
    <2> QED BY <1>1, <1>6, <2>4, <2>5, <2>8, QuietKeeps
  <1> QED BY <1>8, <1>9

\* A call that ends or gives up keeps what it has drawn.
LEMMA Ends ==
  ASSUME Import!MInv, NEW c \in Callers, NEW n \in Import!CallRecord, Import!Set(c, n),
         n.at \in {"undo", "ok", "failed", "stopped"}, n.fresh = call[c].fresh,
         n.prepared = call[c].prepared,
         UNCHANGED <<passwords, profiles, revision, complete, vault, rows, removed>>
  PROVE  Import!MInv'
  BY FitsEnd, QuietKeeps

LEMMA ComparedKeeps ==
  ASSUME Import!LegacyMigrationAssumption, Import!MInv, NEW c \in Callers, Import!Compared(c)
  PROVE  Import!MInv'
  <1>1. PICK m \in Import!CallRecord : m = call[c] /\ Import!Fits(m) /\ m.at = "compare" /\ m.todo = {}
    BY Known DEF Import!Compared, Import!At
  <1>2. /\ m.fresh = Nil /\ \A j \in Ids : m.prepared[j] = Nil
        /\ m.kind = "migrate" => Import!Compares(m)
        /\ m.scoped \in BOOLEAN /\ m.conflict \in BOOLEAN
    BY <1>1, Fields DEF Import!Fits
  <1>3. UNCHANGED <<passwords, profiles, revision, complete, vault, rows, removed>>
    BY DEF Import!Compared
  <1>4. CASE ~m.conflict /\ ~m.scoped
    <2>1. PICK n : n = [m EXCEPT !.at = "prepare"]
      OBVIOUS
    <2>2. /\ n \in Import!CallRecord /\ n.at = "prepare" /\ n.fresh = m.fresh /\ n.prepared = m.prepared
          /\ n.since = m.since /\ n.kind = m.kind /\ n.scoped = m.scoped
          /\ n.todo = m.todo /\ n.missing = m.missing /\ n.conflict = m.conflict
          /\ n.verified = m.verified
      BY <2>1 DEF Import!CallRecord
    <2>3. Import!Set(c, n)
      BY <1>1, <1>4, <2>1 DEF Import!Compared, Import!Goes
    <2>4. n.kind = "migrate" => Import!Compares(n)
      BY <1>1, <1>2, <2>2 DEF Import!Compares
    <2>5. Import!Prepares(n)
      BY <1>1, <1>2, <1>4, <2>2 DEF Import!Prepares, Import!LegacyMigrationAssumption
    <2>6. Import!Fits(n)
      BY <1>2, <1>4, <2>2, <2>4, <2>5 DEF Import!Fits
    <2> QED BY <1>1, <1>3, <2>2, <2>3, <2>6, QuietKeeps
  <1>5. CASE m.conflict \/ m.scoped
    <2>1. PICK at \in {"ok", "failed"} : Import!Goes(c, at)
      BY <1>1, <1>2, <1>5 DEF Import!Compared
    <2>2. PICK n : n = [m EXCEPT !.at = at]
      OBVIOUS
    <2>3. n \in Import!CallRecord /\ n.at = at /\ n.fresh = m.fresh /\ n.prepared = m.prepared
      BY <2>2 DEF Import!CallRecord
    <2>4. Import!Set(c, n)
      BY <1>1, <2>1, <2>2 DEF Import!Goes
    <2> QED BY <1>1, <1>3, <2>3, <2>4, Ends
  <1> QED BY <1>2, <1>4, <1>5

LEMMA FailKeeps ==
  ASSUME Import!MInv, NEW c \in Callers, Import!Fail(c)
  PROVE  Import!MInv'
  <1>1. PICK m \in Import!CallRecord : m = call[c]
    BY Known
  <1>2. PICK at \in {"undo", "failed"} : Import!Set(c, [m EXCEPT !.failed = TRUE, !.at = at])
    BY <1>1 DEF Import!Fail
  <1>3. PICK n : n = [m EXCEPT !.failed = TRUE, !.at = at]
    OBVIOUS
  <1>4. n \in Import!CallRecord /\ n.at = at /\ n.fresh = m.fresh /\ n.prepared = m.prepared
    BY <1>3 DEF Import!CallRecord
  <1>5. UNCHANGED <<passwords, profiles, revision, complete, vault, rows, removed>>
    BY DEF Import!Fail
  <1> QED BY <1>1, <1>2, <1>3, <1>4, <1>5, Ends

LEMMA StopKeeps ==
  ASSUME Import!MInv, NEW c \in Callers, Import!Stop(c)
  PROVE  Import!MInv'
  <1>1. PICK m \in Import!CallRecord : m = call[c]
    BY Known
  <1>2. PICK n : n = [m EXCEPT !.at = "stopped"]
    OBVIOUS
  <1>3. n \in Import!CallRecord /\ n.at = "stopped" /\ n.fresh = m.fresh /\ n.prepared = m.prepared
    BY <1>2 DEF Import!CallRecord
  <1>4. Import!Set(c, n) /\ UNCHANGED <<passwords, profiles, revision, complete, vault, rows, removed>>
    BY <1>1, <1>2 DEF Import!Stop, Import!Goes
  <1> QED BY <1>1, <1>3, <1>4, Ends

-----------------------------------------------------------------------------
\* The steps that draw references, use them and give them up.
LEMMA Markers ==
  ASSUME Import!LegacyMigrationAssumption
  PROVE  /\ Nil \notin Refs /\ Empty \notin Refs /\ Nil # Empty /\ Nil \notin Ids
         /\ Nil \notin Import!Profile /\ Nil \notin Import!Passwords
  BY DEF Import!LegacyMigrationAssumption, Import!Profile

\* A step that touches the references X only is none of a call's business
\* unless it owns one of them.
LEMMA SparesTheRest ==
  ASSUME NEW n, NEW X,
         \A r \in Refs : r \notin X =>
           vault'[r] = vault[r] /\ rows'[r] = rows[r]
           /\ (Import!Referenced(r)' => Import!Referenced(r)),
         \A r \in Refs \cap X : r \notin Import!Owned(n) \/ Import!Referenced(r) \/ rows[r] = "ready"
  PROVE  Import!Spares(n)
  BY DEF Import!Spares

\* What is drawn by one call is not another's.
LEMMA OthersOwn ==
  ASSUME Import!LegacyMigrationAssumption, Import!MInv, NEW c \in Callers, NEW d \in Callers, d # c,
         NEW r \in Refs, r \in Import!Owned(call[c])
  PROVE  r \notin Import!Owned(call[d])
  BY Markers DEF Import!MInv, Import!Alone

LEMMA CleanedEffect ==
  ASSUME Import!MigrationTypes, NEW refs \in SUBSET Refs, Import!Cleaned(refs)
  PROVE  /\ vault' \in [Refs -> Import!Passwords \cup {Nil}]
            /\ rows' \in [Refs -> {"none", "staged", "ready"}]
         /\ \A r \in Refs : r \notin refs => vault'[r] = vault[r] /\ rows'[r] = rows[r]
         /\ \A r \in Refs : Import!Referenced(r) => vault'[r] = vault[r]
         /\ \A r \in refs : rows'[r] = "none" /\ (~Import!Referenced(r) => vault'[r] = Nil)
  BY DEF Import!MigrationTypes, Import!Cleaned

\* A cleanup leaves the profiles their secrets.
LEMMA CleaningKeeps ==
  ASSUME Import!LegacyMigrationAssumption, Import!MInv, UNCHANGED <<passwords, profiles, revision,
         complete, removed>>,
         \A r \in Refs : Import!Referenced(r) => vault'[r] = vault[r]
  PROVE  Import!History /\ Import!Repository'
         /\ \A r \in Refs : Import!Referenced(r)' <=> Import!Referenced(r)
  <1>1. Import!MigrationTypes /\ Import!Repository
    BY DEF Import!MInv
  <1>2. \A i \in Ids : Import!HasSecret(i) => profiles[i].ref \in Refs
        /\ Import!Referenced(profiles[i].ref)
    <2>1. \A i \in Ids : Import!HasSecret(i) => profiles[i] \in Import!Profile /\ profiles[i].ref # Nil
      BY <1>1 DEF Import!MigrationTypes, Import!HasSecret
    <2>2. \A i \in Ids : Import!HasSecret(i) => profiles[i].ref \in Refs
      BY <2>1 DEF Import!Profile
    <2> QED BY <2>2 DEF Import!HasSecret, Import!Referenced
  <1>3. \A i \in Ids : Import!HasSecret(i) => vault'[profiles[i].ref] = vault[profiles[i].ref]
    BY <1>2
  <1>4. Import!History
    BY <1>1, <1>3 DEF Import!History, Import!MigrationTypes
  <1>5. Import!Repository'
    BY <1>1, <1>3 DEF Import!Repository, Import!HasSecret
  <1>6. \A r \in Refs : Import!Referenced(r)' <=> Import!Referenced(r)
    BY DEF Import!Referenced
  <1> QED BY <1>4, <1>5, <1>6

LEMMA MigrateKeeps ==
  ASSUME Import!LegacyMigrationAssumption, Import!MInv, NEW c \in Callers, Import!Migrate(c)
  PROVE  Import!MInv'
  <1>1. PICK m \in Import!CallRecord : m = call[c] /\ Import!Fits(m) /\ m.at = "idle"
    BY Known DEF Import!Migrate, Import!At
  <1>2. PICK refs \in SUBSET {r \in Refs : rows[r] = "ready"} : Import!Cleaned(refs)
    BY DEF Import!Migrate
  <1>3. PICK n : n = [Import!NoCall EXCEPT !.kind = "migrate", !.at = "complete?"]
    OBVIOUS
  <1>4. /\ n \in Import!CallRecord /\ n.at = "complete?" /\ n.fresh = Nil
           /\ n.prepared = [i \in Ids |-> Nil]
        /\ n.verified = [i \in Ids |-> 0] /\ n.scoped = FALSE
    BY <1>3, NoCallType DEF Import!CallRecord, Import!NoCall
  <1>5. Import!Set(c, n) /\ UNCHANGED <<passwords, profiles, revision, complete, removed>>
    BY <1>3 DEF Import!Migrate
  <1>6. Import!MigrationTypes /\ Import!Answered /\ \A d \in Callers : Import!Alone(d)
    BY DEF Import!MInv
  <1>7. refs \in SUBSET Refs /\ \A r \in refs : rows[r] = "ready"
    BY <1>2
  <1>8. /\ vault' \in [Refs -> Import!Passwords \cup {Nil}]
           /\ rows' \in [Refs -> {"none", "staged", "ready"}]
        /\ \A r \in Refs : r \notin refs => vault'[r] = vault[r] /\ rows'[r] = rows[r]
        /\ \A r \in Refs : Import!Referenced(r) => vault'[r] = vault[r]
        /\ \A r \in refs : rows'[r] = "none" /\ (~Import!Referenced(r) => vault'[r] = Nil)
    BY <1>2, <1>6, <1>7, CleanedEffect
  <1>9. Import!History /\ Import!Repository'
        /\ \A r \in Refs : Import!Referenced(r)' <=> Import!Referenced(r)
    BY <1>5, <1>8, CleaningKeeps
  <1>10. ASSUME NEW o PROVE Import!Spares(o)
    BY <1>7, <1>8, <1>9, SparesTheRest
  <1>11. Import!Fits(n)
    BY <1>4 DEF Import!Fits
  <1>12. Import!CallFits(c)'
    BY <1>4, <1>5, <1>6, <1>9, <1>10, <1>11, SetEffect, FitsStays, FitsOf
  <1>13. \A d \in Callers : Import!Alone(d)'
    <2>1. Nil \in Import!Owned(call[c])
      BY DEF Import!Owned
    <2> QED BY <1>4, <1>5, <1>6, <2>1, AloneKeeps
  <1>14. Import!MigrationTypes'
    BY <1>4, <1>5, <1>6, <1>8, SetEffect DEF Import!MigrationTypes
  <1>15. Import!Answered'
    <2>1. m.fresh = Nil
      BY <1>1 DEF Import!Fits
    <2>2. \A d \in Callers : d # c => call'[d] = call[d]
      BY <1>4, <1>5, <1>6, SetEffect
    <2>3. SUFFICES ASSUME NEW r \in Refs, vault'[r] # Nil, ~Import!Referenced(r)', rows'[r] = "none"
                   PROVE  \E d \in Callers : call'[d].fresh = r
      BY DEF Import!Answered
    <2>4. r \notin refs /\ ~Import!Referenced(r)
      BY <1>8, <1>9, <2>3
    <2>5. PICK d \in Callers : call[d].fresh = r
      BY <1>6, <1>8, <2>3, <2>4 DEF Import!Answered
    <2>6. d # c
      BY <1>1, <2>1, <2>5, Markers
    <2> QED BY <2>2, <2>5, <2>6
  <1> QED BY <1>4, <1>5, <1>9, <1>10, <1>12, <1>13, <1>14, <1>15, CallKeeps

\* What a migration that prepares has compared does not depend on its place.
LEMMA ComparesOn ==
  ASSUME NEW m \in Import!CallRecord, NEW n \in Import!CallRecord, m.at # "secret", Import!Compares(m),
         n.verified = m.verified, n.todo = m.todo, n.missing = m.missing, n.conflict = m.conflict
  PROVE  Import!Compares(n)
  BY DEF Import!Compares

LEMMA PutKeeps ==
  ASSUME Import!LegacyMigrationAssumption, Import!MInv, NEW c \in Callers, Import!Put(c)
  PROVE  Import!MInv'
  <1>1. PICK m \in Import!CallRecord : m = call[c] /\ Import!Fits(m) /\ m.at = "prepare"
    BY Known DEF Import!Put, Import!At
  <1>2. /\ m.fresh = Nil /\ Import!Prepares(m) /\ (m.kind = "migrate" => Import!Compares(m))
        /\ m.prepared \in [Ids -> Refs \cup {Nil, Empty}] /\ m.missing \in SUBSET Ids
    BY <1>1, Fields DEF Import!Fits
  <1>3. PICK i \in m.missing :
          /\ m.prepared[i] = Nil
          /\ IF passwords[i] = Empty
             THEN Import!Set(c, [m EXCEPT !.prepared[i] = Empty]) /\ UNCHANGED vault
             ELSE \E r \in Refs :
                    /\ Import!Unused(r) /\ vault' = [vault EXCEPT ![r] = passwords[i]]
                    /\ Import!Set(c, [m EXCEPT !.at = "stage", !.id = i, !.fresh = r])
    BY <1>1 DEF Import!Put
  <1>4. UNCHANGED <<passwords, profiles, revision, complete, rows, removed>>
    BY DEF Import!Put
  <1>5. i \in Ids
    BY <1>2
  <1>6. /\ Import!MigrationTypes /\ Import!Repository /\ Import!Answered
           /\ \A d \in Callers : Import!Alone(d)
    BY DEF Import!MInv
  <1>7. /\ \A j, k \in Ids : j # k /\ m.prepared[j] = m.prepared[k] => m.prepared[j] \in {Nil, Empty}
        /\ \A j \in Ids : m.prepared[j] \in Import!Owned(call[c])
        /\ Nil \in Import!Owned(call[c])
    BY <1>1, <1>6 DEF Import!Alone, Import!Owned
  <1>8. CASE passwords[i] = Empty
    <2>1. PICK n : n = [m EXCEPT !.prepared[i] = Empty]
      OBVIOUS
    <2>2. /\ n \in Import!CallRecord /\ n.at = "prepare" /\ n.fresh = Nil
          /\ n.prepared = [m.prepared EXCEPT ![i] = Empty]
          /\ n.kind = m.kind /\ n.scoped = m.scoped /\ n.todo = m.todo /\ n.missing = m.missing
          /\ n.conflict = m.conflict /\ n.verified = m.verified
      BY <1>1, <1>2, <1>5, <2>1 DEF Import!CallRecord
    <2>3. n.prepared[i] = Empty /\ \A j \in Ids : j # i => n.prepared[j] = m.prepared[j]
      BY <1>2, <2>2
    <2>4. Import!Set(c, n) /\ UNCHANGED vault
      BY <1>3, <1>8, <2>1
    <2>5. /\ Import!History /\ Import!Repository' /\ \A d \in Callers : Import!Spares(call[d])
          /\ call' \in [Callers -> Import!CallRecord] => Import!MigrationTypes'
          /\ \A r \in Refs : Import!Referenced(r)' <=> Import!Referenced(r)
      BY <1>4, <2>4, NothingMoves
    <2>6. Import!Answered'
      BY <1>1, <1>2, <1>4, <2>2, <2>4, <2>5, AnsweredStays
    <2>7. \A d \in Callers : Import!Alone(d)'
      <3>1. \A j \in Ids : n.prepared[j] \in Import!Owned(call[c]) \cup {Empty}
        BY <1>7, <2>3
      <3>2. \A j, k \in Ids : j # k /\ n.prepared[j] = n.prepared[k] => n.prepared[j] \in {Nil, Empty}
        BY <1>7, <2>3
      <3> QED BY <1>6, <1>7, <2>2, <2>4, <3>1, <3>2, AloneKeeps
    <2>8. Import!Prepares(n)
      <3>1. ~n.scoped /\ n.todo = {} /\ ~n.conflict
        BY <1>2, <2>2 DEF Import!Prepares
      <3>2. ASSUME NEW j \in Ids
            PROVE  /\ n.prepared[j] = Empty => passwords[j] = Empty
                   /\ n.prepared[j] \in Refs => Import!Waits(n.prepared[j], j, "staged")
        BY <1>2, <1>8, <2>3, Markers DEF Import!Prepares
      <3> QED BY <3>1, <3>2 DEF Import!Prepares
    <2>9. Import!Fits(n)
      BY <1>1, <1>2, <2>2, <2>8, ComparesOn DEF Import!Fits, Import!Prepares
    <2>10. Import!Spares(n)
      BY <1>4, <2>4, <2>5 DEF Import!Spares
    <2>11. Import!CallFits(c)'
      BY <1>6, <2>2, <2>4, <2>5, <2>9, <2>10, SetEffect, FitsStays, FitsOf
    <2>12. Import!MigrationTypes'
      BY <1>6, <2>2, <2>4, <2>5, SetEffect
    <2> QED BY <2>2, <2>4, <2>5, <2>6, <2>7, <2>11, <2>12, CallKeeps
  <1>9. CASE passwords[i] # Empty
    <2>1. PICK r \in Refs :
            /\ Import!Unused(r) /\ vault' = [vault EXCEPT ![r] = passwords[i]]
            /\ Import!Set(c, [m EXCEPT !.at = "stage", !.id = i, !.fresh = r])
      BY <1>3, <1>9
    <2>2. PICK n : n = [m EXCEPT !.at = "stage", !.id = i, !.fresh = r]
      OBVIOUS
    <2>3. /\ n \in Import!CallRecord /\ n.at = "stage" /\ n.fresh = r /\ n.id = i
          /\ n.prepared = m.prepared
          /\ n.kind = m.kind /\ n.scoped = m.scoped /\ n.todo = m.todo /\ n.missing = m.missing
          /\ n.conflict = m.conflict /\ n.verified = m.verified
      BY <1>1, <1>5, <2>2 DEF Import!CallRecord
    <2>4. Import!Set(c, n)
      BY <2>1, <2>2
    <2>5. /\ vault[r] = Nil /\ rows[r] = "none" /\ ~Import!Referenced(r) /\ r # Nil
          /\ \A d \in Callers : r # call[d].fresh /\ \A j \in Ids : r # call[d].prepared[j]
      BY <2>1, Markers DEF Import!Unused
    <2>6. \A d \in Callers : r \notin Import!Owned(call[d])
      BY <2>5 DEF Import!Owned
    <2>7. /\ passwords[i] \in Import!Passwords /\ passwords[i] # Nil
          /\ vault' \in [Refs -> Import!Passwords \cup {Nil}] /\ vault'[r] = passwords[i]
          /\ \A q \in Refs : q # r => vault'[q] = vault[q]
      <3>1. passwords[i] \in Import!Passwords
        BY <1>5, <1>6, <1>9 DEF Import!MigrationTypes, Import!Passwords
      <3> QED BY <1>6, <2>1, <3>1, Markers DEF Import!MigrationTypes
    <2>8. Import!History /\ Import!Repository'
          /\ \A q \in Refs : Import!Referenced(q)' <=> Import!Referenced(q)
      <3>1. \A q \in Refs : Import!Referenced(q) => vault'[q] = vault[q]
        BY <2>5, <2>7
      <3> QED BY <1>4, <3>1, CleaningKeeps
    <2>9. \A d \in Callers : Import!Spares(call[d])
      BY <1>4, <2>6, <2>7, <2>8 DEF Import!Spares
    <2>10. \A d \in Callers : Import!Alone(d)'
      <3>1. \A j \in Ids : n.prepared[j] \in Import!Owned(call[c]) \cup {r}
        BY <1>7, <2>3
      <3>2. \A j \in Ids : n.prepared[j] # Nil => n.prepared[j] # n.fresh
        BY <1>1, <2>3, <2>5
      <3> QED BY <1>6, <1>7, <2>3, <2>4, <2>6, <3>1, <3>2, AloneKeeps
    <2>11. Import!MigrationTypes'
      BY <1>4, <1>6, <2>3, <2>4, <2>7, SetEffect DEF Import!MigrationTypes
    <2>12. Import!Answered'
      <3>1. call'[c] = n /\ \A d \in Callers : d # c => call'[d] = call[d]
        BY <1>6, <2>3, <2>4, SetEffect
      <3>2. SUFFICES ASSUME NEW q \in Refs, vault'[q] # Nil, ~Import!Referenced(q)', rows'[q] = "none"
                     PROVE  \E d \in Callers : call'[d].fresh = q
        BY DEF Import!Answered
      <3>3. CASE q = r
        BY <2>3, <3>1, <3>3
      <3>4. CASE q # r
        <4>1. PICK d \in Callers : call[d].fresh = q
          BY <1>4, <1>6, <2>7, <2>8, <3>2, <3>4 DEF Import!Answered
        <4>2. d # c
          BY <1>1, <1>2, <4>1, Markers
        <4> QED BY <3>1, <4>1, <4>2
      <3> QED BY <3>3, <3>4
    <2>13. Import!Prepares(n)'
      <3>1. Import!Spares(m)
        BY <1>1, <2>9
      <3>2. Import!Prepares(m)'
        BY <1>2, <1>4, <3>1, PreparesStays
      <3>3. /\ ~m.scoped /\ m.todo = {} /\ ~m.conflict
            /\ \A j \in Ids : m.prepared[j] = Empty => passwords'[j] = Empty
            /\ \A j \in Ids : m.prepared[j] \in Refs => Import!Waits(m.prepared[j], j, "staged")'
        BY <3>2 DEF Import!Prepares
      <3> QED BY <2>3, <3>3 DEF Import!Prepares
    <2>14. Import!Draws(n)'
      <3>1. Import!Waits(r, i, "none")'
        BY <1>4, <1>9, <2>5, <2>7, <2>8 DEF Import!Waits
      <3> QED BY <1>3, <1>5, <2>3, <3>1 DEF Import!Draws
    <2>15. n.kind = "migrate" => Import!Compares(n)'
      BY <1>1, <1>2, <2>3, <2>8, ComparesOn, ComparesStays
    <2>16. ~n.scoped
      BY <1>2, <2>3 DEF Import!Prepares
    <2>17. Import!Fits(n)'
      BY <2>3, <2>13, <2>14, <2>15, <2>16 DEF Import!Fits
    <2>18. Import!CallFits(c)'
      BY <1>6, <2>3, <2>4, <2>17, SetEffect, FitsOf
    <2> QED BY <2>3, <2>4, <2>8, <2>9, <2>10, <2>11, <2>12, <2>18, CallKeeps
  <1> QED BY <1>8, <1>9

LEMMA StageKeeps ==
  ASSUME Import!LegacyMigrationAssumption, Import!MInv, NEW c \in Callers, Import!Stage(c)
  PROVE  Import!MInv'
  <1>1. PICK m \in Import!CallRecord : m = call[c] /\ Import!Fits(m) /\ m.at = "stage"
    BY Known DEF Import!Stage, Import!At
  <1>2. /\ Import!Prepares(m) /\ Import!Draws(m) /\ (m.kind = "migrate" => Import!Compares(m))
        /\ m.prepared \in [Ids -> Refs \cup {Nil, Empty}]
    BY <1>1, Fields DEF Import!Fits
  <1>3. PICK r \in Refs, i \in Ids :
          /\ r = m.fresh /\ i = m.id /\ m.prepared[i] = Nil /\ Import!Waits(r, i, "none")
    BY <1>2 DEF Import!Draws
  <1>4. PICK n : n = [m EXCEPT !.at = "prepare", !.prepared[i] = r, !.id = Nil, !.fresh = Nil]
    OBVIOUS
  <1>20. PICK prepared \in [Ids -> Refs \cup {Nil, Empty}] : prepared = [m.prepared EXCEPT ![i] = r]
    BY <1>2
  <1>21. n = [m EXCEPT !.at = "prepare", !.prepared = prepared, !.id = Nil, !.fresh = Nil]
    BY <1>4, <1>20
  <1>5. /\ n \in Import!CallRecord /\ n.at = "prepare" /\ n.fresh = Nil
        /\ n.prepared = [m.prepared EXCEPT ![i] = r]
        /\ n.kind = m.kind /\ n.scoped = m.scoped /\ n.todo = m.todo /\ n.missing = m.missing
        /\ n.conflict = m.conflict /\ n.verified = m.verified
    <2>0. m \in Import!CallRecord /\ prepared \in [Ids -> Refs \cup {Nil, Empty}]
      BY <1>1, <1>20
    <2>1. n \in Import!CallRecord
      BY <2>0, <1>21 DEF Import!CallRecord
    <2>2. n.at = "prepare" /\ n.fresh = Nil /\ n.prepared = prepared
      BY <2>0, <1>21 DEF Import!CallRecord
    <2>3. /\ n.kind = m.kind /\ n.scoped = m.scoped /\ n.todo = m.todo /\ n.missing = m.missing
          /\ n.conflict = m.conflict /\ n.verified = m.verified
      BY <2>0, <1>21 DEF Import!CallRecord
    <2> QED BY <2>1, <2>2, <2>3, <1>20
  <1>6. n.prepared[i] = r /\ \A j \in Ids : j # i => n.prepared[j] = m.prepared[j]
    BY <1>2, <1>3, <1>5
  <1>7. /\ Import!Set(c, n) /\ rows' = [rows EXCEPT ![r] = "staged"]
        /\ UNCHANGED <<passwords, profiles, revision, complete, vault, removed>>
    BY <1>1, <1>3, <1>4 DEF Import!Stage
  <1>8. /\ Import!MigrationTypes /\ Import!Answered /\ \A d \in Callers : Import!Alone(d)
    BY DEF Import!MInv
  <1>9. /\ rows' \in [Refs -> {"none", "staged", "ready"}] /\ rows'[r] = "staged"
        /\ \A q \in Refs : q # r => rows'[q] = rows[q]
    BY <1>7, <1>8 DEF Import!MigrationTypes
  <1>10. /\ \A j, k \in Ids : j # k /\ m.prepared[j] = m.prepared[k] => m.prepared[j] \in {Nil, Empty}
         /\ \A j \in Ids : m.prepared[j] # Nil => m.prepared[j] # r
         /\ \A j \in Ids : m.prepared[j] \in Import!Owned(call[c])
         /\ Nil \in Import!Owned(call[c]) /\ r \in Import!Owned(call[c])
    BY <1>1, <1>3, <1>8 DEF Import!Alone, Import!Owned
  <1>11. Import!History /\ Import!Repository'
         /\ \A q \in Refs : Import!Referenced(q)' <=> Import!Referenced(q)
    BY <1>7, CleaningKeeps
  <1>12. \A d \in Callers : d # c => Import!Spares(call[d])
    <2>1. \A d \in Callers : d # c => r \notin Import!Owned(call[d])
      BY <1>10, OthersOwn
    <2> QED BY <1>7, <1>9, <1>11, <2>1 DEF Import!Spares
  <1>13. \A d \in Callers : Import!Alone(d)'
    <2>1. \A j \in Ids : n.prepared[j] \in Import!Owned(call[c])
      BY <1>6, <1>10
    <2>2. \A j, k \in Ids : j # k /\ n.prepared[j] = n.prepared[k] => n.prepared[j] \in {Nil, Empty}
      BY <1>6, <1>10, <1>3, Markers
    <2> QED BY <1>5, <1>7, <1>8, <1>10, <2>1, <2>2, AloneKeeps
  <1>14. Import!MigrationTypes'
    BY <1>5, <1>7, <1>8, <1>9, SetEffect DEF Import!MigrationTypes
  <1>15. Import!Answered'
    <2>1. \A d \in Callers : d # c => call'[d] = call[d]
      BY <1>5, <1>7, <1>8, SetEffect
    <2>2. SUFFICES ASSUME NEW q \in Refs, vault'[q] # Nil, ~Import!Referenced(q)', rows'[q] = "none"
                   PROVE  \E d \in Callers : call'[d].fresh = q
      BY DEF Import!Answered
    <2>3. q # r
      BY <1>9, <2>2
    <2>4. PICK d \in Callers : call[d].fresh = q
      BY <1>7, <1>8, <1>9, <1>11, <2>2, <2>3 DEF Import!Answered
    <2>5. d # c
      BY <1>1, <1>3, <2>3, <2>4
    <2> QED BY <2>1, <2>4, <2>5
  <1>16. Import!Prepares(n)'
    <2>1. /\ ~m.scoped /\ m.todo = {} /\ ~m.conflict
          /\ \A j \in Ids : m.prepared[j] = Empty => passwords[j] = Empty
          /\ \A j \in Ids : m.prepared[j] \in Refs => Import!Waits(m.prepared[j], j, "staged")
      BY <1>2 DEF Import!Prepares
    <2>2. ASSUME NEW j \in Ids, n.prepared[j] = Empty PROVE passwords'[j] = Empty
      <3>1. j # i
        BY <1>6, <2>2, Markers
      <3> QED BY <1>6, <1>7, <2>1, <2>2, <3>1
    <2>3. ASSUME NEW j \in Ids, n.prepared[j] \in Refs PROVE Import!Waits(n.prepared[j], j, "staged")'
      <3>1. CASE j = i
        BY <1>3, <1>6, <1>7, <1>9, <1>11, <3>1 DEF Import!Waits
      <3>2. CASE j # i
        <4>1. PICK q : q = n.prepared[j]
          OBVIOUS
        <4>2. q \in Refs /\ q # r /\ Import!Waits(q, j, "staged")
          BY <1>3, <1>6, <1>10, <2>1, <2>3, <3>2, <4>1, Markers
        <4>3. Import!Waits(q, j, "staged")'
          BY <1>7, <1>9, <1>11, <4>2 DEF Import!Waits
        <4> QED BY <4>1, <4>3
      <3> QED BY <3>1, <3>2
    <2> QED BY <1>5, <2>1, <2>2, <2>3 DEF Import!Prepares
  <1>17. n.kind = "migrate" => Import!Compares(n)'
    BY <1>1, <1>2, <1>5, <1>11, ComparesOn, ComparesStays
  <1>18. Import!Fits(n)'
    <2>1. ~n.scoped
      BY <1>2, <1>5 DEF Import!Prepares
    <2> QED BY <1>5, <1>16, <1>17, <2>1 DEF Import!Fits
  <1>19. Import!CallFits(c)'
    BY <1>5, <1>7, <1>8, <1>18, SetEffect, FitsOf
  <1> QED BY <1>5, <1>7, <1>11, <1>12, <1>13, <1>14, <1>15, <1>19, CallKeeps

LEMMA UndoKeeps ==
  ASSUME Import!LegacyMigrationAssumption, Import!MInv, NEW c \in Callers, Import!Undo(c)
  PROVE  Import!MInv'
  <1>1. PICK m \in Import!CallRecord : m = call[c] /\ Import!Fits(m) /\ m.at = "undo"
    BY Known DEF Import!Undo, Import!At
  <1>3. UNCHANGED <<passwords, profiles, revision, complete, removed>>
    BY DEF Import!Undo
  <1>4. CASE Import!Drawn(c) = {}
    <2>1. Import!Goes(c, "failed") /\ UNCHANGED <<vault, rows>>
      BY <1>1, <1>4 DEF Import!Undo
    <2>2. PICK n : n = [m EXCEPT !.at = "failed"]
      OBVIOUS
    <2>3. n \in Import!CallRecord /\ n.at = "failed" /\ n.fresh = m.fresh /\ n.prepared = m.prepared
      BY <1>1, <2>2 DEF Import!CallRecord
    <2>4. Import!Set(c, n)
      BY <1>1, <2>1, <2>2 DEF Import!Goes
    <2> QED BY <1>1, <1>3, <2>1, <2>3, <2>4, Ends
  <1>5. CASE Import!Drawn(c) # {}
    <2>1. PICK r \in Import!Drawn(c) :
            /\ \/ Import!Cleaned({r})
               \/ ~Import!Referenced(r) /\ rows' = [rows EXCEPT ![r] = "ready"] /\ UNCHANGED vault
            /\ Import!Set(c, Import!GivenUp(m, r))
      BY <1>1, <1>5 DEF Import!Undo
    <2>2. PICK n : n = Import!GivenUp(m, r)
      OBVIOUS
    <2>3. /\ m.prepared \in [Ids -> Refs \cup {Nil, Empty}] /\ m.fresh \in Refs \cup {Nil}
          /\ r \in Refs /\ r \in Import!Owned(call[c]) /\ Nil \in Import!Owned(call[c])
      BY <1>1, Fields DEF Import!Owned, Import!Drawn
    <2>4. PICK fresh \in Refs \cup {Nil} : fresh = IF m.fresh = r THEN Nil ELSE m.fresh
      BY <2>3
    <2>5. PICK prepared \in [Ids -> Refs \cup {Nil, Empty}] :
            prepared = [i \in Ids |-> IF m.prepared[i] = r THEN Nil ELSE m.prepared[i]]
      BY <2>3
    <2>6. n \in Import!CallRecord /\ n.at = "undo" /\ n.fresh = fresh /\ n.prepared = prepared
      BY <1>1, <2>2, <2>4, <2>5 DEF Import!CallRecord, Import!GivenUp
    <2>7. /\ Import!MigrationTypes /\ Import!Answered /\ \A d \in Callers : Import!Alone(d)
      BY DEF Import!MInv
    <2>8. Import!Set(c, n)
      BY <2>1, <2>2
    <2>9. /\ vault' \in [Refs -> Import!Passwords \cup {Nil}]
             /\ rows' \in [Refs -> {"none", "staged", "ready"}]
          /\ \A q \in Refs : q # r => vault'[q] = vault[q] /\ rows'[q] = rows[q]
          /\ \A q \in Refs : Import!Referenced(q) => vault'[q] = vault[q]
          /\ Import!Referenced(r) \/ vault'[r] = Nil \/ rows'[r] = "ready"
      <3>1. CASE Import!Cleaned({r})
        BY <2>3, <2>7, <3>1, CleanedEffect
      <3>2. CASE ~Import!Referenced(r) /\ rows' = [rows EXCEPT ![r] = "ready"] /\ UNCHANGED vault
        BY <2>3, <2>7, <3>2 DEF Import!MigrationTypes
      <3> QED BY <2>1, <3>1, <3>2
    <2>10. Import!History /\ Import!Repository'
           /\ \A q \in Refs : Import!Referenced(q)' <=> Import!Referenced(q)
      BY <1>3, <2>9, CleaningKeeps
    <2>11. \A d \in Callers : d # c => Import!Spares(call[d])
      <3>1. \A d \in Callers : d # c => r \notin Import!Owned(call[d])
        BY <2>3, OthersOwn
      <3> QED BY <2>9, <2>10, <3>1 DEF Import!Spares
    <2>12. \A d \in Callers : Import!Alone(d)'
      <3>1. n.fresh \in Import!Owned(call[c]) /\ \A j \in Ids : n.prepared[j] \in Import!Owned(call[c])
        BY <1>1, <2>3, <2>4, <2>5, <2>6 DEF Import!Owned
      <3>2. /\ \A j, k \in Ids : j # k
               /\ m.prepared[j] = m.prepared[k] => m.prepared[j] \in {Nil, Empty}
            /\ \A j \in Ids : m.prepared[j] # Nil => m.prepared[j] # m.fresh
        BY <1>1, <2>7 DEF Import!Alone
      <3>3. \A j, k \in Ids : j # k /\ n.prepared[j] = n.prepared[k] => n.prepared[j] \in {Nil, Empty}
        BY <2>5, <2>6, <3>2
      <3>4. \A j \in Ids : n.prepared[j] # Nil => n.prepared[j] # n.fresh
        BY <2>4, <2>5, <2>6, <3>2
      <3> QED BY <2>3, <2>6, <2>7, <2>8, <3>1, <3>3, <3>4, AloneKeeps
    <2>13. Import!MigrationTypes'
      BY <1>3, <2>6, <2>7, <2>8, <2>9, SetEffect DEF Import!MigrationTypes
    <2>14. Import!Answered'
      <3>1. call'[c] = n /\ \A d \in Callers : d # c => call'[d] = call[d]
        BY <2>6, <2>7, <2>8, SetEffect
      <3>2. SUFFICES ASSUME NEW q \in Refs, vault'[q] # Nil, ~Import!Referenced(q)', rows'[q] = "none"
                     PROVE  \E d \in Callers : call'[d].fresh = q
        BY DEF Import!Answered
      <3>3. q # r
        BY <2>9, <2>10, <3>2
      <3>4. PICK d \in Callers : call[d].fresh = q
        BY <2>7, <2>9, <2>10, <3>2, <3>3 DEF Import!Answered
      <3>5. CASE d = c
        BY <1>1, <2>4, <2>6, <3>1, <3>3, <3>4, <3>5
      <3>6. CASE d # c
        BY <3>1, <3>4, <3>6
      <3> QED BY <3>5, <3>6
    <2>15. Import!CallFits(c)'
      BY <2>6, <2>7, <2>8, FitsEnd, SetEffect, FitsOf
    <2> QED BY <2>6, <2>8, <2>10, <2>11, <2>12, <2>13, <2>14, <2>15, CallKeeps
  <1> QED BY <1>4, <1>5

\* The transaction of an import that is not refused.
LEMMA PreparedIsMissing ==
  ASSUME Import!LegacyMigrationAssumption, Import!MInv, NEW c \in Callers, Import!ReadyToCommit(c),
         Import!Importable(c)
  PROVE  /\ \A i \in Import!Prepared(c) :
              /\ i \in Ids /\ profiles[i] = Nil /\ call[c].prepared[i] \in Refs \cup {Empty}
              /\ call[c].prepared[i] = Empty => passwords[i] = Empty
              /\ call[c].prepared[i] \in Refs => Import!Waits(call[c].prepared[i], i, "staged")
         /\ \A i, j \in Import!Prepared(c) :
              i # j /\ call[c].prepared[i] \in Refs => call[c].prepared[i] # call[c].prepared[j]
         /\ call[c].fresh = Nil
  <1>1. PICK m \in Import!CallRecord : m = call[c] /\ Import!Fits(m) /\ m.at = "prepare"
    BY Known DEF Import!ReadyToCommit, Import!At
  <1>2. /\ Import!Prepares(m) /\ m.fresh = Nil
        /\ \A i \in Ids : m.prepared[i] \in Refs \cup {Nil, Empty}
    BY <1>1, Fields DEF Import!Fits
  <1>3. \A i \in Import!Prepared(c) :
          /\ i \in Ids /\ profiles[i] = Nil /\ m.prepared[i] \in Refs \cup {Empty}
          /\ m.prepared[i] = Empty => passwords[i] = Empty
          /\ m.prepared[i] \in Refs => Import!Waits(m.prepared[i], i, "staged")
    BY <1>1, <1>2 DEF Import!Prepared, Import!Importable, Import!Prepares
  <1>4. \A i, j \in Import!Prepared(c) :
          i # j /\ m.prepared[i] \in Refs => m.prepared[i] # m.prepared[j]
    BY <1>1, <1>3, Markers DEF Import!MInv, Import!Alone
  <1> QED BY <1>1, <1>2, <1>3, <1>4

\* What an import stores, and what it leaves.
LEMMA ImportedEffect ==
  ASSUME Import!LegacyMigrationAssumption, Import!MInv, NEW c \in Callers, Import!ReadyToCommit(c),
         Import!Importable(c), Import!Imported(c)
  PROVE  /\ revision' \in Nat /\ revision <= revision'
         /\ Import!Prepared(c) = {} => revision' = revision
         /\ Import!Prepared(c) # {} => revision' > revision
         /\ profiles' \in [Ids -> Import!Profile \cup {Nil}]
         /\ \A i \in Ids : i \notin Import!Prepared(c) => profiles'[i] = profiles[i]
         /\ \A i \in Import!Prepared(c) :
              /\ profiles'[i] # Nil /\ profiles'[i].same /\ profiles'[i].ref = Import!Reference(c, i)
              /\ profiles'[i].revision = revision'
         /\ rows' \in [Refs -> {"none", "staged", "ready"}]
         /\ \A r \in Refs : IF \E i \in Import!Prepared(c) : r = Import!Reference(c,
            i) THEN rows'[r] = "none"
                            ELSE rows'[r] = rows[r]
  <1>1. /\ revision \in Nat /\ profiles \in [Ids -> Import!Profile \cup {Nil}]
        /\ rows \in [Refs -> {"none", "staged", "ready"}]
    BY DEF Import!MInv, Import!MigrationTypes
  <1>2. /\ revision' \in Nat /\ revision <= revision'
        /\ Import!Prepared(c) = {} => revision' = revision
        /\ Import!Prepared(c) # {} => revision' > revision
    BY <1>1 DEF Import!Imported
  <1>3. ASSUME NEW i \in Import!Prepared(c)
        PROVE  i \in Ids /\ Import!Reference(c, i) \in Refs \cup {Nil}
    BY PreparedIsMissing DEF Import!Reference
  <1>4. ASSUME NEW i \in Import!Prepared(c)
        PROVE  [same |-> TRUE, ref |-> Import!Reference(c, i),
               revision |-> revision'] \in Import!Profile
    BY <1>2, <1>3 DEF Import!Profile
  <1>5. profiles' = [i \in Ids |->
          IF i \in Import!Prepared(c)
          THEN [same |-> TRUE, ref |-> Import!Reference(c, i), revision |-> revision']
          ELSE profiles[i]]
    BY DEF Import!Imported
  <1>6. profiles' \in [Ids -> Import!Profile \cup {Nil}]
    BY <1>1, <1>4, <1>5
  <1>7. \A i \in Ids : i \notin Import!Prepared(c) => profiles'[i] = profiles[i]
    BY <1>5
  <1>8. ASSUME NEW i \in Import!Prepared(c)
        PROVE  /\ profiles'[i] # Nil /\ profiles'[i].same /\ profiles'[i].ref = Import!Reference(c, i)
               /\ profiles'[i].revision = revision'
    <2>1. profiles'[i] = [same |-> TRUE, ref |-> Import!Reference(c, i), revision |-> revision']
      BY <1>3, <1>5
    <2> QED BY <1>4, <2>1, Markers
  <1>9. /\ rows' \in [Refs -> {"none", "staged", "ready"}]
        /\ \A r \in Refs : IF \E i \in Import!Prepared(c) : r = Import!Reference(c,
           i) THEN rows'[r] = "none"
                           ELSE rows'[r] = rows[r]
    BY <1>1 DEF Import!Imported
  <1> QED BY <1>2, <1>6, <1>7, <1>8, <1>9

LEMMA ImportKeeps ==
  ASSUME Import!LegacyMigrationAssumption, Import!MInv, NEW c \in Callers, Import!ReadyToCommit(c),
         Import!Importable(c), Import!Imported(c),
         NEW n \in Import!CallRecord, Import!Set(c, n), n.at \in {"undo", "ok"},
         n.fresh = call[c].fresh, n.prepared = call[c].prepared,
         UNCHANGED <<passwords, vault, removed>>
  PROVE  Import!MInv'
  <1>1. /\ Import!MigrationTypes /\ Import!Repository /\ Import!Answered
           /\ \A d \in Callers : Import!Alone(d)
        /\ ~complete /\ complete' = TRUE
    BY DEF Import!MInv, Import!Importable, Import!Imported
  <1>2. /\ revision' \in Nat /\ revision <= revision' /\ revision \in Nat
        /\ Import!Prepared(c) = {} => revision' = revision
        /\ Import!Prepared(c) # {} => revision' > revision
        /\ profiles' \in [Ids -> Import!Profile \cup {Nil}]
           /\ profiles \in [Ids -> Import!Profile \cup {Nil}]
        /\ \A i \in Ids : i \notin Import!Prepared(c) => profiles'[i] = profiles[i]
        /\ \A i \in Import!Prepared(c) :
             /\ profiles'[i] # Nil /\ profiles'[i].same /\ profiles'[i].ref = Import!Reference(c, i)
             /\ profiles'[i].revision = revision'
        /\ rows' \in [Refs -> {"none", "staged", "ready"}]
    BY <1>1, ImportedEffect DEF Import!MigrationTypes
  <1>3. \A r \in Refs : IF \E i \in Import!Prepared(c) : r = Import!Reference(c,
        i) THEN rows'[r] = "none"
                        ELSE rows'[r] = rows[r]
    BY ImportedEffect
  <1>4. /\ \A i \in Import!Prepared(c) :
             /\ i \in Ids /\ profiles[i] = Nil /\ call[c].prepared[i] \in Refs \cup {Empty}
             /\ call[c].prepared[i] = Empty => passwords[i] = Empty
             /\ call[c].prepared[i] \in Refs => Import!Waits(call[c].prepared[i], i, "staged")
        /\ \A i, j \in Import!Prepared(c) :
             i # j /\ call[c].prepared[i] \in Refs => call[c].prepared[i] # call[c].prepared[j]
        /\ call[c].fresh = Nil
    BY PreparedIsMissing
  <1>5. ASSUME NEW i \in Import!Prepared(c)
        PROVE  /\ Import!Reference(c, i) = Nil <=> call[c].prepared[i] = Empty
               /\ Import!Reference(c, i) # Nil => /\ Import!Reference(c, i) = call[c].prepared[i]
                                            /\ Import!Reference(c, i) \in Refs
                                               /\ Import!Reference(c, i) \in Import!Owned(call[c])
                                            /\ ~Import!Referenced(Import!Reference(c, i))
                                            /\ vault[Import!Reference(c, i)] = passwords[i]
                                               /\ passwords[i] # Empty
    BY <1>4, Markers DEF Import!Reference, Import!Waits, Import!Owned
  <1>6. ASSUME NEW i \in Ids PROVE Import!HasSecret(i)' => profiles'[i].ref \in Refs
    BY <1>2 DEF Import!HasSecret, Import!Profile
  <1>7. ASSUME NEW i \in Ids, Import!HasSecret(i) PROVE Import!HasSecret(i)'
               /\ profiles'[i] = profiles[i] /\ i \notin Import!Prepared(c)
    BY <1>2, <1>4, <1>7 DEF Import!HasSecret
  <1>8. Import!History
    <2>1. \A i \in Ids : \/ profiles'[i] = profiles[i] \/ profiles'[i] = Nil
                         \/ profiles'[i].revision > revision
      BY <1>2
    <2>2. revision' = revision => profiles' = profiles
      <3>1. revision' = revision => Import!Prepared(c) = {}
        BY <1>2
      <3>2. Import!Prepared(c) = {} => profiles' = profiles
        BY <1>2
      <3> QED BY <3>1, <3>2
    <2> QED BY <1>2, <2>1, <2>2 DEF Import!History
  <1>9. \A r \in Refs : Import!Referenced(r) => Import!Referenced(r)'
    BY <1>2, <1>4 DEF Import!Referenced
  <1>10. ASSUME NEW r \in Refs, Import!Referenced(r)', ~Import!Referenced(r)
         PROVE  \E i \in Import!Prepared(c) : r = Import!Reference(c, i)
    BY <1>2, <1>10 DEF Import!Referenced
  <1>11. \A d \in Callers : d # c => Import!Spares(call[d])
    <2>1. ASSUME NEW d \in Callers, d # c, NEW r \in Refs \cap Import!Owned(call[d]),
                 ~Import!Referenced(r)
          PROVE  ~Import!Referenced(r)' /\ rows'[r] = rows[r]
      <3>1. ASSUME NEW i \in Import!Prepared(c), r = Import!Reference(c, i) PROVE FALSE
        BY <1>5, <2>1, <3>1, OthersOwn, Markers
      <3> QED BY <1>3, <1>10, <2>1, <3>1
    <2> QED BY <2>1 DEF Import!Spares
  <1>12. Import!Repository'
    <2>1. \A i \in Ids : profiles'[i] # Nil => profiles'[i].revision \in 1..revision'
      <3>1. ASSUME NEW i \in Ids, profiles'[i] # Nil PROVE profiles'[i].revision \in 1..revision'
        <4>1. CASE i \in Import!Prepared(c)
          BY <1>2, <4>1
        <4>2. CASE i \notin Import!Prepared(c)
          <5>1. profiles'[i].revision \in 1..revision
            BY <1>1, <1>2, <3>1, <4>2 DEF Import!Repository
          <5> QED BY <1>2, <5>1
        <4> QED BY <4>1, <4>2
      <3> QED BY <3>1
    <2>2. ASSUME NEW i \in Ids, NEW j \in Ids, Import!HasSecret(i)', Import!HasSecret(j)', i # j,
                 i \in Import!Prepared(c)
          PROVE  profiles'[i].ref # profiles'[j].ref
      <3>1. profiles'[i].ref = Import!Reference(c, i) /\ Import!Reference(c, i) # Nil
        BY <1>2, <2>2 DEF Import!HasSecret
      <3>2. CASE j \in Import!Prepared(c)
        <4>1. profiles'[j].ref = Import!Reference(c, j) /\ Import!Reference(c, j) # Nil
          BY <1>2, <2>2, <3>2 DEF Import!HasSecret
        <4> QED BY <1>4, <1>5, <2>2, <3>1, <3>2, <4>1
      <3>3. CASE j \notin Import!Prepared(c)
        <4>1. profiles[j] # Nil /\ profiles[j].ref = profiles'[j].ref
          BY <1>2, <2>2, <3>3 DEF Import!HasSecret
        <4> QED BY <1>5, <2>2, <3>1, <4>1 DEF Import!Referenced
      <3> QED BY <3>2, <3>3
    <2>3. ASSUME NEW i \in Ids, NEW j \in Ids, Import!HasSecret(i)', Import!HasSecret(j)', i # j
          PROVE  profiles'[i].ref # profiles'[j].ref
      <3>1. CASE i \notin Import!Prepared(c) /\ j \notin Import!Prepared(c)
        <4>1. /\ profiles'[i] = profiles[i] /\ profiles'[j] = profiles[j]
              /\ Import!HasSecret(i) /\ Import!HasSecret(j)
          BY <1>2, <2>3, <3>1 DEF Import!HasSecret
        <4> QED BY <1>1, <2>3, <4>1 DEF Import!Repository
      <3> QED BY <2>2, <2>3, <3>1
    <2>4. ASSUME NEW i \in Ids, Import!HasSecret(i)' PROVE vault'[profiles'[i].ref] # Nil
      <3>1. CASE i \in Import!Prepared(c)
        <4>1. Import!Reference(c, i) # Nil /\ profiles'[i].ref = Import!Reference(c, i)
          BY <1>2, <2>4, <3>1 DEF Import!HasSecret
        <4>2. passwords[i] \in {"old", Empty}
          BY <1>1 DEF Import!MigrationTypes
        <4> QED BY <1>5, <3>1, <4>1, <4>2, Markers DEF Import!Passwords
      <3>2. CASE i \notin Import!Prepared(c)
        BY <1>1, <1>2, <2>4, <3>2 DEF Import!Repository, Import!HasSecret
      <3> QED BY <3>1, <3>2
    <2>5. removed' = {}
      BY <1>1 DEF Import!Repository
    <2>6. \A i, j \in Ids : Import!HasSecret(i)' /\ Import!HasSecret(j)'
          /\ i # j => profiles'[i].ref # profiles'[j].ref
      BY <2>3
    <2>7. \A i \in Ids : Import!HasSecret(i)' => vault'[profiles'[i].ref] # Nil
      BY <2>4
    <2> QED BY <1>1, <2>1, <2>5, <2>6, <2>7 DEF Import!Repository
  <1>13. \A d \in Callers : Import!Alone(d)'
    BY <1>1, AloneStays
  <1>14. Import!MigrationTypes'
    BY <1>1, <1>2, SetEffect DEF Import!MigrationTypes
  <1>15. Import!Answered'
    <2>1. \A d \in Callers : call'[d].fresh = call[d].fresh
      BY <1>1, SetEffect
    <2>2. SUFFICES ASSUME NEW q \in Refs, vault'[q] # Nil, ~Import!Referenced(q)', rows'[q] = "none"
                   PROVE  \E d \in Callers : call'[d].fresh = q
      BY DEF Import!Answered
    <2>3. ~Import!Referenced(q)
      BY <1>9, <2>2
    <2>4. ASSUME NEW i \in Import!Prepared(c), q = Import!Reference(c, i) PROVE FALSE
      <3>1. i \in Ids /\ profiles'[i] # Nil /\ profiles'[i].ref = q
        BY <1>2, <1>4, <2>4
      <3> QED BY <2>2, <3>1 DEF Import!Referenced
    <2>5. rows[q] = "none"
      BY <1>3, <2>2, <2>4
    <2> QED BY <1>1, <2>1, <2>2, <2>3, <2>5 DEF Import!Answered
  <1>16. Import!CallFits(c)'
    BY <1>1, FitsEnd, SetEffect, FitsOf
  <1> QED BY <1>8, <1>11, <1>12, <1>13, <1>14, <1>15, <1>16, CallKeeps

LEMMA CommitMigrationKeeps ==
  ASSUME Import!LegacyMigrationAssumption, Import!MInv, NEW c \in Callers, Import!CommitMigration(c)
  PROVE  Import!MInv'
  <1>1. PICK m \in Import!CallRecord : m = call[c]
    BY Known
  <1>2. CASE Import!Importable(c)
    <2>1. PICK n : n = [m EXCEPT !.at = "ok"]
      OBVIOUS
    <2>2. n \in Import!CallRecord /\ n.at = "ok" /\ n.fresh = m.fresh /\ n.prepared = m.prepared
      BY <2>1 DEF Import!CallRecord
    <2>3. Import!Set(c, n) /\ Import!ReadyToCommit(c) /\ Import!Imported(c)
          /\ UNCHANGED <<passwords, vault, removed>>
      BY <1>1, <1>2, <2>1 DEF Import!CommitMigration, Import!Goes
    <2> QED BY <1>1, <1>2, <2>2, <2>3, ImportKeeps
  <1>3. CASE ~Import!Importable(c)
    <2>1. PICK n : n = [m EXCEPT !.at = "undo"]
      OBVIOUS
    <2>2. n \in Import!CallRecord /\ n.at = "undo" /\ n.fresh = m.fresh /\ n.prepared = m.prepared
      BY <2>1 DEF Import!CallRecord
    <2>3. Import!Set(c, n)
          /\ UNCHANGED <<passwords, profiles, revision, complete, vault, rows, removed>>
      BY <1>1, <1>3, <2>1 DEF Import!CommitMigration, Import!Goes
    <2> QED BY <1>1, <2>2, <2>3, Ends
  <1> QED BY <1>2, <1>3

LEMMA CommitUnansweredKeeps ==
  ASSUME Import!LegacyMigrationAssumption, Import!MInv, NEW c \in Callers, Import!CommitUnanswered(c)
  PROVE  Import!MInv'
  <1>1. PICK m \in Import!CallRecord : m = call[c]
    BY Known
  <1>2. PICK n : n = [m EXCEPT !.at = "undo", !.failed = TRUE]
    OBVIOUS
  <1>3. n \in Import!CallRecord /\ n.at = "undo" /\ n.fresh = m.fresh /\ n.prepared = m.prepared
    BY <1>2 DEF Import!CallRecord
  <1>4. /\ Import!Set(c, n) /\ Import!ReadyToCommit(c) /\ Import!Importable(c) /\ Import!Imported(c)
        /\ UNCHANGED <<passwords, vault, removed>>
    BY <1>1, <1>2 DEF Import!CommitUnanswered
  <1> QED BY <1>1, <1>3, <1>4, ImportKeeps

-----------------------------------------------------------------------------
\* What others save and delete.
LEMMA EditKeeps ==
  ASSUME Import!MInv, call' = call, Import!History, \A d \in Callers : Import!Spares(call[d]),
         Import!MigrationTypes', Import!Repository', Import!Answered'
  PROVE  Import!MInv'
  <1>1. /\ \A d \in Callers : Import!CallFits(d) /\ Import!Alone(d) /\ call[d] \in Import!CallRecord
    BY DEF Import!MInv, Import!MigrationTypes
  <1>2. ASSUME NEW d \in Callers PROVE Import!CallFits(d)'
    <2>1. call'[d] = call[d]
      OBVIOUS
    <2> QED BY <1>1, <2>1, OthersFit
  <1>3. ASSUME NEW d \in Callers PROVE Import!Alone(d)'
    BY <1>1 DEF Import!Alone, Import!Owned
  <1> QED BY <1>2, <1>3 DEF Import!MInv

\* A profile that has a reference has it alone.
LEMMA RefOfIsOwn ==
  ASSUME Import!LegacyMigrationAssumption, Import!MInv, NEW i \in Ids
  PROVE  /\ Import!RefOf(i) \in Refs \cup {Nil}
         /\ Import!RefOf(i) # Nil => Import!HasSecret(i) /\ profiles[i].ref = Import!RefOf(i)
            /\ Import!Referenced(Import!RefOf(i))
         /\ \A j \in Ids : j # i /\ Import!HasSecret(j) => profiles[j].ref # Import!RefOf(i)
  <1>1. profiles[i] \in Import!Profile \cup {Nil} /\ Import!Repository
    BY DEF Import!MInv, Import!MigrationTypes
  <1>2. profiles[i] # Nil => profiles[i].ref \in Refs \cup {Nil}
    BY <1>1 DEF Import!Profile
  <1>3. Import!RefOf(i) # Nil => Import!HasSecret(i) /\ profiles[i].ref = Import!RefOf(i)
    BY DEF Import!RefOf, Import!HasSecret
  <1>4. Import!RefOf(i) # Nil => Import!Referenced(Import!RefOf(i))
    BY <1>3 DEF Import!Referenced, Import!HasSecret
  <1>5. \A j \in Ids : j # i /\ Import!HasSecret(j) => profiles[j].ref # Import!RefOf(i)
    BY <1>1, <1>3 DEF Import!Repository, Import!HasSecret
  <1> QED BY <1>2, <1>3, <1>4, <1>5 DEF Import!RefOf

\* A profile gets the reference ref, which nobody has, and gives up its own.
LEMMA Replaced ==
  ASSUME Import!LegacyMigrationAssumption, Import!MInv, NEW i \in Ids,
         NEW profile \in Import!Profile \cup {Nil},
         NEW ref \in Refs \cup {Nil}, Import!Revised(i, profile),
         ref # Nil => Import!Unused(ref),
         profile # Nil => profile.revision = revision + 1 /\ profile.ref = ref,
         profile = Nil => ref = Nil,
         vault' \in [Refs -> Import!Passwords \cup {Nil}], ref # Nil => vault'[ref] # Nil,
         Import!RefOf(i) # Nil => vault'[Import!RefOf(i)] = Nil,
         \A r \in Refs : r # ref /\ r # Import!RefOf(i) => vault'[r] = vault[r],
         rows' = rows, removed' \in SUBSET Ids,
         removed' \subseteq removed \cup {i}, i \in removed' => profile = Nil /\ complete
  PROVE  Import!MInv'
  <1>1. /\ Import!MigrationTypes /\ Import!Repository /\ Import!Answered /\ revision \in Nat
        /\ profiles \in [Ids -> Import!Profile \cup {Nil}]
    BY DEF Import!MInv, Import!MigrationTypes
  <1>2. /\ revision' = revision + 1 /\ passwords' = passwords /\ complete' = complete /\ call' = call
        /\ profiles' \in [Ids -> Import!Profile \cup {Nil}] /\ profiles'[i] = profile
        /\ \A j \in Ids : j # i => profiles'[j] = profiles[j]
    BY <1>1 DEF Import!Revised
  <1>3. revision' \in Nat /\ revision <= revision' /\ revision' # revision /\ revision' > revision
    BY <1>1, <1>2
  <1>4. /\ Import!RefOf(i) \in Refs \cup {Nil}
        /\ Import!RefOf(i) # Nil => Import!HasSecret(i) /\ profiles[i].ref = Import!RefOf(i)
           /\ Import!Referenced(Import!RefOf(i))
        /\ \A j \in Ids : j # i /\ Import!HasSecret(j) => profiles[j].ref # Import!RefOf(i)
    BY RefOfIsOwn
  <1>5. ref # Nil => /\ ref \in Refs /\ ~Import!Referenced(ref)
                      /\ \A d \in Callers : ref \notin Import!Owned(call[d])
    BY DEF Import!Unused, Import!Owned
  <1>6. ASSUME NEW j \in Ids, j # i, Import!HasSecret(j)
        PROVE  /\ profiles[j].ref \in Refs /\ profiles[j].ref # ref /\ profiles[j].ref # Import!RefOf(i)
               /\ vault'[profiles[j].ref] = vault[profiles[j].ref]
    <2>1. profiles[j].ref \in Refs
      BY <1>1, <1>6 DEF Import!HasSecret, Import!Profile
    <2>2. profiles[j].ref # ref
      BY <1>5, <1>6, <2>1 DEF Import!Referenced, Import!HasSecret
    <2> QED BY <1>4, <1>6, <2>1, <2>2
  <1>7. Import!HasSecret(i)' => ref # Nil /\ profiles'[i].ref = ref
    BY <1>2 DEF Import!HasSecret
  <1>8. ASSUME NEW j \in Ids, j # i PROVE Import!HasSecret(j)' <=> Import!HasSecret(j)
    BY <1>2, <1>8 DEF Import!HasSecret
  <1>9. Import!History
    <2>1. \A j \in Ids : \/ profiles'[j] = profiles[j] \/ profiles'[j] = Nil
                         \/ profiles'[j].revision > revision
      BY <1>2, <1>3
    <2>2. ASSUME NEW j \in Ids, Import!HasSecret(j), profiles'[j] = profiles[j]
          PROVE  vault'[profiles[j].ref] = vault[profiles[j].ref]
      <3>1. CASE j = i
        <4>1. profiles[i] # Nil /\ profiles[i].revision = revision + 1
          BY <1>2, <2>2, <3>1 DEF Import!HasSecret
        <4>2. profiles[i].revision \in 1..revision
          BY <1>1, <4>1 DEF Import!Repository
        <4> QED BY <1>1, <4>1, <4>2
      <3>2. CASE j # i
        BY <1>6, <2>2, <3>2
      <3> QED BY <3>1, <3>2
    <2> QED BY <1>1, <1>2, <1>3, <2>1, <2>2 DEF Import!History
  <1>10. ASSUME NEW r \in Refs, r # ref PROVE Import!Referenced(r)' => Import!Referenced(r)
    <2>1. ASSUME NEW j \in Ids, profiles'[j] # Nil, profiles'[j].ref = r PROVE profiles[j] # Nil
                 /\ profiles[j].ref = r
      BY <1>2, <1>10, <2>1
    <2> QED BY <2>1 DEF Import!Referenced
  <1>11. ASSUME NEW d \in Callers PROVE Import!Spares(call[d])
    <2>1. ASSUME NEW r \in Import!Owned(call[d]) \cap Refs, ~Import!Referenced(r)
          PROVE  vault'[r] = vault[r] /\ rows'[r] = rows[r] /\ ~Import!Referenced(r)'
      BY <1>4, <1>5, <1>10, <2>1, Markers
    <2> QED BY <2>1 DEF Import!Spares
  <1>12. Import!MigrationTypes'
    BY <1>1, <1>2, <1>3 DEF Import!MigrationTypes
  <1>13. Import!Repository'
    <2>1. ASSUME NEW j \in Ids, profiles'[j] # Nil PROVE profiles'[j].revision \in 1..revision'
      <3>1. CASE j = i
        BY <1>1, <1>2, <2>1, <3>1
      <3>2. CASE j # i
        <4>1. profiles'[j].revision \in 1..revision
          BY <1>1, <1>2, <2>1, <3>2 DEF Import!Repository
        <4> QED BY <1>1, <1>2, <4>1
      <3> QED BY <3>1, <3>2
    <2>2. ASSUME NEW j \in Ids, NEW k \in Ids, Import!HasSecret(j)', Import!HasSecret(k)', j # k
          PROVE  profiles'[j].ref # profiles'[k].ref
      <3>1. CASE j = i
        BY <1>2, <1>6, <1>7, <1>8, <2>2, <3>1
      <3>2. CASE k = i
        BY <1>2, <1>6, <1>7, <1>8, <2>2, <3>2
      <3>3. CASE j # i /\ k # i
        BY <1>1, <1>2, <1>8, <2>2, <3>3 DEF Import!Repository
      <3> QED BY <3>1, <3>2, <3>3
    <2>3. ASSUME NEW j \in Ids, Import!HasSecret(j)' PROVE vault'[profiles'[j].ref] # Nil
      <3>1. CASE j = i
        BY <1>7, <2>3, <3>1
      <3>2. CASE j # i
        BY <1>1, <1>2, <1>6, <1>8, <2>3, <3>2 DEF Import!Repository
      <3> QED BY <3>1, <3>2
    <2>4. \A j \in removed' : profiles'[j] = Nil
      BY <1>1, <1>2 DEF Import!Repository
    <2>5. ~complete' => removed' = {}
      BY <1>1, <1>2 DEF Import!Repository
    <2>6. \A j \in Ids : profiles'[j] # Nil => profiles'[j].revision \in 1..revision'
      BY <2>1
    <2>7. \A j, k \in Ids : Import!HasSecret(j)' /\ Import!HasSecret(k)'
          /\ j # k => profiles'[j].ref # profiles'[k].ref
      BY <2>2
    <2>8. \A j \in Ids : Import!HasSecret(j)' => vault'[profiles'[j].ref] # Nil
      BY <2>3
    <2> QED BY <2>4, <2>5, <2>6, <2>7, <2>8 DEF Import!Repository
  <1>14. Import!Answered'
    <2>1. SUFFICES ASSUME NEW q \in Refs, vault'[q] # Nil, ~Import!Referenced(q)', rows'[q] = "none"
                   PROVE  \E d \in Callers : call'[d].fresh = q
      BY DEF Import!Answered
    <2>2. q # Import!RefOf(i)
      BY <1>4, <2>1, Markers
    <2>3. q # ref
      <3>1. ASSUME q = ref PROVE Import!Referenced(q)'
        <4>1. ref # Nil
          BY <3>1, Markers
        <4>2. profiles'[i] # Nil /\ profiles'[i].ref = q
          BY <1>2, <3>1, <4>1
        <4> QED BY <4>2 DEF Import!Referenced
      <3> QED BY <2>1, <3>1
    <2>4. vault[q] # Nil /\ rows[q] = "none"
      BY <2>1, <2>2, <2>3
    <2>5. ~Import!Referenced(q)
      <3>1. ASSUME NEW j \in Ids, profiles[j] # Nil, profiles[j].ref = q PROVE FALSE
        <4>1. CASE j = i
          BY <2>2, <3>1, <4>1 DEF Import!RefOf
        <4>2. CASE j # i
          BY <1>2, <2>1, <3>1, <4>2 DEF Import!Referenced
        <4> QED BY <4>1, <4>2
      <3> QED BY <3>1 DEF Import!Referenced
    <2> QED BY <1>1, <1>2, <2>4, <2>5 DEF Import!Answered
  <1> QED BY <1>2, <1>9, <1>11, <1>12, <1>13, <1>14, EditKeeps

LEMMA SaveProfileKeeps ==
  ASSUME Import!LegacyMigrationAssumption, Import!MInv, NEW i \in Ids, Import!SaveProfile(i)
  PROVE  Import!MInv'
  <1>1. /\ Import!MigrationTypes /\ Import!Repository /\ Import!Answered /\ revision \in Nat
        /\ profiles \in [Ids -> Import!Profile \cup {Nil}]
    BY DEF Import!MInv, Import!MigrationTypes
  <1>2. rows' = rows /\ removed' = removed \ {i}
    BY DEF Import!SaveProfile
  <1>3. CASE /\ profiles[i] # Nil /\ UNCHANGED vault
             /\ Import!Revised(i, [profiles[i] EXCEPT !.revision = revision + 1])
    <2>1. PICK old \in Import!Profile : old = profiles[i]
      BY <1>1, <1>3
    <2>2. PICK new : new = [old EXCEPT !.revision = revision + 1]
      OBVIOUS
    <2>3. new \in Import!Profile /\ new.ref = old.ref /\ new.revision = revision + 1 /\ new # Nil
      BY <1>1, <2>2, Markers DEF Import!Profile
    <2>4. /\ revision' = revision + 1 /\ passwords' = passwords /\ complete' = complete /\ call' = call
          /\ profiles' \in [Ids -> Import!Profile \cup {Nil}] /\ profiles'[i] = new
          /\ \A j \in Ids : j # i => profiles'[j] = profiles[j]
      BY <1>1, <1>3, <2>1, <2>2, <2>3 DEF Import!Revised
    <2>5. revision' \in Nat /\ revision <= revision' /\ revision' # revision /\ revision' > revision
      BY <1>1, <2>4
    <2>6. \A j \in Ids : /\ profiles'[j] # Nil <=> profiles[j] # Nil
                         /\ profiles[j] # Nil => profiles'[j].ref = profiles[j].ref
      BY <1>3, <2>1, <2>3, <2>4
    <2>7. \A j \in Ids : Import!HasSecret(j)' <=> Import!HasSecret(j)
      BY <2>6 DEF Import!HasSecret
    <2>8. \A r \in Refs : Import!Referenced(r)' <=> Import!Referenced(r)
      BY <2>6 DEF Import!Referenced
    <2>9. Import!History
      <3>1. \A j \in Ids : \/ profiles'[j] = profiles[j] \/ profiles'[j] = Nil
                           \/ profiles'[j].revision > revision
        BY <1>1, <2>3, <2>4
      <3> QED BY <1>1, <1>3, <2>4, <2>5, <3>1 DEF Import!History
    <2>10. \A d \in Callers : Import!Spares(call[d])
      BY <1>2, <1>3, <2>8 DEF Import!Spares
    <2>11. Import!MigrationTypes'
      BY <1>1, <1>2, <1>3, <2>4, <2>5 DEF Import!MigrationTypes
    <2>12. Import!Repository'
      <3>1. ASSUME NEW j \in Ids, profiles'[j] # Nil PROVE profiles'[j].revision \in 1..revision'
        <4>1. CASE j = i
          BY <1>1, <2>3, <2>4, <4>1
        <4>2. CASE j # i
          <5>1. profiles'[j].revision \in 1..revision
            BY <1>1, <2>4, <3>1, <4>2 DEF Import!Repository
          <5> QED BY <1>1, <2>4, <5>1
        <4> QED BY <4>1, <4>2
      <3>2. \A j, k \in Ids : Import!HasSecret(j)' /\ Import!HasSecret(k)'
            /\ j # k => profiles'[j].ref # profiles'[k].ref
        BY <1>1, <2>6, <2>7 DEF Import!Repository, Import!HasSecret
      <3>3. \A j \in Ids : Import!HasSecret(j)' => vault'[profiles'[j].ref] # Nil
        BY <1>1, <1>3, <2>6, <2>7 DEF Import!Repository, Import!HasSecret
      <3>4. (\A j \in removed' : profiles'[j] = Nil) /\ (~complete' => removed' = {})
        BY <1>1, <1>2, <2>4 DEF Import!Repository, Import!MigrationTypes
      <3>5. \A j \in Ids : profiles'[j] # Nil => profiles'[j].revision \in 1..revision'
        BY <3>1
      <3> QED BY <3>2, <3>3, <3>4, <3>5 DEF Import!Repository
    <2>13. Import!Answered'
      BY <1>1, <1>2, <1>3, <2>4, <2>8 DEF Import!Answered
    <2> QED BY <2>4, <2>9, <2>10, <2>11, <2>12, <2>13, EditKeeps
  <1>4. ASSUME NEW same \in BOOLEAN, NEW ref \in {Nil} \cup {r \in Refs : Import!Unused(r)},
               NEW password \in Import!Passwords,
               Import!Revised(i, [same |-> same, ref |-> ref, revision |-> revision + 1]),
               vault' = [r \in Refs |-> IF r = ref THEN password
                                        ELSE IF r = Import!RefOf(i) THEN Nil ELSE vault[r]]
        PROVE  Import!MInv'
    <2>1. PICK profile : profile = [same |-> same, ref |-> ref, revision |-> revision + 1]
      OBVIOUS
    <2>2. /\ profile \in Import!Profile /\ profile # Nil /\ profile.ref = ref
             /\ profile.revision = revision + 1
          /\ ref \in Refs \cup {Nil} /\ (ref # Nil => Import!Unused(ref))
      BY <1>1, <2>1, Markers DEF Import!Profile
    <2>3. Import!Revised(i, profile)
      BY <1>4, <2>1
    <2>4. ref # Nil => ref # Import!RefOf(i)
      BY <2>2, RefOfIsOwn DEF Import!Unused
    <2>5. Import!RefOf(i) \in Refs \cup {Nil}
      BY RefOfIsOwn
    <2>6. /\ vault' \in [Refs -> Import!Passwords \cup {Nil}] /\ (ref # Nil => vault'[ref] # Nil)
          /\ Import!RefOf(i) # Nil => vault'[Import!RefOf(i)] = Nil
          /\ \A r \in Refs : r # ref /\ r # Import!RefOf(i) => vault'[r] = vault[r]
      BY <1>1, <1>4, <2>2, <2>4, <2>5, Markers DEF Import!MigrationTypes
    <2>7. removed' \in SUBSET Ids /\ removed' \subseteq removed \cup {i} /\ i \notin removed'
      BY <1>1, <1>2 DEF Import!MigrationTypes
    <2> QED BY <1>2, <2>2, <2>3, <2>6, <2>7, Replaced
  <1> QED BY <1>3, <1>4 DEF Import!SaveProfile

LEMMA DeleteProfileKeeps ==
  ASSUME Import!LegacyMigrationAssumption, Import!MInv, NEW i \in Ids, Import!DeleteProfile(i)
  PROVE  Import!MInv'
  <1>1. Import!MigrationTypes
    BY DEF Import!MInv
  <1>2. /\ Import!Revised(i, Nil) /\ rows' = rows
        /\ vault' = [r \in Refs |-> IF r = Import!RefOf(i) THEN Nil ELSE vault[r]]
        /\ removed' = IF complete THEN removed \cup {i} ELSE removed
    BY DEF Import!DeleteProfile
  <1>3. Import!RefOf(i) \in Refs \cup {Nil}
    BY RefOfIsOwn
  <1>4. /\ vault' \in [Refs -> Import!Passwords \cup {Nil}]
        /\ Import!RefOf(i) # Nil => vault'[Import!RefOf(i)] = Nil
        /\ \A r \in Refs : r # Nil /\ r # Import!RefOf(i) => vault'[r] = vault[r]
    BY <1>1, <1>2, <1>3 DEF Import!MigrationTypes
  <1>5. removed' \in SUBSET Ids /\ removed' \subseteq removed \cup {i}
    BY <1>1, <1>2 DEF Import!MigrationTypes
  <1>6. i \in removed' => complete
    <2>1. ~complete => removed' = {}
      BY <1>2 DEF Import!MInv, Import!Repository
    <2> QED BY <2>1
  <1> QED BY <1>2, <1>4, <1>5, <1>6, Replaced

LEMMA InitFits ==
  ASSUME Import!LegacyMigrationAssumption, Import!Init
  PROVE  Import!MInv
  <1>1. /\ Import!MigrationTypes /\ \A i \in Ids : profiles[i] = Nil
        /\ \A r \in Refs : vault[r] = Nil
        /\ \A c \in Callers : call[c] = Import!NoCall
    <2>1. revision \in Nat
      BY DEF Import!Init
    <2>2. call \in [Callers -> Import!CallRecord] /\ \A c \in Callers : call[c] = Import!NoCall
      BY NoCallType DEF Import!Init
    <2> QED BY <2>1, <2>2 DEF Import!Init, Import!MigrationTypes
  <1>2. Import!Repository
    BY <1>1 DEF Import!Init, Import!Repository, Import!HasSecret
  <1>3. Import!Answered
    BY <1>1 DEF Import!Answered
  <1>4. ASSUME NEW c \in Callers PROVE Import!Alone(c) /\ Import!CallFits(c)
    <2>1. PICK n \in Import!CallRecord : n = call[c] /\ n = Import!NoCall
      BY <1>1, NoCallType
    <2>2. n.at = "idle" /\ n.fresh = Nil /\ \A i \in Ids : n.prepared[i] = Nil
      BY <2>1, NoCallType
    <2>3. Import!Fits(n)
      BY <2>2 DEF Import!Fits
    <2>4. \A d \in Callers : Import!Owned(call[d]) \subseteq {Nil}
      BY <1>1, NoCallType DEF Import!Owned
    <2>5. Import!Alone(c)
      BY <2>1, <2>2, <2>4 DEF Import!Alone
    <2> QED BY <2>1, <2>3, <2>5 DEF Import!CallFits
  <1> QED BY <1>1, <1>2, <1>3, <1>4 DEF Import!MInv

LEMMA NextKeeps ==
  ASSUME Import!LegacyMigrationAssumption, Import!MInv, [Import!Next]_(Import!vars)
  PROVE  Import!MInv'
  <1>1. ASSUME NEW c \in Callers, Import!Call(c) PROVE Import!MInv'
    BY <1>1, MigrateKeeps, CheckCompleteKeeps, VerifyKeeps, ScopeKeeps, ReadRecordKeeps,
       ReadSecretKeeps,
       ComparedKeeps, PutKeeps, StageKeeps, CommitMigrationKeeps, CommitUnansweredKeeps, UndoKeeps,
       FailKeeps, StopKeeps DEF Import!Call
  <1>2. ASSUME NEW i \in Ids, Import!SaveProfile(i) \/ Import!DeleteProfile(i) PROVE Import!MInv'
    BY <1>2, SaveProfileKeeps, DeleteProfileKeeps
  <1>3. CASE UNCHANGED Import!vars
    <2>1. /\ UNCHANGED <<passwords, profiles, revision, complete, vault, rows, removed>> /\ call' = call
      BY <1>3 DEF Import!vars
    <2>2. /\ Import!History /\ Import!Repository' /\ \A d \in Callers : Import!Spares(call[d])
          /\ call' \in [Callers -> Import!CallRecord] => Import!MigrationTypes'
          /\ \A r \in Refs : Import!Referenced(r)' <=> Import!Referenced(r)
      BY <2>1, NothingMoves
    <2>3. Import!MigrationTypes'
      BY <2>1, <2>2 DEF Import!MInv, Import!MigrationTypes
    <2>4. Import!Answered'
      BY <2>1, <2>2 DEF Import!MInv, Import!Answered
    <2> QED BY <2>1, <2>2, <2>3, <2>4, EditKeeps
  <1> QED BY <1>1, <1>2, <1>3 DEF Import!Next

-----------------------------------------------------------------------------
\* Nothing but a comparison and an import reports success.
LEMMA OnlyOneCalls ==
  ASSUME Import!MigrationTypes, NEW c \in Callers, Import!Call(c), NEW d \in Callers, d # c
  PROVE  call'[d] = call[d]
  <1>1. \E n : Import!Set(c, n)
    <2>1. CASE Import!Migrate(c)
      BY <2>1 DEF Import!Migrate
    <2>2. CASE Import!CheckComplete(c)
      BY <2>2 DEF Import!CheckComplete, Import!Goes
    <2>3. CASE Import!Verify(c)
      BY <2>3 DEF Import!Verify
    <2>4. CASE Import!Scope(c)
      BY <2>4 DEF Import!Scope
    <2>5. CASE Import!ReadRecord(c)
      BY <2>5 DEF Import!ReadRecord
    <2>6. CASE Import!ReadSecret(c)
      BY <2>6 DEF Import!ReadSecret
    <2>7. CASE Import!Compared(c)
      BY <2>7 DEF Import!Compared, Import!Goes
    <2>8. CASE Import!Put(c)
      BY <2>8 DEF Import!Put
    <2>9. CASE Import!Stage(c)
      BY <2>9 DEF Import!Stage
    <2>10. CASE Import!CommitMigration(c)
      BY <2>10 DEF Import!CommitMigration, Import!Goes
    <2>11. CASE Import!CommitUnanswered(c)
      BY <2>11 DEF Import!CommitUnanswered
    <2>12. CASE Import!Undo(c)
      BY <2>12 DEF Import!Undo, Import!Goes
    <2>13. CASE Import!Fail(c)
      BY <2>13 DEF Import!Fail
    <2>14. CASE Import!Stop(c)
      BY <2>14 DEF Import!Stop, Import!Goes
    <2> QED BY <2>1, <2>2, <2>3, <2>4, <2>5, <2>6, <2>7, <2>8, <2>9, <2>10, <2>11, <2>12, <2>13,
               <2>14 DEF Import!Call
  <1> QED BY <1>1 DEF Import!Set, Import!MigrationTypes

LEMMA AtAfter ==
  ASSUME Import!MigrationTypes, NEW c \in Callers, NEW n, Import!Set(c, n)
  PROVE  call'[c] = n
  BY DEF Import!Set, Import!MigrationTypes

LEMMA OthersDoNotSucceed ==
  ASSUME Import!MInv, NEW c \in Callers, Import!Call(c), call'[c].at = "ok"
  PROVE  Import!Compared(c) \/ Import!CommitMigration(c)
  <1>1. PICK m \in Import!CallRecord : m = call[c]
    BY Known
  <1>2. Import!MigrationTypes
    BY DEF Import!MInv
  <1>3. CASE Import!Migrate(c)
    <2>1. PICK n : n = [Import!NoCall EXCEPT !.kind = "migrate", !.at = "complete?"]
      OBVIOUS
    <2>2. n.at = "complete?"
      BY <2>1 DEF Import!NoCall
    <2> QED BY <1>2, <1>3, <2>1, <2>2, AtAfter DEF Import!Migrate
  <1>4. CASE Import!Verify(c)
    <2>1. PICK n : n = [Import!NoCall EXCEPT !.kind = "verify", !.at = "scope"]
      OBVIOUS
    <2>2. n.at = "scope"
      BY <2>1 DEF Import!NoCall
    <2> QED BY <1>2, <1>4, <2>1, <2>2, AtAfter DEF Import!Verify
  <1>5. CASE Import!CheckComplete(c)
    <2>1. \E n : Import!Set(c, n) /\ n.at \in {"scope", "compare"}
      <3>1. CASE complete
        <4>1. Import!Set(c, [m EXCEPT !.at = "scope"])
          BY <1>1, <1>5, <3>1 DEF Import!CheckComplete, Import!Goes
        <4>2. [m EXCEPT !.at = "scope"].at = "scope"
          BY DEF Import!CallRecord
        <4> QED BY <4>1, <4>2
      <3>2. CASE ~complete
        <4>1. Import!Set(c, [m EXCEPT !.at = "compare", !.todo = Ids])
          BY <1>1, <1>5, <3>2 DEF Import!CheckComplete
        <4>2. [m EXCEPT !.at = "compare", !.todo = Ids].at = "compare"
          BY DEF Import!CallRecord
        <4> QED BY <4>1, <4>2
      <3> QED BY <3>1, <3>2
    <2> QED BY <1>2, <2>1, AtAfter
  <1>6. CASE Import!Scope(c)
    <2>1. PICK todo : Import!Set(c, [m EXCEPT !.at = "compare", !.scoped = TRUE, !.since = revision,
          !.todo = todo])
      BY <1>1, <1>6 DEF Import!Scope
    <2>2. PICK n : n = [m EXCEPT !.at = "compare", !.scoped = TRUE, !.since = revision, !.todo = todo]
      OBVIOUS
    <2>3. n.at = "compare"
      BY <2>2 DEF Import!CallRecord
    <2> QED BY <1>2, <2>1, <2>2, <2>3, AtAfter
  <1>7. CASE Import!ReadRecord(c)
    <2>1. m.at = "compare"
      BY <1>1, <1>7 DEF Import!ReadRecord, Import!At
    <2>2. PICK i, record :
            \/ Import!Set(c, [m EXCEPT !.todo = @ \ {i}, !.missing = @ \cup {i}])
            \/ Import!Set(c, Import!Conflicting(c, i))
            \/ Import!Set(c, Import!Matched(c, i, record))
            \/ Import!Set(c, [m EXCEPT !.at = "secret", !.id = i, !.record = record])
      BY <1>1, <1>7 DEF Import!ReadRecord
    <2>3. PICK n : n = [m EXCEPT !.todo = @ \ {i}, !.missing = @ \cup {i}]
      OBVIOUS
    <2>4. PICK o : o = [m EXCEPT !.at = "secret", !.id = i, !.record = record]
      OBVIOUS
    <2>5. /\ n.at = "compare" /\ o.at = "secret"
          /\ Import!Conflicting(c, i).at = "compare" /\ Import!Matched(c, i, record).at = "compare"
      BY <1>1, <2>1, <2>3, <2>4 DEF Import!CallRecord, Import!Conflicting, Import!Matched
    <2> QED BY <1>2, <2>2, <2>3, <2>4, <2>5, AtAfter
  <1>8. CASE Import!ReadSecret(c)
    <2>1. PICK i, record, new :
            /\ new \in {Import!Matched(c, i, record), Import!Conflicting(c, i)}
            /\ Import!Set(c, [new EXCEPT !.id = Nil, !.record = Nil])
      BY <1>8 DEF Import!ReadSecret
    <2>2. \/ new = [m EXCEPT !.at = "compare", !.todo = @ \ {i}, !.verified[i] = record.revision]
          \/ new = [m EXCEPT !.at = "compare", !.todo = @ \ {i}, !.conflict = TRUE]
      BY <1>1, <2>1 DEF Import!Matched, Import!Conflicting
    <2>3. PICK n : n = [new EXCEPT !.id = Nil, !.record = Nil]
      OBVIOUS
    <2>4. n.at = "compare"
      BY <2>2, <2>3 DEF Import!CallRecord
    <2> QED BY <1>2, <2>1, <2>3, <2>4, AtAfter
  <1>9. CASE Import!Put(c)
    <2>1. m.at = "prepare"
      BY <1>1, <1>9 DEF Import!Put, Import!At
    <2>2. PICK i, r : \/ Import!Set(c, [m EXCEPT !.prepared[i] = Empty])
                      \/ Import!Set(c, [m EXCEPT !.at = "stage", !.id = i, !.fresh = r])
      BY <1>1, <1>9 DEF Import!Put
    <2>3. PICK n : n = [m EXCEPT !.prepared[i] = Empty]
      OBVIOUS
    <2>4. PICK o : o = [m EXCEPT !.at = "stage", !.id = i, !.fresh = r]
      OBVIOUS
    <2>5. n.at = "prepare" /\ o.at = "stage"
      BY <2>1, <2>3, <2>4 DEF Import!CallRecord
    <2> QED BY <1>2, <2>2, <2>3, <2>4, <2>5, AtAfter
  <1>10. CASE Import!Stage(c)
    <2>1. PICK n : n = [m EXCEPT !.at = "prepare", !.prepared[m.id] = m.fresh, !.id = Nil,
          !.fresh = Nil]
      OBVIOUS
    <2>2. n.at = "prepare"
      BY <2>1 DEF Import!CallRecord
    <2>3. Import!Set(c, n)
      BY <1>1, <1>10, <2>1 DEF Import!Stage
    <2> QED BY <1>2, <2>2, <2>3, AtAfter
  <1>11. CASE Import!CommitUnanswered(c)
    <2>1. PICK n : n = [m EXCEPT !.at = "undo", !.failed = TRUE]
      OBVIOUS
    <2>2. n.at = "undo"
      BY <2>1 DEF Import!CallRecord
    <2>3. Import!Set(c, n)
      BY <1>1, <1>11, <2>1 DEF Import!CommitUnanswered
    <2> QED BY <1>2, <2>2, <2>3, AtAfter
  <1>12. CASE Import!Undo(c)
    <2>1. m.at = "undo"
      BY <1>1, <1>12 DEF Import!Undo, Import!At
    <2>2. PICK r : Import!Set(c, [m EXCEPT !.at = "failed"]) \/ Import!Set(c, Import!GivenUp(m, r))
      BY <1>1, <1>12 DEF Import!Undo, Import!Goes
    <2>3. PICK n : n = [m EXCEPT !.at = "failed"]
      OBVIOUS
    <2>4. n.at = "failed" /\ Import!GivenUp(m, r).at = "undo"
      BY <2>1, <2>3 DEF Import!CallRecord, Import!GivenUp
    <2> QED BY <1>2, <2>2, <2>3, <2>4, AtAfter
  <1>13. CASE Import!Fail(c)
    <2>1. PICK at \in {"undo", "failed"} : Import!Set(c, [m EXCEPT !.failed = TRUE, !.at = at])
      BY <1>1, <1>13 DEF Import!Fail
    <2>2. PICK n : n = [m EXCEPT !.failed = TRUE, !.at = at]
      OBVIOUS
    <2>3. n.at = at
      BY <2>2 DEF Import!CallRecord
    <2> QED BY <1>2, <2>1, <2>2, <2>3, AtAfter
  <1>14. CASE Import!Stop(c)
    <2>1. PICK n : n = [m EXCEPT !.at = "stopped"]
      OBVIOUS
    <2>2. n.at = "stopped"
      BY <2>1 DEF Import!CallRecord
    <2>3. Import!Set(c, n)
      BY <1>1, <1>14, <2>1 DEF Import!Stop, Import!Goes
    <2> QED BY <1>2, <2>2, <2>3, AtAfter
  <1> QED BY <1>3, <1>4, <1>5, <1>6, <1>7, <1>8, <1>9, <1>10, <1>11, <1>12, <1>13, <1>14 DEF Import!Call

\* A comparison that succeeds has found every profile as it is now.
LEMMA ComparedIsTrue ==
  ASSUME Import!MInv, NEW c \in Callers, Import!Compared(c), call'[c].at = "ok",
         call[c].kind = "migrate", NEW i \in Ids
  PROVE  Import!Stored(i)'
  <1>1. PICK m \in Import!CallRecord : m = call[c] /\ Import!Fits(m) /\ m.at = "compare" /\ m.todo = {}
    BY Known DEF Import!Compared, Import!At
  <1>2. /\ Import!Compares(m) /\ (m.scoped => Import!ScopeFits(m)) /\ m.scoped \in BOOLEAN
           /\ m.conflict \in BOOLEAN
    BY <1>1, Fields DEF Import!Fits
  <1>3. /\ Import!MigrationTypes /\ UNCHANGED <<passwords, profiles, vault>>
    BY DEF Import!Compared, Import!MInv
  <1>4. ASSUME NEW at, at # "ok", Import!Goes(c, at) PROVE FALSE
    <2>1. PICK n : n = [m EXCEPT !.at = at]
      OBVIOUS
    <2>2. n.at = at
      BY <2>1 DEF Import!CallRecord
    <2> QED BY <1>1, <1>3, <1>4, <2>1, <2>2, AtAfter DEF Import!Goes
  <1>5. ~m.conflict /\ m.scoped /\ m.missing = {} /\ Import!Unchanged(c)
    <2>1. CASE m.conflict
      <3>1. Import!Goes(c, "failed")
        BY <1>1, <2>1 DEF Import!Compared
      <3> QED BY <1>4, <3>1
    <2>2. CASE ~m.conflict /\ ~m.scoped
      <3>1. Import!Goes(c, "prepare")
        BY <1>1, <2>2 DEF Import!Compared
      <3> QED BY <1>4, <3>1
    <2>3. CASE ~m.conflict /\ m.scoped
      <3>1. Import!Goes(c, IF m.missing = {} /\ Import!Unchanged(c) THEN "ok" ELSE "failed")
        BY <1>1, <2>3 DEF Import!Compared
      <3>2. CASE ~(m.missing = {} /\ Import!Unchanged(c))
        <4>1. Import!Goes(c, "failed")
          BY <3>1, <3>2
        <4> QED BY <1>4, <4>1
      <3> QED BY <2>3, <3>2
    <2> QED BY <1>2, <2>1, <2>2, <2>3
  <1>6. m.verified[i] > 0
    BY <1>1, <1>2, <1>5 DEF Import!Compares
  <1>7. m.since = revision
    BY <1>1, <1>5 DEF Import!Unchanged
  <1>8. Import!Stored(i)
    BY <1>2, <1>5, <1>6, <1>7 DEF Import!Compares, Import!ScopeFits
  <1> QED BY <1>3, <1>8 DEF Import!Stored

\* What an import leaves out was compared and has not changed.
LEMMA ImportIsWhole ==
  ASSUME Import!LegacyMigrationAssumption, Import!MInv, NEW c \in Callers, Import!CommitMigration(c),
         call'[c].at = "ok",
         call[c].kind = "migrate", NEW i \in Ids
  PROVE  Import!Stored(i)'
  <1>1. PICK m \in Import!CallRecord : m = call[c] /\ Import!Fits(m) /\ m.at = "prepare"
        /\ m.missing = Import!Prepared(c)
    BY Known DEF Import!CommitMigration, Import!ReadyToCommit, Import!At
  <1>2. Import!Compares(m) /\ Import!Prepares(m)
    BY <1>1 DEF Import!Fits
  <1>3. /\ Import!MigrationTypes /\ passwords' = passwords /\ vault' = vault /\ Import!ReadyToCommit(c)
    BY DEF Import!CommitMigration, Import!MInv
  <1>4. Import!Importable(c) /\ Import!Imported(c)
    <2>1. CASE ~Import!Importable(c)
      <3>1. PICK n : n = [m EXCEPT !.at = "undo"]
        OBVIOUS
      <3>2. n.at = "undo"
        BY <3>1 DEF Import!CallRecord
      <3>3. Import!Set(c, n)
        BY <1>1, <2>1, <3>1 DEF Import!CommitMigration, Import!Goes
      <3> QED BY <1>3, <3>2, <3>3, AtAfter
    <2>2. CASE Import!Importable(c)
      BY <2>2 DEF Import!CommitMigration
    <2> QED BY <2>1, <2>2
  <1>5. /\ i \notin Import!Prepared(c) => profiles'[i] = profiles[i]
        /\ i \in Import!Prepared(c) => profiles'[i] # Nil /\ profiles'[i].same
           /\ profiles'[i].ref = Import!Reference(c, i)
    BY <1>3, <1>4, ImportedEffect
  <1>6. CASE i \notin Import!Prepared(c)
    <2>1. m.verified[i] > 0
      BY <1>1, <1>2, <1>6 DEF Import!Compares, Import!Prepares
    <2>2. Import!HasRevision(i, m.verified[i])
      BY <1>1, <1>4, <2>1 DEF Import!Importable, Import!HasRevision
    <2>3. Import!Stored(i)
      BY <1>2, <2>1, <2>2 DEF Import!Compares
    <2> QED BY <1>3, <1>5, <1>6, <2>3 DEF Import!Stored
  <1>7. CASE i \in Import!Prepared(c)
    <2>1. /\ m.prepared[i] \in Refs \cup {Empty}
          /\ m.prepared[i] = Empty => passwords[i] = Empty
          /\ m.prepared[i] \in Refs => Import!Waits(m.prepared[i], i, "staged")
      BY <1>1, <1>3, <1>4, <1>7, PreparedIsMissing
    <2>2. CASE m.prepared[i] = Empty
      <3>1. Import!Reference(c, i) = Nil /\ passwords'[i] = Empty
        BY <1>1, <1>3, <2>1, <2>2 DEF Import!Reference
      <3> QED BY <1>5, <1>7, <3>1 DEF Import!Stored
    <2>3. CASE m.prepared[i] \in Refs
      <3>1. /\ Import!Reference(c, i) = m.prepared[i] /\ passwords'[i] # Empty /\ m.prepared[i] # Nil
            /\ vault'[m.prepared[i]] = passwords'[i]
        BY <1>1, <1>3, <2>1, <2>3, Markers DEF Import!Reference, Import!Waits
      <3> QED BY <1>5, <1>7, <3>1 DEF Import!Stored
    <2> QED BY <2>1, <2>2, <2>3
  <1> QED BY <1>6, <1>7

LEMMA SuccessStep ==
  ASSUME Import!LegacyMigrationAssumption, Import!MInv, Import!MInv', Import!Next, NEW c \in Callers,
         ~Import!At(c, "ok"), Import!At(c, "ok")'
  PROVE  IF call[c].kind = "migrate" THEN (\A i \in Ids : Import!Stored(i))'
         ELSE (\A i \in Ids : Import!HasSecret(i) => vault[profiles[i].ref] # Nil)'
  <1>1. Import!MigrationTypes
    BY DEF Import!MInv
  <1>2. call'[c].at = "ok" /\ call[c].at # "ok"
    BY DEF Import!At
  <1>3. Import!Call(c)
    <2>1. ASSUME NEW d \in Callers, Import!Call(d), d # c PROVE FALSE
      BY <1>1, <1>2, <2>1, OnlyOneCalls
    <2>2. ASSUME NEW i \in Ids, Import!SaveProfile(i) \/ Import!DeleteProfile(i) PROVE FALSE
      <3>1. call' = call
        BY <2>2 DEF Import!SaveProfile, Import!DeleteProfile, Import!Revised
      <3> QED BY <1>2, <3>1
    <2> QED BY <2>1, <2>2 DEF Import!Next
  <1>4. Import!Compared(c) \/ Import!CommitMigration(c)
    BY <1>2, <1>3, OthersDoNotSucceed
  <1>5. CASE call[c].kind = "migrate"
    <2>1. \A i \in Ids : Import!Stored(i)'
      BY <1>2, <1>4, <1>5, ComparedIsTrue, ImportIsWhole
    <2> QED BY <1>5, <2>1
  <1>6. CASE call[c].kind # "migrate"
    <2>1. \A i \in Ids : Import!HasSecret(i)' => vault'[profiles'[i].ref] # Nil
      BY DEF Import!MInv, Import!Repository
    <2> QED BY <1>6, <2>1
  <1> QED BY <1>5, <1>6

\* The inductive invariant of imports: what was compared stands as long as
\* revisions say so, and every secret has one that answers for it.
THEOREM MigrationHolds ==
  ASSUME Import!LegacyMigrationAssumption
  PROVE  Import!Spec => []Import!MInv
  <1>1. Import!Init => Import!MInv
    BY InitFits
  <1>2. Import!MInv /\ [Import!Next]_(Import!vars) => Import!MInv'
    BY NextKeeps
  <1> QED BY <1>1, <1>2, PTL DEF Import!Spec

\* When a migration reports success, and with it the permission to delete the
\* data of the earlier program, every profile is stored with its password,
\* whatever other processes saved and deleted meanwhile; no import revives a
\* deleted profile or loses a secret.
THEOREM ImportsAreWhole ==
  ASSUME Import!LegacyMigrationAssumption
  PROVE  Import!Spec => ImportsKeepSecrets
  <1>1. Import!MInv => Import!NothingRevivedOrLost
    BY DEF Import!MInv, Import!Repository, Import!Answered, Import!NothingRevivedOrLost
  <1>2. Import!MInv /\ Import!MInv' /\ [Import!Next]_(Import!vars) =>
          [\A c \in Callers : ~Import!At(c, "ok") /\ Import!At(c, "ok")' =>
             IF call[c].kind = "migrate" THEN (\A i \in Ids : Import!Stored(i))'
             ELSE (\A i \in Ids : Import!HasSecret(i) => vault[profiles[i].ref] # Nil)']_(Import!vars)
    BY SuccessStep
  <1>3. Import!MInv' => Import!NothingRevivedOrLost'
    BY <1>1, PTL
  <1>4. Import!Spec => []Import!MInv
    BY MigrationHolds
  <1>5. Import!Spec => Import!SuccessMeansStored
    BY <1>2, <1>4, PTL DEF Import!Spec, Import!SuccessMeansStored
  <1>6. Import!Spec => Import!NothingRevivedOrLost /\ [][Import!NothingRevivedOrLost']_(Import!vars)
    BY <1>1, <1>3, <1>4, PTL DEF Import!Spec
  <1> QED BY <1>5, <1>6 DEF ImportsKeepSecrets, Import!ImportsKeepSecrets

-----------------------------------------------------------------------------
(***************************************************************************)
(* Below the import: the file, while several processes create or upgrade   *)
(* it and the App looks at copies (RepositoryFile).  Every process relies  *)
(* on what its earlier statements saw to, which no later commit of anybody *)
(* takes back; and the file only grows, so that who read it twice without  *)
(* a change has read, in between, the log that belongs to it.              *)
(***************************************************************************)
LEMMA StatementFacts ==
  ASSUME NEW n \in 1..12
  PROVE  /\ File!Statements[n] = "version" => n = 1
         /\ File!Statements[n] = "state" => n = 2
         /\ File!Statements[n] = "revision" => n = 3
         /\ File!Statements[n] = "profiles" => n = 4
         /\ File!Statements[n] = "meta" => n = 7
         /\ File!Statements[n] = "id" => n = 8
         /\ File!Statements[n] = "read id" => n = 9
         /\ File!Statements[n] = "cleanup" => n = 10
         /\ File!Statements[n] = "set version" => n = 12
  <1>1. /\ File!Statements[1] = "version" /\ File!Statements[2] = "state"
           /\ File!Statements[3] = "revision"
        /\ File!Statements[4] = "profiles" /\ File!Statements[5] = "look group"
           /\ File!Statements[6] = "look tags"
    BY DEF File!Statements
  <1>2. /\ File!Statements[7] = "meta" /\ File!Statements[8] = "id" /\ File!Statements[9] = "read id"
        /\ File!Statements[10] = "cleanup" /\ File!Statements[11] = "look cleanup_after"
        /\ File!Statements[12] = "set version"
    BY DEF File!Statements
  <1>3. \/ n = 1 \/ n = 2 \/ n = 3 \/ n = 4 \/ n = 5 \/ n = 6
        \/ n = 7 \/ n = 8 \/ n = 9 \/ n = 10 \/ n = 11 \/ n = 12
    OBVIOUS
  <1> QED BY <1>1, <1>2, <1>3

LEMMA OpeningFacts ==
  ASSUME NEW o \in File!Opening
  PROVE  o.next \in 1..12 /\ o.id \in File!Identifiers /\ o.failed \in BOOLEAN
  BY DEF File!Opening

LEMMA AfterReadId ==
  ASSUME NEW n \in 1..12, n + 1 > 9, n # 9
  PROVE  n > 9 /\ n > 8
  OBVIOUS

LEMMA NatLeq ==
  ASSUME NEW a \in Nat
  PROVE  a <= a
  OBVIOUS

LEMMA Between ==
  ASSUME NEW a \in Nat, NEW b \in Nat, NEW c \in Nat, a <= b, b <= c
  PROVE  b \in a..c
  OBVIOUS

LEMMA AtTheEnd ==
  ASSUME NEW m \in Nat, NEW k \in 1..m
  PROVE  m <= m /\ m \in k..m
  OBVIOUS

LEMMA EnsuredId ==
  ASSUME NEW n \in 1..12, n > 8
  PROVE  "id" \in File!Ensured(n)
  BY DEF File!Ensured, File!Objects

LEMMA LookFacts == File!Looks["group"] = 5 /\ File!Looks["tags"] = 6 /\ File!Looks["cleanup_after"] = 11
  BY DEF File!Looks, File!Columns

LEMMA ObjectFacts ==
  File!Objects = {"state", "profiles", "meta", "cleanup", "group", "tags", "cleanup_after",
  "revision", "id"}
  BY DEF File!Objects, File!Tables, File!Columns

LEMMA NothingGrows ==
  ASSUME File!FileTypes, File!Files, UNCHANGED <<past, main, wal>>
  PROVE  File!Grows
  <1>1. past' = past /\ main' = main /\ wal' = wal /\ File!Files' /\ File!db' = File!db
        /\ File!Exists' = File!Exists
    BY DEF File!Files, File!db, File!Exists
  <1>2. Len(past) \in Nat /\ main \in Nat
    BY DEF File!FileTypes
  <1> QED BY <1>1, <1>2 DEF File!Grows, File!FileTypes

LEMMA DbFacts ==
  ASSUME File!FileTypes, File!Exists
  PROVE  /\ Len(past) \in Nat /\ Len(past) >= 1 /\ File!db = past[Len(past)] /\ File!db \in File!Content
         /\ File!db.objects \subseteq File!Objects
  <1>1. past \in Seq(File!Content) /\ past # <<>>
    BY DEF File!FileTypes, File!Exists
  <1>2. Len(past) \in Nat /\ Len(past) >= 1
    BY <1>1
  <1>3. past[Len(past)] \in File!Content
    BY <1>1, <1>2
  <1> QED BY <1>2, <1>3 DEF File!db, File!Content

LEMMA CommitGrows ==
  ASSUME File!RepositoryFileAssumption, File!FileTypes, File!Files, NEW content, File!Keeps(content),
         File!Commit(content)
  PROVE  File!Grows /\ File!Exists' /\ File!db' = content
  <1>1. CASE File!Exists /\ content = File!db
    <2>1. UNCHANGED <<past, main, wal>>
      BY <1>1 DEF File!Commit
    <2> QED BY <1>1, <2>1, NothingGrows DEF File!Exists, File!db
  <1>2. CASE ~(File!Exists /\ content = File!db)
    <2>1. /\ past' = Append(past, content) /\ main' = main
          /\ \/ wal # Nil /\ wal' = [wal EXCEPT !.to = Len(past')]
             \/ wal' = [from |-> main, to |-> Len(past')]
      BY <1>2 DEF File!Commit
    <2>2. past \in Seq(File!Content) /\ content \in File!Content /\ main \in Nat
          /\ wal \in File!Log \cup {Nil}
      BY DEF File!FileTypes, File!Keeps
    <2>3. /\ past' \in Seq(File!Content) /\ Len(past') = Len(past) + 1 /\ Len(past) \in Nat
          /\ past'[Len(past')] = content
          /\ \A n \in 1..Len(past) : past'[n] = past[n]
      BY <2>1, <2>2
    <2>4. wal' \in File!Log /\ wal'.to = Len(past') /\ wal'.from <= main /\ wal' # Nil
      <3>1. CASE wal # Nil /\ wal' = [wal EXCEPT !.to = Len(past')]
        <4>1. wal \in File!Log /\ wal.from <= main
          BY <2>2, <3>1 DEF File!Files
        <4>2. wal' \in File!Log /\ wal'.to = Len(past') /\ wal'.from = wal.from
          BY <2>3, <3>1, <4>1 DEF File!Log
        <4> QED BY <4>1, <4>2 DEF File!RepositoryFileAssumption, File!Log
      <3>2. CASE wal' = [from |-> main, to |-> Len(past')]
        <4>1. wal' \in File!Log /\ wal'.to = Len(past') /\ wal'.from = main
          BY <2>2, <2>3, <3>2 DEF File!Log
        <4> QED BY <2>2, <4>1 DEF File!RepositoryFileAssumption, File!Log
      <3> QED BY <2>1, <3>1, <3>2
    <2>5. File!Exists' /\ File!db' = content
      <3>1. past' # <<>>
        BY <2>3
      <3> QED BY <2>3, <3>1 DEF File!Exists, File!db
    <2>6. \A n \in 1..Len(past') : past'[n].profile <= past'[n].revision
      BY <2>3 DEF File!Files, File!Keeps
    <2>7. File!Files'
      BY <2>1, <2>2, <2>3, <2>4, <2>6 DEF File!Files
    <2> QED BY <2>1, <2>2, <2>3, <2>4, <2>5, <2>7 DEF File!Grows, File!Keeps
  <1> QED BY <1>1, <1>2

\* Who does nothing itself stays as it is while the file grows.
LEMMA OpeningStays ==
  ASSUME File!FileTypes, File!Grows, NEW p \in Openers, File!OpeningFits(p), opening'[p] = opening[p]
  PROVE  File!OpeningFits(p)'
  <1>1. opening[p] \in File!Opening
    BY DEF File!FileTypes
  <1>2. CASE opening[p].at \in {"run", "add", "look again", "ready"}
    <2>1. /\ File!Exists /\ File!Ensured(opening[p].next) \subseteq File!db.objects
          /\ opening[p].next > 9 => opening[p].id = File!db.id
      BY <1>2 DEF File!OpeningFits
    <2>2. /\ File!Exists' /\ File!db.objects \subseteq File!db'.objects
          /\ "id" \in File!db.objects => File!db'.id = File!db.id
          /\ File!db.version = File!SchemaVersion => File!db'.version = File!SchemaVersion
      BY <2>1 DEF File!Grows
    <2>3. opening[p].next > 9 => "id" \in File!db.objects
      <3>1. PICK n \in 1..12 : n = opening[p].next
        BY <1>1, OpeningFacts
      <3>2. n > 9 => n > 8
        OBVIOUS
      <3> QED BY <2>1, <3>1, <3>2, EnsuredId
    <2>4. /\ File!Ensured(opening'[p].next) \subseteq File!db'.objects
          /\ opening'[p].next > 9 => opening'[p].id = File!db'.id
      BY <2>1, <2>2, <2>3
    <2>5. File!Ensured(opening[p].next)' = File!Ensured(opening'[p].next)
      BY DEF File!Ensured
    <2> QED BY <1>2, <2>1, <2>2, <2>4, <2>5 DEF File!OpeningFits
  <1>3. CASE opening[p].at \notin {"run", "add", "look again", "ready"}
    BY <1>3 DEF File!OpeningFits
  <1> QED BY <1>2, <1>3

LEMMA ProbeStays ==
  ASSUME File!FileTypes, File!Grows, File!ProbeFits, UNCHANGED probe
  PROVE  File!ProbeFits'
  <1>1. /\ Len(past) \in Nat /\ Len(past') \in Nat /\ main \in Nat /\ main' \in Nat
           /\ probe.since \in Nat
        /\ probe.first.main \in Nat
    BY DEF File!FileTypes, File!Grows, File!Probe, File!Copy
  <1>2. Len(past) <= Len(past') /\ main <= main' /\ \A n \in 1..Len(past) : past'[n] = past[n]
    BY DEF File!Grows
  <1>3. File!OneMoment => File!OneMoment'
    BY <1>1, <1>2 DEF File!OneMoment, File!Consistent, File!Copied
  <1>4. probe.at \in File!Reading \cup {"corrupt"} => probe.since \in 1..Len(past')
    <2>1. probe.at \in File!Reading \cup {"corrupt"} => probe.since \in 1..Len(past)
      BY DEF File!ProbeFits
    <2>2. \A n \in 1..Len(past) : n \in 1..Len(past')
      BY <1>1, <1>2
    <2> QED BY <2>1, <2>2
  <1>5. probe.at = "corrupt" => \E n \in probe.since .. Len(past') : past'[n].objects # File!Objects
    <2>1. SUFFICES ASSUME probe.at = "corrupt"
                   PROVE  \E n \in probe.since .. Len(past') : past'[n].objects # File!Objects
      OBVIOUS
    <2>2. probe.since \in 1..Len(past)
      BY <2>1 DEF File!ProbeFits
    <2>3. PICK n \in probe.since .. Len(past) : past[n].objects # File!Objects
      BY <2>1 DEF File!ProbeFits
    <2>4. n \in 1..Len(past) /\ n \in probe.since .. Len(past')
      BY <1>1, <1>2, <2>2, <2>3
    <2> QED BY <1>2, <2>3, <2>4
  <1>6. probe.at \in {"first wal", "second main"} =>
          probe.first.main <= main' /\ (probe.first.main = main' => probe.first.main = main)
    <2>1. SUFFICES ASSUME probe.at \in {"first wal", "second main"}
                   PROVE  probe.first.main <= main'
                          /\ (probe.first.main = main' => probe.first.main = main)
      OBVIOUS
    <2>2. probe.first.main <= main
      BY <2>1 DEF File!ProbeFits
    <2> QED BY <1>1, <1>2, <2>2
  <1>7. /\ probe.at = "second main" /\ probe.first.main = main' => File!OneMoment'
        /\ probe.at \in {"second wal", "compare"}
           /\ probe.first.main = probe.second.main => File!OneMoment'
        /\ probe.at = "copied" => File!OneMoment'
    BY <1>3, <1>6 DEF File!ProbeFits
  <1> QED BY <1>4, <1>5, <1>6, <1>7 DEF File!ProbeFits
-----------------------------------------------------------------------------
\* A step of one process: it fits afterwards, and the files have grown.
LEMMA ProcessKeeps ==
  ASSUME File!Inv, NEW p \in Openers, NEW o \in File!Opening, opening' = [opening EXCEPT ![p] = o],
         UNCHANGED probe, File!Grows, File!OpeningFits(p)'
  PROVE  File!Inv'
  <1>1. /\ File!FileTypes /\ File!Files /\ File!ProbeFits /\ \A q \in Openers : File!OpeningFits(q)
    BY DEF File!Inv
  <1>2. /\ opening' \in [Openers -> File!Opening]
        /\ \A q \in Openers : q # p => opening'[q] = opening[q]
    BY <1>1 DEF File!FileTypes
  <1>3. File!FileTypes' /\ File!Files'
    BY <1>1, <1>2 DEF File!FileTypes, File!Grows
  <1>4. ASSUME NEW q \in Openers PROVE File!OpeningFits(q)'
    BY <1>1, <1>2, OpeningStays
  <1>5. File!ProbeFits'
    BY <1>1, ProbeStays
  <1> QED BY <1>3, <1>4, <1>5 DEF File!Inv

\* One that only moves on, with what it has learned.
\* Process p has gone to `at`, and nothing else of it has changed.
Moves(p, o, at) ==
  /\ opening' = [opening EXCEPT ![p] = o] /\ opening'[p] = o
  /\ o.at = at /\ o.next = opening[p].next /\ o.id = opening[p].id /\ o.failed = opening[p].failed

LEMMA BecomesIs ==
  ASSUME File!FileTypes, NEW p \in Openers,
         NEW at \in {"closed", "run", "add", "look again", "failed", "unsupported", "ready", "stopped"},
         File!Becomes(p, at)
  PROVE  \E o \in File!Opening : Moves(p, o, at)
  <1> DEFINE o == [opening[p] EXCEPT !.at = at]
  <1>1. opening \in [Openers -> File!Opening] /\ opening[p] \in File!Opening
    BY DEF File!FileTypes
  <1>2. /\ o \in File!Opening /\ o.at = at /\ o.next = opening[p].next /\ o.id = opening[p].id
        /\ o.failed = opening[p].failed
    BY <1>1 DEF File!Opening
  <1>3. opening' = [opening EXCEPT ![p] = o]
    BY DEF File!Becomes
  <1> HIDE DEF o
  <1>4. Moves(p, o, at)
    BY <1>1, <1>2, <1>3 DEF Moves
  <1> QED BY <1>2, <1>4

LEMMA ProceedsIs ==
  ASSUME File!FileTypes, NEW p \in Openers, opening[p].next < 12, File!Proceeds(p)
  PROVE  \E o \in File!Opening : /\ opening' = [opening EXCEPT ![p] = o] /\ opening'[p] = o
                           /\ o.at = "run" /\ o.next = opening[p].next + 1 /\ o.id = opening[p].id
                           /\ o.failed = opening[p].failed
  <1> DEFINE a == [opening[p] EXCEPT !.at = "run"]
             o == [a EXCEPT !.next = opening[p].next + 1]
  <1>1. opening \in [Openers -> File!Opening] /\ opening[p] \in File!Opening
    BY DEF File!FileTypes
  <1>2. /\ a \in File!Opening /\ a.at = "run" /\ a.next = opening[p].next /\ a.id = opening[p].id
        /\ a.failed = opening[p].failed
    BY <1>1 DEF File!Opening
  <1>3. opening[p].next + 1 \in 1..12
    <2>1. opening[p].next \in 1..12
      BY <1>1, OpeningFacts
    <2> QED BY <2>1
  <1>4. opening' = [opening EXCEPT ![p] = o]
    BY <1>1 DEF File!Proceeds
  <1> HIDE DEF a
  <1>5. /\ o \in File!Opening /\ o.at = "run" /\ o.next = opening[p].next + 1 /\ o.id = opening[p].id
        /\ o.failed = opening[p].failed
    BY <1>2, <1>3 DEF File!Opening
  <1> HIDE DEF o
  <1> QED BY <1>1, <1>4, <1>5

\* A statement that saw to what is between one number and the next.
LEMMA ProceedKeeps ==
  ASSUME File!Inv, NEW p \in Openers, opening[p].at \in {"run", "add", "look again"},
         opening[p].next < 12,
         File!Proceeds(p), UNCHANGED probe, File!Grows, File!Exists',
         \A x \in File!Ensured(opening[p].next + 1) : x \in File!Ensured(opening[p].next)
         \/ x \in File!db'.objects,
         opening[p].next # 9
  PROVE  File!Inv'
  <1>1. File!FileTypes /\ File!OpeningFits(p) /\ opening[p] \in File!Opening
    BY DEF File!Inv, File!FileTypes
  <1>2. PICK o \in File!Opening : /\ opening' = [opening EXCEPT ![p] = o] /\ opening'[p] = o
                            /\ o.at = "run" /\ o.next = opening[p].next + 1 /\ o.id = opening[p].id
                            /\ o.failed = opening[p].failed
    BY <1>1, ProceedsIs
  <1>3. /\ File!Exists /\ File!Ensured(opening[p].next) \subseteq File!db.objects
        /\ opening[p].next > 9 => opening[p].id = File!db.id
    BY <1>1 DEF File!OpeningFits
  <1>4. File!db.objects \subseteq File!db'.objects
        /\ ("id" \in File!db.objects => File!db'.id = File!db.id)
    BY <1>3 DEF File!Grows
  <1>5. File!Ensured(o.next) \subseteq File!db'.objects
    BY <1>2, <1>3, <1>4
  <1>6. o.next > 9 => o.id = File!db'.id
    <2>1. SUFFICES ASSUME o.next > 9 PROVE o.id = File!db'.id
      OBVIOUS
    <2>0. opening[p].next \in 1..12
      BY <1>1, OpeningFacts
    <2>1a. PICK n \in 1..12 : n = opening[p].next
      BY <2>0
    <2>1b. n + 1 > 9 /\ n # 9
      BY <1>2, <2>1, <2>1a
    <2>2. opening[p].next > 9 /\ n > 8
      <3>1. n > 9 /\ n > 8
        BY <2>1b, AfterReadId
      <3> QED BY <2>1a, <3>1
    <2>3. "id" \in File!Ensured(opening[p].next)
      BY <2>1a, <2>2, EnsuredId
    <2> QED BY <1>2, <1>3, <1>4, <2>2, <2>3
  <1>7. File!OpeningFits(p)'
    <2>1. File!Ensured(opening[p].next)' = File!Ensured(o.next)
      BY <1>2 DEF File!Ensured
    <2> QED BY <1>2, <1>5, <1>6, <2>1 DEF File!OpeningFits
  <1> QED BY <1>2, <1>7, ProcessKeeps

-----------------------------------------------------------------------------
(* The steps of a process *)

LEMMA OpenKeeps ==
  ASSUME File!RepositoryFileAssumption, File!Inv, NEW p \in Openers, File!Open(p)
  PROVE  File!Inv'
  <1> DEFINE o == [[opening[p] EXCEPT !.at = "run"] EXCEPT !.next = 1]
  <1>1. File!FileTypes /\ File!Files /\ opening[p] \in File!Opening
        /\ opening \in [Openers -> File!Opening]
    BY DEF File!Inv, File!FileTypes
  <1>2. o \in File!Opening /\ o.at = "run" /\ o.next = 1
    <2> DEFINE a == [opening[p] EXCEPT !.at = "run"]
    <2>1. a \in File!Opening /\ a.at = "run"
      BY <1>1 DEF File!Opening
    <2> HIDE DEF a
    <2>2. 1 \in 1..12
      OBVIOUS
    <2>3. PICK b : b = [a EXCEPT !.next = 1]
      OBVIOUS
    <2>4. b \in File!Opening /\ b.at = "run" /\ b.next = 1
      BY <2>1, <2>2, <2>3 DEF File!Opening
    <2> QED BY <2>3, <2>4 DEF a
  <1>3. opening' = [opening EXCEPT ![p] = o] /\ UNCHANGED probe
    BY <1>1 DEF File!Open
  <1> HIDE DEF o
  <1>4. opening'[p] = o
    BY <1>1, <1>3
  <1>5. File!Grows /\ File!Exists'
    <2>1. CASE File!Exists
      <3>1. UNCHANGED <<past, main, wal>>
        BY <2>1 DEF File!Open
      <3> QED BY <1>1, <2>1, <3>1, NothingGrows DEF File!Grows
    <2>2. CASE ~File!Exists
      <3>1. PICK c : c = File!Repository(0, {})
        OBVIOUS
      <3>2. File!Keeps(c)
        BY <2>2, <3>1 DEF File!Keeps, File!Repository, File!Content, File!Identifiers
      <3>3. File!Commit(c)
        BY <2>2, <3>1 DEF File!Open
      <3> QED BY <1>1, <3>2, <3>3, CommitGrows
    <2> QED BY <2>1, <2>2
  <1>6. File!OpeningFits(p)'
    <2>0. File!Ensured(1) = {}
      BY DEF File!Ensured
    <2>1. File!Ensured(opening[p].next)' = {}
      BY <1>2, <1>4, <2>0 DEF File!Ensured
    <2>2. opening'[p].at = "run" /\ opening'[p].next = 1 /\ ~(1 > 9)
      BY <1>2, <1>4
    <2>3. File!Ensured(opening[p].next)' \subseteq File!db'.objects
      BY <2>1
    <2> QED BY <1>5, <2>2, <2>3 DEF File!OpeningFits
  <1> QED BY <1>2, <1>3, <1>5, <1>6, ProcessKeeps

LEMMA ReadVersionKeeps ==
  ASSUME File!Inv, NEW p \in Openers, File!ReadVersion(p)
  PROVE  File!Inv'
  <1>1. File!FileTypes /\ File!Files /\ File!OpeningFits(p) /\ opening[p] \in File!Opening
    BY DEF File!Inv, File!FileTypes
  <1>2. /\ opening[p].at = "run" /\ opening[p].next = 1 /\ UNCHANGED <<past, main, wal, probe>>
        /\ File!Becomes(p, "unsupported") \/ File!Proceeds(p)
    BY <1>1, StatementFacts DEF File!ReadVersion, File!Runs, File!Opening
  <1>3. File!Grows /\ File!Exists'
    BY <1>1, <1>2, NothingGrows DEF File!Grows, File!OpeningFits
  <1>4. CASE File!Becomes(p, "unsupported")
    <2>0. PICK o \in File!Opening : Moves(p, o, "unsupported")
      BY <1>1, <1>4, BecomesIs
    <2>1. /\ opening' = [opening EXCEPT ![p] = o] /\ opening'[p] = o
          /\ o.at = "unsupported"
      BY <2>0 DEF Moves
    <2>2. File!OpeningFits(p)'
      BY <2>1 DEF File!OpeningFits
    <2> QED BY <1>2, <1>3, <2>1, <2>2, ProcessKeeps
  <1>5. CASE File!Proceeds(p)
    <2>1. opening[p].next + 1 = 2 /\ opening[p].next < 12 /\ opening[p].next # 9
      BY <1>2
    <2>2. \A x \in File!Ensured(opening[p].next + 1) :
            x \in File!Ensured(opening[p].next) \/ x \in File!db'.objects
      BY <2>1 DEF File!Ensured
    <2>3. UNCHANGED probe
      BY <1>2
    <2> QED BY <1>2, <1>3, <1>5, <2>1, <2>2, <2>3, ProceedKeeps
  <1> QED BY <1>2, <1>4, <1>5

\* What is created is there; what was there stays.
LEMMA CreatedKeeps ==
  ASSUME File!Inv, File!Exists, NEW statement \in {"state", "revision", "profiles", "meta", "cleanup"}
  PROVE  /\ File!Keeps(File!Created(statement)) /\ statement \in File!Created(statement).objects
         /\ File!db.objects \subseteq File!Created(statement).objects
  <1>1. /\ File!FileTypes /\ File!db \in File!Content /\ File!db.objects \subseteq File!Objects
           /\ File!db.profile <= File!db.revision
    BY DbFacts DEF File!Inv, File!Files
  <1>2. ASSUME NEW objects \in SUBSET File!Objects
        PROVE  File!Keeps(File!With(objects))
               /\ File!With(objects).objects = File!db.objects \cup objects
    <2>0. PICK c : c = File!With(objects)
      OBVIOUS
    <2>1. /\ c \in File!Content /\ c.objects = File!db.objects \cup objects /\ c.id = File!db.id
          /\ c.version = File!db.version /\ c.profile = File!db.profile /\ c.revision = File!db.revision
      BY <1>1, <2>0 DEF File!With, File!Content
    <2> QED BY <1>1, <2>0, <2>1 DEF File!Keeps
  <1>3. CASE statement \in File!db.objects
    <2>1. File!Created(statement) = File!db
      BY <1>3 DEF File!Created, File!Has
    <2> QED BY <1>1, <1>3, <2>1 DEF File!Keeps
  <1>4. CASE statement \notin File!db.objects
    <2>1. PICK objects \in SUBSET File!Objects : File!Created(statement) = File!With(objects)
          /\ statement \in objects
      <3>1. CASE statement = "profiles"
        <4>1. File!Created(statement) = File!With({"profiles", "group", "tags"})
          BY <1>4, <3>1 DEF File!Created, File!Has
        <4> QED BY <3>1, <4>1, ObjectFacts
      <3>2. CASE statement = "cleanup"
        <4>1. File!Created(statement) = File!With({"cleanup", "cleanup_after"})
          BY <1>4, <3>2 DEF File!Created, File!Has
        <4> QED BY <3>2, <4>1, ObjectFacts
      <3>3. CASE statement \notin {"profiles", "cleanup"}
        <4>1. File!Created(statement) = File!With({statement})
          BY <1>4, <3>3 DEF File!Created, File!Has
        <4> QED BY <4>1, ObjectFacts
      <3> QED BY <3>1, <3>2, <3>3
    <2> QED BY <1>2, <2>1
  <1> QED BY <1>3, <1>4

LEMMA CreateKeeps ==
  ASSUME File!RepositoryFileAssumption, File!Inv, NEW p \in Openers, File!Create(p)
  PROVE  File!Inv'
  <1>1. File!FileTypes /\ File!Files /\ File!OpeningFits(p) /\ opening[p] \in File!Opening
    BY DEF File!Inv, File!FileTypes
  <1>2. PICK statement \in {"state", "revision", "profiles", "meta", "cleanup"} :
          File!Runs(p, statement) /\ File!Commit(File!Created(statement)) /\ File!Proceeds(p)
          /\ UNCHANGED probe
    BY DEF File!Create
  <1>3. opening[p].at = "run" /\ File!Exists
    BY <1>1, <1>2 DEF File!Runs, File!OpeningFits
  <1>4. PICK c : c = File!Created(statement)
    OBVIOUS
  <1>5. File!Keeps(c) /\ statement \in c.objects /\ File!Commit(c)
    BY <1>2, <1>3, <1>4, CreatedKeeps
  <1>6. File!Grows /\ File!Exists' /\ File!db' = c
    BY <1>1, <1>5, CommitGrows
  <1>7. \/ statement = "state" /\ opening[p].next = 2
        \/ statement = "revision" /\ opening[p].next = 3
        \/ statement = "profiles" /\ opening[p].next = 4
        \/ statement = "meta" /\ opening[p].next = 7
        \/ statement = "cleanup" /\ opening[p].next = 10
    BY <1>1, <1>2, StatementFacts DEF File!Runs, File!Opening
  <1>8. \A x \in File!Ensured(opening[p].next + 1) : x \in File!Ensured(opening[p].next)
        \/ x = statement
    BY <1>7 DEF File!Ensured
  <1>9. \A x \in File!Ensured(opening[p].next + 1) :
          x \in File!Ensured(opening[p].next) \/ x \in File!db'.objects
    BY <1>5, <1>6, <1>8
  <1>10. opening[p].next < 12 /\ opening[p].next # 9
    BY <1>7
  <1> QED BY <1>2, <1>3, <1>6, <1>9, <1>10, ProceedKeeps

LEMMA DrawIdKeeps ==
  ASSUME File!RepositoryFileAssumption, File!Inv, NEW p \in Openers, File!DrawId(p)
  PROVE  File!Inv'
  <1>1. File!FileTypes /\ File!Files /\ File!OpeningFits(p) /\ opening[p] \in File!Opening
    BY DEF File!Inv, File!FileTypes
  <1>2. /\ opening[p].at = "run" /\ opening[p].next = 8 /\ File!Proceeds(p) /\ UNCHANGED probe
        /\ File!Commit(IF "id" \in File!db.objects THEN File!db ELSE [File!With({"id"}) EXCEPT !.id = p])
    BY <1>1, StatementFacts DEF File!DrawId, File!Runs, File!Opening, File!Has
  <1>3. File!Exists /\ File!db \in File!Content /\ File!db.objects \subseteq File!Objects
        /\ File!db.profile <= File!db.revision
    BY <1>1, <1>2, DbFacts DEF File!OpeningFits, File!Files
  <1>4. PICK c : c = IF "id" \in File!db.objects THEN File!db ELSE [File!With({"id"}) EXCEPT !.id = p]
    OBVIOUS
  <1>5. File!Keeps(c) /\ "id" \in c.objects
    <2>1. CASE "id" \in File!db.objects
      BY <1>3, <1>4, <2>1 DEF File!Keeps
    <2>2. CASE "id" \notin File!db.objects
      <3>1. PICK w : w = File!With({"id"})
        OBVIOUS
      <3>2. /\ w \in File!Content /\ w.objects = File!db.objects \cup {"id"}
               /\ w.version = File!db.version
            /\ w.profile = File!db.profile /\ w.revision = File!db.revision
        BY <1>3, <3>1, ObjectFacts DEF File!With, File!Content
      <3>3. c = [w EXCEPT !.id = p]
        BY <1>4, <2>2, <3>1
      <3>4. /\ c \in File!Content /\ c.objects = w.objects /\ c.version = w.version
            /\ c.profile = w.profile /\ c.revision = w.revision
        BY <3>2, <3>3 DEF File!Content, File!Identifiers
      <3> QED BY <1>3, <2>2, <3>2, <3>4 DEF File!Keeps
    <2> QED BY <2>1, <2>2
  <1>6. File!Grows /\ File!Exists' /\ File!db' = c
    BY <1>1, <1>2, <1>4, <1>5, CommitGrows
  <1>7. opening[p].next + 1 = 9 /\ opening[p].next < 12 /\ opening[p].next # 9
    BY <1>2
  <1>8. \A x \in File!Ensured(opening[p].next + 1) : x \in File!Ensured(opening[p].next) \/ x = "id"
    BY <1>2, <1>7 DEF File!Ensured
  <1>9. \A x \in File!Ensured(opening[p].next + 1) :
          x \in File!Ensured(opening[p].next) \/ x \in File!db'.objects
    BY <1>5, <1>6, <1>8
  <1> QED BY <1>2, <1>6, <1>7, <1>9, ProceedKeeps

LEMMA ReadIdKeeps ==
  ASSUME File!Inv, NEW p \in Openers, File!ReadId(p)
  PROVE  File!Inv'
  <1>1. File!FileTypes /\ File!Files /\ File!OpeningFits(p) /\ opening[p] \in File!Opening
        /\ opening \in [Openers -> File!Opening]
    BY DEF File!Inv, File!FileTypes
  <1>2. /\ opening[p].at = "run" /\ opening[p].next = 9 /\ UNCHANGED <<past, main, wal, probe>>
        /\ opening' = [opening EXCEPT ![p].id = File!db.id, ![p].next = @ + 1]
    BY <1>1, StatementFacts DEF File!ReadId, File!Runs, File!Opening
  <1>3. /\ File!Exists /\ File!db.id \in File!Identifiers /\ File!Ensured(9) \subseteq File!db.objects
    BY <1>1, <1>2, DbFacts DEF File!OpeningFits, File!Content
  <1> DEFINE a == [opening[p] EXCEPT !.id = File!db.id]
             o == [a EXCEPT !.next = 10]
  <1>4. a \in File!Opening /\ a.id = File!db.id /\ a.next = 9 /\ a.at = "run"
    BY <1>1, <1>2, <1>3 DEF File!Opening
  <1>5. opening' = [opening EXCEPT ![p] = o]
    <2>1. opening' = [opening EXCEPT ![p] = [a EXCEPT !.next = a.next + 1]]
      BY <1>1, <1>2
    <2>2. a.next + 1 = 10
      BY <1>4
    <2> QED BY <2>1, <2>2
  <1> HIDE DEF a
  <1>6. o \in File!Opening /\ o.id = File!db.id /\ o.next = 10 /\ o.at = "run"
    <2>1. 10 \in 1..12
      OBVIOUS
    <2> QED BY <1>4, <2>1 DEF File!Opening
  <1> HIDE DEF o
  <1>7. opening'[p] = o
    BY <1>1, <1>5
  <1>8. File!Grows /\ File!Exists' /\ File!db' = File!db
    BY <1>1, <1>2, <1>3, NothingGrows DEF File!Exists, File!db
  <1>9. File!OpeningFits(p)'
    <2>1. File!Ensured(10) \subseteq File!Ensured(9)
      BY DEF File!Ensured
    <2>2. File!Ensured(opening[p].next)' = File!Ensured(10)
      BY <1>6, <1>7 DEF File!Ensured
    <2> QED BY <1>3, <1>6, <1>7, <1>8, <2>1, <2>2 DEF File!OpeningFits
  <1> QED BY <1>2, <1>5, <1>6, <1>8, <1>9, ProcessKeeps

\* Which column a statement is about.
LEMMA ColumnNumber ==
  ASSUME NEW column \in File!Columns
  PROVE  File!Looks[column] \in Nat /\ File!Looks[column] < 12 /\ File!Looks[column] # 9
  BY LookFacts DEF File!Columns

LEMMA ColumnFacts ==
  ASSUME NEW column \in File!Columns
  PROVE  /\ File!Looks[column] \in {5, 6, 11} /\ column \in File!Objects
         /\ \A c \in File!Columns : File!Looks[c] = File!Looks[column] => c = column
         /\ \A x \in File!Ensured(File!Looks[column] + 1) : x \in File!Ensured(File!Looks[column])
            \/ x = column
  <1>1. column \in {"group", "tags", "cleanup_after"}
    BY DEF File!Columns
  <1>2. \A x \in File!Ensured(6) : x \in File!Ensured(5) \/ x = "group"
    BY DEF File!Ensured
  <1>3. \A x \in File!Ensured(7) : x \in File!Ensured(6) \/ x = "tags"
    BY DEF File!Ensured
  <1>4. \A x \in File!Ensured(12) : x \in File!Ensured(11) \/ x = "cleanup_after"
    BY DEF File!Ensured
  <1> QED BY <1>1, <1>2, <1>3, <1>4, LookFacts, ObjectFacts DEF File!Columns

\* The column is found.
LEMMA FoundKeeps ==
  ASSUME File!Inv, NEW p \in Openers, NEW column \in File!Columns,
         opening[p].next = File!Looks[column],
         opening[p].at \in {"run", "look again"}, column \in File!db.objects, File!Proceeds(p),
         UNCHANGED <<past, main, wal, probe>>
  PROVE  File!Inv'
  <1>1. File!FileTypes /\ File!Files /\ File!OpeningFits(p)
    BY DEF File!Inv
  <1>2. File!Grows /\ File!Exists' /\ File!db' = File!db
    BY <1>1, NothingGrows DEF File!OpeningFits, File!Exists, File!db
  <1>3. \A x \in File!Ensured(opening[p].next + 1) : x \in File!Ensured(opening[p].next) \/ x = column
    BY ColumnFacts
  <1>4. opening[p].next < 12 /\ opening[p].next # 9
    BY ColumnNumber
  <1> QED BY <1>2, <1>3, <1>4, ProceedKeeps

LEMMA LookForKeeps ==
  ASSUME File!Inv, NEW p \in Openers, NEW column \in File!Columns, File!LookFor(p, column)
  PROVE  File!Inv'
  <1>1. File!FileTypes /\ File!Files /\ File!OpeningFits(p) /\ opening[p] \in File!Opening
    BY DEF File!Inv, File!FileTypes
  <1>2. /\ opening[p].at = "run" /\ opening[p].next = File!Looks[column]
        /\ UNCHANGED <<past, main, wal, probe>>
        /\ IF column \in File!db.objects THEN File!Proceeds(p) ELSE File!Becomes(p, "add")
    BY DEF File!LookFor, File!Has
  <1>3. CASE column \in File!db.objects
    BY <1>2, <1>3, FoundKeeps
  <1>4. CASE column \notin File!db.objects
    <2>0. PICK o \in File!Opening : Moves(p, o, "add")
      BY <1>1, <1>2, <1>4, BecomesIs
    <2>1. /\ opening' = [opening EXCEPT ![p] = o] /\ opening'[p] = o
          /\ o.at = "add" /\ o.next = opening[p].next /\ o.id = opening[p].id
      BY <2>0 DEF Moves
    <2>2. File!Grows /\ File!Exists' /\ File!db' = File!db
      BY <1>1, <1>2, NothingGrows DEF File!OpeningFits, File!Exists, File!db
    <2>3. File!OpeningFits(p)'
      BY <1>1, <1>2, <2>1, <2>2 DEF File!OpeningFits, File!Ensured
    <2> QED BY <1>2, <2>1, <2>2, <2>3, ProcessKeeps
  <1> QED BY <1>3, <1>4

LEMMA AddColumnKeeps ==
  ASSUME File!RepositoryFileAssumption, File!Inv, NEW p \in Openers, NEW column \in File!Columns,
         File!AddColumn(p, column)
  PROVE  File!Inv'
  <1>1. File!FileTypes /\ File!Files /\ File!OpeningFits(p) /\ opening[p] \in File!Opening
    BY DEF File!Inv, File!FileTypes
  <1>2. /\ opening[p].at = "add" /\ opening[p].next = File!Looks[column] /\ UNCHANGED probe
        /\ IF column \in File!db.objects
           THEN File!Becomes(p, "look again") /\ UNCHANGED <<past, main, wal>>
           ELSE File!Proceeds(p) /\ File!Commit(File!With({column}))
    BY DEF File!AddColumn, File!Has, File!AfterFailedAlter
  <1>3. File!Exists
    BY <1>1, <1>2 DEF File!OpeningFits
  <1>4. CASE column \in File!db.objects
    <2>0. PICK o \in File!Opening : Moves(p, o, "look again")
      BY <1>1, <1>2, <1>4, BecomesIs
    <2>1. /\ opening' = [opening EXCEPT ![p] = o] /\ opening'[p] = o
          /\ o.at = "look again" /\ o.next = opening[p].next /\ o.id = opening[p].id
      BY <2>0 DEF Moves
    <2>2. File!Grows /\ File!Exists' /\ File!db' = File!db
      BY <1>1, <1>2, <1>3, <1>4, NothingGrows DEF File!Exists, File!db
    <2>3. File!OpeningFits(p)'
      BY <1>1, <1>2, <1>4, <2>1, <2>2 DEF File!OpeningFits, File!Ensured
    <2> QED BY <1>2, <2>1, <2>2, <2>3, ProcessKeeps
  <1>5. CASE column \notin File!db.objects
    <2>1. File!db \in File!Content /\ File!db.objects \subseteq File!Objects
          /\ File!db.profile <= File!db.revision
      BY <1>1, <1>3, DbFacts DEF File!Files
    <2>2. PICK c : c = File!With({column})
      OBVIOUS
    <2>3. /\ c \in File!Content /\ c.objects = File!db.objects \cup {column} /\ c.id = File!db.id
          /\ c.version = File!db.version /\ c.profile = File!db.profile /\ c.revision = File!db.revision
      BY <2>1, <2>2, ColumnFacts DEF File!With, File!Content
    <2>4. File!Keeps(c) /\ File!Commit(c) /\ File!Proceeds(p)
      BY <1>2, <1>5, <2>1, <2>2, <2>3 DEF File!Keeps
    <2>5. File!Grows /\ File!Exists' /\ File!db' = c
      BY <1>1, <2>4, CommitGrows
    <2>6. \A x \in File!Ensured(opening[p].next + 1) : x \in File!Ensured(opening[p].next) \/ x = column
      BY <1>2, ColumnFacts
    <2>7. opening[p].next < 12 /\ opening[p].next # 9
      BY <1>2, ColumnNumber
    <2> QED BY <1>2, <2>3, <2>4, <2>5, <2>6, <2>7, ProceedKeeps
  <1> QED BY <1>4, <1>5

LEMMA LookAgainKeeps ==
  ASSUME File!Inv, NEW p \in Openers, NEW column \in File!Columns, File!LookAgain(p, column)
  PROVE  File!Inv'
  <1>1. File!FileTypes /\ File!Files /\ File!OpeningFits(p) /\ opening[p] \in File!Opening
    BY DEF File!Inv, File!FileTypes
  <1>2. /\ opening[p].at = "look again" /\ opening[p].next = File!Looks[column]
        /\ UNCHANGED <<past, main, wal, probe>>
        /\ IF column \in File!db.objects THEN File!Proceeds(p) ELSE File!Becomes(p, "failed")
    BY DEF File!LookAgain, File!Has
  <1>3. CASE column \in File!db.objects
    BY <1>2, <1>3, FoundKeeps
  <1>4. CASE column \notin File!db.objects
    <2>0. PICK o \in File!Opening : Moves(p, o, "failed")
      BY <1>1, <1>2, <1>4, BecomesIs
    <2>1. /\ opening' = [opening EXCEPT ![p] = o] /\ opening'[p] = o
          /\ o.at = "failed" /\ o.failed = opening[p].failed
      BY <2>0 DEF Moves
    <2>2. opening[p].failed
      <3>1. opening[p].failed \/ \E c \in File!Columns : opening[p].next = File!Looks[c]
                                                         /\ c \in File!db.objects
        BY <1>1, <1>2 DEF File!OpeningFits
      <3>2. ASSUME NEW c \in File!Columns, opening[p].next = File!Looks[c]
            PROVE  c \notin File!db.objects
        <4>1. c = column
          BY <1>2, <3>2, ColumnFacts
        <4> QED BY <1>4, <4>1
      <3> QED BY <3>1, <3>2
    <2>3. File!Grows
      BY <1>1, <1>2, NothingGrows
    <2>4. File!OpeningFits(p)'
      BY <2>1, <2>2 DEF File!OpeningFits
    <2> QED BY <1>2, <2>1, <2>3, <2>4, ProcessKeeps
  <1> QED BY <1>3, <1>4

LEMMA SetVersionKeeps ==
  ASSUME File!RepositoryFileAssumption, File!Inv, NEW p \in Openers, File!SetVersion(p)
  PROVE  File!Inv'
  <1>1. File!FileTypes /\ File!Files /\ File!OpeningFits(p) /\ opening[p] \in File!Opening
    BY DEF File!Inv, File!FileTypes
  <1>2. /\ opening[p].at = "run" /\ opening[p].next = 12 /\ UNCHANGED probe /\ File!Becomes(p, "ready")
        /\ File!Commit([File!db EXCEPT !.version = File!SchemaVersion])
    BY <1>1, StatementFacts DEF File!SetVersion, File!Runs, File!Opening
  <1>3. File!Exists /\ File!db \in File!Content /\ File!db.profile <= File!db.revision
    BY <1>1, <1>2, DbFacts DEF File!OpeningFits, File!Files
  <1>4. PICK c : c = [File!db EXCEPT !.version = File!SchemaVersion]
    OBVIOUS
  <1>5. /\ c \in File!Content /\ c.objects = File!db.objects /\ c.id = File!db.id
           /\ c.version = File!SchemaVersion
        /\ c.profile = File!db.profile /\ c.revision = File!db.revision
    BY <1>3, <1>4 DEF File!Content, File!SchemaVersion
  <1>6. File!Grows /\ File!Exists' /\ File!db' = c
    BY <1>1, <1>2, <1>3, <1>4, <1>5, CommitGrows DEF File!Keeps
  <1>0. PICK o \in File!Opening : Moves(p, o, "ready")
    BY <1>1, <1>2, BecomesIs
  <1>7. /\ opening' = [opening EXCEPT ![p] = o] /\ opening'[p] = o
        /\ o.at = "ready" /\ o.next = opening[p].next /\ o.id = opening[p].id
    BY <1>0 DEF Moves
  <1>8. File!OpeningFits(p)'
    BY <1>1, <1>2, <1>5, <1>6, <1>7 DEF File!OpeningFits, File!Ensured, File!SchemaVersion
  <1> QED BY <1>2, <1>6, <1>7, <1>8, ProcessKeeps

LEMMA FileFailKeeps ==
  ASSUME File!Inv, NEW p \in Openers, File!Fail(p)
  PROVE  File!Inv'
  <1>1. /\ File!FileTypes /\ File!Files /\ File!OpeningFits(p) /\ opening[p] \in File!Opening
        /\ opening \in [Openers -> File!Opening]
    BY DEF File!Inv, File!FileTypes
  <1> DEFINE at == IF opening[p].at = "add" THEN "look again" ELSE "failed"
             a == [opening[p] EXCEPT !.failed = TRUE]
             o == [a EXCEPT !.at = at]
  <1>2. /\ File!Running(p) /\ UNCHANGED <<past, main, wal, probe>>
        /\ opening' = [opening EXCEPT ![p].failed = TRUE,
                                      ![p].at = IF @ = "add" THEN "look again" ELSE "failed"]
    BY DEF File!Fail, File!AfterFailedAlter
  <1>3. /\ a \in File!Opening /\ a.failed = TRUE /\ a.at = opening[p].at /\ a.next = opening[p].next
        /\ a.id = opening[p].id
    BY <1>1 DEF File!Opening
  <1>4. opening' = [opening EXCEPT ![p] = o]
    BY <1>1, <1>2, <1>3
  <1>5. at \in {"look again", "failed"} /\ (at = "look again" => opening[p].at = "add")
    OBVIOUS
  <1> HIDE DEF a, at
  <1>6. o \in File!Opening /\ o.failed = TRUE /\ o.at = at /\ o.next = opening[p].next
        /\ o.id = opening[p].id
    BY <1>3, <1>5 DEF File!Opening
  <1> HIDE DEF o
  <1>7. opening'[p] = o
    BY <1>1, <1>4
  <1>8. File!Grows /\ (File!Exists => File!Exists') /\ File!db' = File!db
    BY <1>1, <1>2, NothingGrows DEF File!Exists, File!db
  <1>9. File!OpeningFits(p)'
    BY <1>1, <1>5, <1>6, <1>7, <1>8 DEF File!OpeningFits, File!Ensured
  <1> QED BY <1>2, <1>4, <1>6, <1>8, <1>9, ProcessKeeps

\* A process that gives up relies on nothing.
LEMMA RestKeeps ==
  ASSUME File!Inv, NEW p \in Openers, File!Retry(p) \/ File!Stop(p)
  PROVE  File!Inv'
  <1>1. File!FileTypes /\ File!Files
    BY DEF File!Inv
  <1>2. UNCHANGED <<past, main, wal, probe>> /\ (File!Becomes(p, "closed")
        \/ File!Becomes(p, "stopped"))
    BY DEF File!Retry, File!Stop
  <1>3. PICK o \in File!Opening : Moves(p, o, "closed") \/ Moves(p, o, "stopped")
    <2>1. CASE File!Becomes(p, "closed")
      BY <1>1, <2>1, BecomesIs
    <2>2. CASE File!Becomes(p, "stopped")
      BY <1>1, <2>2, BecomesIs
    <2> QED BY <1>2, <2>1, <2>2
  <1>4. File!Grows
    BY <1>1, <1>2, NothingGrows
  <1>5. opening' = [opening EXCEPT ![p] = o] /\ opening'[p] = o /\ o.at \in {"closed", "stopped"}
    BY <1>3 DEF Moves
  <1>6. File!OpeningFits(p)'
    BY <1>5 DEF File!OpeningFits
  <1> QED BY <1>2, <1>4, <1>5, <1>6, ProcessKeeps

\* The files change and no process does.
LEMMA FilesKeep ==
  ASSUME File!Inv, File!Grows, UNCHANGED <<opening, probe>>
  PROVE  File!Inv'
  <1>1. /\ File!FileTypes /\ File!Files /\ File!ProbeFits /\ \A q \in Openers : File!OpeningFits(q)
    BY DEF File!Inv
  <1>2. File!FileTypes' /\ File!Files'
    BY <1>1 DEF File!FileTypes, File!Grows
  <1>3. \A q \in Openers : File!OpeningFits(q)'
    BY <1>1, OpeningStays
  <1>4. File!ProbeFits'
    BY <1>1, ProbeStays
  <1> QED BY <1>2, <1>3, <1>4 DEF File!Inv

LEMMA SaveKeeps ==
  ASSUME File!RepositoryFileAssumption, File!Inv, NEW p \in Openers, File!Save(p)
  PROVE  File!Inv'
  <1>1. File!FileTypes /\ File!Files /\ File!OpeningFits(p)
    BY DEF File!Inv
  <1>2. /\ opening[p].at = "ready" /\ UNCHANGED <<opening, probe>>
        /\ File!Commit([File!db EXCEPT !.revision = @ + 1, !.profile = File!db.revision + 1])
    BY DEF File!Save
  <1>3. File!Exists /\ File!db \in File!Content /\ File!db.profile <= File!db.revision
        /\ File!db.revision \in Nat
    BY <1>1, <1>2, DbFacts DEF File!OpeningFits, File!Files, File!Content
  <1> DEFINE a == [File!db EXCEPT !.revision = File!db.revision + 1]
             c == [a EXCEPT !.profile = File!db.revision + 1]
  <1>4. /\ a \in File!Content /\ a.objects = File!db.objects /\ a.id = File!db.id
           /\ a.version = File!db.version
        /\ a.revision = File!db.revision + 1
    BY <1>3 DEF File!Content
  <1>5. File!Commit(c)
    BY <1>2
  <1> HIDE DEF a
  <1>6. /\ c \in File!Content /\ c.objects = File!db.objects /\ c.id = File!db.id
           /\ c.version = File!db.version
        /\ c.revision = File!db.revision + 1 /\ c.profile = File!db.revision + 1
    BY <1>3, <1>4 DEF File!Content
  <1> HIDE DEF c
  <1>7. File!Keeps(c)
    BY <1>3, <1>6 DEF File!Keeps
  <1>8. File!Grows
    BY <1>1, <1>5, <1>7, CommitGrows
  <1> QED BY <1>2, <1>8, FilesKeep

LEMMA CheckpointKeeps ==
  ASSUME File!RepositoryFileAssumption, File!Inv, File!Checkpoint \/ File!RemoveLog
  PROVE  File!Inv'
  <1>1. File!FileTypes /\ File!Files
    BY DEF File!Inv
  <1>2. /\ past' = past /\ UNCHANGED <<opening, probe>> /\ wal # Nil
        /\ \/ main < Len(past) /\ main' = main + 1 /\ wal' = wal
           \/ main = Len(past) /\ main' = main /\ wal' = Nil
    BY DEF File!Checkpoint, File!RemoveLog
  <1>3. main \in Nat /\ Len(past) \in Nat /\ wal \in File!Log /\ wal.from \in Nat /\ wal.from <= main
    BY <1>1, <1>2 DEF File!FileTypes, File!Files, File!Log
  <1>4. File!Files'
    BY <1>1, <1>2, <1>3 DEF File!Files
  <1>5. File!Exists' = File!Exists /\ File!db' = File!db
    BY <1>2 DEF File!Exists, File!db
  <1>6. File!Grows
    BY <1>1, <1>2, <1>3, <1>4, <1>5 DEF File!Grows, File!FileTypes
  <1> QED BY <1>2, <1>6, FilesKeep

-----------------------------------------------------------------------------
(* The steps of the probe *)

LEMMA ProbeKeeps ==
  ASSUME File!Inv, UNCHANGED <<past, main, wal, opening>>, probe' \in File!Probe, File!ProbeFits'
  PROVE  File!Inv'
  <1>1. /\ File!FileTypes /\ File!Files /\ \A q \in Openers : File!OpeningFits(q)
    BY DEF File!Inv
  <1>2. File!FileTypes' /\ File!Files'
    BY <1>1 DEF File!FileTypes, File!Files
  <1>3. ASSUME NEW q \in Openers PROVE File!OpeningFits(q)'
    <2>1. File!Grows
      BY <1>1, NothingGrows
    <2> QED BY <1>1, <2>1, OpeningStays
  <1> QED BY <1>2, <1>3 DEF File!Inv

LEMMA ProbeFacts ==
  ASSUME File!Inv
  PROVE  /\ File!FileTypes /\ File!Files /\ File!ProbeFits /\ probe \in File!Probe
            /\ Len(past) \in Nat /\ main \in Nat
         /\ wal \in File!Log \cup {Nil} /\ probe.first \in File!Copy /\ probe.second \in File!Copy
         /\ probe.first.main \in Nat /\ probe.since \in Nat
  BY DEF File!Inv, File!FileTypes, File!Probe, File!Copy

LEMMA ProbeBeginsKeeps ==
  ASSUME File!Inv, File!ProbeBegins
  PROVE  File!Inv'
  <1> DEFINE at == IF File!Exists THEN "first main" ELSE "fresh"
             a == [probe EXCEPT !.at = at]
             r == [a EXCEPT !.since = Len(past)]
  <1>0. /\ past \in Seq(File!Content) /\ probe \in File!Probe /\ Len(past) \in Nat
    BY DEF File!Inv, File!FileTypes
  <1>1. at \in {"first main", "fresh"} /\ (at = "first main" => File!Exists)
    OBVIOUS
  <1>2. probe' = r /\ UNCHANGED <<past, main, wal, opening>>
    BY DEF File!ProbeBegins
  <1> HIDE DEF at
  <1>3. a \in File!Probe /\ a.at = at
    BY <1>0, <1>1 DEF File!Probe, File!Reading
  <1> HIDE DEF a
  <1>4. r \in File!Probe /\ r.at = at /\ r.since = Len(past)
    BY <1>0, <1>3 DEF File!Probe
  <1> HIDE DEF r
  <1>5. File!Exists => Len(past) >= 1
    BY <1>0 DEF File!Exists
  <1>6. File!ProbeFits'
    <2>1. probe'.at = at /\ past' = past
      BY <1>2, <1>4
    <2>2. at = "first main" => probe'.since \in 1..Len(past')
      <3>1. at = "first main" => Len(past) >= 1
        BY <1>1, <1>5
      <3>2. at = "first main" => Len(past) \in 1..Len(past)
        <4>1. PICK m \in Nat : m = Len(past)
          BY <1>0
        <4>2. m >= 1 => m \in 1..m
          OBVIOUS
        <4> QED BY <3>1, <4>1, <4>2
      <3>3. probe'.since = Len(past)
        BY <1>2, <1>4
      <3> QED BY <2>1, <3>2, <3>3
    <2> QED BY <1>1, <2>1, <2>2 DEF File!ProbeFits, File!Reading
  <1> QED BY <1>2, <1>4, <1>6, ProbeKeeps

\* Reading one of the two files, for the first or the second time.
LEMMA FirstMainKeeps ==
  ASSUME File!Inv, probe.at = "first main",
         probe' = [[probe EXCEPT !.first.main = main] EXCEPT !.at = "first wal"],
         UNCHANGED <<past, main, wal, opening>>
  PROVE  File!Inv'
  <1>0. File!ProbeFits /\ probe \in File!Probe /\ main \in Nat /\ probe.first \in File!Copy
    BY ProbeFacts
  <1> DEFINE f == [probe.first EXCEPT !.main = main]
             a == [probe EXCEPT !.first = f]
             r == [a EXCEPT !.at = "first wal"]
  <1>1. probe.at = "first main" /\ probe' = r /\ UNCHANGED <<past, main, wal, opening>>
    BY <1>0 DEF File!Probe
  <1>2. f \in File!Copy /\ f.main = main
    BY <1>0 DEF File!Copy
  <1> HIDE DEF f
  <1>3. a \in File!Probe /\ a.first = f /\ a.since = probe.since
    BY <1>0, <1>2 DEF File!Probe
  <1> HIDE DEF a
  <1>4. r \in File!Probe /\ r.at = "first wal" /\ r.first = f /\ r.since = probe.since
    BY <1>3 DEF File!Probe, File!Reading
  <1> HIDE DEF r
  <1>5. File!ProbeFits'
    <2>1. probe.since \in 1..Len(past)
      BY <1>0, <1>1 DEF File!ProbeFits, File!Reading
    <2>2. /\ probe'.at = "first wal" /\ probe'.since \in 1..Len(past')
          /\ probe'.first.main = main'
      BY <1>1, <1>2, <1>4, <2>1
    <2>3. probe'.first.main <= main'
      <3>1. main <= main
        BY <1>0, NatLeq
      <3>2. main' = main
        BY <1>1
      <3> QED BY <2>2, <3>1, <3>2
    <2> QED BY <2>2, <2>3 DEF File!ProbeFits, File!Reading
  <1> QED BY <1>1, <1>4, <1>5, ProbeKeeps

LEMMA FirstWalKeeps ==
  ASSUME File!Inv, probe.at = "first wal",
         probe' = [[probe EXCEPT !.first.wal = wal] EXCEPT !.at = "second main"],
         UNCHANGED <<past, main, wal, opening>>
  PROVE  File!Inv'
  <1>0. /\ File!ProbeFits /\ File!Files /\ probe \in File!Probe /\ main \in Nat
           /\ wal \in File!Log \cup {Nil}
        /\ probe.first \in File!Copy /\ Len(past) \in Nat /\ probe.since \in Nat
    BY ProbeFacts
  <1> DEFINE f == [probe.first EXCEPT !.wal = wal]
             a == [probe EXCEPT !.first = f]
             r == [a EXCEPT !.at = "second main"]
  <1>1. probe.at = "first wal" /\ probe' = r /\ UNCHANGED <<past, main, wal, opening>>
    BY <1>0 DEF File!Probe
  <1>2. f \in File!Copy /\ f.main = probe.first.main /\ f.wal = wal
    BY <1>0 DEF File!Copy
  <1> HIDE DEF f
  <1>3. a \in File!Probe /\ a.first = f /\ a.since = probe.since
    BY <1>0, <1>2 DEF File!Probe
  <1> HIDE DEF a
  <1>4. r \in File!Probe /\ r.at = "second main" /\ r.first = f /\ r.since = probe.since
    BY <1>3 DEF File!Probe, File!Reading
  <1> HIDE DEF r
  <1>5. probe.since \in 1..Len(past) /\ probe.first.main <= main
    BY <1>0, <1>1 DEF File!ProbeFits, File!Reading
  <1>6. f.main = main => File!OneMoment'
    <2>1. SUFFICES ASSUME f.main = main PROVE File!OneMoment'
      OBVIOUS
    <2>0. /\ probe'.first.wal = wal /\ probe'.first.main = main /\ past' = past
          /\ probe'.since = probe.since
      BY <1>1, <1>2, <1>4, <2>1
    <2>2. CASE wal = Nil
      <3>1. File!Consistent' /\ File!Copied' = main /\ main = Len(past)
        BY <1>0, <2>0, <2>2 DEF File!Consistent, File!Copied, File!Files
      <3>2. main \in probe.since .. Len(past)
        BY <1>0, <1>5, <3>1, AtTheEnd
      <3>3. File!Copied' \in probe'.since .. Len(past')
        BY <2>0, <3>1, <3>2
      <3> QED BY <3>1, <3>3 DEF File!OneMoment
    <2>3. CASE wal # Nil
      <3>1. wal.from \in Nat /\ wal.to \in Nat /\ wal.from <= main /\ wal.to = Len(past)
            /\ main <= Len(past)
        BY <1>0, <2>3 DEF File!Files, File!Log
      <3>2. File!Consistent'
        <4>1. main \in wal.from .. wal.to
          BY <1>0, <3>1, Between
        <4> QED BY <2>0, <4>1 DEF File!Consistent
      <3>3. File!Copied' = wal.to
        BY <2>0, <2>3 DEF File!Copied
      <3>4. wal.to \in probe.since .. Len(past)
        BY <1>0, <1>5, <3>1, AtTheEnd
      <3>5. File!Copied' \in probe'.since .. Len(past')
        BY <2>0, <3>3, <3>4
      <3> QED BY <3>2, <3>5 DEF File!OneMoment
    <2> QED BY <2>2, <2>3
  <1>7. File!ProbeFits'
    BY <1>1, <1>2, <1>4, <1>5, <1>6 DEF File!ProbeFits, File!Reading
  <1> QED BY <1>1, <1>4, <1>7, ProbeKeeps

LEMMA SecondMainKeeps ==
  ASSUME File!Inv, probe.at = "second main",
         probe' = [[probe EXCEPT !.second.main = main] EXCEPT !.at = "second wal"],
         UNCHANGED <<past, main, wal, opening>>
  PROVE  File!Inv'
  <1>0. /\ File!ProbeFits /\ probe \in File!Probe /\ main \in Nat /\ probe.second \in File!Copy
    BY ProbeFacts
  <1> DEFINE f == [probe.second EXCEPT !.main = main]
             a == [probe EXCEPT !.second = f]
             r == [a EXCEPT !.at = "second wal"]
  <1>1. probe.at = "second main" /\ probe' = r /\ UNCHANGED <<past, main, wal, opening>>
    BY <1>0 DEF File!Probe
  <1>2. f \in File!Copy /\ f.main = main
    BY <1>0 DEF File!Copy
  <1> HIDE DEF f
  <1>3. a \in File!Probe /\ a.second = f /\ a.first = probe.first /\ a.since = probe.since
    BY <1>0, <1>2 DEF File!Probe
  <1> HIDE DEF a
  <1>4. r \in File!Probe /\ r.at = "second wal" /\ r.second = f /\ r.first = probe.first
        /\ r.since = probe.since
    BY <1>3 DEF File!Probe, File!Reading
  <1> HIDE DEF r
  <1>5. File!OneMoment => File!OneMoment'
    BY <1>1, <1>4 DEF File!OneMoment, File!Consistent, File!Copied
  <1>6. File!ProbeFits'
    BY <1>0, <1>1, <1>2, <1>4, <1>5 DEF File!ProbeFits, File!Reading
  <1> QED BY <1>1, <1>4, <1>6, ProbeKeeps

LEMMA SecondWalKeeps ==
  ASSUME File!Inv, probe.at = "second wal",
         probe' = [[probe EXCEPT !.second.wal = wal] EXCEPT !.at = "compare"],
         UNCHANGED <<past, main, wal, opening>>
  PROVE  File!Inv'
  <1>0. /\ File!ProbeFits /\ probe \in File!Probe /\ wal \in File!Log \cup {Nil}
           /\ probe.second \in File!Copy
    BY ProbeFacts
  <1> DEFINE f == [probe.second EXCEPT !.wal = wal]
             a == [probe EXCEPT !.second = f]
             r == [a EXCEPT !.at = "compare"]
  <1>1. probe.at = "second wal" /\ probe' = r /\ UNCHANGED <<past, main, wal, opening>>
    BY <1>0 DEF File!Probe
  <1>2. f \in File!Copy /\ f.main = probe.second.main
    BY <1>0 DEF File!Copy
  <1> HIDE DEF f
  <1>3. a \in File!Probe /\ a.second = f /\ a.first = probe.first /\ a.since = probe.since
    BY <1>0, <1>2 DEF File!Probe
  <1> HIDE DEF a
  <1>4. r \in File!Probe /\ r.at = "compare" /\ r.second = f /\ r.first = probe.first
        /\ r.since = probe.since
    BY <1>3 DEF File!Probe, File!Reading
  <1> HIDE DEF r
  <1>5. File!OneMoment => File!OneMoment'
    BY <1>1, <1>4 DEF File!OneMoment, File!Consistent, File!Copied
  <1>6. File!ProbeFits'
    BY <1>0, <1>1, <1>2, <1>4, <1>5 DEF File!ProbeFits, File!Reading
  <1> QED BY <1>1, <1>4, <1>6, ProbeKeeps

LEMMA ProbeComparesKeeps ==
  ASSUME File!Inv, File!ProbeCompares
  PROVE  File!Inv'
  <1>0. File!ProbeFits /\ probe \in File!Probe
    BY ProbeFacts
  <1>1. probe.at = "compare" /\ UNCHANGED <<past, main, wal, opening>> /\ File!NoCopy \in File!Copy
    BY DEF File!ProbeCompares, File!NoCopy, File!Copy
  <1>2. CASE File!Stable
    <2> DEFINE a == [probe EXCEPT !.at = "copied"]
               r == [a EXCEPT !.second = File!NoCopy]
    <2>1. probe' = r
      BY <1>2 DEF File!ProbeCompares
    <2>2. a \in File!Probe /\ a.at = "copied" /\ a.first = probe.first /\ a.since = probe.since
      BY <1>0 DEF File!Probe, File!Reading
    <2> HIDE DEF a
    <2>3. r \in File!Probe /\ r.at = "copied" /\ r.first = probe.first /\ r.since = probe.since
      BY <1>1, <2>2 DEF File!Probe
    <2> HIDE DEF r
    <2>4. File!OneMoment
      BY <1>0, <1>1, <1>2 DEF File!ProbeFits, File!Stable
    <2>5. File!OneMoment'
      BY <1>1, <2>1, <2>3, <2>4 DEF File!OneMoment, File!Consistent, File!Copied
    <2>6. File!ProbeFits'
      BY <1>0, <1>1, <2>1, <2>3, <2>5 DEF File!ProbeFits, File!Reading
    <2> QED BY <1>1, <2>1, <2>3, <2>6, ProbeKeeps
  <1>3. CASE ~File!Stable /\ probe.attempt < MaxAttempts
    <2> DEFINE a == [probe EXCEPT !.at = "first main"]
               b == [a EXCEPT !.attempt = probe.attempt + 1]
               c == [b EXCEPT !.first = File!NoCopy]
               r == [c EXCEPT !.second = File!NoCopy]
    <2>1. probe' = r
      BY <1>3 DEF File!ProbeCompares
    <2>0. probe.attempt + 1 \in Nat
      <3>1. probe.attempt \in Nat
        BY <1>0 DEF File!Probe
      <3> QED BY <3>1
    <2>2. a \in File!Probe /\ a.at = "first main" /\ a.since = probe.since
      BY <1>0 DEF File!Probe, File!Reading
    <2> HIDE DEF a
    <2>3. b \in File!Probe /\ b.at = "first main" /\ b.since = probe.since
      BY <2>0, <2>2 DEF File!Probe
    <2> HIDE DEF b
    <2>4. c \in File!Probe /\ c.at = "first main" /\ c.since = probe.since
      BY <1>1, <2>3 DEF File!Probe
    <2> HIDE DEF c
    <2>5. r \in File!Probe /\ r.at = "first main" /\ r.since = probe.since
      BY <1>1, <2>4 DEF File!Probe
    <2> HIDE DEF r
    <2>6. File!ProbeFits'
      BY <1>0, <1>1, <2>1, <2>5 DEF File!ProbeFits, File!Reading
    <2> QED BY <1>1, <2>1, <2>5, <2>6, ProbeKeeps
  <1>4. CASE ~File!Stable /\ ~(probe.attempt < MaxAttempts)
    <2> DEFINE a == [probe EXCEPT !.at = "busy"]
               b == [a EXCEPT !.first = File!NoCopy]
               r == [b EXCEPT !.second = File!NoCopy]
    <2>1. probe' = r
      BY <1>4 DEF File!ProbeCompares
    <2>2. a \in File!Probe /\ a.at = "busy"
      BY <1>0 DEF File!Probe, File!Reading
    <2> HIDE DEF a
    <2>3. b \in File!Probe /\ b.at = "busy"
      BY <1>1, <2>2 DEF File!Probe
    <2> HIDE DEF b
    <2>4. r \in File!Probe /\ r.at = "busy"
      BY <1>1, <2>3 DEF File!Probe
    <2> HIDE DEF r
    <2>5. File!ProbeFits'
      BY <2>1, <2>4 DEF File!ProbeFits, File!Reading
    <2> QED BY <1>1, <2>1, <2>4, <2>5, ProbeKeeps
  <1> QED BY <1>2, <1>3, <1>4

LEMMA ProbeValidatesKeeps ==
  ASSUME File!Inv, File!ProbeValidates
  PROVE  File!Inv'
  <1>0. /\ File!ProbeFits /\ File!Files /\ probe \in File!Probe /\ Len(past) \in Nat
    BY ProbeFacts
  <1>1. /\ probe.at = "copied" /\ UNCHANGED <<past, main, wal, opening>> /\ File!NoCopy \in File!Copy
        /\ File!Consistent /\ File!Copied \in probe.since .. Len(past) /\ probe.since \in 1..Len(past)
    BY <1>0 DEF File!ProbeValidates, File!NoCopy, File!Copy, File!ProbeFits, File!OneMoment,
       File!Reading
  <1>2. PICK n : n = File!Copied
    OBVIOUS
  <1>3. n \in probe.since .. Len(past) /\ n \in 1..Len(past)
    BY <1>0, <1>1, <1>2
  <1>4. PICK v : v = File!Verdict(past[n])
    OBVIOUS
  <1>5. v \in {"unsupported", "corrupt", "accepted"}
    BY <1>4 DEF File!Verdict
  <1>6. v = "corrupt" => past[n].objects # File!Objects
    <2>1. SUFFICES ASSUME v = "corrupt", past[n].objects = File!Objects PROVE FALSE
      OBVIOUS
    <2>2. past[n].profile <= past[n].revision /\ past[n] \in File!Content
      BY <1>3 DEF File!Files, File!Inv, File!FileTypes
    <2>3. File!Tables \cup {"revision", "id", "cleanup_after"} \subseteq File!Objects
          /\ {"group", "tags"} \subseteq File!Objects
      BY ObjectFacts DEF File!Tables
    <2>4. ~(past[n].profile > past[n].revision)
      BY <2>2 DEF File!Content
    <2> QED BY <1>4, <2>1, <2>3, <2>4 DEF File!Verdict
  <1> DEFINE a == [probe EXCEPT !.at = v]
             r == [a EXCEPT !.first = File!NoCopy]
  <1>7. probe' = r
    BY <1>1, <1>2, <1>4 DEF File!ProbeValidates
  <1>8. a \in File!Probe /\ a.at = v /\ a.since = probe.since
    BY <1>0, <1>5 DEF File!Probe
  <1> HIDE DEF a
  <1>9. r \in File!Probe /\ r.at = v /\ r.since = probe.since
    BY <1>1, <1>8 DEF File!Probe
  <1> HIDE DEF r
  <1>10. File!ProbeFits'
    BY <1>1, <1>3, <1>5, <1>6, <1>7, <1>9 DEF File!ProbeFits, File!Reading
  <1> QED BY <1>1, <1>7, <1>9, <1>10, ProbeKeeps

-----------------------------------------------------------------------------
(* The invariant holds in every behaviour *)

LEMMA FileInit == File!Init => File!Inv
  <1> SUFFICES ASSUME File!Init PROVE File!Inv
    OBVIOUS
  <1>1. /\ past \in File!Found /\ main = Len(past) /\ wal = Nil
        /\ opening = [p \in Openers |-> [at |-> "closed", next |-> 1, id |-> Nil, failed |-> FALSE]]
    BY DEF File!Init
  <1>2. PICK at \in {"none", "never"} :
          probe = [at |-> at, attempt |-> 1, first |-> File!NoCopy, second |-> File!NoCopy, since |-> 0]
    BY DEF File!Init
  <1>3. /\ past \in Seq(File!Content) /\ Len(past) \in Nat
        /\ \A n \in 1..Len(past) : past[n].profile = 0 /\ past[n].revision = 0
    <2>1. ASSUME NEW version \in Nat, NEW objects \in SUBSET File!Objects
          PROVE  /\ File!Repository(version, objects) \in File!Content
                 /\ File!Repository(version, objects).profile = 0
                    /\ File!Repository(version, objects).revision = 0
      BY DEF File!Repository, File!Content, File!Identifiers
    <2>2. CASE past = <<>>
      BY <2>2
    <2>3. CASE past # <<>>
      <3>1. PICK version \in Nat, objects \in SUBSET File!Objects : past = <<File!Repository(version,
            objects)>>
        BY <1>1, <2>3 DEF File!Found
      <3>2. PICK c : c = File!Repository(version, objects)
        OBVIOUS
      <3>3. c \in File!Content /\ c.profile = 0 /\ c.revision = 0 /\ past = <<c>>
        BY <2>1, <3>1, <3>2
      <3> QED BY <3>3
    <2> QED BY <2>2, <2>3
  <1>4. File!NoCopy \in File!Copy
    BY DEF File!NoCopy, File!Copy
  <1>5. probe \in File!Probe /\ probe.at \in {"none", "never"}
    BY <1>2, <1>4 DEF File!Probe
  <1>6. File!FileTypes
    BY <1>1, <1>3, <1>5 DEF File!FileTypes, File!Opening, File!Identifiers
  <1>7. File!Files
    BY <1>1, <1>3 DEF File!Files
  <1>8. ASSUME NEW p \in Openers PROVE File!OpeningFits(p)
    BY <1>1 DEF File!OpeningFits
  <1>9. File!ProbeFits
    BY <1>5 DEF File!ProbeFits, File!Reading
  <1> QED BY <1>6, <1>7, <1>8, <1>9 DEF File!Inv

LEMMA FileNext == File!RepositoryFileAssumption /\ File!Inv /\ [File!Next]_(File!vars) => File!Inv'
  <1> SUFFICES ASSUME File!RepositoryFileAssumption, File!Inv, [File!Next]_(File!vars) PROVE File!Inv'
    OBVIOUS
  <1>1. CASE \E p \in Openers : File!Process(p)
    <2>1. PICK p \in Openers : File!Process(p)
      BY <1>1
    <2>2. CASE File!Open(p) \/ File!ReadVersion(p) \/ File!Create(p) \/ File!DrawId(p)
               \/ File!ReadId(p) \/ File!SetVersion(p)
      BY <2>2, OpenKeeps, ReadVersionKeeps, CreateKeeps, DrawIdKeeps, ReadIdKeeps, SetVersionKeeps
    <2>3. CASE \E c \in File!Columns : File!LookFor(p, c) \/ File!AddColumn(p, c)
               \/ File!LookAgain(p, c)
      BY <2>3, LookForKeeps, AddColumnKeeps, LookAgainKeeps
    <2>4. CASE File!Fail(p) \/ File!Retry(p) \/ File!Stop(p) \/ File!Save(p)
      BY <2>4, FileFailKeeps, RestKeeps, SaveKeeps
    <2> QED BY <2>1, <2>2, <2>3, <2>4 DEF File!Process
  <1>2. CASE File!Checkpoint \/ File!RemoveLog
    BY <1>2, CheckpointKeeps
  <1>3. CASE File!ProbeBegins \/ File!ProbeReads \/ File!ProbeCompares \/ File!ProbeValidates
    BY <1>3, ProbeBeginsKeeps, FirstMainKeeps, FirstWalKeeps, SecondMainKeeps, SecondWalKeeps,
       ProbeComparesKeeps, ProbeValidatesKeeps DEF File!ProbeReads, File!Reads
  <1>4. CASE UNCHANGED File!vars
    <2>1. UNCHANGED <<past, main, wal>> /\ UNCHANGED <<opening, probe>>
      BY <1>4 DEF File!vars
    <2>2. File!Grows
      BY <2>1, NothingGrows DEF File!Inv
    <2> QED BY <2>1, <2>2, FilesKeep
  <1> QED BY <1>1, <1>2, <1>3, <1>4 DEF File!Next

\* The inductive invariant of the files: what each process has seen to, and
\* what the look of the App rests on.
THEOREM FilesHold ==
  ASSUME File!RepositoryFileAssumption
  PROVE  File!Spec => []File!Inv
  <1>1. File!Init => File!Inv
    BY FileInit
  <1>2. File!Inv /\ [File!Next]_(File!vars) => File!Inv'
    BY FileNext
  <1> QED BY <1>1, <1>2, PTL DEF File!Spec

\* Openers that open the repository agree on one complete set of tables and
\* one id, whichever of them created it and in whatever state they found it;
\* and what the App's look judges is the repository at one moment.
THEOREM ProcessesAgree ==
  ASSUME File!RepositoryFileAssumption
  PROVE  File!Spec => []RepositoryIsAgreedOn
  <1>1. File!Inv => RepositoryIsAgreedOn
    <2> SUFFICES ASSUME File!Inv PROVE File!OpeningsAgree /\ File!ProbeSeesOneMoment
      BY DEF RepositoryIsAgreedOn, File!RepositoryIsAgreedOn
    <2>1. ASSUME NEW p \in Openers, opening[p].at = "ready"
          PROVE  File!db.objects = File!Objects /\ File!db.version = File!SchemaVersion
                 /\ File!db.id = opening[p].id
      <3>1. File!FileTypes /\ File!OpeningFits(p)
        BY DEF File!Inv
      <3>2. File!Exists /\ File!Ensured(12) \subseteq File!db.objects /\ opening[p].next = 12
        BY <2>1, <3>1 DEF File!OpeningFits
      <3>3. File!Objects \subseteq File!Ensured(12)
        BY ObjectFacts DEF File!Ensured
      <3> QED BY <2>1, <3>1, <3>2, <3>3, DbFacts DEF File!OpeningFits
    <2>2. \A p \in Openers : opening[p].at = "failed" => opening[p].failed
      BY DEF File!Inv, File!OpeningFits
    <2> QED BY <2>1, <2>2 DEF File!OpeningsAgree, File!ProbeSeesOneMoment, File!Inv, File!ProbeFits,
               File!OneMoment
  <1> QED BY <1>1, FilesHold, PTL

=============================================================================
