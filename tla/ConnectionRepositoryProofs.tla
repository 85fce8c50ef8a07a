-------------------- MODULE ConnectionRepositoryProofs ---------------------
(***************************************************************************)
(* Theorems about ConnectionRepository for any connections, processes,     *)
(* references, endpoints and bounds, and, in the second half, about a query *)
(* tab (QueryTab, through QueryTabs) for any texts, paths, databases,      *)
(* schemas and limits.                                                     *)
(***************************************************************************)
EXTENDS ConnectionRepository, QueryTabs, Sequences, TLAPS

(* The two sides of the lock: a call owns the exclusive lock of its         *)
(* connection, and nobody owns it while an MCP server holds a shared one.   *)
GuardInv ==
    /\ \A a \in Apps : op[a].step # "idle" =>
           op[a].conn \in Connections /\ guard[op[a].conn] = a
    /\ \A k \in Clients : client[k].step # "idle" =>
           client[k].conn \in Connections /\ guard[client[k].conn] = None

(* What an MCP server has read is still the stored record.                  *)
ReadInv ==
    \A k \in Clients : client[k].step \in {"read", "open"} =>
        profile[client[k].conn] = client[k].record

(* Whatever names a reference names one that was given out.                 *)
DrawnInv ==
    /\ \A r \in References : vault[r] # None => r \in drawn
    /\ \A c \in Connections : profile[c].reference \in drawn \cup {None}
    /\ staged \cup ready \subseteq drawn
    /\ \A a \in Apps : /\ op[a].queue \subseteq drawn
                       /\ {op[a].ref, op[a].fresh, op[a].old} \subseteq drawn \cup {None}

(* The password of a profile is in the vault and bound to its endpoint.     *)
SecretInv ==
    \A c \in Connections :
        profile[c].reference # None => vault[profile[c].reference] = profile[c].endpoint

(* The locals of a call: which steps have a fresh reference, and that an    *)
(* update still knows the stored one.                                       *)
LocalsInv ==
    \A a \in Apps :
        /\ op[a].step \in {"stage", "schedule"} => op[a].fresh # None
        /\ op[a].fresh # None => /\ op[a].step \in {"stage", "commit", "schedule"}
                                 /\ op[a].kind = "save"
        /\ op[a].step \in {"erase", "forget"} => op[a].ref # None
        /\ op[a].step \in {"read", "put", "stage", "commit"} => ~ op[a].done
        /\ op[a].step # "idle" /\ op[a].kind = "save" /\ ~ op[a].done =>
               op[a].endpoint \in Endpoints
        /\ op[a].step \in {"read", "put"} => op[a].kind = "save"
        /\ op[a].step = "read" => op[a].expected # 0
        /\ op[a].kind = "delete" => op[a].old = None
        /\ op[a].step \notin {"put", "stage", "commit", "schedule"} => op[a].old = None
        /\ op[a].kind = "save" /\ op[a].step \in {"put", "stage", "commit"} =>
               /\ op[a].expected = 0 => op[a].old = None
               /\ op[a].expected # 0 => profile[op[a].conn].reference = op[a].old
        /\ (op[a].step = "commit" /\ op[a].old # None /\ op[a].fresh = None
             /\ op[a].endpoint # FileEndpoint) =>
               op[a].endpoint = profile[op[a].conn].endpoint

(* A credential on its way into a profile is bound, unlisted and known to   *)
(* its own call only.                                                       *)
CandidateInv ==
    \A a \in Apps : op[a].step \in {"stage", "commit"} /\ op[a].fresh # None =>
        /\ vault[op[a].fresh] = op[a].endpoint
        /\ ~ Referenced(op[a].fresh)
        /\ op[a].fresh \notin ready
        /\ op[a].step = "commit" => op[a].fresh \in staged
        /\ \A b \in Apps : op[a].fresh \notin op[b].queue \cup {op[b].ref}
        /\ \A b \in Apps \ {a} : op[b].fresh # op[a].fresh

(* A credential that is being erased has no profile and never gets one.     *)
ErasedInv ==
    \A a \in Apps :
        /\ op[a].step \in {"erase", "forget"} => ~ Referenced(op[a].ref)
        /\ op[a].step = "forget" => vault[op[a].ref] = None

Core ==
    /\ TypeOK /\ GuardInv /\ ReadInv /\ DrawnInv /\ SecretInv /\ LocalsInv
    /\ CandidateInv /\ ErasedInv

IInv == Core /\ NoForgottenSecret

-----------------------------------------------------------------------------
(* The request of a call, which its steps never change ...                  *)
SameRequest(a) ==
    /\ op'[a].conn = op[a].conn /\ op'[a].kind = op[a].kind /\ op'[a].done = op[a].done
    /\ op'[a].expected = op[a].expected /\ op'[a].endpoint = op[a].endpoint
    /\ op'[a].secret = op[a].secret

(* ... the references it knows as a writer, and those it cleans up.         *)
SameWriter(a) == op'[a].old = op[a].old /\ op'[a].fresh = op[a].fresh

SameCleaner(a) == op'[a].queue = op[a].queue /\ op'[a].ref = op[a].ref

OthersWait(a) ==
    op' \in [Apps -> Operation] /\ \A b \in Apps \ {a} : op'[b] = op[b]

-----------------------------------------------------------------------------
(* Building blocks                                                          *)

LEMMA IdleType == Idle \in Operation /\ Unused \in Client
  BY DEF Idle, Unused, Operation, Client, Steps, Profile, Absent

(* A call that goes on as o changes nothing about the other calls.          *)
LEMMA ProceedEffect ==
    ASSUME op \in [Apps -> Operation], NEW a \in Apps, NEW o \in Operation, Proceed(a, o)
    PROVE  /\ op' \in [Apps -> Operation]
           /\ op'[a] = o
           /\ \A b \in Apps \ {a} : op'[b] = op[b]
  BY DEF Proceed

(* A call that moves to another step keeps its locals.                      *)
LEMMA GotoEffect ==
    ASSUME op \in [Apps -> Operation], NEW a \in Apps, NEW step \in Steps, Goto(a, step)
    PROVE  /\ op' \in [Apps -> Operation]
           /\ op'[a] = [op[a] EXCEPT !.step = step]
           /\ \A b \in Apps \ {a} : op'[b] = op[b]
<1>1. [op[a] EXCEPT !.step = step] \in Operation
  BY DEF Operation
<1>2. QED BY <1>1, ProceedEffect DEF Goto

LEMMA InitCore == Init => Core
  BY IdleType DEF Init, Core, TypeOK, GuardInv, ReadInv, DrawnInv, SecretInv, LocalsInv,
     CandidateInv, ErasedInv, Idle, Unused, Absent, Profile

(* A call that returns, with nothing else changed.                          *)
LEMMA FinishCore ==
    ASSUME Core, NEW a \in Apps, op[a].step # "idle", Finish(a),
           UNCHANGED <<rows, secrets, pending, client>>, lost' \in SUBSET References
    PROVE  Core'
<1> USE DEF Core, rows, secrets, pending
<1>1. /\ op' \in [Apps -> Operation] /\ op'[a] = Idle
      /\ \A b \in Apps \ {a} : op'[b] = op[b]
  BY IdleType, ProceedEffect DEF Finish, TypeOK
<1>2. TypeOK'
  BY <1>1 DEF Finish, TypeOK
<1>3. GuardInv' /\ ReadInv'
  BY <1>1 DEF GuardInv, ReadInv, Finish, Idle, TypeOK
<1>4. DrawnInv' /\ SecretInv'
  BY <1>1 DEF DrawnInv, SecretInv, Idle
<1>5. LocalsInv'
  BY <1>1 DEF LocalsInv, Idle
<1>6. CandidateInv' /\ ErasedInv'
  BY <1>1 DEF CandidateInv, ErasedInv, Referenced, Idle
<1>7. QED BY <1>2, <1>3, <1>4, <1>5, <1>6

(* What the transaction writes: the reference it gives the profile is none, *)
(* the call's own candidate or the one it had, bound to the endpoint, and   *)
(* what it drops is what the profile had.                                   *)
LEMMA WriteEffect ==
    ASSUME Core, NEW a \in Apps, WriteRows(a)
    PROVE  /\ op[a].conn \in Connections /\ guard[op[a].conn] = a
           /\ NewReference(a) \in {None, op[a].fresh, profile[op[a].conn].reference}
           /\ op[a].fresh # None => NewReference(a) = op[a].fresh
           /\ NewReference(a) # None => /\ op[a].kind = "save"
                                        /\ NewReference(a) \in drawn
                                        /\ vault[NewReference(a)] = op[a].endpoint
           /\ Dropped(a) = {profile[op[a].conn].reference} \ {None, NewReference(a)}
           /\ \E p \in Profile :
                  /\ profile' = [profile EXCEPT ![op[a].conn] = p]
                  /\ p.reference = NewReference(a)
                  /\ NewReference(a) # None => p.endpoint = op[a].endpoint
<1> USE DEF Core
<1>1. /\ op[a] \in Operation /\ op[a].step = "commit"
      /\ op[a].conn \in Connections /\ guard[op[a].conn] = a
  BY DEF TypeOK, GuardInv, WriteRows
<1>2. profile[op[a].conn] \in Profile /\ profile[op[a].conn].revision = op[a].expected
  BY <1>1 DEF TypeOK, WriteRows
<1>3. CASE op[a].kind = "delete"
  <2>1. op[a].fresh = None /\ op[a].old = None
    BY <1>1, <1>3 DEF LocalsInv
  <2>2. NewReference(a) = None
    BY <2>1 DEF NewReference
  <2>3. Dropped(a) = {profile[op[a].conn].reference} \ {None, NewReference(a)}
    BY <1>3, <2>2 DEF Dropped
  <2>4. profile' = [profile EXCEPT ![op[a].conn] = Absent] /\ Absent \in Profile
    BY <1>3 DEF WriteRows, Profile
  <2>5. Absent.reference = None
    BY DEF Absent
  <2>6. QED BY <1>1, <2>1, <2>2, <2>3, <2>4, <2>5
<1>4. CASE op[a].kind = "save"
  <2>1. op[a].old = profile[op[a].conn].reference
    <3>1. CASE op[a].expected = 0
      BY <1>1, <1>2, <1>4, <3>1 DEF LocalsInv, Profile, Absent
    <3>2. CASE op[a].expected # 0
      BY <1>1, <1>4, <3>2 DEF LocalsInv
    <3>3. QED BY <3>1, <3>2
  <2>2. NewReference(a) \in {None, op[a].fresh, profile[op[a].conn].reference}
    BY <2>1 DEF NewReference
  <2>3. NewReference(a) # None => NewReference(a) \in drawn
    BY <2>2, <1>1 DEF DrawnInv
  <2>4. op[a].endpoint \in Endpoints
    BY <1>1, <1>4 DEF LocalsInv
  <2>5. NewReference(a) # None => vault[NewReference(a)] = op[a].endpoint
    BY <1>1, <2>1, <2>2 DEF NewReference, LocalsInv, CandidateInv, SecretInv
  <2>6. Dropped(a) = {profile[op[a].conn].reference} \ {None, NewReference(a)}
    BY <1>4, <2>1 DEF Dropped
  <2>7. NewReference(a) \in References \cup {None} /\ revision' \in Nat \ {0}
    BY <2>2, <1>1, <1>2 DEF Operation, Profile, Absent, WriteRows, TypeOK
  <2> DEFINE p == [revision |-> revision', reference |-> NewReference(a),
                   endpoint |-> op[a].endpoint]
  <2>8. p \in Profile /\ profile' = [profile EXCEPT ![op[a].conn] = p]
    BY <1>4, <2>4, <2>7 DEF WriteRows, Profile
  <2>9. op[a].fresh # None => NewReference(a) = op[a].fresh
    BY DEF NewReference
  <2>10. p.reference = NewReference(a) /\ p.endpoint = op[a].endpoint
    OBVIOUS
  <2>11. QED BY <1>1, <1>4, <2>2, <2>3, <2>5, <2>6, <2>8, <2>9, <2>10
<1>5. QED BY <1>1, <1>3, <1>4 DEF Operation

(* A call that moves on, with nothing else changed.                         *)
LEMMA MoveCore ==
    ASSUME Core, NEW a \in Apps, NEW step \in Steps, Goto(a, step),
           op[a].step # "idle", step # "idle",
           UNCHANGED <<rows, secrets, pending, lost, guard, client>>,
           \/ op[a].step = "sweep" /\ ~ op[a].done /\ step = FirstStep(a)
           \/ op[a].step = "commit" /\ op[a].fresh # None /\ step = "schedule"
    PROVE  Core'
<1> USE DEF Core
<1>o. op \in [Apps -> Operation] /\ op[a] \in Operation
  BY DEF TypeOK
<1>1. OthersWait(a) /\ op'[a] = [op[a] EXCEPT !.step = step]
  BY <1>o, GotoEffect DEF OthersWait
<1>2. /\ OthersWait(a) /\ SameRequest(a) /\ SameWriter(a) /\ SameCleaner(a)
      /\ op'[a].step = step
  BY <1>o, <1>1 DEF Operation, SameRequest, SameWriter, SameCleaner
<1>3. UNCHANGED <<revision, profile, vault, drawn, staged, ready, lost, guard, client>>
  BY DEF rows, secrets, pending
<1>4. /\ op[a].step # "idle" /\ step # "idle"
      /\ \/ /\ op[a].step = "sweep" /\ ~ op[a].done
            /\ op[a].kind \in {"save", "delete"} /\ op[a].expected \in Nat
            /\ \/ step = "read" /\ op[a].kind = "save" /\ op[a].expected # 0
               \/ step = "put" /\ op[a].kind = "save" /\ op[a].expected = 0
               \/ step = "commit" /\ (op[a].kind = "save" => op[a].expected = 0)
         \/ op[a].step = "commit" /\ op[a].fresh # None /\ step = "schedule"
  BY <1>o DEF FirstStep, Operation
<1>5. TypeOK'
  BY <1>o, <1>2, <1>3 DEF OthersWait, TypeOK
<1>6. GuardInv' /\ ReadInv'
  BY <1>o, <1>2, <1>3, <1>4 DEF OthersWait, SameRequest, GuardInv, ReadInv
<1>7. DrawnInv' /\ SecretInv'
  BY <1>o, <1>2, <1>3 DEF OthersWait, SameWriter, SameCleaner, DrawnInv, SecretInv
<1>8. LocalsInv'
  BY <1>o, <1>2, <1>3, <1>4 DEF OthersWait, SameRequest, SameWriter, SameCleaner,
     LocalsInv
<1>9. CandidateInv' /\ ErasedInv'
  BY <1>o, <1>2, <1>3, <1>4 DEF OthersWait, SameRequest, SameWriter, SameCleaner,
     CandidateInv, ErasedInv, Referenced, LocalsInv
<1>10. QED BY <1>5, <1>6, <1>7, <1>8, <1>9

(* The cleanup is over.                                                     *)
LEMMA SweepDoneCore ==
    ASSUME Core, NEW a \in Apps, SweepDone(a)
    PROVE  Core'
<1>1. CASE op[a].done
  BY <1>1, FinishCore DEF SweepDone, Core, TypeOK
<1>2. CASE ~ op[a].done
  <2>1. FirstStep(a) \in Steps /\ FirstStep(a) # "idle"
    BY DEF FirstStep, Steps
  <2>2. QED BY <1>2, <2>1, MoveCore DEF SweepDone
<1>3. QED BY <1>1, <1>2

(* A call that fails after its transaction did not happen.                  *)
LEMMA GiveUpCore ==
    ASSUME Core, NEW a \in Apps, op[a].step = "commit", GiveUp(a),
           UNCHANGED <<rows, secrets, pending, lost, client>>
    PROVE  Core'
<1>1. CASE op[a].fresh = None
  BY <1>1, FinishCore DEF GiveUp, Core, TypeOK
<1>2. CASE op[a].fresh # None
  BY <1>2, MoveCore DEF GiveUp, Steps
<1>3. QED BY <1>1, <1>2

(* The transaction, whichever way its call goes on: the cleanup of what was *)
(* dropped, the end, or the cleanup of its own candidate.                   *)
LEMMA CommitCore ==
    ASSUME Core, NEW a \in Apps, WriteRows(a), UNCHANGED <<secrets, lost, client>>,
           \/ CleanAndReturn(a, Dropped(a)) /\ UNCHANGED guard
           \/ GiveUp(a)
    PROVE  Core'
<1> USE DEF Core
<1>o. op \in [Apps -> Operation] /\ op[a] \in Operation /\ op[a].step = "commit"
  BY DEF TypeOK, WriteRows
<1> DEFINE c == op[a].conn
           n == NewReference(a)
           old == profile[c].reference
<1>1. /\ c \in Connections /\ guard[c] = a
      /\ n \in {None, op[a].fresh, old}
      /\ op[a].fresh # None => n = op[a].fresh
      /\ n # None => n \in drawn /\ vault[n] = op[a].endpoint
      /\ Dropped(a) = {old} \ {None, n}
  BY WriteEffect
<1>2. PICK p \in Profile : /\ profile' = [profile EXCEPT ![c] = p]
                           /\ p.reference = n
                           /\ n # None => p.endpoint = op[a].endpoint
  BY WriteEffect
<1>3. /\ profile'[c].reference = n
      /\ n # None => profile'[c].endpoint = op[a].endpoint
      /\ \A d \in Connections \ {c} : profile'[d] = profile[d]
      /\ profile' \in [Connections -> Profile]
  BY <1>1, <1>2 DEF TypeOK
<1>4. /\ revision' = revision + 1 /\ staged' = staged \ {n}
      /\ ready' = (ready \cup (({old} \ {None, n}) \ staged)) \ {n}
      /\ UNCHANGED <<vault, drawn, lost, client>>
  BY <1>1 DEF WriteRows, secrets
<1>5. /\ old \in drawn \cup {None} /\ op[a].fresh \in drawn \cup {None}
      /\ drawn \subseteq References /\ None \notin References
      /\ a # None
      /\ op[a].fresh # None => op[a].fresh \notin ready /\ ~ Referenced(op[a].fresh)
  BY <1>o, <1>1, NoneAssumption DEF DrawnInv, CandidateInv, TypeOK
<1> DEFINE Cleaning == /\ guard' = guard /\ op'[a].step = "sweep" /\ op'[a].done
                       /\ op'[a].kind = "save" /\ op'[a].conn = c
                       /\ op'[a].old = None /\ op'[a].fresh = None
                       /\ op'[a].queue = {old} \ {None, n} /\ op'[a].ref = None
           Returned == guard' = [guard EXCEPT ![c] = None] /\ op'[a] = Idle
           Scheduling == /\ guard' = guard /\ op[a].fresh # None
                         /\ SameRequest(a) /\ SameWriter(a) /\ SameCleaner(a)
                         /\ op'[a].step = "schedule"
<1>6. OthersWait(a) /\ (Cleaning \/ Returned \/ Scheduling)
  <2>1. CASE CleanAndReturn(a, Dropped(a)) /\ UNCHANGED guard
    <3> DEFINE o == [Idle EXCEPT !.step = "sweep", !.conn = op[a].conn,
                                 !.done = TRUE, !.queue = Dropped(a)]
    <3>1. o \in Operation
      BY <1>o, <1>1, <1>5 DEF Operation, Idle, Steps
    <3>2. OthersWait(a) /\ op'[a] = o
      BY <1>o, <2>1, <3>1, ProceedEffect DEF CleanAndReturn, OthersWait
    <3>3. Cleaning
      BY <1>1, <2>1, <3>2 DEF Idle
    <3>4. QED BY <3>2, <3>3
  <2>2. CASE GiveUp(a) /\ op[a].fresh = None
    <3>1. OthersWait(a) /\ op'[a] = Idle
      BY <1>o, <2>2, IdleType, ProceedEffect DEF GiveUp, Finish, OthersWait
    <3>2. QED BY <2>2, <3>1 DEF GiveUp, Finish
  <2>3. CASE GiveUp(a) /\ op[a].fresh # None
    <3>1. OthersWait(a) /\ op'[a] = [op[a] EXCEPT !.step = "schedule"]
      BY <1>o, <2>3, GotoEffect DEF GiveUp, OthersWait, Steps
    <3>2. Scheduling
      BY <1>o, <2>3, <3>1 DEF GiveUp, Operation, SameRequest, SameWriter, SameCleaner
    <3>3. QED BY <3>1, <3>2
  <2>4. QED BY <2>1, <2>2, <2>3
<1>7. \A b \in Apps \ {a} : op[b].step # "idle" => op[b].conn \in Connections \ {c}
  BY <1>1 DEF GuardInv
<1>8. /\ \A r : Referenced(r)' => r = n \/ Referenced(r)
      /\ old # None => Referenced(old)
  BY <1>1, <1>3 DEF Referenced
<1> HIDE DEF c, n, old
<1>9. TypeOK'
  <2>1. guard' \in [Connections -> Apps \cup {None}]
    BY <1>1, <1>6 DEF TypeOK
  <2>2. staged' \subseteq References /\ ready' \subseteq References
    BY <1>4, <1>5 DEF TypeOK
  <2>3. QED BY <1>3, <1>4, <1>6, <2>1, <2>2 DEF TypeOK, OthersWait
<1>10. GuardInv'
  <2>1. \A b \in Apps : op'[b].step # "idle" =>
            op'[b].conn \in Connections /\ guard'[op'[b].conn] = b
    BY <1>o, <1>1, <1>6, <1>7 DEF GuardInv, OthersWait, SameRequest, Idle, TypeOK, c
  <2>2. \A k \in Clients : client'[k].step # "idle" =>
            client'[k].conn \in Connections /\ guard'[client'[k].conn] = None
    BY <1>1, <1>4, <1>6 DEF GuardInv, TypeOK
  <2>3. QED BY <2>1, <2>2 DEF GuardInv
<1>11. ReadInv'
  <2>1. \A k \in Clients : client[k].step \in {"read", "open"} =>
            client[k].conn \in Connections \ {c}
    BY <1>1, <1>5 DEF GuardInv
  <2>2. QED BY <1>3, <1>4, <2>1 DEF ReadInv
<1>12. DrawnInv'
  BY <1>1, <1>3, <1>4, <1>5, <1>6 DEF DrawnInv, OthersWait, SameWriter, SameCleaner,
     Idle, TypeOK
<1>13. SecretInv'
  BY <1>1, <1>3, <1>4 DEF SecretInv
<1>14. LocalsInv'
  BY <1>3, <1>6, <1>7 DEF LocalsInv, OthersWait, SameRequest, SameWriter, SameCleaner,
     Idle
<1>15. CandidateInv'
  BY <1>1, <1>4, <1>5, <1>6, <1>8
     DEF CandidateInv, OthersWait, SameWriter, SameCleaner, Idle
<1>16. ErasedInv'
  <2>1. \A b \in Apps : op[b].step \in {"erase", "forget"} =>
            op[b].ref # n /\ ~ Referenced(op[b].ref) /\ b # a
    BY <1>o, <1>1, <1>8 DEF ErasedInv, CandidateInv, LocalsInv
  <2>2. \A b \in Apps : op'[b].step \in {"erase", "forget"} => b # a
    BY <1>6 DEF Idle
  <2>3. \A b \in Apps : op'[b].step \in {"erase", "forget"} =>
            op'[b] = op[b] /\ ~ Referenced(op[b].ref)'
    BY <1>6, <1>8, <2>1, <2>2 DEF OthersWait
  <2>4. QED BY <1>4, <2>3 DEF ErasedInv, Referenced
<1>17. QED BY <1>9, <1>10, <1>11, <1>12, <1>13, <1>14, <1>15, <1>16

(* What a step of a call does to the invariant.                             *)
LEMMA ContinueCore ==
    ASSUME Core, NEW a \in Apps, Continue(a)
    PROVE  Core'
<1> USE DEF Core
<1>o. op \in [Apps -> Operation] /\ op[a] \in Operation
  BY DEF TypeOK
<1>1. CASE ListReady(a)
  <2>1. PICK due \in {ready, {}} :
            Proceed(a, [op[a] EXCEPT !.step = "sweep", !.queue = due])
    BY <1>1 DEF ListReady
  <2>2. due \subseteq ready /\ due \in SUBSET References
    BY <1>o, <2>1 DEF Operation, TypeOK, Steps
  <2>3. /\ op[a].step = "list"
        /\ UNCHANGED <<revision, profile, vault, drawn, staged, ready, lost, guard, client>>
    BY <1>1 DEF ListReady, rows, secrets, pending
  <2>4. [op[a] EXCEPT !.step = "sweep", !.queue = due] \in Operation
    BY <1>o, <2>1, <2>2, <2>3 DEF Operation, Steps
  <2>5. OthersWait(a) /\ op'[a] = [op[a] EXCEPT !.step = "sweep", !.queue = due]
    BY <1>o, <2>1, <2>2, <2>4, ProceedEffect DEF OthersWait
  <2>6. /\ OthersWait(a)
        /\ SameRequest(a) /\ SameWriter(a)
        /\ op'[a].step = "sweep" /\ op'[a].queue = due /\ op'[a].ref = op[a].ref
    BY <1>o, <2>5 DEF Operation, SameRequest, SameWriter
  <2>7. TypeOK'
    BY <1>o, <2>2, <2>3, <2>6 DEF OthersWait, TypeOK
  <2>8. GuardInv' /\ ReadInv'
    BY <1>o, <2>2, <2>3, <2>6 DEF OthersWait, SameRequest, GuardInv, ReadInv
  <2>9. DrawnInv' /\ SecretInv'
    BY <1>o, <2>2, <2>3, <2>6 DEF OthersWait, SameWriter, SameCleaner, DrawnInv,
       SecretInv, TypeOK
  <2>10. LocalsInv'
    BY <1>o, <2>2, <2>3, <2>6 DEF OthersWait, SameRequest, SameWriter, SameCleaner,
       LocalsInv, GuardInv
  <2>11. CandidateInv' /\ ErasedInv'
    BY <1>o, <2>2, <2>3, <2>6 DEF OthersWait, SameRequest, SameWriter, SameCleaner,
       CandidateInv, ErasedInv, Referenced, DrawnInv, LocalsInv, TypeOK
  <2>12. QED BY <2>7, <2>8, <2>9, <2>10, <2>11
<1>2. CASE CountReferences(a)
  <2>1. PICK r \in op[a].queue :
            Proceed(a, [op[a] EXCEPT !.step = IF Referenced(r) THEN "unlist" ELSE "erase",
                                     !.ref = r, !.queue = @ \ {r}])
    BY <1>2 DEF CountReferences
  <2>2. r \in References /\ r \in op[a].queue
    BY <1>o, <2>1 DEF Operation, TypeOK, Steps
  <2>3. /\ op[a].step = "sweep"
        /\ UNCHANGED <<revision, profile, vault, drawn, staged, ready, lost, guard, client>>
    BY <1>2 DEF CountReferences, rows, secrets, pending
  <2>4. [op[a] EXCEPT !.step = IF Referenced(r) THEN "unlist" ELSE "erase",
                                     !.ref = r, !.queue = @ \ {r}] \in Operation
    BY <1>o, <2>1, <2>2, <2>3 DEF Operation, Steps
  <2>5. OthersWait(a) /\ op'[a] = [op[a] EXCEPT !.step = IF Referenced(r) THEN "unlist" ELSE "erase",
                                     !.ref = r, !.queue = @ \ {r}]
    BY <1>o, <2>1, <2>2, <2>4, ProceedEffect DEF OthersWait
  <2>6. /\ OthersWait(a)
        /\ SameRequest(a) /\ SameWriter(a)
        /\ op'[a].step = IF Referenced(r) THEN "unlist" ELSE "erase"
        /\ op'[a].queue = op[a].queue \ {r} /\ op'[a].ref = r
    BY <1>o, <2>5 DEF Operation, SameRequest, SameWriter
  <2>7. r # None
    BY <2>2, NoneAssumption
  <2>8. TypeOK'
    BY <1>o, <2>2, <2>3, <2>6, <2>7 DEF OthersWait, TypeOK
  <2>9. GuardInv' /\ ReadInv'
    BY <1>o, <2>2, <2>3, <2>6, <2>7 DEF OthersWait, SameRequest, GuardInv, ReadInv
  <2>10. DrawnInv' /\ SecretInv'
    BY <1>o, <2>2, <2>3, <2>6, <2>7 DEF OthersWait, SameWriter, SameCleaner, DrawnInv,
       SecretInv, TypeOK
  <2>11. LocalsInv'
    BY <1>o, <2>2, <2>3, <2>6, <2>7 DEF OthersWait, SameRequest, SameWriter, SameCleaner,
       LocalsInv, GuardInv
  <2>12. CandidateInv' /\ ErasedInv'
    BY <1>o, <2>2, <2>3, <2>6, <2>7 DEF OthersWait, SameRequest, SameWriter, SameCleaner,
       CandidateInv, ErasedInv, Referenced, DrawnInv, LocalsInv, TypeOK
  <2>13. QED BY <2>8, <2>9, <2>10, <2>11, <2>12
<1>3. CASE CountFails(a)
  <2>1. PICK r \in op[a].queue :
            Proceed(a, [op[a] EXCEPT !.queue = @ \ {r}])
    BY <1>3 DEF CountFails
  <2>2. r \in References
    BY <1>o, <2>1 DEF Operation, TypeOK, Steps
  <2>3. /\ op[a].step = "sweep"
        /\ UNCHANGED <<revision, profile, vault, drawn, staged, ready, lost, guard, client>>
    BY <1>3 DEF CountFails, rows, secrets, pending
  <2>4. [op[a] EXCEPT !.queue = @ \ {r}] \in Operation
    BY <1>o, <2>1, <2>2, <2>3 DEF Operation, Steps
  <2>5. OthersWait(a) /\ op'[a] = [op[a] EXCEPT !.queue = @ \ {r}]
    BY <1>o, <2>1, <2>2, <2>4, ProceedEffect DEF OthersWait
  <2>6. /\ OthersWait(a)
        /\ SameRequest(a) /\ SameWriter(a)
        /\ op'[a].step = op[a].step /\ op'[a].queue = op[a].queue \ {r} /\ op'[a].ref = op[a].ref
    BY <1>o, <2>5 DEF Operation, SameRequest, SameWriter
  <2>7. TypeOK'
    BY <1>o, <2>2, <2>3, <2>6 DEF OthersWait, TypeOK
  <2>8. GuardInv' /\ ReadInv'
    BY <1>o, <2>2, <2>3, <2>6 DEF OthersWait, SameRequest, GuardInv, ReadInv
  <2>9. DrawnInv' /\ SecretInv'
    BY <1>o, <2>2, <2>3, <2>6 DEF OthersWait, SameWriter, SameCleaner, DrawnInv,
       SecretInv, TypeOK
  <2>10. LocalsInv'
    BY <1>o, <2>2, <2>3, <2>6 DEF OthersWait, SameRequest, SameWriter, SameCleaner,
       LocalsInv, GuardInv
  <2>11. CandidateInv' /\ ErasedInv'
    BY <1>o, <2>2, <2>3, <2>6 DEF OthersWait, SameRequest, SameWriter, SameCleaner,
       CandidateInv, ErasedInv, Referenced, DrawnInv, LocalsInv, TypeOK
  <2>12. QED BY <2>7, <2>8, <2>9, <2>10, <2>11
<1>4. CASE Unlist(a)
  <2>1. /\ op[a].step = "unlist"
        /\ staged' \subseteq staged /\ \A r \in staged \ staged' : Referenced(r)
        /\ ready' \subseteq ready
        /\ UNCHANGED <<revision, profile, vault, drawn, lost, guard, client>>
    BY <1>4 DEF Unlist, rows, secrets, pending
  <2>2. [op[a] EXCEPT !.step = "sweep", !.ref = None] \in Operation
    BY <1>o, <1>4, <2>1 DEF Operation, Steps
  <2>3. OthersWait(a) /\ op'[a] = [op[a] EXCEPT !.step = "sweep", !.ref = None]
    BY <1>o, <1>4, <2>2, ProceedEffect DEF OthersWait, Unlist, NextReference
  <2>4. /\ OthersWait(a)
        /\ SameRequest(a) /\ SameWriter(a)
        /\ op'[a].step = "sweep" /\ op'[a].queue = op[a].queue /\ op'[a].ref = None
    BY <1>o, <2>3 DEF Operation, SameRequest, SameWriter
  <2>5. TypeOK'
    BY <1>o, <2>1, <2>4 DEF OthersWait, TypeOK
  <2>6. GuardInv' /\ ReadInv'
    BY <1>o, <2>1, <2>4 DEF OthersWait, SameRequest, GuardInv, ReadInv
  <2>7. DrawnInv' /\ SecretInv'
    BY <1>o, <2>1, <2>4 DEF OthersWait, SameWriter, SameCleaner, DrawnInv, SecretInv,
       TypeOK
  <2>8. LocalsInv'
    BY <1>o, <2>1, <2>4 DEF OthersWait, SameRequest, SameWriter, SameCleaner, LocalsInv,
       GuardInv
  <2>9. CandidateInv' /\ ErasedInv'
    BY <1>o, <2>1, <2>4 DEF OthersWait, SameRequest, SameWriter, SameCleaner,
       CandidateInv, ErasedInv, Referenced, DrawnInv, LocalsInv, TypeOK
  <2>10. QED BY <2>5, <2>6, <2>7, <2>8, <2>9
<1>5. CASE Forget(a)
  <2>1. /\ op[a].step = "forget"
        /\ staged' = staged \ {op[a].ref} /\ ready' = ready \ {op[a].ref}
        /\ UNCHANGED <<revision, profile, vault, drawn, lost, guard, client>>
    BY <1>5 DEF Forget, rows, secrets, pending
  <2>2. [op[a] EXCEPT !.step = "sweep", !.ref = None] \in Operation
    BY <1>o, <1>5, <2>1 DEF Operation, Steps
  <2>3. OthersWait(a) /\ op'[a] = [op[a] EXCEPT !.step = "sweep", !.ref = None]
    BY <1>o, <1>5, <2>2, ProceedEffect DEF OthersWait, Forget, NextReference
  <2>4. /\ OthersWait(a)
        /\ SameRequest(a) /\ SameWriter(a)
        /\ op'[a].step = "sweep" /\ op'[a].queue = op[a].queue /\ op'[a].ref = None
    BY <1>o, <2>3 DEF Operation, SameRequest, SameWriter
  <2>5. TypeOK'
    BY <1>o, <2>1, <2>4 DEF OthersWait, TypeOK
  <2>6. GuardInv' /\ ReadInv'
    BY <1>o, <2>1, <2>4 DEF OthersWait, SameRequest, GuardInv, ReadInv
  <2>7. DrawnInv' /\ SecretInv'
    BY <1>o, <2>1, <2>4 DEF OthersWait, SameWriter, SameCleaner, DrawnInv, SecretInv,
       TypeOK
  <2>8. LocalsInv'
    BY <1>o, <2>1, <2>4 DEF OthersWait, SameRequest, SameWriter, SameCleaner, LocalsInv,
       GuardInv
  <2>9. CandidateInv' /\ ErasedInv'
    BY <1>o, <2>1, <2>4 DEF OthersWait, SameRequest, SameWriter, SameCleaner,
       CandidateInv, ErasedInv, Referenced, DrawnInv, LocalsInv, TypeOK
  <2>10. QED BY <2>5, <2>6, <2>7, <2>8, <2>9
<1>6. CASE CleanFails(a)
  <2>1. /\ op[a].step \in {"unlist", "erase", "forget"}
        /\ UNCHANGED <<revision, profile, vault, drawn, staged, ready, lost, guard, client>>
    BY <1>6 DEF CleanFails, rows, secrets, pending
  <2>2. [op[a] EXCEPT !.step = "sweep", !.ref = None] \in Operation
    BY <1>o, <1>6, <2>1 DEF Operation, Steps
  <2>3. OthersWait(a) /\ op'[a] = [op[a] EXCEPT !.step = "sweep", !.ref = None]
    BY <1>o, <1>6, <2>2, ProceedEffect DEF OthersWait, CleanFails, NextReference
  <2>4. /\ OthersWait(a)
        /\ SameRequest(a) /\ SameWriter(a)
        /\ op'[a].step = "sweep" /\ op'[a].queue = op[a].queue /\ op'[a].ref = None
    BY <1>o, <2>3 DEF Operation, SameRequest, SameWriter
  <2>5. TypeOK'
    BY <1>o, <2>1, <2>4 DEF OthersWait, TypeOK
  <2>6. GuardInv' /\ ReadInv'
    BY <1>o, <2>1, <2>4 DEF OthersWait, SameRequest, GuardInv, ReadInv
  <2>7. DrawnInv' /\ SecretInv'
    BY <1>o, <2>1, <2>4 DEF OthersWait, SameWriter, SameCleaner, DrawnInv, SecretInv,
       TypeOK
  <2>8. LocalsInv'
    BY <1>o, <2>1, <2>4 DEF OthersWait, SameRequest, SameWriter, SameCleaner, LocalsInv,
       GuardInv
  <2>9. CandidateInv' /\ ErasedInv'
    BY <1>o, <2>1, <2>4 DEF OthersWait, SameRequest, SameWriter, SameCleaner,
       CandidateInv, ErasedInv, Referenced, DrawnInv, LocalsInv, TypeOK
  <2>10. QED BY <2>5, <2>6, <2>7, <2>8, <2>9
<1>7. CASE Erase(a)
  <2>1. /\ op[a].step = "erase"
        /\ vault' = [vault EXCEPT ![op[a].ref] = None]
        /\ UNCHANGED <<revision, profile, drawn, staged, ready, lost, guard, client>>
    BY <1>7 DEF Erase, rows, secrets, pending
  <2>2. [op[a] EXCEPT !.step = "forget"] \in Operation
    BY <1>o, <1>7, <2>1 DEF Operation, Steps
  <2>3. OthersWait(a) /\ op'[a] = [op[a] EXCEPT !.step = "forget"]
    BY <1>o, <1>7, <2>2, ProceedEffect DEF OthersWait, Erase, Goto
  <2>4. /\ OthersWait(a)
        /\ SameRequest(a) /\ SameWriter(a) /\ SameCleaner(a)
        /\ op'[a].step = "forget"
    BY <1>o, <2>3 DEF Operation, SameRequest, SameWriter, SameCleaner
  <2>5. op[a].ref \in References /\ ~ Referenced(op[a].ref)
    BY <1>o, <2>1, <2>4 DEF LocalsInv, ErasedInv, Operation
  <2>6. /\ vault'[op[a].ref] = None /\ \A r \in References \ {op[a].ref} : vault'[r] = vault[r]
        /\ \A c \in Connections : profile[c].reference \in (References \cup {None}) \ {op[a].ref}
    BY <1>o, <2>1, <2>4, <2>5 DEF TypeOK, Referenced, DrawnInv
  <2>7. TypeOK'
    BY <1>o, <2>1, <2>4, <2>5, <2>6 DEF OthersWait, TypeOK
  <2>8. GuardInv' /\ ReadInv'
    BY <1>o, <2>1, <2>4, <2>5, <2>6 DEF OthersWait, SameRequest, GuardInv, ReadInv
  <2>9. DrawnInv' /\ SecretInv'
    BY <1>o, <2>1, <2>4, <2>5, <2>6 DEF OthersWait, SameWriter, SameCleaner, DrawnInv,
       SecretInv, TypeOK
  <2>10. LocalsInv'
    BY <1>o, <2>1, <2>4, <2>5, <2>6 DEF OthersWait, SameRequest, SameWriter, SameCleaner,
       LocalsInv, GuardInv
  <2>11. CandidateInv' /\ ErasedInv'
    BY <1>o, <2>1, <2>4, <2>5, <2>6 DEF OthersWait, SameRequest, SameWriter, SameCleaner,
       CandidateInv, ErasedInv, Referenced, DrawnInv, LocalsInv, TypeOK
  <2>12. QED BY <2>7, <2>8, <2>9, <2>10, <2>11
<1>8. CASE Stage(a)
  <2>1. /\ op[a].step = "stage"
        /\ staged' = staged \cup {op[a].fresh}
        /\ UNCHANGED <<revision, profile, vault, drawn, ready, lost, guard, client>>
    BY <1>8 DEF Stage, rows, secrets, pending
  <2>2. op[a].fresh \in drawn /\ op[a].fresh # None
    BY <1>o, <2>1 DEF LocalsInv, DrawnInv
  <2>3. [op[a] EXCEPT !.step = "commit"] \in Operation
    BY <1>o, <1>8, <2>1, <2>2 DEF Operation, Steps
  <2>4. OthersWait(a) /\ op'[a] = [op[a] EXCEPT !.step = "commit"]
    BY <1>o, <1>8, <2>3, ProceedEffect DEF OthersWait, Stage, Goto
  <2>5. /\ OthersWait(a)
        /\ SameRequest(a) /\ SameWriter(a) /\ SameCleaner(a)
        /\ op'[a].step = "commit"
    BY <1>o, <2>4 DEF Operation, SameRequest, SameWriter, SameCleaner
  <2>6. TypeOK'
    BY <1>o, <2>1, <2>5, <2>2 DEF OthersWait, TypeOK
  <2>7. GuardInv' /\ ReadInv'
    BY <1>o, <2>1, <2>5, <2>2 DEF OthersWait, SameRequest, GuardInv, ReadInv
  <2>8. DrawnInv' /\ SecretInv'
    BY <1>o, <2>1, <2>5, <2>2 DEF OthersWait, SameWriter, SameCleaner, DrawnInv,
       SecretInv, TypeOK
  <2>9. LocalsInv'
    BY <1>o, <2>1, <2>5, <2>2 DEF OthersWait, SameRequest, SameWriter, SameCleaner,
       LocalsInv, GuardInv
  <2>10. CandidateInv' /\ ErasedInv'
    BY <1>o, <2>1, <2>5, <2>2 DEF OthersWait, SameRequest, SameWriter, SameCleaner,
       CandidateInv, ErasedInv, Referenced, DrawnInv, LocalsInv, TypeOK
  <2>11. QED BY <2>6, <2>7, <2>8, <2>9, <2>10
<1>9. CASE StageFails(a)
  <2>1. /\ op[a].step = "stage"
        /\ staged' \in {staged, staged \cup {op[a].fresh}}
        /\ UNCHANGED <<revision, profile, vault, drawn, ready, lost, guard, client>>
    BY <1>9 DEF StageFails, rows, secrets, pending
  <2>2. op[a].fresh \in drawn /\ op[a].fresh # None
    BY <1>o, <2>1 DEF LocalsInv, DrawnInv
  <2>3. [op[a] EXCEPT !.step = "schedule"] \in Operation
    BY <1>o, <1>9, <2>1, <2>2 DEF Operation, Steps
  <2>4. OthersWait(a) /\ op'[a] = [op[a] EXCEPT !.step = "schedule"]
    BY <1>o, <1>9, <2>3, ProceedEffect DEF OthersWait, StageFails, Goto
  <2>5. /\ OthersWait(a)
        /\ SameRequest(a) /\ SameWriter(a) /\ SameCleaner(a)
        /\ op'[a].step = "schedule"
    BY <1>o, <2>4 DEF Operation, SameRequest, SameWriter, SameCleaner
  <2>6. TypeOK'
    BY <1>o, <2>1, <2>5, <2>2 DEF OthersWait, TypeOK
  <2>7. GuardInv' /\ ReadInv'
    BY <1>o, <2>1, <2>5, <2>2 DEF OthersWait, SameRequest, GuardInv, ReadInv
  <2>8. DrawnInv' /\ SecretInv'
    BY <1>o, <2>1, <2>5, <2>2 DEF OthersWait, SameWriter, SameCleaner, DrawnInv,
       SecretInv, TypeOK
  <2>9. LocalsInv'
    BY <1>o, <2>1, <2>5, <2>2 DEF OthersWait, SameRequest, SameWriter, SameCleaner,
       LocalsInv, GuardInv
  <2>10. CandidateInv' /\ ErasedInv'
    BY <1>o, <2>1, <2>5, <2>2 DEF OthersWait, SameRequest, SameWriter, SameCleaner,
       CandidateInv, ErasedInv, Referenced, DrawnInv, LocalsInv, TypeOK
  <2>11. QED BY <2>6, <2>7, <2>8, <2>9, <2>10
<1>10. CASE ReadRecord(a)
  <2>1. /\ op[a].step = "read"
        /\ profile[op[a].conn].revision = op[a].expected
        /\ \/ op[a].secret
           \/ op[a].endpoint \in {FileEndpoint, profile[op[a].conn].endpoint}
           \/ profile[op[a].conn].reference = None
        /\ UNCHANGED <<revision, profile, vault, drawn, staged, ready, lost, guard, client>>
    BY <1>10 DEF ReadRecord, rows, secrets, pending
  <2>2. /\ op[a].conn \in Connections
        /\ profile[op[a].conn].reference \in (References \cup {None}) \cap (drawn \cup {None})
    BY <1>o, <2>1 DEF GuardInv, DrawnInv, TypeOK, Profile, Absent
  <2>3. [op[a] EXCEPT !.old = profile[op[a].conn].reference, !.step = AfterRead(a)] \in Operation
    <3>1. AfterRead(a) \in Steps /\ op[a] \in Operation
      BY <1>o DEF Steps, AfterRead
    <3>2. profile[op[a].conn].reference \in References \cup {None}
      BY <2>2
    <3>3. QED BY <3>1, <3>2 DEF Operation
  <2>4. OthersWait(a) /\ op'[a] = [op[a] EXCEPT !.old = profile[op[a].conn].reference, !.step = AfterRead(a)]
    BY <1>o, <1>10, <2>3, ProceedEffect DEF OthersWait, ReadRecord
  <2>5. /\ OthersWait(a)
        /\ SameRequest(a) /\ SameCleaner(a)
        /\ op'[a].step = AfterRead(a) /\ op'[a].old = profile[op[a].conn].reference
        /\ op'[a].fresh = op[a].fresh
    BY <1>o, <2>4 DEF Operation, SameRequest, SameCleaner
  <2>6. /\ op[a].kind = "save" /\ ~ op[a].done /\ op[a].expected # 0 /\ op[a].fresh = None
        /\ AfterRead(a) \in {"put", "commit"}
        /\ AfterRead(a) = "commit" => ~ op[a].secret \/ op[a].endpoint = FileEndpoint
    BY <1>o, <2>1, <2>5, <2>2 DEF LocalsInv, AfterRead
  <2>7. TypeOK'
    BY <1>o, <2>1, <2>5, <2>2, <2>6 DEF OthersWait, TypeOK
  <2>8. GuardInv' /\ ReadInv'
    BY <1>o, <2>1, <2>5, <2>2, <2>6 DEF OthersWait, SameRequest, GuardInv, ReadInv
  <2>9. DrawnInv' /\ SecretInv'
    BY <1>o, <2>1, <2>5, <2>2, <2>6 DEF OthersWait, SameWriter, SameCleaner, DrawnInv,
       SecretInv, TypeOK
  <2>10. LocalsInv'
    BY <1>o, <2>1, <2>5, <2>2, <2>6 DEF OthersWait, SameRequest, SameWriter, SameCleaner,
       LocalsInv, GuardInv
  <2>11. CandidateInv' /\ ErasedInv'
    BY <1>o, <2>1, <2>5, <2>2, <2>6 DEF OthersWait, SameRequest, SameWriter, SameCleaner,
       CandidateInv, ErasedInv, Referenced, DrawnInv, LocalsInv, TypeOK
  <2>12. QED BY <2>7, <2>8, <2>9, <2>10, <2>11
<1>11. CASE Put(a)
  <2>1. PICK r \in References \ drawn :
            drawn' = drawn \cup {r} /\ vault' = [vault EXCEPT ![r] = op[a].endpoint]
            /\ Proceed(a, [op[a] EXCEPT !.step = "stage", !.fresh = r])
    BY <1>11 DEF Put, secrets
  <2>2. /\ op[a].step = "put"
        /\ UNCHANGED <<revision, profile, staged, ready, lost, guard, client>>
    BY <1>11 DEF Put, rows, secrets, pending
  <2>3. [op[a] EXCEPT !.step = "stage", !.fresh = r] \in Operation
    BY <1>o, <2>1, <2>2 DEF Operation, Steps
  <2>4. OthersWait(a) /\ op'[a] = [op[a] EXCEPT !.step = "stage", !.fresh = r]
    BY <1>o, <2>1, <2>3, ProceedEffect DEF OthersWait
  <2>5. /\ OthersWait(a)
        /\ SameRequest(a) /\ SameCleaner(a)
        /\ op'[a].step = "stage" /\ op'[a].fresh = r /\ op'[a].old = op[a].old
    BY <1>o, <2>4 DEF Operation, SameRequest, SameCleaner
  <2>6. r # None /\ op[a].endpoint \in Endpoints /\ op[a].endpoint # None /\ ~ Referenced(r)
    BY <1>o, <2>1, <2>2, <2>5, NoneAssumption DEF LocalsInv, DrawnInv, Referenced
  <2>7. TypeOK'
    BY <1>o, <2>1, <2>2, <2>5, <2>6 DEF OthersWait, TypeOK
  <2>8. GuardInv' /\ ReadInv'
    BY <1>o, <2>1, <2>2, <2>5, <2>6 DEF OthersWait, SameRequest, GuardInv, ReadInv
  <2>9. DrawnInv' /\ SecretInv'
    BY <1>o, <2>1, <2>2, <2>5, <2>6 DEF OthersWait, SameWriter, SameCleaner, DrawnInv,
       SecretInv, TypeOK
  <2>10. LocalsInv'
    BY <1>o, <2>1, <2>2, <2>5, <2>6 DEF OthersWait, SameRequest, SameWriter, SameCleaner,
       LocalsInv, GuardInv
  <2>11. CandidateInv' /\ ErasedInv'
    BY <1>o, <2>1, <2>2, <2>5, <2>6 DEF OthersWait, SameRequest, SameWriter, SameCleaner,
       CandidateInv, ErasedInv, Referenced, DrawnInv, LocalsInv, TypeOK
  <2>12. QED BY <2>7, <2>8, <2>9, <2>10, <2>11
<1>12. CASE Schedule(a)
  <2>1. /\ op[a].step = "schedule"
        /\ staged' = staged \ {op[a].fresh} /\ ready' = ready \cup {op[a].fresh}
        /\ UNCHANGED <<revision, profile, vault, drawn, lost, guard, client>>
    BY <1>12 DEF Schedule, rows, secrets, pending
  <2>2. op[a].fresh \in drawn /\ op[a].fresh # None /\ op[a].fresh \in References /\ op[a].conn \in Connections
    BY <1>o, <2>1 DEF LocalsInv, DrawnInv, GuardInv, TypeOK
  <2>3. [Idle EXCEPT !.step = "sweep", !.conn = op[a].conn,
                                     !.done = TRUE, !.queue = {op[a].fresh}] \in Operation
    BY <1>o, <1>12, <2>1, <2>2 DEF Operation, Steps, Idle
  <2>4. OthersWait(a) /\ op'[a] = [Idle EXCEPT !.step = "sweep", !.conn = op[a].conn,
                                     !.done = TRUE, !.queue = {op[a].fresh}]
    BY <1>o, <1>12, <2>3, ProceedEffect DEF OthersWait, Schedule, CleanAndReturn
  <2>5. /\ OthersWait(a)
        /\ op'[a].step = "sweep" /\ op'[a].kind = "save" /\ op'[a].done
        /\ op'[a].conn = op[a].conn /\ op'[a].old = None /\ op'[a].fresh = None
        /\ op'[a].queue = {op[a].fresh} /\ op'[a].ref = None
    BY <1>o, <2>4 DEF Idle
  <2>6. TypeOK'
    BY <1>o, <2>1, <2>5, <2>2 DEF OthersWait, TypeOK
  <2>7. GuardInv' /\ ReadInv'
    BY <1>o, <2>1, <2>5, <2>2 DEF OthersWait, SameRequest, GuardInv, ReadInv
  <2>8. DrawnInv' /\ SecretInv'
    BY <1>o, <2>1, <2>5, <2>2 DEF OthersWait, SameWriter, SameCleaner, DrawnInv,
       SecretInv, TypeOK
  <2>9. LocalsInv'
    BY <1>o, <2>1, <2>5, <2>2 DEF OthersWait, SameRequest, SameWriter, SameCleaner,
       LocalsInv, GuardInv
  <2>10. CandidateInv' /\ ErasedInv'
    BY <1>o, <2>1, <2>5, <2>2 DEF OthersWait, SameRequest, SameWriter, SameCleaner,
       CandidateInv, ErasedInv, Referenced, DrawnInv, LocalsInv, TypeOK
  <2>11. QED BY <2>6, <2>7, <2>8, <2>9, <2>10
<1>13. CASE ReadFails(a)
  BY <1>13, FinishCore DEF ReadFails, TypeOK
<1>14. CASE PutFails(a)
  BY <1>14, FinishCore DEF PutFails, TypeOK
<1>15. CASE ScheduleFails(a)
  <2>1. lost' \in SUBSET References
    BY <1>o, <1>15 DEF ScheduleFails, Untracked, TypeOK, Operation
  <2>2. QED BY <1>15, <2>1, FinishCore DEF ScheduleFails
<1>16. CASE Abandon(a)
  <2>1. lost' \in SUBSET References
    BY <1>o, <1>16 DEF Abandon, Untracked, TypeOK, Operation
  <2>2. QED BY <1>16, <2>1, FinishCore DEF Abandon
<1>17. CASE SweepDone(a)
  BY <1>17, SweepDoneCore
<1>18. CASE Commit(a)
  BY <1>18, CommitCore DEF Commit
<1>19. CASE CommitUnconfirmed(a)
  BY <1>19, CommitCore DEF CommitUnconfirmed
<1>20. CASE CommitFails(a)
  BY <1>20, GiveUpCore DEF CommitFails
<1>21. QED
  BY <1>1, <1>2, <1>3, <1>4, <1>5, <1>6, <1>7, <1>8, <1>9, <1>10, <1>11, <1>12, <1>13,
     <1>14, <1>15, <1>16, <1>17, <1>18, <1>19, <1>20 DEF Continue

(* A call begins as o: its connection was free, and nothing else knows of   *)
(* it.                                                                      *)
LEMMA AcquireCore ==
    ASSUME Core, NEW a \in Apps, NEW c \in Connections, NEW o \in Operation,
           op[a].step = "idle", AcquireMutationGuard(a, c), Proceed(a, o),
           o.step = "list", o.conn = c, ~ o.done, o.queue = {},
           o.old = None, o.fresh = None, o.ref = None,
           o.kind = "save" => o.endpoint \in Endpoints,
           UNCHANGED <<rows, secrets, pending, lost, client>>
    PROVE  Core'
<1> USE DEF Core
<1>1. OthersWait(a) /\ op'[a] = o
  BY ProceedEffect DEF OthersWait, TypeOK
<1>2. /\ guard[c] = None /\ ~ InUse(c) /\ guard' = [guard EXCEPT ![c] = a]
      /\ UNCHANGED <<revision, profile, vault, drawn, staged, ready, lost, client>>
  BY DEF AcquireMutationGuard, rows, secrets, pending
<1>3. \A b \in Apps : b # None
  BY NoneAssumption
<1>4. TypeOK'
  BY <1>1, <1>2 DEF OthersWait, TypeOK
<1>5. GuardInv' /\ ReadInv'
  BY <1>1, <1>2, <1>3 DEF OthersWait, GuardInv, ReadInv, InUse, TypeOK
<1>6. DrawnInv' /\ SecretInv'
  BY <1>1, <1>2 DEF OthersWait, DrawnInv, SecretInv
<1>7. LocalsInv'
  BY <1>1, <1>2 DEF OthersWait, LocalsInv
<1>8. CandidateInv' /\ ErasedInv'
  BY <1>1, <1>2 DEF OthersWait, CandidateInv, ErasedInv, Referenced, LocalsInv
<1>9. QED BY <1>4, <1>5, <1>6, <1>7, <1>8

LEMMA BeginCore ==
    ASSUME Core, NEW a \in Apps, Begin(a)
    PROVE  Core'
<1>1. PICK c \in Connections, expected \in 0..revision :
          \/ \E endpoint \in Endpoints, secret \in BOOLEAN :
                 BeginSave(a, c, expected, endpoint, secret)
          \/ BeginDelete(a, c, expected)
  BY DEF Begin
<1>2. expected \in Nat
  BY DEF Core, TypeOK
<1>3. ASSUME NEW endpoint \in Endpoints, NEW secret \in BOOLEAN,
             BeginSave(a, c, expected, endpoint, secret)
      PROVE  Core'
  <2> DEFINE o == [Idle EXCEPT !.step = "list", !.conn = c, !.secret = secret,
                               !.expected = expected, !.endpoint = endpoint]
  <2>1. o \in Operation
    BY <1>2 DEF Operation, Idle, Steps
  <2>2. /\ o.step = "list" /\ o.conn = c /\ ~ o.done /\ o.queue = {}
        /\ o.old = None /\ o.fresh = None /\ o.ref = None /\ o.endpoint \in Endpoints
    BY DEF Idle
  <2>3. /\ op[a].step = "idle" /\ AcquireMutationGuard(a, c) /\ Proceed(a, o)
        /\ UNCHANGED <<rows, secrets, pending, lost, client>>
    BY <1>3 DEF BeginSave
  <2> HIDE DEF o
  <2>4. QED BY <2>1, <2>2, <2>3, AcquireCore
<1>4. ASSUME BeginDelete(a, c, expected)
      PROVE  Core'
  <2> DEFINE o == [Idle EXCEPT !.step = "list", !.kind = "delete", !.conn = c,
                               !.expected = expected]
  <2>1. o \in Operation
    BY <1>2 DEF Operation, Idle, Steps
  <2>2. /\ o.step = "list" /\ o.conn = c /\ ~ o.done /\ o.queue = {}
        /\ o.old = None /\ o.fresh = None /\ o.ref = None /\ o.kind # "save"
    BY DEF Idle
  <2>3. /\ op[a].step = "idle" /\ AcquireMutationGuard(a, c) /\ Proceed(a, o)
        /\ UNCHANGED <<rows, secrets, pending, lost, client>>
    BY <1>4 DEF BeginDelete
  <2> HIDE DEF o
  <2>4. QED BY <2>1, <2>2, <2>3, AcquireCore
<1>5. QED BY <1>1, <1>3, <1>4

(* An MCP server reads under its shared lock.                               *)
LEMMA UseCore ==
    ASSUME Core, NEW k \in Clients, Use(k)
    PROVE  Core'
<1> USE DEF Core
<1>1. client \in [Clients -> Client] /\ UNCHANGED <<rows, secrets, pending, lost, guard, op>>
  BY DEF Use, AcquireUsage, ReadProfile, OpenDriver, ReleaseUsage, TypeOK
<1>2. UNCHANGED <<revision, profile, vault, drawn, staged, ready, lost, guard, op>>
  BY <1>1 DEF rows, secrets, pending
<1>3. /\ client' \in [Clients -> Client] /\ \A j \in Clients \ {k} : client'[j] = client[j]
      /\ client'[k].step # "idle" =>
             client'[k].conn \in Connections /\ guard[client'[k].conn] = None
      /\ client'[k].step \in {"read", "open"} =>
             profile[client'[k].conn] = client'[k].record
  <2>1. CASE \E c \in Connections : AcquireUsage(k, c)
    <3>1. PICK c \in Connections : AcquireUsage(k, c)
      BY <2>1
    <3>2. [Unused EXCEPT !.step = "leased", !.conn = c] \in Client
      BY DEF Unused, Client, Profile
    <3>3. /\ client' = [client EXCEPT ![k] = [Unused EXCEPT !.step = "leased", !.conn = c]]
          /\ guard[c] = None
      BY <3>1 DEF AcquireUsage
    <3>4. QED BY <1>1, <3>2, <3>3 DEF Unused
  <2>2. CASE ReadProfile(k)
    <3>1. /\ client[k].step = "leased" /\ client[k] \in Client
          /\ client' = [client EXCEPT ![k].step = "read", ![k].record = profile[client[k].conn]]
      BY <1>1, <2>2 DEF ReadProfile
    <3> QED BY <1>1, <3>1 DEF GuardInv, Client, TypeOK
  <2>3. CASE OpenDriver(k)
    BY <1>1, <2>3 DEF OpenDriver, GuardInv, ReadInv, Client
  <2>4. CASE ReleaseUsage(k)
    BY <1>1, <2>4, IdleType DEF ReleaseUsage, Unused
  <2>5. QED BY <2>1, <2>2, <2>3, <2>4 DEF Use
<1>4. TypeOK'
  BY <1>2, <1>3 DEF TypeOK
<1>5. GuardInv' /\ ReadInv'
  BY <1>2, <1>3 DEF GuardInv, ReadInv
<1>6. DrawnInv' /\ SecretInv' /\ LocalsInv' /\ CandidateInv' /\ ErasedInv'
  BY <1>2 DEF DrawnInv, SecretInv, LocalsInv, CandidateInv, ErasedInv, Referenced
<1>7. QED BY <1>4, <1>5, <1>6

LEMMA StutterCore ==
    ASSUME Core, UNCHANGED vars
    PROVE  Core'
  BY DEF Core, vars, rows, secrets, pending, TypeOK, GuardInv, ReadInv, DrawnInv,
     SecretInv,
     LocalsInv, CandidateInv, ErasedInv, Referenced

-----------------------------------------------------------------------------
(* Forgotten secrets                                                        *)

(* A call that holds a secret and will list it                              *)
Holds(a, r) == op[a].step \in {"stage", "schedule"} /\ op[a].fresh = r

LEMMA ProceedOthers ==
    ASSUME op \in [Apps -> Operation], NEW a \in Apps, NEW o, Proceed(a, o)
    PROVE  \A b \in Apps \ {a} : op'[b] = op[b]
  BY DEF Proceed

(* A step of one call leaves the secrets the other calls hold in their      *)
(* hands.                                                                   *)
LEMMA ContinueOthers ==
    ASSUME op \in [Apps -> Operation], NEW a \in Apps, Continue(a)
    PROVE  \A b \in Apps \ {a} : op'[b] = op[b]
<1> USE ProceedOthers
<1>1. CASE SweepDone(a)
  BY <1>1 DEF SweepDone, Finish, Goto
<1>2. CASE Commit(a) \/ CommitUnconfirmed(a) \/ CommitFails(a)
  BY <1>2 DEF Commit, CommitUnconfirmed, CommitFails, CleanAndReturn, GiveUp, Finish, Goto
<1>3. CASE ListReady(a) \/ CountReferences(a) \/ CountFails(a) \/ ReadRecord(a) \/ Put(a)
  BY <1>3 DEF ListReady, CountReferences, CountFails, ReadRecord, Put
<1>4. CASE Unlist(a) \/ Forget(a) \/ CleanFails(a)
  BY <1>4 DEF Unlist, Forget, CleanFails, NextReference
<1>5. CASE Erase(a) \/ Stage(a) \/ StageFails(a)
  BY <1>5 DEF Erase, Stage, StageFails, Goto
<1>6. CASE ReadFails(a) \/ PutFails(a) \/ ScheduleFails(a) \/ Abandon(a)
  BY <1>6 DEF ReadFails, PutFails, ScheduleFails, Abandon, Finish
<1>7. CASE Schedule(a)
  BY <1>7 DEF Schedule, CleanAndReturn
<1>8. QED BY <1>1, <1>2, <1>3, <1>4, <1>5, <1>6, <1>7 DEF Continue

(* A step that changes neither rows, secrets nor lists, of a call that      *)
(* holds no secret.                                                         *)
LEMMA QuietSecrets ==
    ASSUME NoForgottenSecret, NEW a \in Apps, op[a].step \notin {"stage", "schedule"},
           \A b \in Apps \ {a} : op'[b] = op[b],
           UNCHANGED <<rows, secrets, pending, lost>>
    PROVE  NoForgottenSecret'
<1>1. UNCHANGED <<profile, vault, staged, ready, lost>>
  BY DEF rows, secrets, pending
<1>2. QED BY <1>1 DEF NoForgottenSecret, Referenced

(* A step that takes a secret over from the call that held it.              *)
LEMMA HeldSecrets ==
    ASSUME NoForgottenSecret, NEW a \in Apps,
           \A b \in Apps \ {a} : op'[b] = op[b],
           UNCHANGED <<profile, vault>>,
           staged \cup ready \cup lost \subseteq staged' \cup ready' \cup lost',
           \A r \in References : Holds(a, r) =>
               Holds(a, r)' \/ Referenced(r) \/ r \in staged' \cup ready' \cup lost'
    PROVE  NoForgottenSecret'
  BY DEF NoForgottenSecret, Referenced, Holds

LEMMA ContinueSecrets ==
    ASSUME Core, NoForgottenSecret, NEW a \in Apps, Continue(a)
    PROVE  NoForgottenSecret'
<1>o. op \in [Apps -> Operation] /\ op[a] \in Operation
  BY DEF Core, TypeOK
<1>b. \A b \in Apps \ {a} : op'[b] = op[b]
  BY <1>o, ContinueOthers
<1>1. CASE \/ ListReady(a) \/ CountReferences(a) \/ CountFails(a) \/ CleanFails(a)
           \/ SweepDone(a) \/ ReadRecord(a) \/ ReadFails(a) \/ PutFails(a) \/ CommitFails(a)
  <2>1. op[a].step \notin {"stage", "schedule"} /\ UNCHANGED <<rows, secrets, pending, lost>>
    BY <1>1 DEF ListReady, CountReferences, CountFails, CleanFails, SweepDone, ReadRecord,
       ReadFails, PutFails, CommitFails
  <2>2. QED BY <1>b, <2>1, QuietSecrets
<1>2. CASE Unlist(a)
  <2>1. /\ op[a].step = "unlist" /\ UNCHANGED <<profile, vault, lost>>
        /\ staged \subseteq staged' \cup {r \in {op[a].ref} : Referenced(r)}
        /\ ready \subseteq ready' \cup {r \in {op[a].ref} : Referenced(r)}
    BY <1>2 DEF Unlist, rows, secrets
  <2>2. QED BY <1>b, <2>1 DEF NoForgottenSecret, Referenced
<1>3. CASE Erase(a)
  <2>1. /\ op[a].step = "erase" /\ UNCHANGED <<profile, staged, ready, lost>>
        /\ \A r \in References : vault'[r] # None => vault[r] # None
    BY <1>3 DEF Erase, rows, pending, Core, TypeOK
  <2>2. QED BY <1>b, <2>1 DEF NoForgottenSecret, Referenced
<1>4. CASE Forget(a)
  <2>1. /\ op[a].step = "forget" /\ UNCHANGED <<profile, vault, lost>>
        /\ staged' = staged \ {op[a].ref} /\ ready' = ready \ {op[a].ref}
        /\ vault[op[a].ref] = None
    BY <1>4 DEF Forget, rows, secrets, Core, ErasedInv
  <2>2. QED BY <1>b, <2>1 DEF NoForgottenSecret, Referenced
<1>5. CASE Put(a)
  <2>1. PICK r \in References \ drawn :
            /\ vault' = [vault EXCEPT ![r] = op[a].endpoint]
            /\ Proceed(a, [op[a] EXCEPT !.step = "stage", !.fresh = r])
    BY <1>5 DEF Put
  <2>2. [op[a] EXCEPT !.step = "stage", !.fresh = r] \in Operation
    BY <1>o, <2>1 DEF Operation, Steps
  <2>3. op'[a] = [op[a] EXCEPT !.step = "stage", !.fresh = r]
    BY <1>o, <2>1, <2>2, ProceedEffect
  <2>4. op'[a].step = "stage" /\ op'[a].fresh = r
    BY <1>o, <2>3 DEF Operation
  <2>5. op[a].step = "put" /\ UNCHANGED <<profile, staged, ready, lost>>
    BY <1>5 DEF Put, rows, pending
  <2>6. \A q \in References \ {r} : vault'[q] = vault[q]
    BY <2>1 DEF Core, TypeOK
  <2>7. QED BY <1>b, <2>4, <2>5, <2>6 DEF NoForgottenSecret, Referenced
<1>6. CASE Stage(a) \/ Schedule(a)
  <2>1. /\ UNCHANGED <<profile, vault, lost>>
        /\ staged \cup ready \cup {op[a].fresh} \subseteq staged' \cup ready'
    BY <1>6 DEF Stage, Schedule, rows, secrets
  <2>2. QED BY <1>b, <2>1, HeldSecrets DEF Holds
<1>7. CASE StageFails(a)
  <2>1. op'[a] = [op[a] EXCEPT !.step = "schedule"]
    BY <1>o, <1>7, GotoEffect DEF StageFails, Steps
  <2>2. op'[a].step = "schedule" /\ op'[a].fresh = op[a].fresh
    BY <1>o, <2>1 DEF Operation
  <2>3. UNCHANGED <<profile, vault, ready, lost>> /\ staged \subseteq staged'
    BY <1>7 DEF StageFails, rows, secrets
  <2>4. QED BY <1>b, <2>2, <2>3, HeldSecrets DEF Holds
<1>8. CASE ScheduleFails(a) \/ Abandon(a)
  <2>1. /\ UNCHANGED <<profile, vault, staged, ready>> /\ lost \subseteq lost'
        /\ op[a].step \in {"stage", "schedule"} => Untracked(a) \subseteq lost'
    BY <1>8 DEF ScheduleFails, Abandon, rows, secrets, pending
  <2>2. \A r \in References : Holds(a, r) =>
            Referenced(r) \/ r \in staged' \cup ready' \cup lost'
    BY <2>1, NoneAssumption DEF Holds, Untracked
  <2>3. QED BY <1>b, <2>1, <2>2, HeldSecrets
<1>9. CASE Commit(a) \/ CommitUnconfirmed(a)
  <2>1. WriteRows(a) /\ UNCHANGED <<vault, lost>>
    BY <1>9 DEF Commit, CommitUnconfirmed, secrets
  <2> DEFINE c == op[a].conn
             n == NewReference(a)
             old == profile[c].reference
  <2>2. /\ c \in Connections /\ Dropped(a) = {old} \ {None, n} /\ profile \in [Connections -> Profile]
        /\ \E p \in Profile : profile' = [profile EXCEPT ![c] = p] /\ p.reference = n
    BY <2>1, WriteEffect DEF Core, TypeOK
  <2>3. profile'[c].reference = n /\ \A d \in Connections \ {c} : profile'[d] = profile[d]
    BY <2>2
  <2>4. /\ op[a].step = "commit" /\ staged' = staged \ {n}
        /\ ready' = (ready \cup (({old} \ {None, n}) \ staged)) \ {n}
    BY <2>1, <2>2 DEF WriteRows
  <2>5. \A r \in References : Referenced(r) => Referenced(r)' \/ r = old
    BY <2>2, <2>3 DEF Referenced
  <2>6. \E d \in Connections : profile'[d].reference = n
    BY <2>2, <2>3
  <2> HIDE DEF c, n, old
  <2>7. \A r \in References : r # None
    BY NoneAssumption
  <2>8. SUFFICES ASSUME NEW r \in References, vault'[r] # None, r # n
                 PROVE  \/ Referenced(r)'
                        \/ r \in staged' \cup ready' \cup lost
                        \/ \E b \in Apps \ {a} : Holds(b, r)
    BY <1>b, <2>1, <2>6 DEF NoForgottenSecret, Referenced, Holds
  <2>9. \/ Referenced(r) \/ r \in staged \cup ready \cup lost
        \/ \E b \in Apps \ {a} : Holds(b, r)
    BY <2>1, <2>4, <2>8 DEF NoForgottenSecret, Holds
  <2>10. QED BY <2>4, <2>5, <2>7, <2>8, <2>9
<1>10. QED
  BY <1>1, <1>2, <1>3, <1>4, <1>5, <1>6, <1>7, <1>8, <1>9 DEF Continue

-----------------------------------------------------------------------------
(* The theorems                                                             *)

LEMMA InitInv == Init => IInv
<1>1. Init => NoForgottenSecret
  BY DEF Init, NoForgottenSecret
<1>2. QED BY <1>1, InitCore DEF IInv

LEMMA NextInv == IInv /\ [Next]_vars => IInv'
<1> SUFFICES ASSUME IInv, [Next]_vars PROVE IInv'
  OBVIOUS
<1>o. Core /\ NoForgottenSecret
  BY DEF IInv
<1>1. ASSUME NEW a \in Apps, Begin(a) PROVE IInv'
  <2>1. op[a].step = "idle" /\ UNCHANGED <<rows, secrets, pending, lost>>
    BY <1>1 DEF Begin, BeginSave, BeginDelete
  <2>2. \A b \in Apps \ {a} : op'[b] = op[b]
    BY <1>o, <1>1, ProceedOthers DEF Begin, BeginSave, BeginDelete, Core, TypeOK
  <2>3. QED BY <1>o, <1>1, <2>1, <2>2, BeginCore, QuietSecrets DEF IInv
<1>2. ASSUME NEW a \in Apps, Continue(a) PROVE IInv'
  BY <1>o, <1>2, ContinueCore, ContinueSecrets DEF IInv
<1>3. ASSUME NEW k \in Clients, Use(k) PROVE IInv'
  <2>1. UNCHANGED <<profile, vault, staged, ready, lost, op>>
    BY <1>3 DEF Use, AcquireUsage, ReadProfile, OpenDriver, ReleaseUsage, rows, secrets,
       pending
  <2>2. NoForgottenSecret'
    BY <1>o, <2>1 DEF NoForgottenSecret, Referenced
  <2>3. QED BY <1>o, <1>3, <2>2, UseCore DEF IInv
<1>4. ASSUME UNCHANGED vars PROVE IInv'
  <2>1. NoForgottenSecret'
    BY <1>o, <1>4 DEF NoForgottenSecret, Referenced, vars, rows, secrets, pending
  <2>2. QED BY <1>o, <1>4, <2>1, StutterCore DEF IInv
<1>5. QED BY <1>1, <1>2, <1>3, <1>4 DEF Next

LEMMA InvHolds == Spec => []IInv
  BY InitInv, NextInv, PTL DEF Spec

(* Every variable keeps its type.                                           *)
THEOREM TypeCorrect == Spec => []TypeOK
<1>1. IInv => TypeOK
  BY DEF IInv, Core
<1>2. QED BY <1>1, InvHolds, PTL

(* The secret a profile names is in the vault, whatever the cleanups of     *)
(* other processes erase (mutations.rs cleanup_credential_with_pool).       *)
THEOREM ReferencesResolve == Spec => []NoDanglingReference
<1>1. IInv => NoDanglingReference
  <2>1. SUFFICES ASSUME IInv, NEW c \in Connections, profile[c].reference # None
                 PROVE  vault[profile[c].reference] # None
    BY DEF NoDanglingReference
  <2>2. vault[profile[c].reference] = profile[c].endpoint /\ profile[c] \in Profile
    BY <2>1 DEF IInv, Core, SecretInv, TypeOK
  <2>3. QED BY <2>1, <2>2, NoneAssumption DEF Profile, Absent
<1>2. QED BY <1>1, InvHolds, PTL

(* A stored password serves only the endpoint, account and database it was  *)
(* typed for (mutations.rs update, the fingerprint check).                  *)
THEOREM SecretsStay == Spec => []SecretStaysWithEndpoint
<1>1. IInv => SecretStaysWithEndpoint
  BY DEF IInv, Core, SecretInv, SecretStaysWithEndpoint
<1>2. QED BY <1>1, InvHolds, PTL

(* A credential on its way into a profile is in no cleanup's hands          *)
(* (mutations.rs stage_credential_cleanup and its sentinel due time).       *)
THEOREM CandidatesAreSafe == Spec => []NoCleanupOfCandidate
<1>1. IInv => NoCleanupOfCandidate
  BY DEF IInv, Core, CandidateInv, NoCleanupOfCandidate
<1>2. QED BY <1>1, InvHolds, PTL

(* Whoever holds a connection in use works with its current configuration   *)
(* and can read its password (connection_usage.rs, docs/mcp.md).            *)
THEOREM LeasesAreCurrent == Spec => []LeasedConfigIsCurrent
<1>1. IInv => LeasedConfigIsCurrent
  <2>1. SUFFICES ASSUME IInv, NEW k \in Clients, client[k].step \in {"read", "open"}
                 PROVE  /\ profile[client[k].conn] = client[k].record
                        /\ client[k].record.reference # None =>
                               vault[client[k].record.reference] = client[k].record.endpoint
    BY DEF LeasedConfigIsCurrent
  <2>2. profile[client[k].conn] = client[k].record /\ client[k].conn \in Connections
    BY <2>1 DEF IInv, Core, ReadInv, GuardInv
  <2>3. QED BY <2>1, <2>2 DEF IInv, Core, SecretInv
<1>2. QED BY <1>1, InvHolds, PTL

(* A secret the vault still holds is in use, listed for cleanup, about to   *)
(* be listed, or its writer stopped between vault.put and its first row     *)
(* (mutations.rs create and update).                                        *)
THEOREM SecretsAreTracked == Spec => []NoForgottenSecret
<1>1. IInv => NoForgottenSecret
  BY DEF IInv
<1>2. QED BY <1>1, InvHolds, PTL

(* Secrets and profiles match, both ways: cleanups erase what no profile    *)
(* names, and nothing else (mutations.rs cleanup_credential_with_pool).     *)
THEOREM SecretsMatch == Spec => []SecretsFitProfiles
<1>1. NoDanglingReference /\ NoForgottenSecret => SecretsFitProfiles
  BY DEF SecretsFitProfiles
<1>2. QED BY <1>1, ReferencesResolve, SecretsAreTracked, PTL

-----------------------------------------------------------------------------
(* A query tab.  QTab!TabInv, of QueryTab, is the inductive invariant; one  *)
(* lemma shows for each part of it that a group of actions keeps it.        *)


LEMMA FileTypes ==
  ASSUME QTab!ConstantsAssumption, QTab!TypeInv, QTab!FileNext
  PROVE  QTab!TypeInv'
  <1>1. /\ limits.texts \subseteq Texts /\ limits.paths \subseteq Paths
        /\ Empty \in QTab!Contents
    BY DEF QTab!ConstantsAssumption, QTab!TypeInv, QTab!Contents
  <1>2. /\ disk \in [Paths -> QTab!Contents] /\ text \in QTab!Contents
        /\ file \in QTab!FileState /\ runs \subseteq QTab!Run
    BY DEF QTab!TypeInv
  <1>3. \A kind \in {"open", "save"}, path \in Paths, contents \in QTab!Contents :
          QTab!Begin(kind, path, contents) \in QTab!FileState
    BY <1>2 DEF QTab!Begin, QTab!FileState, QTab!FileOps
  <1>4. UNCHANGED <<limits, session, opened, panel, target, schema, picker>>
    BY DEF QTab!FileNext, QTab!Type, QTab!ClearTab, QTab!OpenFile, QTab!SaveFile, QTab!FileRuns,
       QTab!FileReturns, QTab!AnswerDiscard, QTab!AnswerPath, QTab!world, QTab!contextVars
  <1>5. SUFFICES /\ disk' \in [Paths -> QTab!Contents] /\ text' \in QTab!Contents
                 /\ file' \in QTab!FileState /\ runs' \subseteq QTab!Run
    BY <1>4 DEF QTab!TypeInv
  <1>6. CASE \E t \in limits.texts : QTab!Type(t)
    BY <1>1, <1>2, <1>6 DEF QTab!Type, QTab!contextVars, QTab!Contents
  <1>7. CASE QTab!ClearTab
    BY <1>1, <1>2, <1>7 DEF QTab!ClearTab
  <1>8. CASE QTab!OpenFile \/ \E yes \in BOOLEAN : QTab!AnswerDiscard(yes)
    BY <1>2, <1>8 DEF QTab!OpenFile, QTab!AnswerDiscard, QTab!contextVars
  <1>9. CASE QTab!SaveFile
    <2>1. disk' = disk /\ text' = text /\ runs' = runs
      BY <1>9 DEF QTab!SaveFile, QTab!contextVars
    <2>2. file.path = Nothing \/ file.path \in Paths
      BY <1>2 DEF QTab!FileState
    <2>3. \/ file' = file
          \/ file.path \in Paths /\ file' = QTab!Begin("save", file.path, text)
      BY <1>9, <2>2 DEF QTab!SaveFile
    <2> QED BY <1>2, <1>3, <2>1, <2>3
  <1>10. CASE QTab!FileRuns
    <2>1. text' = text /\ runs' = runs /\ file.op # Nothing
      BY <1>10 DEF QTab!FileRuns, QTab!contextVars
    <2>2. PICK fo \in QTab!FileOps : file.op = fo
      BY <1>2, <2>1 DEF QTab!FileState
    <2>3. fo.path \in Paths /\ fo.text \in QTab!Contents /\ Broken \in QTab!Contents
      BY DEF QTab!FileOps, QTab!Contents
    <2>4. \/ disk' = disk
          \/ \E c \in QTab!Contents : disk' = [disk EXCEPT ![fo.path] = c]
      BY <1>10, <2>2, <2>3 DEF QTab!FileRuns
    <2>5. disk' \in [Paths -> QTab!Contents]
      BY <1>2, <2>3, <2>4
    <2>6. \/ file' = [file EXCEPT !.op = [fo EXCEPT !.phase = "done", !.text = disk[fo.path]]]
          \/ \E phase \in {"truncated", "done", "failed"} :
               file' = [file EXCEPT !.op = [fo EXCEPT !.phase = phase]]
      BY <1>10, <2>2 DEF QTab!FileRuns
    <2>7. \A new \in QTab!FileOps : [file EXCEPT !.op = new] \in QTab!FileState
      BY <1>2 DEF QTab!FileState
    <2>8. /\ [fo EXCEPT !.phase = "done", !.text = disk[fo.path]] \in QTab!FileOps
          /\ \A phase \in {"truncated", "done", "failed"} :
               [fo EXCEPT !.phase = phase] \in QTab!FileOps
      BY <1>2, <2>3 DEF QTab!FileOps
    <2>9. file' \in QTab!FileState
      BY <2>6, <2>7, <2>8
    <2> QED BY <1>2, <2>1, <2>5, <2>9
  <1>11. CASE QTab!FileReturns
    <2>1. disk' = disk /\ file.op # Nothing
      BY <1>11 DEF QTab!FileReturns
    <2>2. PICK fo \in QTab!FileOps : file.op = fo
      BY <1>2, <2>1 DEF QTab!FileState
    <2>3. fo.path \in Paths /\ fo.text \in QTab!Contents
      BY DEF QTab!FileOps
    <2>4. file' = QTab!FinishFile(fo) /\ text' \in {text, fo.text}
          /\ runs' \in {runs, QTab!Stale(runs)}
      BY <1>11, <2>2 DEF QTab!FileReturns
    <2>5. file' \in QTab!FileState
      BY <1>2, <2>3, <2>4 DEF QTab!FinishFile, QTab!FileState
    <2>6. QTab!Stale(runs) \subseteq QTab!Run
      BY <1>2 DEF QTab!Stale, QTab!Run
    <2> QED BY <1>2, <2>1, <2>3, <2>4, <2>5, <2>6
  <1>12. CASE \E p \in limits.paths : QTab!AnswerPath(p)
    <2>1. disk' = disk /\ text' = text /\ runs' = runs
      BY <1>12 DEF QTab!AnswerPath, QTab!contextVars
    <2>2. PICK p \in Paths : \/ file' = QTab!Begin("open", p, Empty)
                             \/ file' = QTab!Begin("save", p, text)
                             \/ file' = file
                             \/ file' = [file EXCEPT !.error = TRUE]
      BY <1>1, <1>12 DEF QTab!AnswerPath
    <2>3. [file EXCEPT !.error = TRUE] \in QTab!FileState
      BY <1>2 DEF QTab!FileState
    <2> QED BY <1>1, <1>2, <1>3, <2>1, <2>2, <2>3
  <1> QED BY <1>6, <1>7, <1>8, <1>9, <1>10, <1>11, <1>12 DEF QTab!FileNext

LEMMA ContextTypes ==
  ASSUME QTab!TypeInv, QTab!PickerInv, QTab!ContextNext
  PROVE  QTab!TypeInv'
  <1>1. /\ session \in Nat /\ opened \in Nat /\ panel \in Nat
        /\ target \in QTab!Targets \cup {Nothing} /\ schema \in QTab!Schemas
        /\ runs \subseteq QTab!Run /\ picker \in QTab!Picker
    BY DEF QTab!TypeInv
  <1>2. UNCHANGED <<limits, disk, text, file>>
    BY DEF QTab!ContextNext, QTab!Connect, QTab!Retire, QTab!SessionsChanged, QTab!Invalidate,
       QTab!DismissMenu, QTab!SelectInPanel, QTab!OpenPicker, QTab!LoadReturns,
       QTab!ChooseDatabase, QTab!ChooseSchema, QTab!world, QTab!fileVars
  <1>3. SUFFICES /\ session' \in Nat /\ opened' \in Nat /\ panel' \in Nat
                 /\ target' \in QTab!Targets \cup {Nothing} /\ schema' \in QTab!Schemas
                 /\ runs' \subseteq QTab!Run /\ picker' \in QTab!Picker
    BY <1>2 DEF QTab!TypeInv
  <1>4. QTab!Stale(runs) \subseteq QTab!Run
    <2>1. \A r \in QTab!Run : [r EXCEPT !.current = FALSE] \in QTab!Run
      BY DEF QTab!Run
    <2> QED BY <1>1, <2>1 DEF QTab!Stale
  <1>5. /\ picker.loads \subseteq QTab!Load /\ QTab!Stale(picker.loads) \subseteq QTab!Load
        /\ picker.busy \in BOOLEAN /\ picker.menu \in QTab!Menu \cup {Nothing}
    <2>1. /\ picker.loads \subseteq QTab!Load /\ picker.busy \in BOOLEAN
          /\ picker.menu \in QTab!Menu \cup {Nothing}
      BY <1>1 DEF QTab!Picker
    <2>2. \A l \in QTab!Load : [l EXCEPT !.current = FALSE] \in QTab!Load
      BY DEF QTab!Load
    <2> QED BY <2>1, <2>2 DEF QTab!Stale
  <1>6. \A loads \in SUBSET QTab!Load, busy \in BOOLEAN, menu \in QTab!Menu \cup {Nothing} :
          [loads |-> loads, busy |-> busy, menu |-> menu] \in QTab!Picker
    BY DEF QTab!Picker
  <1>7. Nothing \in QTab!Schemas /\ [picker EXCEPT !.menu = Nothing] \in QTab!Picker
    BY <1>1 DEF QTab!Schemas, QTab!Picker
  <1> DEFINE Fits == /\ target' \in QTab!Targets \cup {Nothing} /\ schema' \in QTab!Schemas
                     /\ runs' \subseteq QTab!Run /\ picker' \in QTab!Picker
  <1>g. [loads |-> QTab!Stale(picker.loads), busy |-> FALSE, menu |-> Nothing] \in QTab!Picker
    BY <1>5, <1>6
  <1>8. \A t \in QTab!Targets : QTab!SetTarget(t) => Fits
    BY <1>1, <1>4, <1>7, <1>g DEF QTab!SetTarget
  <1>9. QTab!ClearTarget => Fits
    BY <1>1, <1>4, <1>7, <1>g DEF QTab!ClearTarget
  <1>10. CASE QTab!Connect \/ QTab!Retire
    BY <1>1, <1>10 DEF QTab!Connect, QTab!Retire, QTab!contextVars
  <1>11. CASE QTab!SessionsChanged
    BY <1>1, <1>9, <1>11 DEF QTab!SessionsChanged, QTab!contextVars
  <1>12. CASE QTab!Invalidate
    BY <1>1, <1>9, <1>12 DEF QTab!Invalidate, QTab!world
  <1>13. CASE QTab!DismissMenu
    BY <1>1, <1>7, <1>13 DEF QTab!DismissMenu, QTab!world
  <1>14. CASE \E d \in Databases : QTab!SelectInPanel(d)
    <2>1. PICK d \in Databases : QTab!SelectInPanel(d)
      BY <1>14
    <2>2. [database |-> d, session |-> panel] \in QTab!Targets
      BY <1>1 DEF QTab!Targets
    <2> QED BY <1>1, <1>8, <2>1, <2>2 DEF QTab!SelectInPanel, QTab!world
  <1>15. CASE \E k \in {"database", "schema"} : QTab!OpenPicker(k)
    <2>1. PICK k \in {"database", "schema"} : QTab!OpenPicker(k)
      BY <1>15
    <2>2. [kind |-> k, target |-> target, current |-> TRUE] \in QTab!Load
      BY <1>1 DEF QTab!Load
    <2>3. picker' \in QTab!Picker
      BY <1>5, <1>6, <2>1, <2>2 DEF QTab!OpenPicker
    <2> QED BY <1>1, <2>1, <2>3 DEF QTab!OpenPicker, QTab!world
  <1>16. CASE \E l \in picker.loads : QTab!LoadReturns(l)
    <2>1. PICK l \in picker.loads : QTab!LoadReturns(l)
      BY <1>16
    <2>2. l.kind \in {"database", "schema"} /\ l.target \in QTab!Targets \cup {Nothing}
      BY <1>5 DEF QTab!Load
    <2>3. l.current => QTab!Choices(l) \subseteq QTab!Targets \cup QTab!Schemas
      <3>1. CASE l.current /\ l.kind = "schema"
        <4>1. l.target \in QTab!Targets
          BY <2>1, <2>2, <3>1 DEF QTab!PickerInv
        <4>2. l.target.database \in Databases
          BY <4>1 DEF QTab!Targets
        <4> QED BY <3>1, <4>2 DEF QTab!Choices, QTab!Schemas
      <3>2. CASE l.kind # "schema"
        BY <1>1, <3>2 DEF QTab!Choices, QTab!Targets
      <3> QED BY <3>1, <3>2
    <2>4. l.current => \A c \in {{}, QTab!Choices(l)} : [kind |-> l.kind, choices |-> c] \in QTab!Menu
      BY <2>2, <2>3 DEF QTab!Menu
    <2>5. [picker EXCEPT !.loads = @ \ {l}] \in QTab!Picker
      BY <1>1 DEF QTab!Picker
    <2>6. picker' \in QTab!Picker
      <3>1. CASE ~l.current
        BY <2>1, <2>5, <3>1 DEF QTab!LoadReturns
      <3>2. CASE l.current
        <4>1. PICK menu : /\ menu = Nothing \/ \E c \in {{}, QTab!Choices(l)} :
                                                menu = [kind |-> l.kind, choices |-> c]
                          /\ picker' = [loads |-> picker.loads \ {l}, busy |-> FALSE,
                                        menu |-> menu]
          BY <2>1, <3>2 DEF QTab!LoadReturns
        <4>2. menu \in QTab!Menu \cup {Nothing}
          BY <2>4, <3>2, <4>1
        <4> QED BY <1>5, <1>6, <4>1, <4>2
      <3> QED BY <3>1, <3>2
    <2> QED BY <1>1, <2>1, <2>6 DEF QTab!LoadReturns, QTab!world
  <1>17. CASE /\ picker.menu # Nothing
              /\ \E c \in picker.menu.choices :
                   \/ picker.menu.kind = "database" /\ QTab!ChooseDatabase(c)
                   \/ picker.menu.kind = "schema" /\ QTab!ChooseSchema(c)
    <2>1. PICK c \in picker.menu.choices :
               \/ picker.menu.kind = "database" /\ QTab!ChooseDatabase(c)
               \/ picker.menu.kind = "schema" /\ QTab!ChooseSchema(c)
      BY <1>17
    <2>2. CASE picker.menu.kind = "database" /\ QTab!ChooseDatabase(c)
      <3>1. c \in QTab!Targets
        BY <1>17, <2>1, <2>2 DEF QTab!PickerInv
      <3>2. UNCHANGED <<session, opened, panel>>
        BY <2>2 DEF QTab!ChooseDatabase, QTab!world
      <3>3. Fits
        BY <1>1, <1>7, <1>8, <2>2, <3>1 DEF QTab!ChooseDatabase
      <3> QED BY <1>1, <3>2, <3>3
    <2>3. CASE picker.menu.kind = "schema" /\ QTab!ChooseSchema(c)
      <3>1. target \in QTab!Targets /\ c \in {Nothing} \cup SchemasOf[target.database]
        BY <1>1, <1>17, <2>1, <2>3 DEF QTab!PickerInv
      <3>2. c \in QTab!Schemas
        BY <3>1 DEF QTab!Schemas, QTab!Targets
      <3>3. UNCHANGED <<session, opened, panel, target>> /\ schema' = c
        BY <2>3 DEF QTab!ChooseSchema, QTab!world
      <3>4. runs' \in {runs, QTab!Stale(runs)} /\ picker' = [picker EXCEPT !.menu = Nothing]
        BY <2>3 DEF QTab!ChooseSchema
      <3> QED BY <1>1, <1>4, <1>7, <3>2, <3>3, <3>4
    <2> QED BY <2>1, <2>2, <2>3
  <1> QED BY <1>10, <1>11, <1>12, <1>13, <1>14, <1>15, <1>16, <1>17 DEF QTab!ContextNext

LEMMA RunTypes ==
  ASSUME QTab!TypeInv, QTab!RunNext
  PROVE  QTab!TypeInv'
  <1>1. /\ session \in Nat /\ target \in QTab!Targets \cup {Nothing}
        /\ schema \in QTab!Schemas /\ runs \subseteq QTab!Run
    BY DEF QTab!TypeInv
  <1>2. UNCHANGED <<limits, session, opened, panel, disk, text, file, target, schema, picker>>
    BY DEF QTab!RunNext, QTab!Execute, QTab!RunAdvances, QTab!RunFails, QTab!RunReturns,
       QTab!Finished, QTab!SelectResult, QTab!ToggleChart, QTab!Select, QTab!world, QTab!fileVars
  <1>3. SUFFICES runs' \subseteq QTab!Run
    BY <1>2 DEF QTab!TypeInv
  <1>4. CASE \E prepared \in BOOLEAN : QTab!Execute(prepared)
    <2>1. \/ runs' = runs
          \/ /\ target # Nothing
             /\ runs' = runs \cup {[target |-> target, schema |-> schema, handle |-> 0,
                                    phase |-> "start", current |-> TRUE]}
      BY <1>4 DEF QTab!Execute
    <2>2. \A t \in QTab!Targets, s \in QTab!Schemas :
            [target |-> t, schema |-> s, handle |-> 0, phase |-> "start", current |-> TRUE]
              \in QTab!Run
      BY DEF QTab!Run
    <2>3. target # Nothing => target \in QTab!Targets
      BY <1>1
    <2> HIDE DEF QTab!Run
    <2> QED BY <1>1, <2>1, <2>2, <2>3
  <1>5. ASSUME NEW r \in runs, QTab!RunAdvances(r)
        PROVE  runs' \subseteq QTab!Run
    <2>1. \/ \E phase \in {"failed", "executed"} :
               runs' = (runs \ {r}) \cup {[r EXCEPT !.phase = phase]}
          \/ runs' = (runs \ {r}) \cup {[r EXCEPT !.phase = "acquired", !.handle = session]}
      BY <1>5 DEF QTab!RunAdvances
    <2>2. r \in QTab!Run
      BY <1>1
    <2>3. /\ \A phase \in {"failed", "executed"} : [r EXCEPT !.phase = phase] \in QTab!Run
          /\ [r EXCEPT !.phase = "acquired", !.handle = session] \in QTab!Run
      BY <1>1, <2>2 DEF QTab!Run
    <2> QED BY <1>1, <2>1, <2>3
  <1>6. ASSUME NEW r \in runs, QTab!RunFails(r) \/ \E o \in limits.outcomes : QTab!RunReturns(r, o)
        PROVE  runs' \subseteq QTab!Run
    BY <1>1, <1>6 DEF QTab!RunFails, QTab!RunReturns, QTab!Finished
  <1>7. CASE \E i \in DOMAIN shown.results : QTab!SelectResult(i)
    BY <1>1, <1>7 DEF QTab!SelectResult
  <1>8. CASE QTab!ToggleChart \/ QTab!Select
    BY <1>1, <1>8 DEF QTab!ToggleChart, QTab!Select
  <1> QED BY <1>4, <1>5, <1>6, <1>7, <1>8 DEF QTab!RunNext

\* What a file holds is known: only its own operation writes it.
LEMMA FileKeeps ==
  ASSUME QTab!ConstantsAssumption, QTab!TypeInv, QTab!FileInv, QTab!FileNext
  PROVE  QTab!FileInv'
  <1>1. /\ disk \in [Paths -> QTab!Contents] /\ file \in QTab!FileState
        /\ text \in QTab!Contents /\ Empty \in QTab!Contents
        /\ limits.paths \subseteq Paths /\ Nothing \notin QTab!FileOps
    BY DEF QTab!TypeInv, QTab!ConstantsAssumption, QTab!Contents
  <1>2. CASE UNCHANGED <<disk, file>>
    BY <1>2 DEF QTab!FileInv
  <1>3. ASSUME NEW kind \in {"open", "save"}, NEW path \in Paths, NEW contents \in QTab!Contents,
               file' = QTab!Begin(kind, path, contents)
        PROVE  QTab!FileInv'
    <2>1. file'.op = [kind |-> kind, path |-> path, text |-> contents, phase |-> "start"]
      BY <1>1, <1>3 DEF QTab!Begin, QTab!FileState
    <2>2. file'.op \in QTab!FileOps
      BY <2>1 DEF QTab!FileOps
    <2>3. file'.op.phase # "done"
      BY <2>1
    <2> QED BY <1>1, <2>2, <2>3 DEF QTab!FileInv
  <1>4. CASE (\E t \in limits.texts : QTab!Type(t)) \/ QTab!ClearTab \/ QTab!OpenFile
             \/ \E yes \in BOOLEAN : QTab!AnswerDiscard(yes)
    BY <1>2, <1>4 DEF QTab!Type, QTab!ClearTab, QTab!OpenFile, QTab!AnswerDiscard
  <1>5. CASE QTab!SaveFile
    <2>1. CASE file.path = Nothing
      BY <1>2, <1>5, <2>1 DEF QTab!SaveFile
    <2>2. CASE file.path # Nothing
      <3>1. file.path \in Paths
        BY <1>1, <2>2 DEF QTab!FileState
      <3>2. file' = QTab!Begin("save", file.path, text)
        BY <1>5, <2>2 DEF QTab!SaveFile
      <3> QED BY <1>1, <1>3, <3>1, <3>2
    <2> QED BY <2>1, <2>2
  <1>6. CASE QTab!FileRuns
    <2>1. PICK fo \in QTab!FileOps : file.op = fo /\ fo # Nothing
      BY <1>1, <1>6 DEF QTab!FileRuns, QTab!FileState
    <2>2. fo.path \in Paths /\ fo = [kind |-> fo.kind, path |-> fo.path, text |-> fo.text, phase |-> fo.phase]
      BY DEF QTab!FileOps
    <2>3. \A new : [file EXCEPT !.op = new].op = new
      BY <1>1 DEF QTab!FileState
    <2>4. CASE fo.phase = "start" /\ fo.kind = "open" /\ disk' = disk
               /\ file' = [file EXCEPT !.op = [fo EXCEPT !.phase = "done", !.text = disk[fo.path]]]
      <3>1. file'.op = [kind |-> fo.kind, path |-> fo.path, text |-> disk[fo.path], phase |-> "done"]
        BY <2>2, <2>3, <2>4
      <3>2. file'.op \in QTab!FileOps
        BY <1>1, <2>2, <3>1 DEF QTab!FileOps
      <3>3. file'.op.path = fo.path /\ file'.op.text = disk[fo.path]
        BY <3>1
      <3>4. disk'[file'.op.path] = file'.op.text
        BY <2>4, <3>3
      <3>5. file'.op # Nothing
        BY <1>1, <3>2
      <3> QED BY <3>4, <3>5 DEF QTab!FileInv
    <2>5. CASE /\ disk' = [disk EXCEPT ![fo.path] = fo.text]
               /\ file' = [file EXCEPT !.op = [fo EXCEPT !.phase = "done"]]
      <3>1. file'.op = [kind |-> fo.kind, path |-> fo.path, text |-> fo.text, phase |-> "done"]
        BY <2>2, <2>3, <2>5
      <3>2. file'.op \in QTab!FileOps
        BY <3>1 DEF QTab!FileOps
      <3>3. disk'[fo.path] = fo.text
        BY <1>1, <2>2, <2>5
      <3> QED BY <1>1, <3>1, <3>2, <3>3 DEF QTab!FileInv
    <2>6. CASE \E phase \in {"truncated", "failed"} :
                 file' = [file EXCEPT !.op = [fo EXCEPT !.phase = phase]]
      <3>1. PICK phase \in {"truncated", "failed"} :
              file'.op = [kind |-> fo.kind, path |-> fo.path, text |-> fo.text, phase |-> phase]
        BY <2>2, <2>3, <2>6
      <3>2. file'.op \in QTab!FileOps /\ file'.op.phase # "done"
        BY <3>1 DEF QTab!FileOps
      <3> QED BY <1>1, <3>2 DEF QTab!FileInv
    <2> QED BY <1>6, <2>1, <2>4, <2>5, <2>6 DEF QTab!FileRuns
  <1>7. CASE QTab!FileReturns
    <2>1. disk' = disk /\ file.op # Nothing /\ file.op.phase \in {"done", "failed"}
          /\ file' = QTab!FinishFile(file.op)
      BY <1>7 DEF QTab!FileReturns
    <2>2. CASE file.op.phase = "failed"
      <3>1. file'.op = Nothing /\ file'.error = TRUE
        BY <1>1, <2>1, <2>2 DEF QTab!FinishFile, QTab!FileState
      <3> QED BY <3>1 DEF QTab!FileInv
    <2>3. CASE file.op.phase = "done"
      <3>1. file' = [path |-> file.op.path, saved |-> file.op.text, op |-> Nothing, error |-> FALSE]
        BY <2>1, <2>3 DEF QTab!FinishFile
      <3>2. file'.op = Nothing /\ file'.path = file.op.path /\ file'.saved = file.op.text
        BY <3>1
      <3> QED BY <2>1, <2>3, <3>2 DEF QTab!FileInv
    <2> QED BY <2>1, <2>2, <2>3
  <1>8. CASE \E p \in limits.paths : QTab!AnswerPath(p)
    <2>1. PICK p \in Paths : \/ file' = QTab!Begin("open", p, Empty)
                             \/ file' = QTab!Begin("save", p, text)
                             \/ file' = file
                             \/ file' = [file EXCEPT !.error = TRUE]
      BY <1>1, <1>8 DEF QTab!AnswerPath
    <2>2. disk' = disk
      BY <1>8 DEF QTab!AnswerPath
    <2>3. CASE file' = [file EXCEPT !.error = TRUE]
      <3>1. file'.op = file.op /\ file'.error = TRUE
        BY <1>1, <2>3 DEF QTab!FileState
      <3> QED BY <2>2, <3>1 DEF QTab!FileInv
    <2> QED BY <1>1, <1>2, <1>3, <2>1, <2>2, <2>3
  <1> QED BY <1>4, <1>5, <1>6, <1>7, <1>8 DEF QTab!FileNext

\* Results, runs and chart stay those of the context.  Runs that became stale
\* belong to no context.
LEMMA StaleRuns ==
  ASSUME QTab!TypeInv, QTab!RunInv, NEW r \in QTab!Stale(runs)
  PROVE  /\ ~r.current /\ r.target # Nothing
         /\ r.phase \in {"acquired", "executed"} => r.handle = r.target.session
  <1>1. runs \subseteq QTab!Run
    BY DEF QTab!TypeInv
  <1>2. \A o \in QTab!Run : LET s == [o EXCEPT !.current = FALSE] IN
          /\ ~s.current /\ s.phase = o.phase /\ s.handle = o.handle /\ s.target = o.target
    BY DEF QTab!Run
  <1>3. PICK o \in runs : r = [o EXCEPT !.current = FALSE]
    BY DEF QTab!Stale
  <1>4. o.target # Nothing /\ (o.phase \in {"acquired", "executed"} => o.handle = o.target.session)
    BY DEF QTab!RunInv
  <1> QED BY <1>1, <1>2, <1>3, <1>4

LEMMA RunsKeptByContext ==
  ASSUME QTab!TypeInv, QTab!RunInv, QTab!PickerInv, QTab!ContextNext
  PROVE  QTab!RunInv'
  <1>2. CASE UNCHANGED <<target, schema, runs, shown, chart>>
    BY <1>2 DEF QTab!RunInv, QTab!OfContext
  \* Whatever else the context becomes.
  <1>3. ASSUME runs' = QTab!Stale(runs), shown' = QTab!NoResults, chart' = QTab!NoChart
        PROVE  QTab!RunInv'
    <2>2. \A r \in runs' : /\ ~r.current /\ r.target # Nothing
                           /\ r.phase \in {"acquired", "executed"} => r.handle = r.target.session
      BY <1>3, StaleRuns
    <2>3. DOMAIN shown'.results = {}
      BY <1>3 DEF QTab!NoResults
    <2>4. chart' = [showing |-> chart'.showing, data |-> chart'.data] /\ chart'.data = Nothing
      BY <1>3 DEF QTab!NoChart
    <2> QED BY <2>2, <2>3, <2>4 DEF QTab!RunInv
  <1>4. \A t : QTab!SetTarget(t) => QTab!RunInv'
    BY <1>2, <1>3 DEF QTab!SetTarget
  <1>5. QTab!ClearTarget => QTab!RunInv'
    <2>1. CASE QTab!ClearTarget /\ target = Nothing
      <3>1. /\ UNCHANGED <<target, schema, runs, shown>>
            /\ chart' = QTab!NoChart
        BY <2>1 DEF QTab!ClearTarget, QTab!PickerInv
      <3>2. chart' = [showing |-> chart'.showing, data |-> chart'.data] /\ chart'.data = Nothing
        BY <3>1 DEF QTab!NoChart
      <3> QED BY <3>1, <3>2 DEF QTab!RunInv, QTab!OfContext
    <2>2. CASE QTab!ClearTarget /\ target # Nothing
      BY <1>3, <2>2 DEF QTab!ClearTarget
    <2> QED BY <2>1, <2>2
  <1>6. CASE QTab!Connect \/ QTab!Retire \/ QTab!DismissMenu
             \/ (\E k \in {"database", "schema"} : QTab!OpenPicker(k))
             \/ \E l \in picker.loads : QTab!LoadReturns(l)
    BY <1>2, <1>6 DEF QTab!Connect, QTab!Retire, QTab!DismissMenu, QTab!OpenPicker,
       QTab!LoadReturns, QTab!contextVars
  <1>7. CASE QTab!SessionsChanged \/ QTab!Invalidate
    BY <1>2, <1>5, <1>7 DEF QTab!SessionsChanged, QTab!Invalidate, QTab!contextVars
  <1>8. CASE \E d \in Databases : QTab!SelectInPanel(d)
    BY <1>4, <1>8 DEF QTab!SelectInPanel
  <1>9. ASSUME NEW c, QTab!ChooseDatabase(c)
        PROVE  QTab!RunInv'
    BY <1>2, <1>4, <1>9 DEF QTab!ChooseDatabase
  <1>10. ASSUME NEW c, QTab!ChooseSchema(c)
         PROVE  QTab!RunInv'
    BY <1>2, <1>3, <1>10 DEF QTab!ChooseSchema
  <1> QED BY <1>6, <1>7, <1>8, <1>9, <1>10 DEF QTab!ContextNext

LEMMA RunsKeptByFiles ==
  ASSUME QTab!TypeInv, QTab!RunInv, QTab!FileNext
  PROVE  QTab!RunInv'
  <1>1. UNCHANGED <<target, schema>>
    BY DEF QTab!FileNext, QTab!Type, QTab!ClearTab, QTab!OpenFile, QTab!SaveFile, QTab!FileRuns,
       QTab!FileReturns, QTab!AnswerDiscard, QTab!AnswerPath, QTab!contextVars
  <1>2. CASE UNCHANGED QTab!contextVars
    BY <1>2 DEF QTab!RunInv, QTab!OfContext, QTab!contextVars
  <1>3. DOMAIN QTab!NoResults.results = {} /\ QTab!NoChart.data = Nothing
        /\ QTab!NoChart = [showing |-> QTab!NoChart.showing, data |-> QTab!NoChart.data]
    BY DEF QTab!NoResults, QTab!NoChart
  <1>4. CASE QTab!ClearTab
    <2>1. runs' = runs /\ shown' = QTab!NoResults /\ chart' = QTab!NoChart
      BY <1>4 DEF QTab!ClearTab
    <2> QED BY <1>1, <1>3, <2>1 DEF QTab!RunInv, QTab!OfContext
  <1>5. CASE QTab!FileReturns
    <2>1. CASE UNCHANGED <<shown, runs>>
      BY <1>1, <1>5, <2>1 DEF QTab!FileReturns, QTab!RunInv, QTab!OfContext
    <2>2. CASE shown' = QTab!NoResults /\ runs' = QTab!Stale(runs)
      <3>1. chart' = chart
        BY <1>5 DEF QTab!FileReturns
      <3>2. \A r \in runs' : /\ ~r.current /\ r.target # Nothing
                             /\ r.phase \in {"acquired", "executed"} => r.handle = r.target.session
        BY <2>2, StaleRuns
      <3> QED BY <1>1, <1>3, <2>2, <3>1, <3>2 DEF QTab!RunInv, QTab!OfContext
    <2> QED BY <1>5, <2>1, <2>2 DEF QTab!FileReturns
  <1> QED BY <1>2, <1>4, <1>5 DEF QTab!FileNext, QTab!Type, QTab!OpenFile, QTab!SaveFile,
          QTab!FileRuns, QTab!AnswerDiscard, QTab!AnswerPath

\* sync_chart shows a result of the context, or none.
LEMMA ChartFollows ==
  ASSUME NEW showing, NEW s, \A i \in DOMAIN s.results : QTab!OfContext(s.results[i])
  PROVE  LET c == QTab!SyncChart(showing, s) IN
         /\ c = [showing |-> c.showing, data |-> c.data]
         /\ c.data \notin {Nothing, QTab!Released} => QTab!OfContext(c.data)
  <1>1. CASE s.active \in DOMAIN s.results
    BY <1>1 DEF QTab!SyncChart, QTab!NoChart
  <1>2. CASE s.active \notin DOMAIN s.results
    BY <1>2 DEF QTab!SyncChart, QTab!NoChart
  <1> QED BY <1>1, <1>2

LEMMA RunsKeptByRuns ==
  ASSUME QTab!ConstantsAssumption, QTab!TypeInv, QTab!RunInv, QTab!SelectionInv, QTab!RunNext
  PROVE  QTab!RunInv'
  <1>1. UNCHANGED <<limits, target, schema>>
    BY DEF QTab!RunNext, QTab!Execute, QTab!RunAdvances, QTab!RunFails, QTab!RunReturns,
       QTab!Finished, QTab!SelectResult, QTab!ToggleChart, QTab!Select, QTab!world
  <1>2. \A r : QTab!OfContext(r)' <=> QTab!OfContext(r)
    BY <1>1 DEF QTab!OfContext
  <1>3. /\ shown = [results |-> shown.results, active |-> shown.active,
                     selection |-> shown.selection, error |-> shown.error]
        /\ chart = [showing |-> chart.showing, data |-> chart.data]
        /\ runs \subseteq QTab!Run
    BY DEF QTab!SelectionInv, QTab!RunInv, QTab!TypeInv
  <1>4. DOMAIN QTab!NoResults.results = {}
    BY DEF QTab!NoResults
  \* The results stay, and the chart shows one of them.
  <1>5. ASSUME runs' = runs, shown'.results = shown.results,
               \/ chart' = chart
               \/ \E showing : chart' = QTab!SyncChart(showing, shown')
               \/ \E showing : chart' = QTab!SyncChart(showing, shown)
        PROVE  QTab!RunInv'
    <2>1. \A i \in DOMAIN shown.results : QTab!OfContext(shown.results[i])
      BY DEF QTab!RunInv
    <2>2. \A i \in DOMAIN shown'.results : QTab!OfContext(shown'.results[i])
      BY <1>5, <2>1
    <2>3. /\ chart' = [showing |-> chart'.showing, data |-> chart'.data]
          /\ chart'.data \notin {Nothing, QTab!Released} => QTab!OfContext(chart'.data)
      BY <1>5, <2>1, <2>2, ChartFollows DEF QTab!RunInv
    <2> QED BY <1>1, <1>2, <1>5, <2>3 DEF QTab!RunInv
  <1>6. CASE \E prepared \in BOOLEAN : QTab!Execute(prepared)
    <2>1. CASE UNCHANGED <<runs, chart>> /\ shown' = [shown EXCEPT !.error = TRUE]
      BY <1>3, <1>5, <2>1
    <2>2. CASE /\ target # Nothing
               /\ runs' = runs \cup {[target |-> target, schema |-> schema, handle |-> 0,
                                      phase |-> "start", current |-> TRUE]}
               /\ shown' = QTab!NoResults
               /\ chart' = [chart EXCEPT !.data = IF @ = Nothing THEN Nothing ELSE QTab!Released]
      <3>1. chart' = [showing |-> chart'.showing, data |-> chart'.data]
            /\ chart'.data \in {Nothing, QTab!Released}
        BY <1>3, <2>2
      <3>2. \A r \in runs' : /\ r.target # Nothing /\ (r.current => QTab!OfContext(r))
                             /\ r.phase \in {"acquired", "executed"} => r.handle = r.target.session
        BY <2>2 DEF QTab!RunInv, QTab!OfContext
      <3> QED BY <1>2, <1>4, <2>2, <3>1, <3>2 DEF QTab!RunInv
    <2> QED BY <1>6, <2>1, <2>2 DEF QTab!Execute
  <1>7. ASSUME NEW r \in runs, QTab!RunAdvances(r)
        PROVE  QTab!RunInv'
    <2>1. r \in QTab!Run /\ r.target # Nothing /\ (r.current => QTab!OfContext(r))
          /\ (r.phase \in {"acquired", "executed"} => r.handle = r.target.session)
      BY <1>3 DEF QTab!RunInv
    <2>2. PICK x : /\ runs' = (runs \ {r}) \cup {x}
                   /\ \/ r.phase = "start" /\ session = r.target.session
                         /\ x = [r EXCEPT !.phase = "acquired", !.handle = session]
                      \/ x = [r EXCEPT !.phase = "failed"]
                      \/ r.phase = "acquired" /\ x = [r EXCEPT !.phase = "executed"]
      BY <1>7 DEF QTab!RunAdvances
    <2>3. /\ x.target = r.target /\ x.schema = r.schema /\ x.current = r.current
          /\ x.phase \in {"acquired", "executed"} => x.handle = r.target.session
      BY <2>1, <2>2 DEF QTab!Run
    <2>4. x.target # Nothing /\ (x.current => QTab!OfContext(x))
      BY <2>1, <2>3 DEF QTab!OfContext
    <2>5. \A y \in runs' : /\ y.target # Nothing /\ (y.current => QTab!OfContext(y))
                           /\ y.phase \in {"acquired", "executed"} => y.handle = y.target.session
      BY <2>2, <2>3, <2>4 DEF QTab!RunInv
    <2>6. UNCHANGED <<shown, chart>>
      BY <1>7 DEF QTab!RunAdvances
    <2> QED BY <1>1, <1>2, <2>5, <2>6 DEF QTab!RunInv
  <1>8. ASSUME NEW r \in runs, NEW s, QTab!Finished(r, s),
               QTab!Accepts(r) => \A i \in DOMAIN s.results :
                 /\ QTab!OfContext(s.results[i])
                 /\ target # Nothing /\ s.results[i].ran = target.session
                 /\ s.results[i].rows \in Nat
        PROVE  QTab!RunInv'
    <2>1. runs' = runs \ {r}
      BY <1>8 DEF QTab!Finished
    <2>2. CASE ~QTab!Accepts(r)
      <3>1. UNCHANGED <<shown, chart>>
        BY <1>8, <2>2 DEF QTab!Finished
      <3> QED BY <1>1, <1>2, <2>1, <3>1 DEF QTab!RunInv
    <2>3. CASE QTab!Accepts(r)
      <3>1. shown' = s /\ chart' = QTab!SyncChart(chart.showing, s)
        BY <1>8, <2>3 DEF QTab!Finished
      <3>2. /\ chart' = [showing |-> chart'.showing, data |-> chart'.data]
            /\ chart'.data \notin {Nothing, QTab!Released} => QTab!OfContext(chart'.data)
        BY <1>8, <2>3, <3>1, ChartFollows
      <3> QED BY <1>1, <1>2, <1>8, <2>1, <2>3, <3>1, <3>2 DEF QTab!RunInv
    <2> QED BY <2>2, <2>3
  <1>9. ASSUME NEW r \in runs, QTab!RunFails(r)
        PROVE  QTab!RunInv'
    <2>1. DOMAIN [QTab!NoResults EXCEPT !.error = TRUE].results = {}
      BY DEF QTab!NoResults
    <2> QED BY <1>8, <1>9, <2>1 DEF QTab!RunFails
  <1>10. ASSUME NEW r \in runs, NEW o \in limits.outcomes, QTab!RunReturns(r, o)
         PROVE  QTab!RunInv'
    <2> DEFINE results == QTab!ResultsOf(r, o)
               s == [results |-> results, active |-> QTab!FirstFailure(results),
                     selection |-> QTab!NoSelection, error |-> FALSE]
    <2>1. limits \in Limits
      BY DEF QTab!TypeInv
    <2>2. \A i \in DOMAIN o : o[i].rows \in Nat
      BY <2>1 DEF QTab!ConstantsAssumption
    <2>3. /\ DOMAIN results = DOMAIN o
          /\ \A i \in DOMAIN o : /\ results[i].target = r.target /\ results[i].schema = r.schema
                                 /\ results[i].ran = r.handle /\ results[i].rows = o[i].rows
      BY DEF QTab!ResultsOf
    <2>4. r.target # Nothing /\ (r.current => QTab!OfContext(r)) /\ r.handle = r.target.session
      BY <1>10 DEF QTab!RunInv, QTab!RunReturns
    <2>5. QTab!Finished(r, s) /\ s.results = results
      BY <1>10 DEF QTab!RunReturns
    <2> HIDE DEF results, s
    <2>6. QTab!Accepts(r) => \A i \in DOMAIN s.results :
            /\ QTab!OfContext(s.results[i])
            /\ target # Nothing /\ s.results[i].ran = target.session
            /\ s.results[i].rows \in Nat
      BY <2>2, <2>3, <2>4, <2>5 DEF QTab!Accepts, QTab!OfContext
    <2> QED BY <1>8, <2>5, <2>6
  <1>11. CASE \E i \in DOMAIN shown.results : QTab!SelectResult(i)
    <2>1. PICK i : QTab!SelectResult(i)
      BY <1>11
    <2>2. /\ runs' = runs /\ chart' = QTab!SyncChart(chart.showing, shown')
          /\ shown' = [shown EXCEPT !.active = i, !.selection = QTab!NoSelection]
      BY <2>1 DEF QTab!SelectResult
    <2>3. shown'.results = shown.results
      BY <1>3, <2>2
    <2> QED BY <1>5, <2>2, <2>3
  <1>12. CASE QTab!ToggleChart
    BY <1>5, <1>12 DEF QTab!ToggleChart
  <1>13. CASE QTab!Select
    <2>1. runs' = runs /\ chart' = chart /\ \E new : shown' = [shown EXCEPT !.selection = new]
      BY <1>13 DEF QTab!Select
    <2>2. shown'.results = shown.results
      BY <1>3, <2>1
    <2> QED BY <1>5, <2>1, <2>2
  <1> QED BY <1>6, <1>7, <1>9, <1>10, <1>11, <1>12, <1>13 DEF QTab!RunNext

\* The selection stays within the active result.
LEMMA SelectionKeeps ==
  ASSUME QTab!RunInv, QTab!SelectionInv, QTab!Next
  PROVE  QTab!SelectionInv'
  <1> DEFINE Selection == [kind : {"None", "Rows", "Cells"}, anchor : Nat, rows : SUBSET Nat]
             Within(sel, size) == {sel.anchor} \cup sel.rows \subseteq 1..size
  <1>1. /\ shown = [results |-> shown.results, active |-> shown.active,
                     selection |-> shown.selection, error |-> shown.error]
        /\ shown.selection \in Selection
        /\ shown.selection.kind = "None" => shown.selection.rows = {}
    BY DEF QTab!SelectionInv
  <1>2. CASE shown' = shown
    BY <1>2 DEF QTab!SelectionInv, QTab!ActiveResult
  \* Nothing is selected.
  <1>3. ASSUME shown' = [results |-> shown'.results, active |-> shown'.active,
                        selection |-> QTab!NoSelection, error |-> shown'.error]
        PROVE  QTab!SelectionInv'
    <2>1. shown'.selection = [kind |-> "None", anchor |-> 0, rows |-> {}]
      BY <1>3 DEF QTab!NoSelection
    <2>2. shown'.selection \in Selection /\ shown'.selection.kind = "None"
          /\ shown'.selection.rows = {}
      BY <2>1
    <2>3. shown' = [results |-> shown'.results, active |-> shown'.active,
                   selection |-> shown'.selection, error |-> shown'.error]
      BY <1>3
    <2> QED BY <2>2, <2>3 DEF QTab!SelectionInv
  <1>4. QTab!NoResults = [results |-> <<>>, active |-> 1, selection |-> QTab!NoSelection,
                          error |-> FALSE]
    BY DEF QTab!NoResults
  <1>5. CASE shown' = QTab!NoResults
    <2>1. shown' = [results |-> shown'.results, active |-> shown'.active,
                    selection |-> QTab!NoSelection, error |-> shown'.error]
      <3> HIDE DEF QTab!NoSelection, QTab!NoResults
      <3>1. shown' = [results |-> <<>>, active |-> 1, selection |-> QTab!NoSelection, error |-> FALSE]
        BY <1>4, <1>5
      <3> QED BY <3>1
    <2> QED BY <1>3, <2>1
  <1>6. CASE shown' = [shown EXCEPT !.error = TRUE]
    <2>1. shown' = [results |-> shown.results, active |-> shown.active,
                    selection |-> shown.selection, error |-> TRUE]
      BY <1>1, <1>6
    <2> QED BY <2>1 DEF QTab!SelectionInv, QTab!ActiveResult
  <1>7. CASE QTab!FileNext
    BY <1>2, <1>5, <1>7 DEF QTab!FileNext, QTab!Type, QTab!ClearTab, QTab!OpenFile,
       QTab!SaveFile, QTab!FileRuns, QTab!FileReturns, QTab!AnswerDiscard, QTab!AnswerPath,
       QTab!contextVars
  <1>8. CASE QTab!ContextNext
    BY <1>2, <1>5, <1>8 DEF QTab!ContextNext, QTab!Connect, QTab!Retire, QTab!SessionsChanged,
       QTab!Invalidate, QTab!DismissMenu, QTab!SelectInPanel, QTab!OpenPicker, QTab!LoadReturns,
       QTab!ChooseDatabase, QTab!ChooseSchema, QTab!SetTarget, QTab!ClearTarget, QTab!contextVars
  <1>9. ASSUME NEW r, NEW s, QTab!Finished(r, s),
               s = [results |-> s.results, active |-> s.active, selection |-> QTab!NoSelection,
                    error |-> s.error]
        PROVE  QTab!SelectionInv'
    <2>1. shown' = s \/ shown' = shown
      BY <1>9 DEF QTab!Finished
    <2> QED BY <1>2, <1>3, <1>9, <2>1
  <1>10. ASSUME NEW r, QTab!RunFails(r)
         PROVE  QTab!SelectionInv'
    <2>1. PICK s : s = [QTab!NoResults EXCEPT !.error = TRUE]
      OBVIOUS
    <2>2. s = [results |-> <<>>, active |-> 1, selection |-> QTab!NoSelection, error |-> TRUE]
      BY <1>4, <2>1
    <2>3. s = [results |-> s.results, active |-> s.active, selection |-> QTab!NoSelection,
               error |-> s.error]
      BY <2>2
    <2>4. QTab!Finished(r, s)
      BY <1>10, <2>1 DEF QTab!RunFails
    <2> QED BY <1>9, <2>3, <2>4
  <1>11. ASSUME NEW r, NEW o, QTab!RunReturns(r, o)
         PROVE  QTab!SelectionInv'
    <2> DEFINE results == QTab!ResultsOf(r, o)
               s == [results |-> results, active |-> QTab!FirstFailure(results),
                     selection |-> QTab!NoSelection, error |-> FALSE]
    <2>1. QTab!Finished(r, s)
      BY <1>11 DEF QTab!RunReturns
    <2> HIDE DEF results
    <2>2. s = [results |-> s.results, active |-> s.active, selection |-> QTab!NoSelection,
               error |-> s.error]
      OBVIOUS
    <2> HIDE DEF s
    <2> QED BY <1>9, <2>1, <2>2
  <1>12. ASSUME NEW i, QTab!SelectResult(i)
         PROVE  QTab!SelectionInv'
    <2>1. shown' = [shown EXCEPT !.active = i, !.selection = QTab!NoSelection]
      BY <1>12 DEF QTab!SelectResult
    <2>2. shown' = [results |-> shown.results, active |-> i, selection |-> QTab!NoSelection,
                    error |-> shown.error]
      BY <1>1, <2>1
    <2> HIDE DEF QTab!NoSelection
    <2>3. shown' = [results |-> shown'.results, active |-> shown'.active,
                    selection |-> QTab!NoSelection, error |-> shown'.error]
      BY <2>2
    <2> QED BY <1>3, <2>3
  <1>13. CASE QTab!Select
    <2> DEFINE n == QTab!ActiveResult.rows
    <2>1. QTab!ActiveResult # Nothing
      BY <1>13 DEF QTab!Select
    <2>2. n \in Nat
      <3>1. shown.active \in DOMAIN shown.results /\ n = shown.results[shown.active].rows
        BY <2>1 DEF QTab!ActiveResult
      <3> HIDE DEF n
      <3> QED BY <3>1 DEF QTab!RunInv
    <2>3. ASSUME NEW new \in Selection, shown' = [shown EXCEPT !.selection = new],
                 new.kind = "None" => new.rows = {}, new.kind # "None" => Within(new, n)
          PROVE  QTab!SelectionInv'
      <3>1. shown' = [results |-> shown.results, active |-> shown.active, selection |-> new,
                      error |-> shown.error]
        BY <1>1, <2>3
      <3>2. /\ shown'.selection = new /\ shown'.results = shown.results
            /\ shown'.active = shown.active
            /\ shown' = [results |-> shown'.results, active |-> shown'.active,
                         selection |-> shown'.selection, error |-> shown'.error]
        BY <3>1
      <3>3. QTab!ActiveResult' = QTab!ActiveResult
        BY <3>2 DEF QTab!ActiveResult
      <3> QED BY <2>1, <2>3, <3>2, <3>3 DEF QTab!SelectionInv
    <2>4. ASSUME NEW a \in 1..n, NEW b \in 1..n
          PROVE  /\ QTab!Between(a, b) \subseteq 1..n /\ QTab!Between(a, b) \in SUBSET Nat
      BY <2>2, <2>4 DEF QTab!Between
    <2>5. /\ shown.selection.kind \in {"None", "Rows", "Cells"} /\ shown.selection.rows \in SUBSET Nat
          /\ shown.selection.kind # "None" => Within(shown.selection, n)
          /\ shown.selection.rows \subseteq 1..n
      BY <1>1 DEF QTab!SelectionInv
    <2>6. 1..n \in SUBSET Nat
      BY <2>2
    <2>7. \A kind \in {"Rows", "Cells"}, anchor \in 1..n, kept \in SUBSET (1..n) :
            LET new == [kind |-> kind, anchor |-> anchor, rows |-> kept] IN
            new \in Selection /\ new.kind # "None" /\ Within(new, n)
      BY <2>6
    <2> DEFINE Good(new) == /\ new \in Selection /\ (new.kind = "None" => new.rows = {})
                            /\ new.kind # "None" => Within(new, n)
    <2>8. Good(QTab!NoSelection)
      BY DEF QTab!NoSelection
    <2>9. \A kind \in {"Rows", "Cells"}, anchor \in 1..n, kept \in SUBSET (1..n) :
            Good([kind |-> kind, anchor |-> anchor, rows |-> kept])
      BY <2>7
    <2>10. ASSUME NEW row \in 1..n, NEW extend \in BOOLEAN
           PROVE  Good(QTab!CellSelection(row, extend))
      <3> HIDE DEF Good
      <3>1. CASE extend /\ shown.selection.kind = "Cells"
        <4>1. shown.selection.anchor \in 1..n
          BY <2>5, <3>1
        <4> QED BY <2>4, <2>9, <3>1, <4>1 DEF QTab!CellSelection
      <3>2. CASE ~(extend /\ shown.selection.kind = "Cells")
        BY <2>4, <2>9, <3>2 DEF QTab!CellSelection
      <3> QED BY <3>1, <3>2
    <2>11. ASSUME NEW row \in 1..n, NEW extend \in BOOLEAN, NEW toggle \in BOOLEAN
           PROVE  Good(QTab!RowSelection(row, extend, toggle))
      <3> DEFINE flipped == IF row \in shown.selection.rows THEN shown.selection.rows \ {row}
                            ELSE shown.selection.rows \cup {row}
      <3>1. flipped \in SUBSET (1..n) /\ {row} \in SUBSET (1..n)
        BY <2>5
      <3> HIDE DEF Good
      <3>2. CASE shown.selection.kind = "Rows" /\ extend
        <4>1. shown.selection.anchor \in 1..n
          BY <2>5, <3>2
        <4>2. shown.selection.rows \cup QTab!Between(shown.selection.anchor, row) \in SUBSET (1..n)
          BY <2>4, <2>5, <4>1
        <4>3. [shown.selection EXCEPT !.rows = @ \cup QTab!Between(shown.selection.anchor, row)] =
                [kind |-> "Rows", anchor |-> shown.selection.anchor,
                 rows |-> shown.selection.rows \cup QTab!Between(shown.selection.anchor, row)]
          BY <1>1, <3>2
        <4>4. QTab!RowSelection(row, extend, toggle) =
                [shown.selection EXCEPT !.rows = @ \cup QTab!Between(shown.selection.anchor, row)]
          BY <3>2 DEF QTab!RowSelection
        <4> QED BY <2>9, <4>1, <4>2, <4>3, <4>4
      <3>3. CASE shown.selection.kind = "Rows" /\ ~extend /\ toggle
        <4>1. QTab!RowSelection(row, extend, toggle) \in
                {QTab!NoSelection, [kind |-> "Rows", anchor |-> row, rows |-> flipped]}
          BY <3>3 DEF QTab!RowSelection
        <4> HIDE DEF flipped
        <4> QED BY <2>8, <2>9, <3>1, <4>1
      <3>4. CASE ~(shown.selection.kind = "Rows" /\ extend)
                 /\ ~(shown.selection.kind = "Rows" /\ ~extend /\ toggle)
        <4>1. QTab!RowSelection(row, extend, toggle) = [kind |-> "Rows", anchor |-> row, rows |-> {row}]
          BY <3>4 DEF QTab!RowSelection
        <4> QED BY <2>9, <3>1, <4>1
      <3> QED BY <3>2, <3>3, <3>4
    <2>12. Good(QTab!AllRows)
      <3>1. CASE n = 0
        BY <2>8, <3>1 DEF QTab!AllRows
      <3>2. CASE n # 0
        <4>1. QTab!AllRows = [kind |-> "Rows", anchor |-> 1, rows |-> 1..n]
          BY <3>2 DEF QTab!AllRows
        <4>2. 1 \in 1..n /\ 1..n \in SUBSET (1..n)
          BY <2>2, <3>2
        <4> HIDE DEF Good, n
        <4> QED BY <2>9, <4>1, <4>2
      <3> QED BY <3>1, <3>2
    <2>13. PICK new : Good(new) /\ shown' = [shown EXCEPT !.selection = new]
      <3> HIDE DEF Good
      <3> QED BY <1>13, <2>8, <2>10, <2>11, <2>12 DEF QTab!Select
    <2> QED BY <2>3, <2>13
  <1> QED BY <1>2, <1>5, <1>6, <1>7, <1>8, <1>10, <1>11, <1>12, <1>13
          DEF QTab!Next, QTab!RunNext, QTab!Execute, QTab!RunAdvances, QTab!ToggleChart

\* The picker offers what was asked for the target as it is.
LEMMA PickerKeeps ==
  ASSUME QTab!TypeInv, QTab!PickerInv, QTab!Next
  PROVE  QTab!PickerInv'
  <1>1. /\ session \in Nat /\ picker.loads \subseteq QTab!Load
        /\ picker = [loads |-> picker.loads, busy |-> picker.busy, menu |-> picker.menu]
    BY DEF QTab!TypeInv, QTab!Picker
  <1>2. CASE UNCHANGED <<target, schema, picker>>
    BY <1>2 DEF QTab!PickerInv
  <1>3. CASE QTab!FileNext
    BY <1>2, <1>3 DEF QTab!FileNext, QTab!Type, QTab!ClearTab, QTab!OpenFile,
       QTab!SaveFile, QTab!FileRuns, QTab!FileReturns, QTab!AnswerDiscard, QTab!AnswerPath,
       QTab!contextVars
  <1>4. CASE QTab!RunNext
    BY <1>2, <1>4 DEF QTab!RunNext, QTab!Execute, QTab!RunAdvances, QTab!RunFails,
       QTab!RunReturns, QTab!Finished, QTab!SelectResult, QTab!ToggleChart, QTab!Select
  \* Another target.
  <1>5. ASSUME schema' = Nothing,
               picker' = [loads |-> QTab!Stale(picker.loads), busy |-> FALSE, menu |-> Nothing]
        PROVE  QTab!PickerInv'
    <2>1. \A l \in QTab!Load : ~[l EXCEPT !.current = FALSE].current
      BY DEF QTab!Load
    <2>2. \A l \in QTab!Stale(picker.loads) : ~l.current
      BY <1>1, <2>1 DEF QTab!Stale
    <2>3. picker'.loads = QTab!Stale(picker.loads) /\ picker'.menu = Nothing
      BY <1>5
    <2> QED BY <1>5, <2>2, <2>3 DEF QTab!PickerInv
  <1>6. CASE UNCHANGED <<target, schema>> /\ picker' = [picker EXCEPT !.menu = Nothing]
    <2>1. picker'.loads = picker.loads /\ picker'.menu = Nothing
      BY <1>1, <1>6
    <2> QED BY <1>6, <2>1 DEF QTab!PickerInv
  <1>7. \A t : QTab!SetTarget(t) => QTab!PickerInv'
    BY <1>2, <1>5 DEF QTab!SetTarget
  <1>8. QTab!ClearTarget => QTab!PickerInv'
    BY <1>5 DEF QTab!ClearTarget
  <1>9. CASE QTab!Connect \/ QTab!Retire
    BY <1>2, <1>9 DEF QTab!Connect, QTab!Retire, QTab!contextVars
  <1>10. CASE QTab!SessionsChanged \/ QTab!Invalidate
    BY <1>2, <1>8, <1>10 DEF QTab!SessionsChanged, QTab!Invalidate, QTab!contextVars
  <1>11. CASE QTab!DismissMenu
    BY <1>6, <1>11 DEF QTab!DismissMenu
  <1>12. CASE \E d \in Databases : QTab!SelectInPanel(d)
    BY <1>7, <1>12 DEF QTab!SelectInPanel
  <1>13. ASSUME NEW k \in {"database", "schema"}, QTab!OpenPicker(k)
         PROVE  QTab!PickerInv'
    <2>1. /\ UNCHANGED <<target, schema>> /\ (k = "schema" => target # Nothing)
          /\ picker' = [loads |-> QTab!Stale(picker.loads)
                                    \cup {[kind |-> k, target |-> target, current |-> TRUE]},
                        busy |-> TRUE, menu |-> Nothing]
      BY <1>13 DEF QTab!OpenPicker
    <2>2. \A l \in QTab!Load : ~[l EXCEPT !.current = FALSE].current
      BY DEF QTab!Load
    <2>3. \A l \in QTab!Stale(picker.loads) : ~l.current
      BY <1>1, <2>2 DEF QTab!Stale
    <2>4. /\ picker'.loads = QTab!Stale(picker.loads)
                                \cup {[kind |-> k, target |-> target, current |-> TRUE]}
          /\ picker'.menu = Nothing
      BY <2>1
    <2> QED BY <2>1, <2>3, <2>4 DEF QTab!PickerInv
  <1>14. ASSUME NEW l \in picker.loads, QTab!LoadReturns(l)
         PROVE  QTab!PickerInv'
    <2>1. UNCHANGED <<target, schema>>
      BY <1>14 DEF QTab!LoadReturns
    <2>2. CASE ~l.current
      <3>1. picker' = [picker EXCEPT !.loads = @ \ {l}]
        BY <1>14, <2>2 DEF QTab!LoadReturns
      <3>2. picker'.loads = picker.loads \ {l} /\ picker'.menu = picker.menu
        BY <1>1, <3>1
      <3> QED BY <2>1, <3>2 DEF QTab!PickerInv
    <2>3. CASE l.current
      <3>1. PICK menu : /\ menu = Nothing \/ \E c \in {{}, QTab!Choices(l)} :
                                               menu = [kind |-> l.kind, choices |-> c]
                        /\ picker' = [loads |-> picker.loads \ {l}, busy |-> FALSE, menu |-> menu]
        BY <1>14, <2>3 DEF QTab!LoadReturns
      <3>2. picker'.loads = picker.loads \ {l} /\ picker'.menu = menu
        BY <3>1
      <3>3. l.target = target /\ (l.kind = "schema" => target # Nothing)
        BY <2>3 DEF QTab!PickerInv
      <3>4. l.kind = "database" => QTab!Choices(l) \subseteq QTab!Targets
        BY <1>1 DEF QTab!Choices, QTab!Targets
      <3>5. l.kind = "schema" => QTab!Choices(l) = {Nothing} \cup SchemasOf[target.database]
        BY <3>3 DEF QTab!Choices
      <3>6. CASE menu = Nothing
        BY <2>1, <3>2, <3>6 DEF QTab!PickerInv
      <3>7. ASSUME NEW c \in {{}, QTab!Choices(l)}, menu = [kind |-> l.kind, choices |-> c]
            PROVE  QTab!PickerInv'
        <4>1. menu.kind = l.kind /\ menu.choices = c
          BY <3>7
        <4> QED BY <2>1, <3>2, <3>3, <3>4, <3>5, <4>1 DEF QTab!PickerInv
      <3> QED BY <3>1, <3>6, <3>7
    <2> QED BY <2>2, <2>3
  <1>15. ASSUME NEW c, QTab!ChooseDatabase(c)
         PROVE  QTab!PickerInv'
    BY <1>6, <1>7, <1>15 DEF QTab!ChooseDatabase
  <1>16. ASSUME picker.menu # Nothing, NEW c \in picker.menu.choices,
                picker.menu.kind = "schema", QTab!ChooseSchema(c)
         PROVE  QTab!PickerInv'
    <2>1. /\ target' = target /\ schema' = c
          /\ picker' = [picker EXCEPT !.menu = Nothing]
      BY <1>16 DEF QTab!ChooseSchema
    <2>2. picker'.loads = picker.loads /\ picker'.menu = Nothing
      BY <1>1, <2>1
    <2>3. target # Nothing /\ c \in {Nothing} \cup SchemasOf[target.database]
      BY <1>16 DEF QTab!PickerInv
    <2> QED BY <2>1, <2>2, <2>3 DEF QTab!PickerInv
  <1>17. CASE QTab!ContextNext
    BY <1>9, <1>10, <1>11, <1>12, <1>13, <1>14, <1>15, <1>16, <1>17 DEF QTab!ContextNext
  <1> QED BY <1>3, <1>4, <1>17 DEF QTab!Next

LEMMA TabStarts ==
  ASSUME QTab!ConstantsAssumption, QTab!Init
  PROVE  QTab!TabInv
  <1>1. limits \in Limits /\ limits.texts \subseteq Texts /\ Empty \in QTab!Contents
    BY DEF QTab!Init, QTab!ConstantsAssumption, QTab!Contents
  <1>2. disk \in [Paths -> QTab!Contents] /\ text \in QTab!Contents
    BY <1>1 DEF QTab!Init, QTab!Contents
  <1>3. file \in QTab!FileState
    BY <1>1 DEF QTab!Init, QTab!FileState
  <1>4. target \in QTab!Targets \cup {Nothing} /\ schema \in QTab!Schemas /\ runs \subseteq QTab!Run
        /\ picker \in QTab!Picker
    BY DEF QTab!Init, QTab!Schemas, QTab!Picker
  <1>5. session \in Nat /\ opened \in Nat /\ panel \in Nat
    BY DEF QTab!Init
  <1>6. QTab!TypeInv
    BY <1>1, <1>2, <1>3, <1>4, <1>5 DEF QTab!TypeInv
  <1>7. QTab!FileInv
    BY DEF QTab!Init, QTab!FileInv
  <1>8. QTab!RunInv
    BY DEF QTab!Init, QTab!RunInv, QTab!NoResults, QTab!NoChart
  <1>9. QTab!SelectionInv
    BY DEF QTab!Init, QTab!SelectionInv, QTab!NoResults, QTab!NoSelection
  <1>10. QTab!PickerInv
    BY DEF QTab!Init, QTab!PickerInv
  <1> QED BY <1>6, <1>7, <1>8, <1>9, <1>10 DEF QTab!TabInv

\* The inductive invariant of a tab: a run, a load and a file operation under
\* way are those of the context, or stale.
THEOREM TabHolds ==
  ASSUME QTab!ConstantsAssumption
  PROVE  QTab!Spec => []QTab!TabInv
  <1>1. QTab!Init => QTab!TabInv
    BY TabStarts
  <1>2. QTab!TabInv /\ [QTab!Next]_(QTab!vars) => QTab!TabInv'
    <2> SUFFICES ASSUME QTab!TabInv, [QTab!Next]_(QTab!vars) PROVE QTab!TabInv'
      OBVIOUS
    <2>1. /\ QTab!TypeInv /\ QTab!FileInv /\ QTab!RunInv /\ QTab!SelectionInv /\ QTab!PickerInv
      BY DEF QTab!TabInv
    <2>2. CASE QTab!Next
      <3>1. QTab!TypeInv'
        BY <2>1, <2>2, FileTypes, ContextTypes, RunTypes DEF QTab!Next
      <3>2. QTab!FileInv'
        <4>1. CASE QTab!FileNext
          BY <2>1, <4>1, FileKeeps
        <4>2. CASE QTab!ContextNext \/ QTab!RunNext
          <5>1. UNCHANGED <<disk, file>>
            BY <4>2 DEF QTab!ContextNext, QTab!Connect, QTab!Retire, QTab!SessionsChanged,
               QTab!Invalidate, QTab!DismissMenu, QTab!SelectInPanel, QTab!OpenPicker,
               QTab!LoadReturns, QTab!ChooseDatabase, QTab!ChooseSchema, QTab!fileVars,
               QTab!RunNext, QTab!Execute, QTab!RunAdvances, QTab!RunFails, QTab!RunReturns,
               QTab!Finished, QTab!SelectResult, QTab!ToggleChart, QTab!Select
          <5> QED BY <2>1, <5>1 DEF QTab!FileInv
        <4> QED BY <2>2, <4>1, <4>2 DEF QTab!Next
      <3>3. QTab!RunInv'
        BY <2>1, <2>2, RunsKeptByContext, RunsKeptByFiles, RunsKeptByRuns DEF QTab!Next
      <3>4. QTab!SelectionInv'
        BY <2>1, <2>2, SelectionKeeps
      <3>5. QTab!PickerInv'
        BY <2>1, <2>2, PickerKeeps
      <3> QED BY <3>1, <3>2, <3>3, <3>4, <3>5 DEF QTab!TabInv
    <2>3. CASE UNCHANGED QTab!vars
      BY <2>1, <2>3 DEF QTab!TabInv, QTab!vars, QTab!TypeInv, QTab!FileInv, QTab!RunInv,
         QTab!OfContext, QTab!SelectionInv, QTab!ActiveResult, QTab!PickerInv
    <2> QED BY <2>2, <2>3
  <1> QED BY <1>1, <1>2, PTL DEF QTab!Spec

\* What a tab shows belongs to its context and what looks saved is saved,
\* whatever is typed, chosen, run, lost and reopened meanwhile.
THEOREM QueryTabsAreTrue ==
  ASSUME QTab!ConstantsAssumption
  PROVE  QTab!Spec => []QueryTabIsTrue
  <1>1. QTab!TabInv => QueryTabIsTrue
    <2> SUFFICES ASSUME QTab!TabInv PROVE QueryTabIsTrue
      OBVIOUS
    <2>1. /\ QTab!TypeInv /\ QTab!FileInv /\ QTab!RunInv /\ QTab!SelectionInv /\ QTab!PickerInv
      BY DEF QTab!TabInv
    <2>2. QTab!CleanMeansSaved
      BY <2>1 DEF QTab!CleanMeansSaved, QTab!FileInv, QTab!Dirty
    <2>3. shown.selection.kind = "None" => shown.selection.rows = {}
      BY <2>1 DEF QTab!SelectionInv
    <2>4. shown.selection.rows # {} =>
            QTab!ActiveResult # Nothing /\ shown.selection.rows \subseteq 1..QTab!ActiveResult.rows
      BY <2>1, <2>3 DEF QTab!SelectionInv
    <2>5. QTab!ResultsBelongToContext
      BY <2>1, <2>4 DEF QTab!ResultsBelongToContext, QTab!RunInv, QTab!OfContext, QTab!PickerInv
    <2> QED BY <2>2, <2>5 DEF QueryTabIsTrue
  <1> QED BY <1>1, TabHolds, PTL

=============================================================================
