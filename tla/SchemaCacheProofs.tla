------------------------- MODULE SchemaCacheProofs -------------------------
(***************************************************************************)
(* TLAPS proofs about SchemaCache: types, and that neither the cache nor a *)
(* refresh ever goes back behind a refresh, for any number of loaders,     *)
(* databases, revisions and sessions.                                      *)
(***************************************************************************)
EXTENDS SchemaCache, TLAPS

-----------------------------------------------------------------------------
(* The inductive invariant *)

\* Loader k is about to store its value in scope s, and may.
Storing(k, s) ==
  /\ loader[k].step = "write" /\ Scope(k) = s
  /\ loader[k].ticket = epoch[s]

\* Whatever scope s has or will get from a running load is not older than t.
NotOlder(s, t) ==
  /\ Hit(s) => entry[s].value.version >= t
  /\ \A k \in Loaders : Storing(k, s) => loader[k].value.version >= t

\* Entries belong to scopes that exist and to epochs that were reached.
EntryInv ==
  \A s \in Scopes : /\ refreshed[s] <= clock
                    /\ entry[s] # None => s \in scopes /\ entry[s].epoch <= epoch[s]

\* A loader knows its revision after the first step, its scope exists before
\* it has a ticket, no ticket is ahead of its scope, and a handle is one that
\* was installed.
Loading == {"profile", "scope", "ticket", "driver", "lock", "query", "write"}

LoaderInv(l) ==
  /\ loader[l].asked <= clock
  /\ loader[l].step \in Loading => loader[l].database \in Databases
  /\ loader[l].step \in Loading \ {"profile"} => loader[l].revision \in Revisions
  /\ loader[l].step \in {"profile", "scope", "ticket"} => loader[l].ticket = None
  /\ loader[l].step = "ticket" => Scope(l) \in scopes
  /\ loader[l].step \in Loading /\ loader[l].ticket # None
       => Scope(l) \in scopes /\ loader[l].ticket <= epoch[Scope(l)]
  /\ loader[l].step = "write" => loader[l].ticket # None
  /\ loader[l].step \in Loading /\ loader[l].kind = "list" => loader[l].handle.revision \in Revisions
  /\ loader[l].step \in {"lock", "query"} => loader[l].handle.revision \in Revisions
  /\ loader[l].step \in {"write", "done"} => loader[l].value \in Value

TicketInv == \A l \in Loaders : LoaderInv(l)

SessionInv == session # NoSession => session.revision \in Revisions

RefreshedInv == \A s \in Scopes : NotOlder(s, refreshed[s])

\* What a running refresh asked for holds in every scope it may come to read.
AskedOK(l) ==
  loader[l].cause = "refresh" =>
    /\ loader[l].step \in {"profile", "scope", "ticket"} =>
         \A s \in Scopes : s[2] = loader[l].database => NotOlder(s, loader[l].asked)
    /\ loader[l].step \in {"write", "done"} => loader[l].value.version >= loader[l].asked

AskedInv == \A l \in Loaders : AskedOK(l)

IInv == TypeOK /\ EntryInv /\ TicketInv /\ SessionInv /\ RefreshedInv /\ AskedInv

-----------------------------------------------------------------------------
(* What a step of one loader needs to keep the invariant *)

\* The clock does not go back and the cache keeps its epochs and entries.
CacheKept ==
  /\ clock' \in Nat /\ clock <= clock'
  /\ scopes \subseteq scopes'
  /\ UNCHANGED <<epoch, entry, refreshed>>

\* Record r is what a loader that was at loader[l] may become.
Follows(l, r) ==
  /\ r.step = "write" => r.value.version = clock
  /\ r.cause = "refresh" =>
       /\ r.step \in {"profile", "scope", "ticket"} =>
            /\ loader[l].cause = "refresh" /\ loader[l].step \in {"profile", "scope", "ticket"}
            /\ r.asked = loader[l].asked /\ r.database = loader[l].database
       /\ r.step \in {"write", "done"} => r.value.version >= r.asked

LEMMA OlderKept ==
  ASSUME TypeOK, NEW l \in Loaders, NEW r \in Loader,
         loader' = [loader EXCEPT ![l] = r],
         r.step = "write" => r.value.version = clock,
         UNCHANGED <<epoch, entry>>,
         NEW s \in Scopes, NEW t \in Nat, t <= clock, NotOlder(s, t)
  PROVE  NotOlder(s, t)'
<1>1. (Hit(s) => entry[s].value.version >= t)'
  BY DEF NotOlder, Hit
<1>2. ASSUME NEW k \in Loaders, Storing(k, s)' PROVE (loader[k].value.version >= t)'
  <2>1. CASE k = l
    <3>1. loader'[k] = r
      BY <2>1 DEF TypeOK
    <3> QED BY <3>1, <1>2 DEF Storing, TypeOK
  <2>2. CASE k # l
    <3>1. loader'[k] = loader[k]
      BY <2>2 DEF TypeOK
    <3> QED BY <3>1, <1>2 DEF Storing, NotOlder, Scope
  <2> QED BY <2>1, <2>2
<1> QED BY <1>1, <1>2 DEF NotOlder

\* A step of loader l that leaves the cache as it is keeps the invariant if
\* the loader's own record does.
LEMMA LoaderStep ==
  ASSUME IInv, CacheKept, TypeOK', SessionInv',
         NEW l \in Loaders, NEW r \in Loader,
         loader' = [loader EXCEPT ![l] = r],
         LoaderInv(l)', Follows(l, r)
  PROVE  IInv'
<1> USE DEF IInv
<1>1. EntryInv'
  BY DEF EntryInv, CacheKept, TypeOK
<1>2. TicketInv'
  <2> SUFFICES ASSUME NEW k \in Loaders, k # l PROVE LoaderInv(k)'
    BY DEF TicketInv
  <2>1. loader'[k] = loader[k] /\ Scope(k)' = Scope(k)
    BY DEF TypeOK, Scope
  <2>2. LoaderInv(k) /\ loader[k] \in Loader /\ clock \in Nat
    BY ConstantsAssumption DEF TicketInv, TypeOK
  <2> QED BY <2>1, <2>2 DEF LoaderInv, CacheKept, Loader
<1>3. ASSUME NEW s \in Scopes, NEW t \in Nat, t <= clock, NotOlder(s, t) PROVE NotOlder(s, t)'
  BY <1>3, OlderKept DEF CacheKept, Follows
<1>4. RefreshedInv'
  <2> SUFFICES ASSUME NEW s \in Scopes PROVE NotOlder(s, refreshed[s])'
    BY DEF RefreshedInv
  <2>1. refreshed'[s] = refreshed[s] /\ refreshed[s] \in Nat /\ refreshed[s] <= clock
    BY DEF CacheKept, TypeOK, EntryInv
  <2> QED BY <2>1, <1>3 DEF RefreshedInv, NotOlder
<1>5. AskedInv'
  <2> SUFFICES ASSUME NEW k \in Loaders PROVE AskedOK(k)'
    BY DEF AskedInv
  <2>0. loader[k].asked \in Nat /\ loader[k].asked <= clock /\ AskedOK(k) /\ AskedOK(l)
    BY DEF AskedInv, TicketInv, LoaderInv, TypeOK, Loader
  <2>1. CASE k # l
    <3>1. loader'[k] = loader[k]
      BY <2>1 DEF TypeOK
    <3> QED BY <3>1, <2>0, <1>3 DEF AskedOK, NotOlder
  <2>2. CASE k = l
    <3>1. loader'[k] = r
      BY <2>2 DEF TypeOK
    <3>2. CASE r.cause = "refresh" /\ r.step \in {"profile", "scope", "ticket"}
      <4>1. \A s \in Scopes : s[2] = r.database => NotOlder(s, loader[l].asked)'
        BY <3>2, <2>0, <2>2, <1>3 DEF AskedOK, Follows, NotOlder
      <4> QED BY <3>1, <3>2, <4>1 DEF AskedOK, Follows
    <3> QED BY <3>1, <3>2 DEF AskedOK, Follows
  <2> QED BY <2>1, <2>2
<1> QED BY <1>1, <1>2, <1>4, <1>5

-----------------------------------------------------------------------------
(* The steps of a loader that leave epochs and entries alone *)

\* A step of loader l that changes nothing else.
LEMMA OnlyLoader ==
  ASSUME IInv, UNCHANGED <<cacheVars, sessionVars, clock>>,
         NEW l \in Loaders, NEW r \in Loader,
         loader' = [loader EXCEPT ![l] = r],
         LoaderInv(l)', Follows(l, r)
  PROVE  IInv'
<1>1. TypeOK'
  BY DEF IInv, TypeOK, cacheVars, sessionVars
<1>2. SessionInv'
  BY DEF IInv, SessionInv, sessionVars
<1>3. CacheKept
  BY ConstantsAssumption DEF CacheKept, cacheVars, IInv, TypeOK
<1> QED BY <1>1, <1>2, <1>3, LoaderStep

LEMMA IdleKept ==
  ASSUME IInv, NEW l \in Loaders, loader' = [loader EXCEPT ![l] = Idle], clock' \in Nat
  PROVE  Idle \in Loader /\ LoaderInv(l)' /\ Follows(l, Idle)
<1>1. Idle \in Loader
  BY ConstantsAssumption DEF Idle, Request, Loader, Handle, NoSession
<1>2. loader'[l] = Idle
  BY DEF IInv, TypeOK
<1>3. LoaderInv(l)'
  BY <1>2, ConstantsAssumption DEF LoaderInv, Idle, Request, Loading
<1> QED BY <1>1, <1>3 DEF Follows, Idle, Request

\* A request, and the record it starts with.
LEMMA RequestType ==
  ASSUME NEW kind \in {"list", "objects"}, NEW cause \in {"open", "refresh", "mutated"},
         NEW d \in Databases, NEW t \in 0..MaxClock
  PROVE  Request(kind, cause, d, t) \in Loader
BY ConstantsAssumption DEF Request, Loader, Handle, NoSession

LEMMA StartedIs ==
  ASSUME TypeOK, SessionInv, NEW l \in Loaders,
         NEW kind \in {"list", "objects"}, NEW cause \in {"open", "refresh", "mutated"},
         NEW d \in Databases, NEW t \in 0..MaxClock, NEW r,
         r = Started(l, Request(kind, cause, d, t)), r # Idle
  PROVE  /\ r \in Loader /\ r.step = "profile" /\ r.cause = cause /\ r.database = d
         /\ r.asked = t /\ r.ticket = None
         /\ r.kind = "list" => r.handle.revision \in Revisions
<1> DEFINE q == Request(kind, cause, d, t)
<1>1. q \in Loader
  BY RequestType
<1>2. q.kind = kind /\ q.cause = cause /\ q.database = d /\ q.asked = t /\ q.ticket = None
  BY DEF Request
<1> HIDE DEF q
<1>3. CASE kind = "objects"
  <2>1. r = [q EXCEPT !.step = "profile"]
    BY <1>2, <1>3 DEF Started, q
  <2> QED BY <2>1, <1>1, <1>2, <1>3 DEF Loader
<1>4. CASE kind # "objects"
  <2>1. r = [q EXCEPT !.step = "profile", !.handle = session] /\ session # NoSession
    BY <1>2, <1>4 DEF Started, q
  <2> QED BY <2>1, <1>1, <1>2 DEF Loader, TypeOK, SessionInv
<1> QED BY <1>3, <1>4

LEMMA OpenKeeps == ASSUME IInv, NEW l \in Loaders, Open(l) PROVE IInv'
<1>1. PICK kind \in {"list", "objects"}, d \in Databases : Start(l, Request(kind, "open", d, 0))
  BY DEF Open
<1> DEFINE r == Started(l, Request(kind, "open", d, 0))
<1>2. loader' = [loader EXCEPT ![l] = r]
  BY <1>1 DEF Start
<1>3. UNCHANGED <<cacheVars, sessionVars, clock>>
  BY DEF Open
<1> HIDE DEF r
<1>4. CASE r = Idle
  <2>1. clock' \in Nat
    BY <1>3, ConstantsAssumption DEF IInv, TypeOK
  <2> QED BY <2>1, <1>2, <1>3, <1>4, IdleKept, OnlyLoader
<1>5. CASE r # Idle
  <2>1. 0 \in 0..MaxClock
    BY ConstantsAssumption
  <2>2. /\ r \in Loader /\ r.step = "profile" /\ r.cause = "open" /\ r.database = d
        /\ r.asked = 0 /\ r.ticket = None
        /\ r.kind = "list" => r.handle.revision \in Revisions
    BY <2>1, <1>5, StartedIs DEF r, IInv
  <2>3. loader'[l] = r
    BY <1>2 DEF IInv, TypeOK
  <2>4. LoaderInv(l)'
    BY <2>2, <2>3, <1>3, ConstantsAssumption DEF LoaderInv, IInv, TypeOK, Loading
  <2>5. Follows(l, r)
    BY <2>2 DEF Follows
  <2> QED BY <2>2, <2>4, <2>5, <1>2, <1>3, OnlyLoader
<1> QED BY <1>4, <1>5

LEMMA ProfileKeeps == ASSUME IInv, NEW l \in Loaders, Profile(l) PROVE IInv'
<1> DEFINE r == [loader[l] EXCEPT !.step = "scope", !.revision = revision]
<1>1. loader[l] \in Loader /\ LoaderInv(l) /\ loader[l].step = "profile" /\ revision \in Revisions
  BY DEF Profile, IInv, TypeOK, TicketInv
<1>2. loader' = [loader EXCEPT ![l] = r]
  BY DEF Profile
<1>3. UNCHANGED <<cacheVars, sessionVars, clock>>
  BY DEF Profile
<1>4. /\ r \in Loader /\ r.step = "scope" /\ r.revision = revision
      /\ r.asked = loader[l].asked /\ r.database = loader[l].database /\ r.ticket = loader[l].ticket
      /\ r.cause = loader[l].cause /\ r.kind = loader[l].kind /\ r.handle = loader[l].handle
  BY <1>1 DEF Loader
<1> HIDE DEF r
<1>5. loader'[l] = r
  BY <1>2 DEF IInv, TypeOK
<1>6. LoaderInv(l)'
  BY <1>1, <1>3, <1>4, <1>5 DEF LoaderInv, Loading
<1>7. Follows(l, r)
  BY <1>1, <1>4 DEF Follows
<1> QED BY <1>2, <1>3, <1>4, <1>6, <1>7, OnlyLoader

\* Loader l goes on to another step and keeps everything else it knows.
LEMMA Advances ==
  ASSUME IInv, NEW l \in Loaders, NEW step \in Loading,
         loader' = [loader EXCEPT ![l].step = step]
  PROVE  \E r \in Loader :
           /\ loader' = [loader EXCEPT ![l] = r] /\ loader'[l] = r
           /\ r.step = step /\ r.kind = loader[l].kind /\ r.cause = loader[l].cause
           /\ r.database = loader[l].database /\ r.asked = loader[l].asked
           /\ r.revision = loader[l].revision /\ r.ticket = loader[l].ticket
           /\ r.handle = loader[l].handle /\ r.value = loader[l].value
<1> DEFINE r == [loader[l] EXCEPT !.step = step]
<1>1. loader[l] \in Loader /\ loader \in [Loaders -> Loader]
  BY DEF IInv, TypeOK
<1>2. /\ r \in Loader
      /\ r.step = step /\ r.kind = loader[l].kind /\ r.cause = loader[l].cause
      /\ r.database = loader[l].database /\ r.asked = loader[l].asked
      /\ r.revision = loader[l].revision /\ r.ticket = loader[l].ticket
      /\ r.handle = loader[l].handle /\ r.value = loader[l].value
  BY <1>1 DEF Loader, Loading
<1>3. loader' = [loader EXCEPT ![l] = r]
  OBVIOUS
<1> HIDE DEF r
<1>4. loader'[l] = r
  BY <1>1, <1>3
<1> QED BY <1>2, <1>3, <1>4

LEMMA AddScopeKeeps == ASSUME IInv, NEW l \in Loaders, AddScope(l) PROVE IInv'
<1>1. loader[l] \in Loader /\ LoaderInv(l) /\ loader[l].step = "scope"
  BY DEF AddScope, IInv, TypeOK, TicketInv
<1>2. PICK r \in Loader :
        /\ loader' = [loader EXCEPT ![l] = r] /\ loader'[l] = r
        /\ r.step = "ticket" /\ r.kind = loader[l].kind /\ r.cause = loader[l].cause
        /\ r.database = loader[l].database /\ r.asked = loader[l].asked
        /\ r.revision = loader[l].revision /\ r.ticket = loader[l].ticket
        /\ r.handle = loader[l].handle /\ r.value = loader[l].value
  BY Advances DEF AddScope, Step, Loading
<1>3. Scope(l) \in Scopes
  BY <1>1 DEF LoaderInv, Loading, Scope, Scopes
<1>4. scopes' = scopes \cup {Scope(l)} /\ UNCHANGED <<epoch, entry, refreshed, sessionVars, clock>>
  BY DEF AddScope
<1>5. TypeOK' /\ SessionInv'
  BY <1>2, <1>3, <1>4 DEF IInv, TypeOK, SessionInv, sessionVars
<1>6. CacheKept
  BY <1>4, ConstantsAssumption DEF CacheKept, IInv, TypeOK
<1>7. LoaderInv(l)'
  BY <1>1, <1>2, <1>4 DEF LoaderInv, Loading, Scope
<1>8. Follows(l, r)
  BY <1>1, <1>2 DEF Follows
<1> QED BY <1>2, <1>5, <1>6, <1>7, <1>8, LoaderStep

\* An answer: what the loader found, and what it was asked.
LEMMA DoneIs ==
  ASSUME IInv, NEW l \in Loaders, NEW v \in Value, NEW r, r = Done(l, v)
  PROVE  /\ r \in Loader /\ r.step = "done" /\ r.value = v
         /\ r.cause = loader[l].cause /\ r.asked = loader[l].asked
<1>1. Idle \in Loader
  BY ConstantsAssumption DEF Idle, Request, Loader, Handle, NoSession
<1>2. loader[l] \in Loader
  BY DEF IInv, TypeOK
<1> QED BY <1>1, <1>2 DEF Done, Loader

LEMMA DoneKeeps ==
  ASSUME IInv, NEW l \in Loaders, NEW v \in Value,
         loader' = [loader EXCEPT ![l] = Done(l, v)],
         UNCHANGED <<cacheVars, sessionVars, clock>>,
         loader[l].cause = "refresh" => v.version >= loader[l].asked
  PROVE  IInv'
<1> DEFINE r == Done(l, v)
<1>1. /\ r \in Loader /\ r.step = "done" /\ r.value = v
      /\ r.cause = loader[l].cause /\ r.asked = loader[l].asked
  BY DoneIs
<1>2. loader' = [loader EXCEPT ![l] = r]
  OBVIOUS
<1>3. LoaderInv(l)
  BY DEF IInv, TicketInv
<1> HIDE DEF r
<1>4. loader'[l] = r
  BY <1>2 DEF IInv, TypeOK
<1>5. LoaderInv(l)'
  BY <1>1, <1>3, <1>4 DEF LoaderInv, Loading
<1>6. Follows(l, r)
  BY <1>1 DEF Follows
<1> QED BY <1>1, <1>2, <1>5, <1>6, OnlyLoader

LEMMA TicketKeeps == ASSUME IInv, NEW l \in Loaders, Ticket(l) PROVE IInv'
<1>1. loader[l] \in Loader /\ LoaderInv(l) /\ loader[l].step = "ticket" /\ AskedOK(l)
  BY DEF Ticket, IInv, TypeOK, TicketInv, AskedInv
<1>2. Scope(l) \in Scopes /\ Scope(l) \in scopes /\ Scope(l)[2] = loader[l].database
  BY <1>1 DEF LoaderInv, Loading, Scope, Scopes
<1>3. UNCHANGED <<cacheVars, sessionVars, clock>>
  BY DEF Ticket
<1>4. CASE Hit(Scope(l))
  <2> DEFINE v == entry[Scope(l)].value
  <2>1. v \in Value
    BY <1>2, <1>4 DEF Hit, IInv, TypeOK, Entry
  <2>2. loader' = [loader EXCEPT ![l] = Done(l, v)]
    BY <1>4 DEF Ticket
  <2>3. loader[l].cause = "refresh" => v.version >= loader[l].asked
    BY <1>1, <1>2, <1>4 DEF AskedOK, NotOlder
  <2> HIDE DEF v
  <2> QED BY <2>1, <2>2, <2>3, <1>3, DoneKeeps
<1>5. CASE ~Hit(Scope(l))
  <2> DEFINE r == [loader[l] EXCEPT !.step = Loads(l), !.ticket = epoch[Scope(l)]]
  <2>1. loader' = [loader EXCEPT ![l] = r]
    BY <1>5 DEF Ticket
  <2>2. Loads(l) \in {"lock", "driver"} /\ epoch[Scope(l)] \in 0..MaxEpoch
        /\ (Loads(l) = "lock" => loader[l].kind = "list")
    BY <1>2 DEF Loads, IInv, TypeOK
  <2>3. /\ r \in Loader /\ r.step = Loads(l) /\ r.ticket = epoch[Scope(l)]
        /\ r.asked = loader[l].asked /\ r.database = loader[l].database
        /\ r.revision = loader[l].revision
        /\ r.cause = loader[l].cause /\ r.kind = loader[l].kind /\ r.handle = loader[l].handle
    BY <1>1, <2>2 DEF Loader
  <2> HIDE DEF r
  <2>4. loader'[l] = r
    BY <2>1 DEF IInv, TypeOK
  <2>5. LoaderInv(l)'
    <3>1. Scope(l)' = Scope(l) /\ epoch' = epoch /\ scopes' = scopes /\ clock' = clock
      BY <2>3, <2>4, <1>3 DEF Scope, cacheVars
    <3>2. epoch[Scope(l)] \in Nat
      BY <2>2
    <3> QED BY <1>1, <1>2, <2>2, <2>3, <2>4, <3>1, <3>2 DEF LoaderInv, Loading
  <2>6. Follows(l, r)
    BY <2>2, <2>3 DEF Follows
  <2> QED BY <2>1, <2>3, <2>5, <2>6, <1>3, OnlyLoader
<1> QED BY <1>4, <1>5

LEMMA CacheFailsKeeps == ASSUME IInv, NEW l \in Loaders, CacheFails(l) PROVE IInv'
<1>1. loader[l] \in Loader /\ LoaderInv(l) /\ loader[l].step \in {"scope", "ticket"}
  BY DEF CacheFails, IInv, TypeOK, TicketInv
<1>2. Loads(l) \in {"lock", "driver"} /\ (Loads(l) = "lock" => loader[l].kind = "list")
  BY DEF Loads
<1>3. PICK r \in Loader :
        /\ loader' = [loader EXCEPT ![l] = r] /\ loader'[l] = r
        /\ r.step = Loads(l) /\ r.kind = loader[l].kind /\ r.cause = loader[l].cause
        /\ r.database = loader[l].database /\ r.asked = loader[l].asked
        /\ r.revision = loader[l].revision /\ r.ticket = loader[l].ticket
        /\ r.handle = loader[l].handle /\ r.value = loader[l].value
  <2>1. loader' = [loader EXCEPT ![l].step = Loads(l)] /\ Loads(l) \in Loading
    BY <1>2 DEF CacheFails, Step, Loading
  <2> QED BY <2>1, Advances
<1>4. UNCHANGED <<cacheVars, sessionVars, clock>>
  BY DEF CacheFails
<1>5. LoaderInv(l)'
  <2>1. loader[l].ticket = None /\ loader'[l].ticket = None
    BY <1>1, <1>3 DEF LoaderInv
  <2>2. loader'[l].step \in {"lock", "driver"}
        /\ (loader'[l].step = "lock" => loader'[l].kind = "list")
    BY <1>2, <1>3
  <2> QED BY <1>1, <1>3, <1>4, <2>1, <2>2 DEF LoaderInv, Loading
<1>6. Follows(l, r)
  BY <1>2, <1>3 DEF Follows
<1> QED BY <1>3, <1>4, <1>5, <1>6, OnlyLoader

LEMMA DriverKeeps == ASSUME IInv, NEW l \in Loaders, Driver(l) PROVE IInv'
<1>1. loader[l] \in Loader /\ LoaderInv(l) /\ loader[l].step = "driver"
  BY DEF Driver, IInv, TypeOK, TicketInv
<1>2. UNCHANGED <<cacheVars, sessionVars, clock>>
  BY DEF Driver
<1>3. CASE session = NoSession
  <2>1. loader' = [loader EXCEPT ![l] = Idle] /\ clock' \in Nat
    BY <1>2, <1>3, ConstantsAssumption DEF Driver, IInv, TypeOK
  <2> QED BY <2>1, <1>2, IdleKept, OnlyLoader
<1>4. CASE session # NoSession
  <2> DEFINE r == [loader[l] EXCEPT !.step = "lock", !.handle = session]
  <2>1. loader' = [loader EXCEPT ![l] = r]
    BY <1>4 DEF Driver
  <2>2. session \in Handle /\ session.revision \in Revisions
    BY <1>4 DEF IInv, TypeOK, SessionInv
  <2>3. /\ r \in Loader /\ r.step = "lock" /\ r.ticket = loader[l].ticket
        /\ r.asked = loader[l].asked /\ r.database = loader[l].database
        /\ r.revision = loader[l].revision
        /\ r.cause = loader[l].cause /\ r.kind = loader[l].kind /\ r.handle = session
    BY <1>1, <2>2 DEF Loader
  <2> HIDE DEF r
  <2>4. loader'[l] = r
    BY <2>1 DEF IInv, TypeOK
  <2>5. LoaderInv(l)'
    BY <1>1, <1>2, <2>2, <2>3, <2>4 DEF LoaderInv, Loading, Scope, cacheVars
  <2>6. Follows(l, r)
    BY <2>3 DEF Follows
  <2> QED BY <2>1, <2>3, <2>5, <2>6, <1>2, OnlyLoader
<1> QED BY <1>3, <1>4

LEMMA LockKeeps == ASSUME IInv, NEW l \in Loaders, Lock(l) PROVE IInv'
<1>1. loader[l] \in Loader /\ LoaderInv(l) /\ loader[l].step = "lock"
  BY DEF Lock, IInv, TypeOK, TicketInv
<1>2. UNCHANGED <<cacheVars, sessionVars, clock>>
  BY DEF Lock
<1>3. CASE loader[l].handle # session
  <2>1. loader' = [loader EXCEPT ![l] = Idle] /\ clock' \in Nat
    BY <1>2, <1>3, ConstantsAssumption DEF Lock, IInv, TypeOK
  <2> QED BY <2>1, <1>2, IdleKept, OnlyLoader
<1>4. CASE loader[l].handle = session
  <2>1. loader' = [loader EXCEPT ![l].step = "query"]
    BY <1>4 DEF Lock
  <2>2. PICK r \in Loader :
          /\ loader' = [loader EXCEPT ![l] = r] /\ loader'[l] = r
          /\ r.step = "query" /\ r.kind = loader[l].kind /\ r.cause = loader[l].cause
          /\ r.database = loader[l].database /\ r.asked = loader[l].asked
          /\ r.revision = loader[l].revision /\ r.ticket = loader[l].ticket
          /\ r.handle = loader[l].handle /\ r.value = loader[l].value
    BY <2>1, Advances DEF Loading
  <2>3. LoaderInv(l)'
    BY <1>1, <1>2, <2>2 DEF LoaderInv, Loading, Scope, cacheVars
  <2>4. Follows(l, r)
    BY <2>2 DEF Follows
  <2> QED BY <2>2, <2>3, <2>4, <1>2, OnlyLoader
<1> QED BY <1>3, <1>4

LEMMA QueryKeeps == ASSUME IInv, NEW l \in Loaders, Query(l) PROVE IInv'
<1> DEFINE v == [revision |-> loader[l].handle.revision, version |-> clock]
<1>1. loader[l] \in Loader /\ LoaderInv(l) /\ loader[l].step = "query"
  BY DEF Query, IInv, TypeOK, TicketInv
<1>2. UNCHANGED <<cacheVars, sessionVars, clock>>
  BY DEF Query
<1>3. v \in Value /\ v.version = clock
  BY <1>1 DEF LoaderInv, Value, IInv, TypeOK
<1>4. PICK succeeds \in BOOLEAN :
        loader' = [loader EXCEPT ![l] =
          IF ~succeeds THEN Idle
          ELSE IF loader[l].ticket = None THEN Done(l, v)
          ELSE [@ EXCEPT !.step = "write", !.value = v]]
  BY DEF Query
<1> HIDE DEF v
<1>5. CASE ~succeeds
  <2>1. loader' = [loader EXCEPT ![l] = Idle] /\ clock' \in Nat
    BY <1>2, <1>4, <1>5, ConstantsAssumption DEF IInv, TypeOK
  <2> QED BY <2>1, <1>2, IdleKept, OnlyLoader
<1>6. CASE succeeds /\ loader[l].ticket = None
  <2>1. loader' = [loader EXCEPT ![l] = Done(l, v)]
    BY <1>4, <1>6
  <2>2. v.version >= loader[l].asked
    BY <1>1, <1>3, ConstantsAssumption DEF LoaderInv, IInv, TypeOK, Loader
  <2> QED BY <2>1, <2>2, <1>2, <1>3, DoneKeeps
<1>7. CASE succeeds /\ loader[l].ticket # None
  <2> DEFINE r == [loader[l] EXCEPT !.step = "write", !.value = v]
  <2>1. loader' = [loader EXCEPT ![l] = r]
    BY <1>4, <1>7
  <2>2. /\ r \in Loader /\ r.step = "write" /\ r.value = v /\ r.ticket = loader[l].ticket
        /\ r.asked = loader[l].asked /\ r.database = loader[l].database
        /\ r.revision = loader[l].revision
        /\ r.cause = loader[l].cause /\ r.kind = loader[l].kind /\ r.handle = loader[l].handle
    BY <1>1, <1>3 DEF Loader
  <2> HIDE DEF r
  <2>3. loader'[l] = r
    BY <2>1 DEF IInv, TypeOK
  <2>4. LoaderInv(l)'
    BY <1>1, <1>2, <1>3, <1>7, <2>2, <2>3 DEF LoaderInv, Loading, Scope, cacheVars
  <2>5. Follows(l, r)
    BY <1>1, <1>3, <2>2, ConstantsAssumption DEF Follows, LoaderInv, IInv, TypeOK, Loader
  <2> QED BY <2>1, <2>2, <2>4, <2>5, <1>2, OnlyLoader
<1> QED BY <1>5, <1>6, <1>7

LEMMA AnswerKeeps == ASSUME IInv, NEW l \in Loaders, Answer(l) PROVE IInv'
<1>1. loader' = [loader EXCEPT ![l] = Idle] /\ UNCHANGED <<cacheVars, sessionVars, clock>>
  BY DEF Answer
<1>2. clock' \in Nat
  BY <1>1, ConstantsAssumption DEF IInv, TypeOK
<1> QED BY <1>1, <1>2, IdleKept, OnlyLoader

LEMMA MutateKeeps == ASSUME IInv, NEW l \in Loaders, Mutate(l) PROVE IInv'
<1>1. PICK kind \in {"list", "objects"}, d \in Databases :
        Start(l, Request(kind, "mutated", d, clock + 1))
  BY DEF Mutate
<1> DEFINE r == Started(l, Request(kind, "mutated", d, clock + 1))
<1>2. loader' = [loader EXCEPT ![l] = r]
  BY <1>1 DEF Start
<1>3. /\ UNCHANGED <<cacheVars, sessionVars>> /\ clock' = clock + 1
      /\ clock \in Nat /\ clock' \in 0..MaxClock
  BY ConstantsAssumption DEF Mutate, IInv, TypeOK
<1> HIDE DEF r
<1>4. CacheKept
  BY <1>3 DEF CacheKept, cacheVars
<1>5. SessionInv'
  BY <1>3 DEF IInv, SessionInv, sessionVars
<1>6. CASE r = Idle
  <2>0. loader' = [loader EXCEPT ![l] = Idle] /\ clock' \in Nat
    BY <1>2, <1>3, <1>6
  <2>1. Idle \in Loader /\ LoaderInv(l)' /\ Follows(l, Idle)
    BY <2>0, IdleKept
  <2>2. TypeOK'
    BY <2>1, <1>2, <1>3, <1>6 DEF IInv, TypeOK, cacheVars, sessionVars
  <2> QED BY <2>0, <2>1, <2>2, <1>4, <1>5, LoaderStep
<1>7. CASE r # Idle
  <2>1. /\ r \in Loader /\ r.step = "profile" /\ r.cause = "mutated" /\ r.database = d
        /\ r.asked = clock + 1 /\ r.ticket = None
        /\ r.kind = "list" => r.handle.revision \in Revisions
    BY <1>3, <1>7, StartedIs DEF r, IInv
  <2>2. loader'[l] = r
    BY <1>2 DEF IInv, TypeOK
  <2>3. LoaderInv(l)'
    BY <2>1, <2>2, <1>3, ConstantsAssumption DEF LoaderInv, Loading
  <2>4. Follows(l, r)
    BY <2>1 DEF Follows
  <2>5. TypeOK'
    BY <2>1, <1>2, <1>3 DEF IInv, TypeOK, cacheVars, sessionVars
  <2> QED BY <2>1, <2>3, <2>4, <2>5, <1>2, <1>4, <1>5, LoaderStep
<1> QED BY <1>6, <1>7

-----------------------------------------------------------------------------
(* The steps that store and invalidate *)

LEMMA WriteKeeps == ASSUME IInv, NEW l \in Loaders, Write(l) PROVE IInv'
<1> DEFINE w == Scope(l)
           v == loader[l].value
           r == Done(l, v)
<1>1. /\ loader[l] \in Loader /\ LoaderInv(l) /\ AskedOK(l) /\ loader[l].step = "write"
      /\ loader' = [loader EXCEPT ![l] = r]
      /\ UNCHANGED <<scopes, epoch, refreshed, sessionVars, clock>>
  BY DEF Write, IInv, TypeOK, TicketInv, AskedInv
<1>2. w \in Scopes /\ w \in scopes /\ v \in Value
  BY <1>1 DEF LoaderInv, Loading, Scope, Scopes
<1>3. /\ r \in Loader /\ r.step = "done" /\ r.value = v
      /\ r.cause = loader[l].cause /\ r.asked = loader[l].asked
  BY <1>2, DoneIs
<1>4. \/ /\ epoch[w] = loader[l].ticket
         /\ entry' = [entry EXCEPT ![w] = [epoch |-> epoch[w], value |-> v]]
      \/ UNCHANGED entry
  BY DEF Write
<1> DEFINE e == [epoch |-> epoch[w], value |-> v]
<1>5. e \in Entry /\ e.epoch = epoch[w] /\ e.value = v
  BY <1>2 DEF Entry, IInv, TypeOK
<1>6. \/ epoch[w] = loader[l].ticket /\ entry' = [entry EXCEPT ![w] = e]
      \/ entry' = entry
  BY <1>4
<1> HIDE DEF e, r, v
<1>7. TypeOK'
  BY <1>1, <1>2, <1>3, <1>5, <1>6 DEF IInv, TypeOK, sessionVars
<1>8. SessionInv' /\ clock' = clock
  BY <1>1 DEF IInv, SessionInv, sessionVars
<1>9. loader'[l] = r /\ \A k \in Loaders : k # l => loader'[k] = loader[k]
  BY <1>1, <1>3 DEF IInv, TypeOK
<1>10. EntryInv'
  <2> SUFFICES ASSUME NEW s \in Scopes
               PROVE  /\ refreshed'[s] <= clock'
                      /\ entry'[s] # None => s \in scopes' /\ entry'[s].epoch <= epoch'[s]
    BY DEF EntryInv
  <2>1. entry'[s] = entry[s] \/ (s = w /\ entry'[s] = e)
    BY <1>6, <1>2 DEF IInv, TypeOK
  <2>2. epoch[w] \in Nat
    BY <1>2 DEF IInv, TypeOK
  <2> QED BY <2>1, <2>2, <1>1, <1>2, <1>5 DEF IInv, EntryInv
<1>11. TicketInv'
  <2> SUFFICES ASSUME NEW k \in Loaders PROVE LoaderInv(k)'
    BY DEF TicketInv
  <2>1. CASE k = l
    BY <2>1, <1>1, <1>2, <1>3, <1>9 DEF LoaderInv, Loading
  <2>2. CASE k # l
    BY <2>2, <1>1, <1>9 DEF LoaderInv, Scope, IInv, TicketInv
  <2> QED BY <2>1, <2>2
<1>12. ASSUME NEW s \in Scopes, NEW t \in Nat, NotOlder(s, t) PROVE NotOlder(s, t)'
  <2>1. (Hit(s) => entry[s].value.version >= t)'
    <3>1. CASE entry'[s] = entry[s]
      BY <3>1, <1>1, <1>12 DEF NotOlder, Hit
    <3>2. CASE entry'[s] # entry[s]
      <4>1. s = w /\ entry'[s] = e /\ epoch[w] = loader[l].ticket
        BY <3>2, <1>6, <1>2 DEF IInv, TypeOK
      <4>2. Storing(l, s)
        BY <4>1, <1>1 DEF Storing
      <4> QED BY <4>1, <4>2, <1>5, <1>12 DEF NotOlder, v
    <3> QED BY <3>1, <3>2
  <2>2. ASSUME NEW k \in Loaders, Storing(k, s)' PROVE (loader[k].value.version >= t)'
    <3>1. k # l
      BY <2>2, <1>3, <1>9 DEF Storing
    <3> QED BY <3>1, <2>2, <1>1, <1>9, <1>12 DEF Storing, Scope, NotOlder
  <2> QED BY <2>1, <2>2 DEF NotOlder
<1>13. RefreshedInv'
  <2> SUFFICES ASSUME NEW s \in Scopes PROVE NotOlder(s, refreshed[s])'
    BY DEF RefreshedInv
  <2>1. refreshed'[s] = refreshed[s] /\ refreshed[s] \in Nat /\ NotOlder(s, refreshed[s])
    BY <1>1 DEF IInv, TypeOK, RefreshedInv
  <2> QED BY <2>1, <1>12 DEF NotOlder
<1>14. AskedInv'
  <2> SUFFICES ASSUME NEW k \in Loaders PROVE AskedOK(k)'
    BY DEF AskedInv
  <2>1. CASE k = l
    BY <2>1, <1>1, <1>3, <1>9 DEF AskedOK, v
  <2>2. CASE k # l
    <3>1. loader'[k] = loader[k] /\ AskedOK(k) /\ loader[k].asked \in Nat
      BY <2>2, <1>9 DEF IInv, TypeOK, AskedInv, Loader
    <3> QED BY <3>1, <1>12 DEF AskedOK, NotOlder
  <2> QED BY <2>1, <2>2
<1> QED BY <1>7, <1>8, <1>10, <1>11, <1>13, <1>14 DEF IInv

\* A step of the sessions or of the servers, which loaders and cache ignore.
LEMMA ElsewhereKeeps ==
  ASSUME IInv, UNCHANGED <<cacheVars, loader>>, TypeOK', SessionInv', clock <= clock'
  PROVE  IInv'
<1>1. clock \in Nat /\ clock' \in Nat
  BY ConstantsAssumption DEF IInv, TypeOK
<1>2. EntryInv'
  BY <1>1 DEF IInv, EntryInv, TypeOK, cacheVars
<1>3. TicketInv'
  BY <1>1 DEF IInv, TicketInv, LoaderInv, TypeOK, Loader, cacheVars, Scope
<1>4. RefreshedInv' /\ AskedInv'
  BY DEF IInv, RefreshedInv, AskedInv, AskedOK, NotOlder, Hit, Storing, Scope, cacheVars
<1> QED BY <1>2, <1>3, <1>4 DEF IInv

LEMMA SessionsKeep ==
  ASSUME IInv, SaveCommits \/ SaveRetires \/ Connect \/ Disconnect \/ ServerChanges
  PROVE  IInv'
<1>1. UNCHANGED <<cacheVars, loader>> /\ clock <= clock'
  BY ConstantsAssumption DEF SaveCommits, SaveRetires, Connect, Disconnect, ServerChanges, IInv, TypeOK
<1>2. NoSession \in Handle
  BY ConstantsAssumption DEF NoSession, Handle
<1>3. ASSUME Connect PROVE session' \in Handle /\ session'.revision \in Revisions
  BY <1>3, ConstantsAssumption DEF Connect, Handle, IInv, TypeOK
<1>4. TypeOK'
  <2>1. revision' \in Revisions /\ saving' \in BOOLEAN
    <3>1. revision \in Revisions /\ saving \in BOOLEAN
      BY DEF IInv, TypeOK
    <3>2. CASE SaveCommits
      BY <3>1, <3>2, ConstantsAssumption DEF SaveCommits, Revisions
    <3>3. CASE SaveRetires
      BY <3>1, <3>3 DEF SaveRetires
    <3>4. CASE Connect \/ Disconnect \/ ServerChanges
      BY <3>1, <3>4 DEF Connect, Disconnect, ServerChanges, sessionVars
    <3> QED BY <3>2, <3>3, <3>4
  <2>2. session' \in Handle
    BY <1>2, <1>3 DEF SaveCommits, SaveRetires, Disconnect, ServerChanges, sessionVars, IInv, TypeOK
  <2>3. generation' \in 0..MaxGeneration /\ clock' \in 0..MaxClock
    BY ConstantsAssumption
    DEF SaveCommits, SaveRetires, Connect, Disconnect, ServerChanges, sessionVars, IInv, TypeOK
  <2> QED BY <1>1, <2>1, <2>2, <2>3 DEF IInv, TypeOK, cacheVars
<1>5. SessionInv'
  BY <1>3 DEF SaveCommits, SaveRetires, Disconnect, ServerChanges, IInv, SessionInv, sessionVars
<1> QED BY <1>1, <1>4, <1>5, ElsewhereKeeps

LEMMA RefreshKeeps == ASSUME IInv, NEW l \in Loaders, Refresh(l) PROVE IInv'
<1>1. PICK kind \in {"list", "objects"}, d \in Databases, only \in BOOLEAN :
        LET hit == {s \in scopes : only => s[2] = d}
        IN /\ Start(l, Request(kind, "refresh", d, clock))
           /\ \A s \in hit : epoch[s] < MaxEpoch
           /\ epoch' = [s \in Scopes |-> IF s \in hit THEN epoch[s] + 1 ELSE epoch[s]]
           /\ refreshed' = [s \in Scopes |-> IF s \in hit THEN clock ELSE refreshed[s]]
  BY DEF Refresh
<1> DEFINE hit == {s \in scopes : only => s[2] = d}
           r == Started(l, Request(kind, "refresh", d, clock))
<1>2. loader' = [loader EXCEPT ![l] = r]
  BY <1>1 DEF Start
<1>3. UNCHANGED <<scopes, entry, sessionVars, clock>> /\ clock \in Nat /\ clock \in 0..MaxClock
  BY ConstantsAssumption DEF Refresh, IInv, TypeOK
<1>4. r # Idle => /\ r \in Loader /\ r.step = "profile" /\ r.cause = "refresh" /\ r.database = d
                  /\ r.asked = clock /\ r.ticket = None
                  /\ r.kind = "list" => r.handle.revision \in Revisions
  BY <1>3, StartedIs DEF IInv
<1>5. Idle \in Loader /\ Idle.step = "idle" /\ Idle.cause = "open" /\ Idle.asked = 0
  BY ConstantsAssumption DEF Idle, Request, Loader, Handle, NoSession
<1>6. r \in Loader /\ r.step \in {"idle", "profile"}
  BY <1>4, <1>5
<1> HIDE DEF r
<1>7. loader'[l] = r /\ \A k \in Loaders : k # l => loader'[k] = loader[k]
  BY <1>2 DEF IInv, TypeOK
<1>8. \A s \in Scopes : /\ epoch[s] \in Nat
                        /\ s \in hit => epoch'[s] = epoch[s] + 1 /\ epoch'[s] \in 0..MaxEpoch
                                        /\ refreshed'[s] = clock
                        /\ s \notin hit => epoch'[s] = epoch[s] /\ refreshed'[s] = refreshed[s]
  BY <1>1, ConstantsAssumption DEF IInv, TypeOK
<1>9. TypeOK' /\ SessionInv'
  <2>1. epoch' \in [Scopes -> 0..MaxEpoch] /\ refreshed' \in [Scopes -> 0..MaxClock]
    BY <1>1, <1>3, <1>8 DEF IInv, TypeOK
  <2> QED BY <2>1, <1>2, <1>3, <1>6 DEF IInv, TypeOK, SessionInv, sessionVars
<1> HIDE DEF hit
<1>10. EntryInv'
  <2> SUFFICES ASSUME NEW s \in Scopes
               PROVE  /\ refreshed'[s] <= clock'
                      /\ entry'[s] # None => s \in scopes' /\ entry'[s].epoch <= epoch'[s]
    BY DEF EntryInv
  <2>1. entry[s] # None => entry[s].epoch \in Nat
    BY DEF IInv, TypeOK, Entry
  <2> QED BY <2>1, <1>3, <1>8 DEF IInv, EntryInv
<1>11. TicketInv'
  <2> SUFFICES ASSUME NEW k \in Loaders PROVE LoaderInv(k)'
    BY DEF TicketInv
  <2>1. CASE k = l
    <3>1. CASE r = Idle
      BY <3>1, <2>1, <1>3, <1>5, <1>7 DEF LoaderInv, Loading
    <3>2. CASE r # Idle
      BY <3>2, <2>1, <1>3, <1>4, <1>7 DEF LoaderInv, Loading
    <3> QED BY <3>1, <3>2
  <2>2. CASE k # l
    <3>1. loader'[k] = loader[k] /\ Scope(k)' = Scope(k) /\ LoaderInv(k) /\ loader[k] \in Loader
      BY <2>2, <1>7 DEF Scope, IInv, TypeOK, TicketInv
    <3>2. Scope(k) \in scopes => epoch[Scope(k)] <= epoch'[Scope(k)] /\ epoch[Scope(k)] \in Nat
                                  /\ epoch'[Scope(k)] \in Nat
      BY <1>8 DEF IInv, TypeOK
    <3> QED BY <3>1, <3>2, <1>3 DEF LoaderInv, Loader
  <2> QED BY <2>1, <2>2
<1>12. ASSUME NEW s \in Scopes, NEW t \in Nat, NotOlder(s, t) \/ s \in hit \/ s \notin scopes
       PROVE  NotOlder(s, t)'
  <2>1. (Hit(s) => entry[s].value.version >= t)'
    <3>1. entry[s] # None => entry[s].epoch \in Nat /\ entry[s].epoch <= epoch[s] /\ s \in scopes
      BY DEF IInv, TypeOK, Entry, EntryInv
    <3> QED BY <3>1, <1>3, <1>8, <1>12 DEF NotOlder, Hit
  <2>2. ASSUME NEW k \in Loaders, Storing(k, s)' PROVE (loader[k].value.version >= t)'
    <3>1. k # l
      BY <2>2, <1>6, <1>7 DEF Storing
    <3>2. /\ loader'[k] = loader[k] /\ Scope(k) = s /\ loader[k].step = "write"
          /\ loader[k].ticket = epoch'[s] /\ LoaderInv(k)
      BY <3>1, <2>2, <1>7 DEF Storing, Scope, IInv, TicketInv
    <3>3. s \in scopes /\ loader[k].ticket <= epoch[s]
      BY <3>2 DEF LoaderInv, Loading
    <3>4. s \notin hit
      BY <3>2, <3>3, <1>8
    <3>5. Storing(k, s)
      BY <3>2, <3>4, <1>8 DEF Storing
    <3> QED BY <3>2, <3>3, <3>4, <3>5, <1>12 DEF NotOlder
  <2> QED BY <2>1, <2>2 DEF NotOlder
<1>13. RefreshedInv'
  <2> SUFFICES ASSUME NEW s \in Scopes PROVE NotOlder(s, refreshed[s])'
    BY DEF RefreshedInv
  <2>1. refreshed'[s] \in Nat /\ (NotOlder(s, refreshed'[s]) \/ s \in hit)
    BY <1>3, <1>8 DEF IInv, TypeOK, RefreshedInv
  <2> QED BY <2>1, <1>12 DEF NotOlder
<1>14. AskedInv'
  <2> SUFFICES ASSUME NEW k \in Loaders PROVE AskedOK(k)'
    BY DEF AskedInv
  <2>1. CASE k = l
    <3>1. ASSUME r # Idle, NEW s \in Scopes, s[2] = d PROVE NotOlder(s, clock)'
      <4>1. s \in hit \/ s \notin scopes
        BY <3>1 DEF hit
      <4>2. PICK t \in Nat : t = clock /\ t = clock'
        BY <1>3
      <4>3. NotOlder(s, t)'
        BY <4>1, <1>12
      <4> QED BY <4>2, <4>3 DEF NotOlder
    <3> QED BY <3>1, <2>1, <1>3, <1>4, <1>5, <1>7 DEF AskedOK, NotOlder
  <2>2. CASE k # l
    <3>1. loader'[k] = loader[k] /\ AskedOK(k) /\ loader[k].asked \in Nat
      BY <2>2, <1>7 DEF IInv, TypeOK, AskedInv, Loader
    <3> QED BY <3>1, <1>12 DEF AskedOK, NotOlder
  <2> QED BY <2>1, <2>2
<1> QED BY <1>9, <1>10, <1>11, <1>13, <1>14 DEF IInv

-----------------------------------------------------------------------------
(* The theorems *)

LEMMA InitIInv == ASSUME Init PROVE IInv
<1>1. Idle \in Loader /\ Idle.step = "idle" /\ Idle.cause = "open" /\ Idle.asked = 0
  BY ConstantsAssumption DEF Idle, Request, Loader, Handle, NoSession
<1>2. TypeOK
  <2>0. saving \in BOOLEAN
    BY DEF Init
  <2>1. revision \in Revisions /\ generation \in 0..MaxGeneration /\ clock \in 0..MaxClock
    <3>1. revision = 1 /\ generation = 0 /\ clock = 0
      BY DEF Init
    <3> QED BY <3>1, ConstantsAssumption DEF Revisions
  <2>2. session \in Handle
    BY ConstantsAssumption DEF Init, NoSession, Handle
  <2>3. /\ scopes \subseteq Scopes /\ epoch \in [Scopes -> 0..MaxEpoch]
        /\ entry \in [Scopes -> Entry \cup {None}] /\ refreshed \in [Scopes -> 0..MaxClock]
    BY ConstantsAssumption DEF Init
  <2>4. loader \in [Loaders -> Loader]
    BY <1>1 DEF Init
  <2> QED BY <2>0, <2>1, <2>2, <2>3, <2>4 DEF TypeOK
<1>3. \A s \in Scopes : entry[s] = None /\ refreshed[s] = 0
  BY DEF Init
<1>4. \A l \in Loaders : loader[l] = Idle
  BY DEF Init
<1>5. clock = 0 /\ session = NoSession
  BY DEF Init
<1> HIDE DEF Idle
<1>6. EntryInv /\ SessionInv /\ TicketInv /\ AskedInv
  BY <1>1, <1>3, <1>4, <1>5 DEF EntryInv, SessionInv, TicketInv, LoaderInv, Loading, AskedInv, AskedOK
<1>7. RefreshedInv
  BY <1>1, <1>3, <1>4 DEF RefreshedInv, NotOlder, Hit, Storing
<1> QED BY <1>2, <1>6, <1>7 DEF IInv

LEMMA NextIInv == ASSUME IInv, [Next]_vars PROVE IInv'
<1>1. CASE UNCHANGED vars
  <2>1. TypeOK' /\ SessionInv' /\ clock <= clock'
    BY <1>1, ConstantsAssumption DEF vars, cacheVars, sessionVars, IInv, TypeOK, SessionInv
  <2> QED BY <2>1, <1>1, ElsewhereKeeps DEF vars
<1>2. CASE Next
  BY <1>2, SessionsKeep, OpenKeeps, RefreshKeeps, MutateKeeps, ProfileKeeps, AddScopeKeeps, TicketKeeps,
     CacheFailsKeeps, DriverKeeps, LockKeeps, QueryKeeps, WriteKeeps, AnswerKeeps DEF Next
<1> QED BY <1>1, <1>2

\* The invariant that the properties follow from: types, and that every value
\* that is stored, or about to be, is as new as whoever may read it asked.
THEOREM Invariant == Spec => []IInv
BY InitIInv, NextIInv, PTL DEF Spec

\* Every variable keeps its type (the state of schema_cache.rs and of the
\* reads of connections.rs).
THEOREM TypeCorrect == Spec => []TypeOK
<1>1. IInv => TypeOK
  BY DEF IInv
<1> QED BY <1>1, Invariant, PTL

\* SchemaCache::write never brings back what was read before a refresh.
THEOREM NothingOldIsStored == Spec => []CurrentEntryIsFresh
<1>1. IInv => CurrentEntryIsFresh
  BY DEF IInv, RefreshedInv, NotOlder, CurrentEntryIsFresh
<1> QED BY <1>1, Invariant, PTL

\* refresh_schema and the load after it never show an older schema.
THEOREM RefreshIsHonoured == Spec => []RefreshShows
<1>1. IInv => RefreshShows
  BY DEF IInv, AskedInv, AskedOK, RefreshShows
<1> QED BY <1>1, Invariant, PTL

\* Both: the epochs of the cache make a refresh win against older loads.
THEOREM RefreshesWin == Spec => []RefreshWins
<1>1. CurrentEntryIsFresh /\ RefreshShows => RefreshWins BY DEF RefreshWins
<1> QED BY <1>1, NothingOldIsStored, RefreshIsHonoured, PTL
=============================================================================
