------------------------------ MODULE McpSyncProofs ------------------------------
(***************************************************************************)
(* TLAPS proofs about McpSync: what is done for one generation of a        *)
(* connection never reaches another one, whatever is lost; and as long as  *)
(* nothing is, the App shows every open driver, and a disconnect that it   *)
(* is told of as a success has ended what it was meant for.                *)
(***************************************************************************)
EXTENDS McpSync, WellFoundedInduction, TLAPS

-----------------------------------------------------------------------------
(* The inductive invariant *)

Entry == [generation : Nat, connected : BOOLEAN, disconnecting : BOOLEAN]
AnyCommand == [id : Owners \X Nat, owner : Owners, generation : Nat, was : BOOLEAN]
AnyCall ==
  [op : {"none", "connect", "test", "disconnect"}, owner : Owners \cup {None},
   generation : Nat, own : BOOLEAN,
   step : {"idle", "lock", "acquire", "dial", "commit", "rollback", "release",
           "prepare", "run", "stop", "tell", "cleanLock", "clean"}]
Waiter ==
  [step : {"idle", "waiting", "done"}, asked : SUBSET (Owners \X Nat),
   pending : SUBSET (Owners \X Nat), failed : BOOLEAN]
LoopState == [step : {"poll", "lock", "handle", "report"}, command : AnyCommand \cup {None},
             ok : BOOLEAN]

RegistryTypes ==
  /\ entry \in [Owners -> Entry] /\ nextGeneration \in Nat /\ nextCommand \in Nat
  /\ queue \in [Sessions -> Seq(AnyCommand)] /\ closed \subseteq Sessions
  /\ serviceClosed \in BOOLEAN /\ force \in [Callers -> Waiter]
SidecarTypes ==
  /\ limits \in Limits /\ session \in [Sessions -> {"open", "ending", "ended"}]
  /\ driver \in [Owners -> Nat] /\ holder \in [Owners -> Calls \cup {None, Control}]
  /\ loop \in [Sessions -> LoopState] /\ call \in [Calls -> AnyCall]

\* The commands that wait for the owner.
Waiting(o) == {cmd \in Range(queue[o[1]]) : cmd.owner = o}

\* A command is for a generation that was given out, and has a number of its own.
Given(cmd, s) ==
  /\ cmd \in AnyCommand /\ cmd.owner[1] = s /\ cmd.id[1] = cmd.owner
  /\ cmd.id[2] <= nextCommand /\ cmd.generation \in 1..nextGeneration

Queues ==
  /\ \A s \in Sessions : \A cmd \in Range(queue[s]) : Given(cmd, s)
  /\ \A o \in Owners : entry[o].generation <= nextGeneration

\* An owner that is disconnecting has its one command, any other has none.
Phases == \A o \in Owners :
  IF entry[o].disconnecting
  THEN \E cmd \in Waiting(o) : Waiting(o) = {cmd} /\ Acquired(o, cmd.generation)
  ELSE Waiting(o) = {}

\* Whoever waits, waits for a command, or has seen the end of what it asked for.
Pends(f, o, g) == \E cmd \in Waiting(o) : cmd.generation = g /\ cmd.id \in force[f].pending
Waiters == \A f \in Callers :
  /\ force[f].pending \subseteq UNION {IdsOf(Range(queue[s])) : s \in Sessions}
  /\ force[f].step = "done" => force[f].pending = {} /\ ~force[f].failed
  /\ force[f].step # "idle" /\ ~force[f].failed =>
       \A ask \in force[f].asked :
         /\ ask[2] \in 1..nextGeneration
         /\ entry[ask[1]].generation # ask[2] \/ Pends(f, ask[1], ask[2])

Registry == RegistryTypes /\ Queues /\ Phases /\ Waiters

\* A command a session works on is queued, or its generation is gone.
LoopFits(s) == LET cmd == loop[s].command IN loop[s].step # "poll" =>
  /\ session[s] = "open" /\ Given(cmd, s)
  /\ cmd \in Range(queue[s]) \/ entry[cmd.owner].generation # cmd.generation
  /\ loop[s].step = "handle" => holder[cmd.owner] = Control

Holds(k) == \/ call[k].step \in {"acquire", "dial", "commit", "rollback", "prepare", "stop", "tell"}
            \/ call[k].op = "connect" /\ call[k].step = "release"
Active(k) == call[k].op = "test" /\ call[k].step \in {"prepare", "run", "release", "clean"}
Entering(k) == \/ call[k].step \in {"acquire", "dial", "commit", "rollback"}
               \/ call[k].op = "connect" /\ call[k].step = "release"
Uses(k) == call[k].step \in {"dial", "commit", "rollback", "prepare", "run"}
StepsOf(op) ==
  CASE op = "connect" -> {"lock", "acquire", "dial", "commit", "rollback", "release", "cleanLock", "clean"}
    [] op = "test" -> {"lock", "acquire", "prepare", "run", "release", "clean"}
    [] op = "disconnect" -> {"lock", "stop", "tell"}
    [] OTHER -> {"idle"}

\* What a call has in each of its steps.  A test with a generation of its own
\* keeps every driver of the connection closed.
CallFits(k) ==
  /\ call[k].step = "idle" => ~call[k].own
  /\ call[k].step # "idle" =>
    /\ Owner(k) \in Owners /\ session[Owner(k)[1]] = "open" /\ Generation(k) <= nextGeneration
    /\ call[k].step \in StepsOf(call[k].op)
    /\ Holds(k) => holder[Owner(k)] = k
    /\ call[k].step \notin {"lock", "acquire", "stop"} => Generation(k) # 0
    /\ call[k].own => Active(k) /\ driver[Owner(k)] = 0
    /\ call[k].op = "test" /\ call[k].step \in {"release", "clean"} => call[k].own
    /\ call[k].op = "test" /\ call[k].step = "acquire" => driver[Owner(k)] = 0

\* One registered test at a time, and no connect beside it.
Apart == \A k, j \in Calls :
  k # j /\ Active(k) /\ Owner(k) = Owner(j) => ~Active(j) /\ ~Entering(j)

Drivers == /\ \A o \in Owners : /\ driver[o] <= nextGeneration
                                /\ session[o[1]] # "open" => driver[o] = 0
           /\ \A s \in closed : session[s] = "ended"

Sidecar ==
  /\ SidecarTypes /\ Apart /\ Drivers
  /\ \A k \in Calls : CallFits(k)
  /\ \A s \in Sessions : LoopFits(s)

\* As long as nothing is lost and the service runs.
Faultless == limits.faults = {} /\ ~serviceClosed

\* A use of a connection is one of the generation the App has for it.
UseFits(k) ==
  /\ call[k].step \notin {"cleanLock", "clean"}
  /\ Uses(k) => entry[Owner(k)].generation = Generation(k)
  /\ call[k].op = "connect" /\ call[k].step = "release" => driver[Owner(k)] = 0
  /\ call[k].step = "tell" => /\ driver[Owner(k)] = 0
                              /\ \A j \in Calls : Owner(j) = Owner(k) => ~Running(j)

Shown(o) == driver[o] # 0 =>
  /\ entry[o].generation = driver[o]
  /\ entry[o].connected \/ \E k \in Calls : Owner(k) = o /\ call[k].step \in {"commit", "rollback"}

\* What is reported as disconnected is, and nobody can use it again.
ReportFits(s) == LET cmd == loop[s].command IN
  loop[s].step = "report" /\ cmd \in Range(queue[s]) =>
    /\ driver[cmd.owner] = 0
    /\ \A k \in Calls : Owner(k) = cmd.owner => ~Uses(k)

Truth == Faultless =>
  /\ \A k \in Calls : UseFits(k)
  /\ \A o \in Owners : Shown(o)
  /\ \A s \in Sessions : ReportFits(s)

Inv == Registry /\ Sidecar /\ Truth

-----------------------------------------------------------------------------
(* What is left of a queue *)

Less == {ss \in Nat \X Nat : ss[1] < ss[2]}

LEMMA LessWellFounded == IsWellFoundedOn(Less, Nat)
  BY NatLessThanWellFounded, Zenon DEF OpToRel, Less

\* What fails for some number fails for a least one.
LEMMA LeastNumber ==
  ASSUME NEW T, T \subseteq Nat, T # {}
  PROVE  \E n \in T : \A m \in T : n <= m
  <1>1. PICK n \in T : \A m \in T : ~(<<m, n>> \in Less)
    BY LessWellFounded, WFMin
  <1>2. ASSUME NEW m \in T PROVE n <= m
    <2>1. m \in Nat /\ n \in Nat /\ <<m, n>> \notin Less
      BY <1>1
    <2>2. <<m, n>> \in Less <=> m < n
      BY <2>1, Zenon DEF Less
    <2> QED BY <2>1, <2>2
  <1> QED BY <1>2

\* The recursion of Retained over a prefix of the commands.
Filters(cmds, gone, n, f) ==
  f = [i \in 0..n |-> IF i = 0 THEN <<>>
                      ELSE IF cmds[i] \in gone THEN f[i - 1] ELSE Append(f[i - 1], cmds[i])]

LEMMA FilterExists ==
  ASSUME NEW S, NEW cmds \in Seq(S), NEW gone, NEW n \in Nat
  PROVE  \E f : Filters(cmds, gone, n, f)
  <1> DEFINE bad == {m \in Nat : ~\E f : Filters(cmds, gone, m, f)}
  <1>1. SUFFICES ASSUME bad # {} PROVE FALSE
    OBVIOUS
  <1>2. PICK m \in bad : \A l \in bad : m <= l
    BY <1>1, LeastNumber
  <1>3. CASE m = 0
    <2> DEFINE f == [i \in 0..0 |-> <<>>]
    <2>1. f = [i \in 0..m |-> IF i = 0 THEN <<>> ELSE IF cmds[i] \in gone THEN f[i - 1]
                                               ELSE Append(f[i - 1], cmds[i])]
      BY <1>3
    <2>2. Filters(cmds, gone, m, f)
      BY <2>1 DEF Filters
    <2> QED BY <1>2, <2>2
  <1>4. CASE m # 0
    <2>1. m \in Nat /\ m - 1 \in Nat /\ m - 1 \notin bad
      BY <1>2, <1>4
    <2>2. PICK g : Filters(cmds, gone, m - 1, g)
      BY <2>1
    <2> DEFINE f == [i \in 0..m |-> IF i = m THEN IF cmds[m] \in gone THEN g[m - 1]
                                                  ELSE Append(g[m - 1], cmds[m])
                                    ELSE g[i]]
               F(i) == IF i = 0 THEN <<>> ELSE IF cmds[i] \in gone THEN f[i - 1]
                                               ELSE Append(f[i - 1], cmds[i])
    <2>3. ASSUME NEW i \in 0..m PROVE f[i] = F(i)
      <3>1. CASE i = m
        <4>1. m - 1 \in 0..m /\ m - 1 # m
          BY <2>1
        <4>2. f[m - 1] = g[m - 1]
          BY <4>1
        <4> QED BY <1>4, <3>1, <4>2
      <3>2. CASE i # m /\ i = 0
        <4>1. g[0] = <<>>
          BY <2>1, <2>2 DEF Filters
        <4> QED BY <3>2, <4>1
      <3>3. CASE i # m /\ i # 0
        <4>1. i \in 0..(m - 1) /\ i - 1 \in 0..m /\ i - 1 # m
          BY <2>1, <3>3
        <4>2. f[i] = g[i] /\ f[i - 1] = g[i - 1]
          BY <3>3, <4>1
        <4>3. g[i] = IF i = 0 THEN <<>> ELSE IF cmds[i] \in gone THEN g[i - 1]
                                             ELSE Append(g[i - 1], cmds[i])
          BY <2>2, <4>1 DEF Filters
        <4> QED BY <4>2, <4>3
      <3> QED BY <3>1, <3>2, <3>3
    <2>4. f = [i \in 0..m |-> F(i)]
      <3>1. f = [i \in 0..m |-> f[i]]
        OBVIOUS
      <3> HIDE DEF f
      <3> QED BY <2>3, <3>1
    <2>5. Filters(cmds, gone, m, f)
      BY <2>4 DEF Filters
    <2> QED BY <1>2, <2>5
  <1> QED BY <1>3, <1>4

LEMMA AppendFacts ==
  ASSUME NEW S, NEW cmds \in Seq(S), NEW cmd \in S
  PROVE  /\ Append(cmds, cmd) \in Seq(S)
         /\ Range(Append(cmds, cmd)) = Range(cmds) \cup {cmd}
  <1>1. /\ Append(cmds, cmd) \in Seq(S) /\ Len(Append(cmds, cmd)) = Len(cmds) + 1
        /\ Append(cmds, cmd)[Len(cmds) + 1] = cmd
        /\ \A i \in 1..Len(cmds) : Append(cmds, cmd)[i] = cmds[i]
    OBVIOUS
  <1> DEFINE more == Append(cmds, cmd)
  <1>2. DOMAIN cmds = 1..Len(cmds) /\ DOMAIN more = 1..(Len(cmds) + 1) /\ Len(cmds) \in Nat
    BY <1>1
  <1> HIDE DEF more
  <1>3. ASSUME NEW x \in Range(more) PROVE x \in Range(cmds) \cup {cmd}
    <2>1. PICK i \in 1..(Len(cmds) + 1) : x = more[i]
      BY <1>2 DEF Range
    <2>2. CASE i = Len(cmds) + 1
      BY <1>1, <2>1, <2>2 DEF more
    <2>3. CASE i # Len(cmds) + 1
      <3>1. i \in 1..Len(cmds)
        BY <1>2, <2>3
      <3> QED BY <1>1, <1>2, <2>1, <3>1 DEF more, Range
    <2> QED BY <2>2, <2>3
  <1>4. ASSUME NEW x \in Range(cmds) \cup {cmd} PROVE x \in Range(more)
    <2>1. CASE x = cmd
      <3>1. Len(cmds) + 1 \in DOMAIN more
        BY <1>2
      <3> QED BY <1>1, <2>1, <3>1 DEF more, Range
    <2>2. CASE x # cmd
      <3>1. PICK i \in 1..Len(cmds) : x = cmds[i]
        BY <1>2, <2>2 DEF Range
      <3>2. i \in DOMAIN more /\ more[i] = x
        BY <1>1, <1>2, <3>1 DEF more
      <3> QED BY <3>2 DEF Range
    <2> QED BY <2>1, <2>2
  <1> QED BY <1>1, <1>3, <1>4 DEF more

\* A queue keeps the commands that are not gone, and no other.
LEMMA RetainedFacts ==
  ASSUME NEW S, NEW cmds \in Seq(S), NEW gone
  PROVE  /\ Retained(cmds, gone) \in Seq(S)
         /\ Range(Retained(cmds, gone)) = Range(cmds) \ gone
  <1> DEFINE n == Len(cmds)
             kept == CHOOSE f : Filters(cmds, gone, n, f)
             Fits(i) == /\ kept[i] \in Seq(S)
                        /\ Range(kept[i]) = {cmds[j] : j \in 1..i} \ gone
             bad == {i \in 0..n : ~Fits(i)}
  <1>0. n \in Nat /\ \A i \in 1..n : cmds[i] \in S
    OBVIOUS
  <1>1. kept = [i \in 0..n |-> IF i = 0 THEN <<>> ELSE IF cmds[i] \in gone THEN kept[i - 1]
                                                  ELSE Append(kept[i - 1], cmds[i])]
    <2>1. Filters(cmds, gone, n, kept)
      BY <1>0, FilterExists
    <2> QED BY <2>1 DEF Filters
  <1>2. Retained(cmds, gone) = kept[n]
    BY DEF Retained, Filters
  <1> HIDE DEF kept, n
  <1>3. Fits(0)
    <2>1. kept[0] = <<>>
      BY <1>0, <1>1
    <2>2. <<>> \in Seq(S) /\ Range(<<>>) = {}
      BY DEF Range
    <2>3. {cmds[j] : j \in 1..0} = {}
      OBVIOUS
    <2> QED BY <2>1, <2>2, <2>3
  <1>4. ASSUME NEW i \in 1..n, Fits(i - 1) PROVE Fits(i)
    <2>1. kept[i] = IF cmds[i] \in gone THEN kept[i - 1] ELSE Append(kept[i - 1], cmds[i])
      <3>1. i \in 0..n /\ i # 0
        BY <1>0
      <3> QED BY <1>1, <3>1
    <2>2. {cmds[j] : j \in 1..i} = {cmds[j] : j \in 1..(i - 1)} \cup {cmds[i]}
      BY <1>0
    <2> DEFINE before == {cmds[j] : j \in 1..(i - 1)}
    <2>3. kept[i - 1] \in Seq(S) /\ Range(kept[i - 1]) = before \ gone
      BY <1>4
    <2> HIDE DEF before
    <2>4. CASE cmds[i] \in gone
      BY <2>1, <2>2, <2>3, <2>4 DEF before
    <2>5. CASE cmds[i] \notin gone
      <3>1. kept[i] = Append(kept[i - 1], cmds[i]) /\ cmds[i] \in S
        BY <1>0, <2>1, <2>5
      <3>2. /\ Append(kept[i - 1], cmds[i]) \in Seq(S)
            /\ Range(Append(kept[i - 1], cmds[i])) = Range(kept[i - 1]) \cup {cmds[i]}
        BY <2>3, <3>1, AppendFacts
      <3> QED BY <2>2, <2>3, <2>5, <3>1, <3>2 DEF before
    <2> QED BY <2>4, <2>5
  <1>5. bad = {}
    <2>1. SUFFICES ASSUME bad # {} PROVE FALSE
      OBVIOUS
    <2>2. bad \subseteq Nat
      BY <1>0
    <2>3. PICK i \in bad : \A l \in bad : i <= l
      <3> HIDE DEF bad
      <3> QED BY <2>1, <2>2, LeastNumber
    <2>4. i # 0 /\ i \in 0..n
      BY <1>3
    <2>5. i \in 1..n /\ i - 1 \in 0..n /\ i - 1 \notin bad
      <3> HIDE DEF bad
      <3>1. i \in Nat /\ ~(i <= i - 1)
        BY <1>0, <2>4
      <3> QED BY <1>0, <2>3, <2>4, <3>1
    <2>6. Fits(i - 1)
      BY <2>5
    <2> QED BY <1>4, <2>5, <2>6
  <1>6. Fits(n)
    <2>1. n \in 0..n
      BY <1>0
    <2> QED BY <1>5, <2>1
  <1>7. Range(cmds) = {cmds[j] : j \in 1..n}
    BY DEF Range, n
  <1> QED BY <1>2, <1>6, <1>7

-----------------------------------------------------------------------------
(* The registry *)

LEMMA OwnerFacts ==
  ASSUME NEW o \in Owners
  PROVE  o[1] \in Sessions /\ o[2] \in Connections /\ o = <<o[1], o[2]>>
  BY DEF Owners

\* Whoever waited for one of ids has one answer less to wait for.
LEMMA ResolvedFacts ==
  ASSUME RegistryTypes, NEW ids, NEW ok \in BOOLEAN
  PROVE  /\ Resolved(ids, ok) \in [Callers -> Waiter]
         /\ \A f \in Callers :
              LET old == force[f]
                  new == Resolved(ids, ok)[f]
              IN  /\ new.step = old.step /\ new.asked = old.asked
                  /\ new.pending = old.pending \ ids
                  /\ old.failed => new.failed
                  /\ new.failed <=> (old.failed \/ (~ok /\ old.pending \cap ids # {}))
  <1>1. ASSUME NEW f \in Callers
        PROVE  LET old == force[f]
                   new == Resolved(ids, ok)[f]
               IN  /\ new \in Waiter
                   /\ new.step = old.step /\ new.asked = old.asked
                   /\ new.pending = old.pending \ ids
                   /\ old.failed => new.failed
                   /\ new.failed <=> (old.failed \/ (~ok /\ old.pending \cap ids # {}))
    <2> DEFINE old == force[f]
               less == [old EXCEPT !.pending = @ \ ids]
               new == [less EXCEPT !.failed = @ \/ ~ok]
    <2>1. old \in Waiter
      BY DEF RegistryTypes
    <2>2. CASE old.pending \cap ids = {}
      <3>1. Resolved(ids, ok)[f] = old
        BY <2>2 DEF Resolved
      <3>2. old.pending \ ids = old.pending
        BY <2>2
      <3> QED BY <2>1, <2>2, <3>1, <3>2
    <2>3. CASE old.pending \cap ids # {}
      <3>1. Resolved(ids, ok)[f] = new
        BY <2>3 DEF Resolved
      <3>2. /\ less \in Waiter /\ less.step = old.step /\ less.asked = old.asked
            /\ less.pending = old.pending \ ids /\ less.failed = old.failed
        BY <2>1 DEF Waiter
      <3> HIDE DEF less, old
      <3>3. /\ new \in Waiter /\ new.step = less.step /\ new.asked = less.asked
            /\ new.pending = less.pending /\ (new.failed <=> less.failed \/ ~ok)
        BY <3>2 DEF Waiter
      <3> HIDE DEF new
      <3> QED BY <2>3, <3>1, <3>2, <3>3 DEF old
    <2> QED BY <2>2, <2>3
  <1>2. Resolved(ids, ok) = [f \in Callers |-> Resolved(ids, ok)[f]]
    BY DEF Resolved
  <1> QED BY <1>1, <1>2

\* Two queued commands have different identifiers.
LEMMA IdsDiffer ==
  ASSUME Registry, NEW s \in Sessions, NEW t \in Sessions,
         NEW a \in Range(queue[s]), NEW b \in Range(queue[t]), a.id = b.id
  PROVE  a = b
  <1>1. a.owner = b.owner /\ a.owner \in Owners /\ a.owner[1] = s /\ b.owner[1] = t
    BY DEF Registry, Queues, Given, AnyCommand
  <1>2. a \in Waiting(a.owner) /\ b \in Waiting(a.owner)
    BY <1>1 DEF Waiting
  <1>3. PICK cmd : Waiting(a.owner) = {cmd}
    BY <1>1, <1>2 DEF Registry, Phases
  <1> QED BY <1>2, <1>3

\* The commands in gone leave the queues, with the phase they stood for.
CommandsGo(gone, ok) ==
  /\ RegistryTypes'
  /\ UNCHANGED <<nextGeneration, nextCommand>>
  /\ gone \subseteq UNION {Range(queue[s]) : s \in Sessions}
  /\ \A s \in Sessions : Range(queue'[s]) = Range(queue[s]) \ gone
  /\ force' = Resolved(IdsOf(gone), ok)
  /\ \A o \in Owners :
       /\ entry'[o].generation \in {entry[o].generation, 0}
       /\ \/ entry'[o] = entry[o] /\ Waiting(o) \cap gone = {}
          \/ ~entry'[o].disconnecting /\ Waiting(o) \subseteq gone
  /\ ok => \A cmd \in gone : entry'[cmd.owner].generation # cmd.generation

LEMMA GoneKeepsRegistry ==
  ASSUME Registry, NEW gone, NEW ok \in BOOLEAN, CommandsGo(gone, ok)
  PROVE  Registry'
  <1>0. RegistryTypes /\ Queues /\ Phases /\ Waiters
    BY DEF Registry
  <1>1. /\ RegistryTypes' /\ UNCHANGED <<nextGeneration, nextCommand>>
        /\ \A s \in Sessions : Range(queue'[s]) = Range(queue[s]) \ gone
        /\ \A o \in Owners :
             /\ entry'[o].generation \in {entry[o].generation, 0}
             /\ \/ entry'[o] = entry[o] /\ Waiting(o) \cap gone = {}
                \/ ~entry'[o].disconnecting /\ Waiting(o) \subseteq gone
        /\ gone \subseteq UNION {Range(queue[s]) : s \in Sessions}
        /\ ok => \A cmd \in gone : entry'[cmd.owner].generation # cmd.generation
    BY DEF CommandsGo
  <1>2. \A o \in Owners : Waiting(o)' = Waiting(o) \ gone
    BY <1>1, OwnerFacts DEF Waiting
  <1>3. Queues'
    <2>1. \A s \in Sessions : \A cmd \in Range(queue'[s]) : Given(cmd, s)'
      BY <1>0, <1>1 DEF Queues, Given
    <2>2. ASSUME NEW o \in Owners PROVE entry'[o].generation <= nextGeneration'
      <3>1. entry[o].generation <= nextGeneration /\ entry'[o].generation \in {entry[o].generation, 0}
        BY <1>0, <1>1 DEF Queues
      <3>2. nextGeneration' = nextGeneration /\ nextGeneration \in Nat
        BY <1>0, <1>1 DEF RegistryTypes
      <3> QED BY <3>1, <3>2
    <2> QED BY <2>1, <2>2 DEF Queues
  <1>4. Phases'
    <2> SUFFICES ASSUME NEW o \in Owners
                 PROVE  IF entry'[o].disconnecting
                        THEN \E cmd \in Waiting(o)' : /\ Waiting(o)' = {cmd}
                                                      /\ Acquired(o, cmd.generation)'
                        ELSE Waiting(o)' = {}
      BY DEF Phases
    <2>1. CASE entry'[o] = entry[o] /\ Waiting(o) \cap gone = {}
      <3>1. Waiting(o)' = Waiting(o)
        BY <1>2, <2>1
      <3>2. \A g : Acquired(o, g)' <=> Acquired(o, g)
        BY <2>1 DEF Acquired
      <3>3. IF entry[o].disconnecting
            THEN \E cmd \in Waiting(o) : Waiting(o) = {cmd} /\ Acquired(o, cmd.generation)
            ELSE Waiting(o) = {}
        BY <1>0 DEF Phases
      <3> QED BY <2>1, <3>1, <3>2, <3>3
    <2>2. CASE ~entry'[o].disconnecting /\ Waiting(o) \subseteq gone
      BY <1>2, <2>2
    <2> QED BY <1>1, <2>1, <2>2
  <1>5. Waiters'
    <2> DEFINE ids == IdsOf(gone)
    <2>1. /\ force' \in [Callers -> Waiter]
          /\ \A f \in Callers :
               /\ force'[f].step = force[f].step /\ force'[f].asked = force[f].asked
               /\ force'[f].pending = force[f].pending \ ids
               /\ force[f].failed => force'[f].failed
               /\ force'[f].failed <=> (force[f].failed \/ (~ok /\ force[f].pending \cap ids # {}))
      BY <1>0, ResolvedFacts DEF CommandsGo
    <2> SUFFICES ASSUME NEW f \in Callers
                 PROVE  /\ force'[f].pending \subseteq UNION {IdsOf(Range(queue'[s])) : s \in Sessions}
                        /\ force'[f].step = "done" => force'[f].pending = {} /\ ~force'[f].failed
                        /\ force'[f].step # "idle" /\ ~force'[f].failed =>
                             \A ask \in force'[f].asked :
                               /\ ask[2] \in 1..nextGeneration'
                               /\ \/ entry'[ask[1]].generation # ask[2]
                                  \/ Pends(f, ask[1], ask[2])'
      BY DEF Waiters
    <2>2. force'[f].pending \subseteq UNION {IdsOf(Range(queue'[s])) : s \in Sessions}
      <3> SUFFICES ASSUME NEW id \in force'[f].pending
                   PROVE  \E s \in Sessions : id \in IdsOf(Range(queue'[s]))
        OBVIOUS
      <3>1. id \in force[f].pending /\ id \notin ids
        BY <2>1
      <3>2. PICK s \in Sessions : id \in IdsOf(Range(queue[s]))
        BY <1>0, <3>1 DEF Waiters
      <3>3. PICK cmd \in Range(queue[s]) : id = cmd.id
        BY <3>2 DEF IdsOf
      <3>4. cmd \notin gone
        BY <3>1, <3>3 DEF IdsOf
      <3>5. cmd \in Range(queue'[s])
        BY <1>1, <3>4
      <3> QED BY <3>3, <3>5 DEF IdsOf
    <2>3. force'[f].step = "done" => force'[f].pending = {} /\ ~force'[f].failed
      BY <1>0, <2>1 DEF Waiters
    <2>4. ASSUME force'[f].step # "idle", ~force'[f].failed, NEW ask \in force'[f].asked
          PROVE  /\ ask[2] \in 1..nextGeneration'
                 /\ entry'[ask[1]].generation # ask[2] \/ Pends(f, ask[1], ask[2])'
      <3>1. /\ ask \in force[f].asked /\ force[f].step # "idle" /\ ~force[f].failed
            /\ ok \/ force[f].pending \cap ids = {}
        BY <2>1, <2>4
      <3>2. /\ ask[2] \in 1..nextGeneration
            /\ entry[ask[1]].generation # ask[2] \/ Pends(f, ask[1], ask[2])
        BY <1>0, <3>1 DEF Waiters
      <3>3. ask[1] \in Owners
        BY <1>0, <3>1 DEF RegistryTypes, Waiter
      <3>4. CASE entry[ask[1]].generation # ask[2]
        <4>1. ask[2] # 0
          BY <3>2
        <4> QED BY <1>1, <3>2, <3>3, <3>4, <4>1
      <3>5. CASE Pends(f, ask[1], ask[2])
        <4>1. PICK cmd \in Waiting(ask[1]) : cmd.generation = ask[2] /\ cmd.id \in force[f].pending
          BY <3>5 DEF Pends
        <4>2. cmd.owner = ask[1] /\ cmd \in Range(queue[ask[1][1]]) /\ ask[1][1] \in Sessions
          BY <3>3, <4>1, OwnerFacts DEF Waiting
        <4>3. CASE cmd \in gone
          <5>1. cmd.id \in ids
            BY <4>3 DEF IdsOf
          <5> QED BY <1>1, <3>1, <3>2, <4>1, <4>2, <4>3, <5>1
        <4>4. CASE cmd \notin gone
          <5>1. cmd.id \notin ids
            <6>1. ASSUME NEW other \in gone, other.id = cmd.id PROVE FALSE
              <7>1. PICK s \in Sessions : other \in Range(queue[s])
                BY <1>1
              <7>2. other = cmd
                BY <4>2, <6>1, <7>1, IdsDiffer
              <7> QED BY <4>4, <7>2
            <6> QED BY <6>1 DEF IdsOf
          <5>2. cmd \in Waiting(ask[1])' /\ cmd.id \in force'[f].pending
            BY <1>2, <2>1, <3>3, <4>1, <4>4, <5>1
          <5> QED BY <1>1, <3>2, <4>1, <5>2 DEF Pends
        <4> QED BY <4>3, <4>4
      <3> QED BY <3>2, <3>4, <3>5
    <2> QED BY <2>2, <2>3, <2>4
  <1> QED BY <1>1, <1>3, <1>4, <1>5 DEF Registry

\* What the rest of the system sees of a step of the registry: no generation
\* comes back, and a command that leaves, other than in gone, has none.
Follows(gone) ==
  /\ nextGeneration <= nextGeneration' /\ nextCommand <= nextCommand'
  /\ \A o \in Owners : \/ entry'[o].generation \in {entry[o].generation, 0}
                       \/ entry'[o].generation > nextGeneration
  /\ \A s \in Sessions :
       /\ \A cmd \in Range(queue'[s]) : cmd \in Range(queue[s]) \/ cmd.id[2] > nextCommand
       /\ \A cmd \in Range(queue[s]) \ gone :
            cmd \in Range(queue'[s]) \/ entry'[cmd.owner].generation # cmd.generation

LEMMA GoneFollows ==
  ASSUME Registry, NEW gone, NEW ok \in BOOLEAN, CommandsGo(gone, ok)
  PROVE  Follows(IF ok THEN {} ELSE gone)
  <1>1. /\ nextGeneration <= nextGeneration' /\ nextCommand <= nextCommand'
        /\ \A o \in Owners : entry'[o].generation \in {entry[o].generation, 0}
    BY DEF CommandsGo, Registry, RegistryTypes
  <1>2. ASSUME NEW s \in Sessions
        PROVE  /\ \A cmd \in Range(queue'[s]) : cmd \in Range(queue[s])
               /\ \A cmd \in Range(queue[s]) \ (IF ok THEN {} ELSE gone) :
                    cmd \in Range(queue'[s]) \/ entry'[cmd.owner].generation # cmd.generation
    BY DEF CommandsGo
  <1> QED BY <1>1, <1>2 DEF Follows

LEMMA UnchangedFollows ==
  ASSUME Registry, UNCHANGED registryVars
  PROVE  Registry' /\ Follows({}) /\ UNCHANGED closed
  <1>1. UNCHANGED <<entry, nextGeneration, queue, nextCommand, closed, serviceClosed, force>>
    BY DEF registryVars
  <1>2. Registry'
    BY <1>1 DEF Registry, RegistryTypes, Queues, Given, Phases, Waiting, Acquired, Waiters, Pends
  <1>3. Follows({})
    BY <1>1 DEF Follows, Registry, RegistryTypes
  <1> QED BY <1>1, <1>2, <1>3

\* An owner without a generation gets a new one, or its phase changes.
EntriesMove ==
  /\ RegistryTypes' /\ UNCHANGED <<queue, nextCommand, force>>
  /\ nextGeneration <= nextGeneration'
  /\ \A o \in Owners :
       /\ entry'[o].disconnecting = entry[o].disconnecting
       /\ \/ entry'[o].generation = entry[o].generation
          \/ /\ entry[o].generation = 0 /\ nextGeneration < entry'[o].generation
             /\ entry'[o].generation <= nextGeneration'

LEMMA MovedKeepsRegistry ==
  ASSUME Registry, EntriesMove
  PROVE  Registry' /\ Follows({})
  <1>0. RegistryTypes /\ Queues /\ Phases /\ Waiters
    BY DEF Registry
  <1>1. /\ RegistryTypes' /\ queue' = queue /\ nextCommand' = nextCommand /\ force' = force
        /\ nextGeneration <= nextGeneration'
        /\ nextGeneration \in Nat /\ nextGeneration' \in Nat /\ nextCommand \in Nat
    BY <1>0 DEF EntriesMove, RegistryTypes
  <1>2. ASSUME NEW o \in Owners
        PROVE  /\ entry'[o].disconnecting = entry[o].disconnecting
               /\ \/ entry'[o].generation = entry[o].generation
                  \/ /\ entry[o].generation = 0 /\ nextGeneration < entry'[o].generation
                     /\ entry'[o].generation <= nextGeneration'
               /\ entry[o].generation \in Nat /\ entry'[o].generation \in Nat
               /\ entry[o].generation <= nextGeneration
    BY <1>0, <1>1 DEF EntriesMove, RegistryTypes, Entry, Queues
  <1>3. \A o : Waiting(o)' = Waiting(o)
    BY <1>1 DEF Waiting
  <1>4. Queues'
    <2>1. \A s \in Sessions : \A cmd \in Range(queue'[s]) : Given(cmd, s)'
      <3> SUFFICES ASSUME NEW s \in Sessions, NEW cmd \in Range(queue[s])
                   PROVE  Given(cmd, s)'
        BY <1>1
      <3>1. Given(cmd, s)
        BY <1>0 DEF Queues
      <3> QED BY <1>1, <3>1 DEF Given
    <2>2. \A o \in Owners : entry'[o].generation <= nextGeneration'
      BY <1>1, <1>2
    <2> QED BY <2>1, <2>2 DEF Queues
  <1>5. Phases'
    <2> SUFFICES ASSUME NEW o \in Owners
                 PROVE  IF entry'[o].disconnecting
                        THEN \E cmd \in Waiting(o)' : /\ Waiting(o)' = {cmd}
                                                      /\ Acquired(o, cmd.generation)'
                        ELSE Waiting(o)' = {}
      BY DEF Phases
    <2>1. IF entry[o].disconnecting
          THEN \E cmd \in Waiting(o) : Waiting(o) = {cmd} /\ Acquired(o, cmd.generation)
          ELSE Waiting(o) = {}
      BY <1>0 DEF Phases
    <2>2. \A g : Acquired(o, g) => Acquired(o, g)'
      BY <1>2 DEF Acquired
    <2> QED BY <1>2, <1>3, <2>1, <2>2
  <1>6. Waiters'
    <2> SUFFICES ASSUME NEW f \in Callers
                 PROVE  /\ force[f].pending \subseteq UNION {IdsOf(Range(queue[s])) : s \in Sessions}
                        /\ force[f].step = "done" => force[f].pending = {} /\ ~force[f].failed
                        /\ force[f].step # "idle" /\ ~force[f].failed =>
                             \A ask \in force[f].asked :
                               /\ ask[2] \in 1..nextGeneration'
                               /\ \/ entry'[ask[1]].generation # ask[2]
                                  \/ Pends(f, ask[1], ask[2])'
      BY <1>1 DEF Waiters
    <2>1. ASSUME force[f].step # "idle", ~force[f].failed, NEW ask \in force[f].asked
          PROVE  /\ ask[2] \in 1..nextGeneration'
                 /\ entry'[ask[1]].generation # ask[2] \/ Pends(f, ask[1], ask[2])'
      <3>1. /\ ask[2] \in 1..nextGeneration
            /\ entry[ask[1]].generation # ask[2] \/ Pends(f, ask[1], ask[2])
        BY <1>0, <2>1 DEF Waiters
      <3>2. ask[1] \in Owners
        BY <1>0, <2>1 DEF RegistryTypes, Waiter
      <3>3. ask[2] \in Nat /\ ask[2] <= nextGeneration
        BY <1>1, <3>1
      <3>4. CASE entry[ask[1]].generation # ask[2]
        <4>1. entry'[ask[1]].generation # ask[2]
          BY <1>1, <1>2, <3>2, <3>3, <3>4
        <4> QED BY <1>1, <3>1, <4>1
      <3>5. CASE Pends(f, ask[1], ask[2])
        BY <1>1, <1>3, <3>1, <3>5 DEF Pends
      <3> QED BY <3>1, <3>4, <3>5
    <2> QED BY <1>0, <2>1 DEF Waiters
  <1>7. Follows({})
    BY <1>1, <1>2 DEF Follows
  <1> QED BY <1>1, <1>4, <1>5, <1>6, <1>7 DEF Registry

LEMMA EntryFacts ==
  ASSUME RegistryTypes, NEW o \in Owners
  PROVE  /\ entry[o] \in Entry /\ entry[o].generation \in Nat
         /\ entry[o].connected \in BOOLEAN /\ entry[o].disconnecting \in BOOLEAN
         /\ NoEntry \in Entry /\ NoEntry.generation = 0 /\ ~NoEntry.disconnecting
  BY DEF RegistryTypes, Entry, NoEntry

\* The generation an owner gets is one nobody had before.
LEMMA AcquireFollows ==
  ASSUME Registry, NEW o \in Owners, NEW g, Acquire(o, g)
  PROVE  /\ Registry' /\ Follows({}) /\ UNCHANGED <<closed, serviceClosed>>
         /\ g \in Nat /\ g <= nextGeneration'
         /\ \A p \in Owners : entry[p].generation # 0 => entry'[p] = entry[p]
         /\ g # 0 => entry'[o].generation = g /\ ~entry[o].disconnecting
  <1>0. RegistryTypes /\ Queues /\ Phases
    BY DEF Registry
  <1>1. UNCHANGED <<queue, nextCommand, closed, serviceClosed, force>>
    BY DEF Acquire
  <1>2. entry[o].generation \in Nat /\ entry[o].generation <= nextGeneration /\ nextGeneration \in Nat
    BY <1>0, EntryFacts DEF Queues, RegistryTypes
  <1>3. CASE g = 0 /\ UNCHANGED <<entry, nextGeneration>>
    <2>1. UNCHANGED registryVars
      BY <1>1, <1>3 DEF registryVars
    <2> QED BY <1>1, <1>2, <1>3, <2>1, UnchangedFollows
  <1>4. CASE Open(o) /\ Acquired(o, g) /\ ~entry[o].disconnecting /\ UNCHANGED <<entry, nextGeneration>>
    <2>1. UNCHANGED registryVars
      BY <1>1, <1>4 DEF registryVars
    <2>2. entry[o].generation = g /\ g # 0
      BY <1>4 DEF Acquired
    <2> QED BY <1>1, <1>2, <1>4, <2>1, <2>2, UnchangedFollows
  <1>5. CASE /\ Open(o) /\ entry[o].generation = 0
             /\ g = nextGeneration + 1 /\ g <= limits.generations
             /\ nextGeneration' = g
             /\ entry' = [entry EXCEPT ![o] = [NoEntry EXCEPT !.generation = g]]
    <2> DEFINE new == [NoEntry EXCEPT !.generation = g]
    <2>1. /\ new \in Entry /\ new.generation = g /\ ~new.disconnecting /\ g \in Nat
          /\ nextGeneration < g /\ g <= nextGeneration' /\ nextGeneration' \in Nat
      <3>1. g \in Nat /\ nextGeneration < g /\ g <= nextGeneration' /\ nextGeneration' \in Nat
        BY <1>2, <1>5
      <3>2. new \in Entry /\ new.generation = g /\ new.disconnecting = NoEntry.disconnecting
        BY <1>0, <3>1, EntryFacts DEF Entry
      <3> HIDE DEF new
      <3> QED BY <1>0, <3>1, <3>2, EntryFacts
    <2> HIDE DEF new
    <2>2. /\ entry' = [entry EXCEPT ![o] = new] /\ entry \in [Owners -> Entry]
      BY <1>0, <1>5 DEF new, RegistryTypes
    <2>3. /\ entry' \in [Owners -> Entry] /\ entry'[o] = new
          /\ \A p \in Owners : p # o => entry'[p] = entry[p]
      BY <2>1, <2>2
    <2>4. ~entry[o].disconnecting
      BY <1>0, <1>5 DEF Phases, Acquired
    <2>5. RegistryTypes'
      BY <1>0, <1>1, <2>1, <2>3 DEF RegistryTypes
    <2>6. EntriesMove
      <3>1. ASSUME NEW p \in Owners
            PROVE  /\ entry'[p].disconnecting = entry[p].disconnecting
                   /\ \/ entry'[p].generation = entry[p].generation
                      \/ /\ entry[p].generation = 0 /\ nextGeneration < entry'[p].generation
                         /\ entry'[p].generation <= nextGeneration'
        <4>1. CASE p = o
          <5>1. entry[o].disconnecting \in BOOLEAN /\ new.disconnecting \in BOOLEAN
            BY <1>0, <2>1, EntryFacts DEF Entry
          <5>2. entry'[o].disconnecting = entry[o].disconnecting
            BY <2>1, <2>3, <2>4, <5>1
          <5> QED BY <1>5, <2>1, <2>3, <4>1, <5>2
        <4>2. CASE p # o
          BY <2>3, <4>2
        <4> QED BY <4>1, <4>2
      <3>2. nextGeneration <= nextGeneration'
        BY <1>2, <2>1
      <3> QED BY <1>1, <2>5, <3>1, <3>2 DEF EntriesMove
    <2>7. Registry' /\ Follows({})
      BY <2>6, MovedKeepsRegistry
    <2> QED BY <1>1, <1>5, <2>1, <2>3, <2>4, <2>7
  <1> QED BY <1>3, <1>4, <1>5 DEF Acquire

\* The phase of an owner that is connected, and nothing else.
LEMMA ConnectedFollows ==
  ASSUME Registry, NEW o \in Owners, NEW g, Connected(o, g)
  PROVE  /\ Registry' /\ Follows({}) /\ UNCHANGED <<closed, serviceClosed>>
         /\ \A p \in Owners : /\ entry'[p].generation = entry[p].generation
                              /\ entry[p].connected => entry'[p].connected
         /\ Connects(o, g) => entry'[o].connected /\ entry[o].generation = g
  <1>0. RegistryTypes
    BY DEF Registry
  <1>1. UNCHANGED <<nextGeneration, queue, nextCommand, closed, serviceClosed, force>>
    BY DEF Connected
  <1>2. CASE ~Connects(o, g)
    <2>1. entry' = entry
      BY <1>2 DEF Connected
    <2>2. UNCHANGED registryVars
      BY <1>1, <2>1 DEF registryVars
    <2> QED BY <1>1, <1>2, <2>1, <2>2, UnchangedFollows
  <1>3. CASE Connects(o, g)
    <2> DEFINE new == [entry[o] EXCEPT !.connected = TRUE]
    <2>1. /\ new \in Entry /\ new.generation = entry[o].generation /\ new.connected
          /\ new.disconnecting = entry[o].disconnecting
      BY <1>0, EntryFacts DEF Entry
    <2>2. entry' = [entry EXCEPT ![o] = new] /\ entry \in [Owners -> Entry]
      BY <1>0, <1>3 DEF Connected, RegistryTypes
    <2> HIDE DEF new
    <2>3. /\ entry' \in [Owners -> Entry] /\ entry'[o] = new
          /\ \A p \in Owners : p # o => entry'[p] = entry[p]
      BY <2>1, <2>2
    <2>4. RegistryTypes'
      BY <1>0, <1>1, <2>3 DEF RegistryTypes
    <2>5. nextGeneration <= nextGeneration'
      BY <1>0, <1>1 DEF RegistryTypes
    <2>6. \A p \in Owners : /\ entry'[p].generation = entry[p].generation
                            /\ entry'[p].disconnecting = entry[p].disconnecting
                            /\ entry[p].connected => entry'[p].connected
      BY <2>1, <2>3
    <2>7. EntriesMove
      BY <1>1, <2>4, <2>5, <2>6 DEF EntriesMove
    <2>8. Registry' /\ Follows({})
      BY <2>7, MovedKeepsRegistry
    <2>9. entry[o].generation = g
      BY <1>3 DEF Connects, Acquired
    <2> QED BY <1>1, <2>1, <2>3, <2>6, <2>8, <2>9
  <1> QED BY <1>2, <1>3

LEMMA WithoutFacts ==
  ASSUME Registry, NEW s \in Sessions, NEW gone, gone \subseteq Range(queue[s])
  PROVE  /\ WithoutCommands(s, gone) \in [Sessions -> Seq(AnyCommand)]
         /\ \A t \in Sessions : Range(WithoutCommands(s, gone)[t]) = Range(queue[t]) \ gone
  <1>0. queue \in [Sessions -> Seq(AnyCommand)] /\ Queues
    BY DEF Registry, RegistryTypes
  <1> DEFINE less == Retained(queue[s], gone)
  <1>1. less \in Seq(AnyCommand) /\ Range(less) = Range(queue[s]) \ gone
    <2>1. queue[s] \in Seq(AnyCommand)
      BY <1>0
    <2> QED BY <2>1, RetainedFacts
  <1>2. WithoutCommands(s, gone) = [queue EXCEPT ![s] = less]
    BY DEF WithoutCommands
  <1> HIDE DEF less
  <1>3. /\ WithoutCommands(s, gone) \in [Sessions -> Seq(AnyCommand)]
        /\ WithoutCommands(s, gone)[s] = less
        /\ \A t \in Sessions : t # s => WithoutCommands(s, gone)[t] = queue[t]
    BY <1>0, <1>1, <1>2
  <1>4. ASSUME NEW t \in Sessions, t # s PROVE Range(queue[t]) = Range(queue[t]) \ gone
    <2>1. ASSUME NEW cmd \in gone, cmd \in Range(queue[t]) PROVE FALSE
      <3>1. Given(cmd, s) /\ Given(cmd, t)
        BY <1>0, <2>1 DEF Queues
      <3> QED BY <1>4, <3>1 DEF Given
    <2> QED BY <2>1
  <1> QED BY <1>1, <1>3, <1>4

\* A release ends the phase of its own generation and answers whoever waits.
LEMMA ReleasedFollows ==
  ASSUME Registry, NEW o \in Owners, NEW g, Released(o, g)
  PROVE  /\ Registry' /\ Follows({}) /\ UNCHANGED <<closed, serviceClosed>>
         /\ \A p \in Owners : entry'[p] = entry[p] \/ (p = o /\ entry[p].generation = g)
  <1>0. RegistryTypes /\ Queues /\ Phases
    BY DEF Registry
  <1>1. UNCHANGED <<nextGeneration, nextCommand, closed, serviceClosed>>
    BY DEF Released
  <1> DEFINE ends == {cmd \in Range(queue[o[1]]) : cmd.owner = o /\ cmd.generation = g}
  <1>2. CASE ~(Open(o) /\ Acquired(o, g))
    <2>1. UNCHANGED registryVars /\ entry' = entry
      BY <1>1, <1>2 DEF Released, registryVars
    <2> QED BY <1>1, <2>1, UnchangedFollows
  <1>3. CASE Open(o) /\ Acquired(o, g)
    <2>1. /\ entry' = [entry EXCEPT ![o] = NoEntry]
          /\ queue' = WithoutCommands(o[1], ends)
          /\ force' = Resolved(IdsOf(ends), TRUE)
          /\ entry[o].generation = g /\ g # 0
      BY <1>3 DEF Released, Acquired
    <2>2. /\ entry' \in [Owners -> Entry] /\ entry'[o] = NoEntry
          /\ \A p \in Owners : p # o => entry'[p] = entry[p]
      BY <1>0, <2>1, EntryFacts DEF RegistryTypes
    <2>3. o[1] \in Sessions /\ ends \subseteq Range(queue[o[1]])
      BY OwnerFacts
    <2>4. ends = Waiting(o)
      <3>1. \A cmd \in Waiting(o) : Acquired(o, cmd.generation)
        BY <1>0 DEF Phases
      <3> QED BY <2>1, <3>1 DEF Waiting, Acquired
    <2>5. force' \in [Callers -> Waiter]
      BY <1>0, <2>1, ResolvedFacts
    <2> HIDE DEF ends
    <2>6. /\ queue' \in [Sessions -> Seq(AnyCommand)]
          /\ \A t \in Sessions : Range(queue'[t]) = Range(queue[t]) \ ends
      BY <2>1, <2>3, WithoutFacts
    <2>7. RegistryTypes'
      BY <1>0, <1>1, <2>2, <2>5, <2>6 DEF RegistryTypes
    <2>8. ASSUME NEW p \in Owners
          PROVE  /\ entry'[p].generation \in {entry[p].generation, 0}
                 /\ \/ entry'[p] = entry[p] /\ Waiting(p) \cap ends = {}
                    \/ ~entry'[p].disconnecting /\ Waiting(p) \subseteq ends
      <3>1. CASE p = o
        BY <1>0, <2>2, <2>4, <3>1, EntryFacts
      <3>2. CASE p # o
        <4>1. Waiting(p) \cap ends = {}
          BY <2>4, <3>2 DEF Waiting
        <4> QED BY <2>2, <3>2, <4>1
      <3> QED BY <3>1, <3>2
    <2>9. ASSUME NEW cmd \in ends PROVE entry'[cmd.owner].generation # cmd.generation
      <3>1. cmd.owner = o /\ cmd.generation = g
        BY <2>9 DEF ends
      <3> QED BY <1>0, <2>1, <2>2, <3>1, EntryFacts
    <2>10. CommandsGo(ends, TRUE)
      BY <1>1, <2>1, <2>3, <2>6, <2>7, <2>8, <2>9 DEF CommandsGo
    <2>11. Registry' /\ Follows({})
      BY <2>10, GoneKeepsRegistry, GoneFollows
    <2> QED BY <1>1, <2>1, <2>2, <2>11
  <1> QED BY <1>2, <1>3

\* An answer ends the phase, and a success the generation as well.
LEMMA ControlFollows ==
  ASSUME Registry, NEW cmd, cmd.owner \in Owners, NEW ok \in BOOLEAN, ControlResult(cmd, ok)
  PROVE  /\ Registry' /\ Follows({cmd}) /\ UNCHANGED <<closed, serviceClosed>>
         /\ \A p \in Owners : entry'[p] = entry[p] \/ (p = cmd.owner /\ cmd \in Range(queue[p[1]]))
         /\ cmd \notin Range(queue[cmd.owner[1]]) => entry' = entry
  <1>0. RegistryTypes /\ Queues /\ Phases
    BY DEF Registry
  <1> DEFINE o == cmd.owner
             restored == [entry[o] EXCEPT !.connected = cmd.was, !.disconnecting = FALSE]
             new == IF ok THEN NoEntry ELSE restored
  <1>1. UNCHANGED <<nextGeneration, nextCommand, closed, serviceClosed>>
    BY DEF ControlResult
  <1>2. CASE cmd \notin Range(queue[o[1]])
    <2>1. UNCHANGED registryVars /\ entry' = entry
      BY <1>1, <1>2 DEF ControlResult, registryVars
    <2>2. Registry' /\ Follows({})
      BY <2>1, UnchangedFollows
    <2> QED BY <1>1, <1>2, <2>1, <2>2 DEF Follows
  <1>3. CASE cmd \in Range(queue[o[1]])
    <2>0. o \in Owners /\ o[1] \in Sessions /\ cmd \in Waiting(o)
      BY <1>3, OwnerFacts DEF Waiting
    <2>1. Acquired(o, cmd.generation) /\ Waiting(o) = {cmd} /\ entry[o].disconnecting
      BY <1>0, <2>0 DEF Phases
    <2>2. /\ entry' = [entry EXCEPT ![o] = new]
          /\ queue' = WithoutCommands(o[1], {cmd})
          /\ force' = Resolved({cmd.id}, ok)
      BY <1>3, <2>1 DEF ControlResult
    <2>3. Given(cmd, o[1])
      BY <1>0, <1>3, <2>0 DEF Queues
    <2>4. /\ new \in Entry /\ new.generation \in {entry[o].generation, 0} /\ ~new.disconnecting
          /\ ok => new.generation = 0
      <3>1. CASE ok
        BY <1>0, <2>0, <3>1, EntryFacts
      <3>2. CASE ~ok
        <4> DEFINE e1 == [entry[o] EXCEPT !.connected = cmd.was]
        <4>1. cmd.was \in BOOLEAN
          BY <2>3 DEF Given, AnyCommand
        <4>2. e1 \in Entry /\ e1.generation = entry[o].generation
          BY <1>0, <2>0, <4>1, EntryFacts DEF Entry
        <4> DEFINE e2 == [e1 EXCEPT !.disconnecting = FALSE]
        <4>3. new = e2
          BY <3>2
        <4> HIDE DEF e1, new
        <4>4. e2 \in Entry /\ e2.generation = e1.generation /\ ~e2.disconnecting
          BY <4>2 DEF Entry
        <4> QED BY <3>2, <4>2, <4>3, <4>4
      <3> QED BY <3>1, <3>2
    <2> HIDE DEF new
    <2>5. /\ entry' \in [Owners -> Entry] /\ entry'[o] = new
          /\ \A p \in Owners : p # o => entry'[p] = entry[p]
      BY <1>0, <2>0, <2>2, <2>4 DEF RegistryTypes
    <2>6. /\ queue' \in [Sessions -> Seq(AnyCommand)]
          /\ \A t \in Sessions : Range(queue'[t]) = Range(queue[t]) \ {cmd}
      <3>1. {cmd} \subseteq Range(queue[o[1]])
        BY <1>3
      <3> QED BY <2>0, <2>2, <3>1, WithoutFacts
    <2>7. IdsOf({cmd}) = {cmd.id}
      BY DEF IdsOf
    <2>8. force' \in [Callers -> Waiter] /\ force' = Resolved(IdsOf({cmd}), ok)
      BY <1>0, <2>2, <2>7, ResolvedFacts
    <2>9. RegistryTypes'
      BY <1>0, <1>1, <2>5, <2>6, <2>8 DEF RegistryTypes
    <2>10. ASSUME NEW p \in Owners
           PROVE  /\ entry'[p].generation \in {entry[p].generation, 0}
                  /\ \/ entry'[p] = entry[p] /\ Waiting(p) \cap {cmd} = {}
                     \/ ~entry'[p].disconnecting /\ Waiting(p) \subseteq {cmd}
      <3>1. CASE p = o
        BY <2>1, <2>4, <2>5, <3>1
      <3>2. CASE p # o
        <4>1. Waiting(p) \cap {cmd} = {}
          BY <3>2 DEF Waiting
        <4> QED BY <2>5, <3>2, <4>1
      <3> QED BY <3>1, <3>2
    <2>11. ok => entry'[o].generation # cmd.generation
      BY <2>1, <2>4, <2>5 DEF Acquired
    <2>12. CommandsGo({cmd}, ok)
      <3>1. {cmd} \subseteq UNION {Range(queue[s]) : s \in Sessions}
        BY <1>3, <2>0
      <3> QED BY <1>1, <2>6, <2>8, <2>9, <2>10, <2>11, <3>1 DEF CommandsGo
    <2>13. Registry' /\ Follows(IF ok THEN {} ELSE {cmd})
      BY <2>12, GoneKeepsRegistry, GoneFollows
    <2>14. Follows({cmd})
      BY <2>13 DEF Follows
    <2> QED BY <1>1, <1>3, <2>5, <2>13, <2>14
  <1> QED BY <1>2, <1>3

\* A session that ends takes its generations and its commands along.
LEMMA CloseFollows ==
  ASSUME Registry, NEW s \in Sessions, CloseSession(s)
  PROVE  /\ Registry' /\ Follows({}) /\ UNCHANGED serviceClosed
         /\ closed' \subseteq closed \cup {s}
         /\ \A p \in Owners : entry'[p] = entry[p] \/ p[1] = s
  <1>0. RegistryTypes /\ Queues /\ Phases
    BY DEF Registry
  <1>1. UNCHANGED <<nextGeneration, nextCommand, serviceClosed>>
    BY DEF CloseSession
  <1>2. CASE serviceClosed
    <2>1. UNCHANGED registryVars /\ entry' = entry /\ closed' = closed
      BY <1>1, <1>2 DEF CloseSession, registryVars
    <2> QED BY <1>1, <2>1, UnchangedFollows
  <1>3. CASE ~serviceClosed
    <2> DEFINE gone == Range(queue[s])
    <2>1. /\ closed' = closed \cup {s}
          /\ entry' = [o \in Owners |-> IF o[1] = s THEN NoEntry ELSE entry[o]]
          /\ queue' = [queue EXCEPT ![s] = <<>>]
          /\ force' = Resolved(IdsOf(gone), TRUE)
      BY <1>3 DEF CloseSession
    <2>2. entry' \in [Owners -> Entry]
      BY <1>0, <2>1, EntryFacts
    <2>3. /\ queue' \in [Sessions -> Seq(AnyCommand)]
          /\ queue'[s] = <<>> /\ \A t \in Sessions : t # s => queue'[t] = queue[t]
      <3>1. <<>> \in Seq(AnyCommand)
        OBVIOUS
      <3> QED BY <1>0, <2>1, <3>1 DEF RegistryTypes
    <2>4. ASSUME NEW t \in Sessions PROVE Range(queue'[t]) = Range(queue[t]) \ gone
      <3>1. CASE t = s
        <4>1. Range(<<>>) = {}
          BY DEF Range
        <4> QED BY <2>3, <3>1, <4>1
      <3>2. CASE t # s
        <4>1. ASSUME NEW cmd \in gone, cmd \in Range(queue[t]) PROVE FALSE
          <5>1. Given(cmd, s) /\ Given(cmd, t)
            BY <1>0, <4>1 DEF Queues
          <5> QED BY <3>2, <5>1 DEF Given
        <4>2. queue'[t] = queue[t]
          BY <2>3, <3>2
        <4> QED BY <4>1, <4>2
      <3> QED BY <3>1, <3>2
    <2>5. force' \in [Callers -> Waiter]
      BY <1>0, <2>1, ResolvedFacts
    <2>6. RegistryTypes'
      BY <1>0, <1>1, <2>1, <2>2, <2>3, <2>5 DEF RegistryTypes
    <2>7. ASSUME NEW p \in Owners
          PROVE  /\ entry'[p].generation \in {entry[p].generation, 0}
                 /\ \/ entry'[p] = entry[p] /\ Waiting(p) \cap gone = {}
                    \/ ~entry'[p].disconnecting /\ Waiting(p) \subseteq gone
                 /\ entry'[p] = entry[p] \/ p[1] = s
      <3>1. CASE p[1] = s
        <4>1. entry'[p] = NoEntry
          BY <2>1, <3>1
        <4> QED BY <1>0, <3>1, <4>1, EntryFacts DEF Waiting
      <3>2. CASE p[1] # s
        <4>1. entry'[p] = entry[p] /\ p[1] \in Sessions
          BY <2>1, <3>2, OwnerFacts
        <4>2. ASSUME NEW cmd \in Waiting(p), cmd \in gone PROVE FALSE
          <5>1. Given(cmd, s) /\ Given(cmd, p[1])
            BY <1>0, <4>1, <4>2 DEF Queues, Waiting
          <5> QED BY <3>2, <5>1 DEF Given
        <4> QED BY <4>1, <4>2
      <3> QED BY <3>1, <3>2
    <2>8. ASSUME NEW cmd \in gone PROVE entry'[cmd.owner].generation # cmd.generation
      <3>1. Given(cmd, s)
        BY <1>0, <2>8 DEF Queues
      <3>2. cmd.owner \in Owners /\ cmd.owner[1] = s /\ cmd.generation # 0
        BY <3>1 DEF Given, AnyCommand
      <3>3. entry'[cmd.owner] = NoEntry
        BY <2>1, <3>2
      <3> QED BY <1>0, <3>2, <3>3, EntryFacts
    <2> HIDE DEF gone
    <2>9. CommandsGo(gone, TRUE)
      <3>1. gone \subseteq UNION {Range(queue[t]) : t \in Sessions}
        BY DEF gone
      <3> QED BY <1>1, <2>1, <2>4, <2>6, <2>7, <2>8, <3>1 DEF CommandsGo
    <2>10. Registry' /\ Follows({})
      BY <2>9, GoneKeepsRegistry, GoneFollows
    <2> QED BY <1>1, <2>1, <2>7, <2>10
  <1> QED BY <1>2, <1>3

LEMMA ResetFollows ==
  ASSUME Registry, ResetService
  PROVE  Registry' /\ Follows({}) /\ closed' = {} /\ serviceClosed'
  <1>0. RegistryTypes /\ Queues /\ Phases
    BY DEF Registry
  <1> DEFINE gone == UNION {Range(queue[s]) : s \in Sessions}
  <1>1. /\ UNCHANGED <<nextGeneration, nextCommand>> /\ closed' = {} /\ serviceClosed' = TRUE
        /\ entry' = [o \in Owners |-> NoEntry]
        /\ queue' = [s \in Sessions |-> <<>>]
        /\ force' = Resolved(UNION {IdsOf(Range(queue[s])) : s \in Sessions}, TRUE)
    BY DEF ResetService
  <1>2. UNION {IdsOf(Range(queue[s])) : s \in Sessions} = IdsOf(gone)
    <2>1. ASSUME NEW id PROVE (\E s \in Sessions : id \in IdsOf(Range(queue[s]))) <=> id \in IdsOf(gone)
      BY DEF IdsOf
    <2> QED BY <2>1
  <1>3. entry' \in [Owners -> Entry] /\ \A p \in Owners : entry'[p] = NoEntry
    <2>1. NoEntry \in Entry
      BY DEF NoEntry, Entry
    <2> QED BY <1>1, <2>1
  <1>4. queue' \in [Sessions -> Seq(AnyCommand)] /\ \A s \in Sessions : queue'[s] = <<>>
    <2>1. <<>> \in Seq(AnyCommand)
      OBVIOUS
    <2> QED BY <1>1, <2>1
  <1>5. force' = Resolved(IdsOf(gone), TRUE) /\ force' \in [Callers -> Waiter]
    BY <1>0, <1>1, <1>2, ResolvedFacts
  <1>6. RegistryTypes'
    BY <1>0, <1>1, <1>3, <1>4, <1>5 DEF RegistryTypes
  <1>7. ASSUME NEW s \in Sessions PROVE Range(queue'[s]) = Range(queue[s]) \ gone
    <2>1. Range(<<>>) = {}
      BY DEF Range
    <2> QED BY <1>4, <2>1
  <1>8. ASSUME NEW p \in Owners
        PROVE  /\ entry'[p].generation \in {entry[p].generation, 0}
               /\ ~entry'[p].disconnecting /\ Waiting(p) \subseteq gone
    BY <1>0, <1>3, EntryFacts, OwnerFacts DEF Waiting
  <1>9. ASSUME NEW cmd \in gone PROVE entry'[cmd.owner].generation # cmd.generation
    <2>1. PICK s \in Sessions : Given(cmd, s)
      BY <1>0 DEF Queues
    <2>2. cmd.owner \in Owners /\ cmd.generation # 0
      BY <2>1 DEF Given, AnyCommand
    <2> QED BY <1>0, <1>3, <2>2, EntryFacts
  <1> HIDE DEF gone
  <1>10. CommandsGo(gone, TRUE)
    BY <1>1, <1>5, <1>6, <1>7, <1>8, <1>9 DEF CommandsGo, gone
  <1>11. Registry' /\ Follows({})
    BY <1>10, GoneKeepsRegistry, GoneFollows
  <1> QED BY <1>1, <1>11

\* What a caller of force_disconnect waits for, and nobody else's.
WaiterFits(f) ==
  /\ force[f].pending \subseteq UNION {IdsOf(Range(queue[s])) : s \in Sessions}
  /\ force[f].step = "done" => force[f].pending = {} /\ ~force[f].failed
  /\ force[f].step # "idle" /\ ~force[f].failed =>
       \A ask \in force[f].asked :
         /\ ask[2] \in 1..nextGeneration
         /\ entry[ask[1]].generation # ask[2] \/ Pends(f, ask[1], ask[2])

ForceMoves(f) ==
  /\ UNCHANGED <<entry, nextGeneration, queue, nextCommand, closed, serviceClosed>>
  /\ force' \in [Callers -> Waiter]
  /\ \A h \in Callers : h # f => force'[h] = force[h]
  /\ \/ force'[f].step = "idle" /\ force'[f].pending = {}
     \/ /\ force'[f].asked = force[f].asked /\ force'[f].pending = {} /\ force[f].pending = {}
        /\ force'[f].failed = force[f].failed /\ ~force'[f].failed /\ force[f].step # "idle"

LEMMA ForceMovesFollows ==
  ASSUME Registry, NEW f \in Callers, ForceMoves(f)
  PROVE  Registry' /\ Follows({})
  <1>0. RegistryTypes /\ Queues /\ Phases /\ \A h \in Callers : WaiterFits(h)
    BY DEF Registry, Waiters, WaiterFits
  <1>1. /\ entry' = entry /\ nextGeneration' = nextGeneration /\ queue' = queue
        /\ nextCommand' = nextCommand /\ closed' = closed /\ serviceClosed' = serviceClosed
        /\ force' \in [Callers -> Waiter]
    BY DEF ForceMoves
  <1>2. RegistryTypes' /\ Queues' /\ Phases' /\ \A o : Waiting(o)' = Waiting(o)
    BY <1>0, <1>1 DEF RegistryTypes, Queues, Given, Phases, Waiting, Acquired
  <1>3. ASSUME NEW h \in Callers PROVE WaiterFits(h)'
    <2>1. CASE h # f
      <3>1. force'[h] = force[h]
        BY <2>1 DEF ForceMoves
      <3>2. \A o, g : Pends(h, o, g)' <=> Pends(h, o, g)
        BY <1>2, <3>1 DEF Pends
      <3>3. WaiterFits(h)
        BY <1>0
      <3> QED BY <1>1, <3>1, <3>2, <3>3 DEF WaiterFits
    <2>2. CASE h = f /\ force'[f].step = "idle" /\ force'[f].pending = {}
      BY <2>2 DEF WaiterFits
    <2>3. CASE /\ h = f /\ force'[f].asked = force[f].asked /\ force'[f].pending = {}
               /\ force[f].pending = {} /\ force'[f].failed = force[f].failed
               /\ ~force'[f].failed /\ force[f].step # "idle"
      <3>1. \A o, g : Pends(h, o, g)' <=> Pends(h, o, g)
        BY <2>3 DEF Pends
      <3>2. WaiterFits(h)
        BY <1>0
      <3>3. force'[h].pending \subseteq UNION {IdsOf(Range(queue'[s])) : s \in Sessions}
        BY <2>3
      <3>4. \A ask \in force'[h].asked :
              /\ ask[2] \in 1..nextGeneration'
              /\ entry'[ask[1]].generation # ask[2] \/ Pends(h, ask[1], ask[2])'
        BY <1>1, <2>3, <3>1, <3>2 DEF WaiterFits
      <3> QED BY <2>3, <3>3, <3>4 DEF WaiterFits
    <2> QED BY <2>1, <2>2, <2>3 DEF ForceMoves
  <1>4. Waiters'
    BY <1>3 DEF Waiters, WaiterFits
  <1>5. Follows({})
    BY <1>0, <1>1 DEF Follows, RegistryTypes
  <1> QED BY <1>2, <1>4, <1>5 DEF Registry

LEMMA IdleForceFacts ==
  IdleForce \in Waiter /\ IdleForce.step = "idle" /\ IdleForce.pending = {}
  BY DEF IdleForce, Waiter

LEMMA ForceReturnsMoves ==
  ASSUME RegistryTypes, NEW f \in Callers, ForceReturns(f)
  PROVE  ForceMoves(f)
  <1> DEFINE old == force[f]
             new == IF old.failed THEN IdleForce ELSE [old EXCEPT !.step = "done"]
  <1>1. old \in Waiter /\ old.step = "waiting" /\ old.pending = {}
    BY DEF RegistryTypes, ForceReturns
  <1>2. /\ new \in Waiter
        /\ \/ new.step = "idle" /\ new.pending = {}
           \/ /\ new.asked = old.asked /\ new.pending = {} /\ new.failed = old.failed
              /\ ~old.failed
    BY <1>1, IdleForceFacts DEF Waiter
  <1>3. force' = [force EXCEPT ![f] = new] /\ force \in [Callers -> Waiter]
    BY DEF RegistryTypes, ForceReturns
  <1> HIDE DEF new
  <1>4. /\ force' \in [Callers -> Waiter] /\ force'[f] = new
        /\ \A h \in Callers : h # f => force'[h] = force[h]
    BY <1>2, <1>3
  <1>5. UNCHANGED <<entry, nextGeneration, queue, nextCommand, closed, serviceClosed>>
    BY DEF ForceReturns
  <1> QED BY <1>1, <1>2, <1>4, <1>5 DEF ForceMoves

LEMMA ForceEndsMoves ==
  ASSUME RegistryTypes, NEW f \in Callers, ForceTimesOut(f) \/ ForceAgain(f)
  PROVE  ForceMoves(f)
  <1>1. /\ force' = [force EXCEPT ![f] = IdleForce] /\ force \in [Callers -> Waiter]
        /\ UNCHANGED <<entry, nextGeneration, queue, nextCommand, closed, serviceClosed>>
    BY DEF RegistryTypes, ForceTimesOut, ForceAgain
  <1>2. /\ force' \in [Callers -> Waiter] /\ force'[f] = IdleForce
        /\ \A h \in Callers : h # f => force'[h] = force[h]
    BY <1>1, IdleForceFacts
  <1> QED BY <1>1, <1>2, IdleForceFacts DEF ForceMoves

NewCommand(o) ==
  [id |-> <<o, nextCommand + 1>>, owner |-> o, generation |-> entry[o].generation,
   was |-> entry[o].connected]

\* Owners of connection c, and those among them that get a command.
AskedOf(c) == {o \in Owners : o[2] = c /\ entry[o].generation # 0}
FreshOf(c) == {o \in AskedOf(c) : Waiting(o) = {}}

LEMMA NewCommandFacts ==
  ASSUME Registry, NEW o \in Owners, entry[o].generation # 0
  PROVE  /\ NewCommand(o) \in AnyCommand /\ NewCommand(o).owner = o
         /\ NewCommand(o).id = <<o, nextCommand + 1>> /\ NewCommand(o).id[2] = nextCommand + 1
         /\ NewCommand(o).id[1] = o
         /\ NewCommand(o).generation = entry[o].generation
         /\ entry[o].generation \in 1..nextGeneration
  <1>1. /\ entry[o].generation \in Nat /\ entry[o].connected \in BOOLEAN
        /\ nextCommand + 1 \in Nat /\ nextGeneration \in Nat /\ entry[o].generation <= nextGeneration
    BY EntryFacts DEF Registry, RegistryTypes, Queues
  <1>2. entry[o].generation \in 1..nextGeneration
    BY <1>1
  <1> QED BY <1>1, <1>2 DEF NewCommand, AnyCommand

\* What force_disconnect does, told by the commands each owner has.
LEMMA ForceDisconnectSteps ==
  ASSUME Registry, NEW f \in Callers, NEW c \in Connections, ForceDisconnect(f, c)
  PROVE  /\ nextCommand' = nextCommand + 1
         /\ queue' = [s \in Sessions |-> IF <<s, c>> \in FreshOf(c)
                                         THEN Append(queue[s], NewCommand(<<s, c>>)) ELSE queue[s]]
         /\ entry' = [o \in Owners |-> IF o \in AskedOf(c)
                                       THEN [entry[o] EXCEPT !.disconnecting = TRUE] ELSE entry[o]]
         /\ force' = [force EXCEPT ![f] =
                        [step |-> "waiting", failed |-> FALSE,
                         asked |-> {<<o, entry[o].generation>> : o \in AskedOf(c)},
                         pending |-> IdsOf(UNION {IF Waiting(o) = {} THEN {NewCommand(o)} ELSE Waiting(o) :
                                                    o \in AskedOf(c)})]]
         /\ UNCHANGED <<nextGeneration, closed, serviceClosed>>
  <1> DEFINE W(o) == {cmd \in Range(queue[o[1]]) : cmd.owner = o /\ cmd.generation = entry[o].generation}
             asked == {o \in Owners : o[2] = c /\ entry[o].generation # 0}
             N(o) == [id |-> <<o, nextCommand + 1>>, owner |-> o, generation |-> entry[o].generation,
                      was |-> entry[o].connected]
             fresh == {o \in asked : W(o) = {}}
             Of(o) == IF W(o) = {} THEN {N(o)} ELSE W(o)
             Of2(o) == IF Waiting(o) = {} THEN {NewCommand(o)} ELSE Waiting(o)
  <1>1. \A o \in Owners : W(o) = Waiting(o)
    <2>1. \A o \in Owners : \A cmd \in Waiting(o) : Acquired(o, cmd.generation)
      BY DEF Registry, Phases
    <2> QED BY <2>1 DEF Waiting, Acquired
  <1>2. asked = AskedOf(c) /\ \A o : N(o) = NewCommand(o)
    BY DEF AskedOf, NewCommand
  <1>3. fresh = FreshOf(c)
    BY <1>1, <1>2 DEF FreshOf
  <1>4. \A o \in asked : Of(o) = Of2(o)
    BY <1>1, <1>2
  <1>5. UNION {Of(o) : o \in asked} = UNION {Of2(o) : o \in asked}
    <2> HIDE DEF Of, Of2, asked
    <2> QED BY <1>4
  <1>6. /\ nextCommand' = nextCommand + 1
        /\ queue' = [s \in Sessions |-> IF <<s, c>> \in fresh THEN Append(queue[s], N(<<s, c>>))
                                      ELSE queue[s]]
        /\ entry' = [o \in Owners |-> IF o \in asked THEN [entry[o] EXCEPT !.disconnecting = TRUE]
                                    ELSE entry[o]]
        /\ force' = [force EXCEPT ![f] = [step |-> "waiting", failed |-> FALSE,
                                          asked |-> {<<o, entry[o].generation>> : o \in asked},
                                          pending |-> IdsOf(UNION {Of(o) : o \in asked})]]
        /\ UNCHANGED <<nextGeneration, closed, serviceClosed>>
    BY DEF ForceDisconnect
  <1> HIDE DEF W, asked, N, fresh, Of
  <1> QED BY <1>2, <1>3, <1>5, <1>6

LEMMA ForceDisconnectFollows ==
  ASSUME Registry, NEW f \in Callers, NEW c \in Connections, ForceDisconnect(f, c)
  PROVE  /\ Registry' /\ Follows({}) /\ UNCHANGED <<closed, serviceClosed>>
         /\ \A p \in Owners : /\ entry'[p].generation = entry[p].generation
                              /\ entry'[p].connected = entry[p].connected
  <1> DEFINE asked == AskedOf(c)
             fresh == FreshOf(c)
             Of(o) == IF Waiting(o) = {} THEN {NewCommand(o)} ELSE Waiting(o)
             new == [step |-> "waiting", failed |-> FALSE,
                     asked |-> {<<o, entry[o].generation>> : o \in asked},
                     pending |-> IdsOf(UNION {Of(o) : o \in asked})]
  <1>0. RegistryTypes /\ Queues /\ Phases /\ \A h \in Callers : WaiterFits(h)
    BY DEF Registry, Waiters, WaiterFits
  <1>1. /\ nextCommand' = nextCommand + 1
        /\ queue' = [s \in Sessions |-> IF <<s, c>> \in fresh
                                        THEN Append(queue[s], NewCommand(<<s, c>>)) ELSE queue[s]]
        /\ entry' = [o \in Owners |-> IF o \in asked THEN [entry[o] EXCEPT !.disconnecting = TRUE]
                                                     ELSE entry[o]]
        /\ force' = [force EXCEPT ![f] = new]
        /\ nextGeneration' = nextGeneration /\ closed' = closed /\ serviceClosed' = serviceClosed
    BY ForceDisconnectSteps
  <1>2. /\ nextCommand \in Nat /\ nextCommand' \in Nat /\ nextCommand < nextCommand'
        /\ nextGeneration \in Nat
    BY <1>0, <1>1 DEF RegistryTypes
  <1>3. /\ asked \subseteq Owners /\ fresh \subseteq asked
        /\ \A o \in asked : entry[o].generation # 0 /\ o[2] = c /\ o = <<o[1], c>>
        /\ \A o \in asked : o \in fresh <=> Waiting(o) = {}
    BY OwnerFacts DEF AskedOf, FreshOf
  <1>4. ASSUME NEW o \in asked
        PROVE  /\ NewCommand(o) \in AnyCommand /\ NewCommand(o).owner = o
               /\ NewCommand(o).id = <<o, nextCommand + 1>> /\ NewCommand(o).id[2] = nextCommand + 1
               /\ NewCommand(o).id[1] = o
               /\ NewCommand(o).generation = entry[o].generation
               /\ entry[o].generation \in 1..nextGeneration
    <2>1. o \in Owners /\ entry[o].generation # 0
      BY <1>3
    <2> QED BY <2>1, NewCommandFacts
  <1> HIDE DEF asked, fresh, Of
  <1>5. ASSUME NEW s \in Sessions
        PROVE  /\ queue'[s] \in Seq(AnyCommand)
               /\ Range(queue'[s]) = IF <<s, c>> \in fresh
                                     THEN Range(queue[s]) \cup {NewCommand(<<s, c>>)} ELSE Range(queue[s])
    <2>1. queue[s] \in Seq(AnyCommand)
      BY <1>0 DEF RegistryTypes
    <2>2. CASE <<s, c>> \in fresh
      <3>1. NewCommand(<<s, c>>) \in AnyCommand
        BY <1>3, <1>4, <2>2
      <3>2. queue'[s] = Append(queue[s], NewCommand(<<s, c>>))
        BY <1>1, <2>2
      <3> QED BY <2>1, <2>2, <3>1, <3>2, AppendFacts
    <2>3. CASE <<s, c>> \notin fresh
      BY <1>1, <2>1, <2>3
    <2> QED BY <2>2, <2>3
  <1>6. queue' \in [Sessions -> Seq(AnyCommand)]
    <2>1. queue' = [s \in Sessions |-> queue'[s]]
      BY <1>1
    <2> QED BY <1>5, <2>1
  <1>7. ASSUME NEW o \in Owners
        PROVE  /\ entry'[o] \in Entry
               /\ entry'[o].generation = entry[o].generation
               /\ entry'[o].connected = entry[o].connected
               /\ o \in asked => entry'[o].disconnecting
               /\ o \notin asked => entry'[o] = entry[o]
    <2>1. entry[o] \in Entry
      BY <1>0, EntryFacts
    <2> DEFINE more == [entry[o] EXCEPT !.disconnecting = TRUE]
    <2>2. /\ more \in Entry /\ more.generation = entry[o].generation
          /\ more.connected = entry[o].connected /\ more.disconnecting
      BY <2>1 DEF Entry
    <2>3. entry'[o] = IF o \in asked THEN more ELSE entry[o]
      BY <1>1
    <2> HIDE DEF more
    <2> QED BY <2>1, <2>2, <2>3
  <1>8. entry' \in [Owners -> Entry]
    <2>1. entry' = [o \in Owners |-> entry'[o]]
      BY <1>1
    <2> QED BY <1>7, <2>1
  <1>9. ASSUME NEW o \in Owners
        PROVE  Waiting(o)' = IF o \in fresh THEN {NewCommand(o)} ELSE Waiting(o)
    <2>1. o[1] \in Sessions /\ o = <<o[1], o[2]>>
      BY OwnerFacts
    <2> DEFINE p == <<o[1], c>>
    <2>2. CASE o \in fresh
      <3>1. p = o /\ Waiting(o) = {}
        BY <1>3, <2>2
      <3>2. Range(queue'[o[1]]) = Range(queue[o[1]]) \cup {NewCommand(o)}
        BY <1>5, <2>1, <2>2, <3>1
      <3>3. NewCommand(o).owner = o
        BY <1>3, <1>4, <2>2
      <3> QED BY <2>2, <3>1, <3>2, <3>3 DEF Waiting
    <2>3. CASE o \notin fresh /\ p \in fresh
      <3>1. p # o /\ NewCommand(p).owner = p
        BY <1>3, <1>4, <2>3
      <3>2. Range(queue'[o[1]]) = Range(queue[o[1]]) \cup {NewCommand(p)}
        BY <1>5, <2>1, <2>3
      <3> HIDE DEF p
      <3> QED BY <2>3, <3>1, <3>2 DEF Waiting
    <2>4. CASE o \notin fresh /\ p \notin fresh
      <3>1. Range(queue'[o[1]]) = Range(queue[o[1]])
        BY <1>5, <2>1, <2>4
      <3> QED BY <2>4, <3>1 DEF Waiting
    <2> QED BY <2>2, <2>3, <2>4
  <1>10. Queues'
    <2>1. ASSUME NEW s \in Sessions, NEW cmd \in Range(queue'[s]) PROVE Given(cmd, s)'
      <3>1. CASE cmd \in Range(queue[s])
        <4>1. Given(cmd, s) /\ cmd.id[2] \in Nat
          BY <1>0, <3>1 DEF Queues, Given, AnyCommand
        <4>2. cmd.id[2] <= nextCommand'
          BY <1>2, <4>1 DEF Given
        <4> QED BY <1>1, <4>1, <4>2 DEF Given
      <3>2. CASE cmd \notin Range(queue[s])
        <4> DEFINE p == <<s, c>>
        <4>1. p \in fresh /\ cmd = NewCommand(p) /\ p[1] = s
          BY <1>5, <2>1, <3>2
        <4> HIDE DEF p
        <4>2. /\ cmd \in AnyCommand /\ cmd.owner = p /\ cmd.id[1] = p
              /\ cmd.id[2] = nextCommand' /\ cmd.generation \in 1..nextGeneration
          BY <1>1, <1>3, <1>4, <4>1
        <4> QED BY <1>1, <1>2, <4>1, <4>2 DEF Given
      <3> QED BY <3>1, <3>2
    <2>2. \A o \in Owners : entry'[o].generation <= nextGeneration'
      BY <1>0, <1>1, <1>7 DEF Queues
    <2> QED BY <2>1, <2>2 DEF Queues
  <1>11. Phases'
    <2> SUFFICES ASSUME NEW o \in Owners
                 PROVE  IF entry'[o].disconnecting
                        THEN \E cmd \in Waiting(o)' : /\ Waiting(o)' = {cmd}
                                                      /\ Acquired(o, cmd.generation)'
                        ELSE Waiting(o)' = {}
      BY DEF Phases
    <2>1. IF entry[o].disconnecting
          THEN \E cmd \in Waiting(o) : Waiting(o) = {cmd} /\ Acquired(o, cmd.generation)
          ELSE Waiting(o) = {}
      BY <1>0 DEF Phases
    <2>2. \A g : Acquired(o, g)' <=> Acquired(o, g)
      BY <1>7 DEF Acquired
    <2>3. CASE o \in fresh
      <3>1. PICK x : x = NewCommand(o)
        OBVIOUS
      <3>2. Waiting(o)' = {x} /\ o \in asked
        BY <1>3, <1>9, <2>3, <3>1
      <3>3. x.generation = entry[o].generation /\ entry[o].generation # 0
        BY <1>3, <1>4, <3>1, <3>2
      <3>4. Acquired(o, x.generation)'
        BY <1>7, <3>3 DEF Acquired
      <3>5. entry'[o].disconnecting
        BY <1>7, <3>2
      <3> QED BY <3>2, <3>4, <3>5
    <2>4. CASE o \notin fresh /\ o \in asked
      <3>1. Waiting(o)' = Waiting(o) /\ Waiting(o) # {}
        BY <1>3, <1>9, <2>4
      <3> QED BY <1>7, <2>1, <2>2, <2>4, <3>1
    <2>5. CASE o \notin asked
      <3>1. Waiting(o)' = Waiting(o)
        BY <1>3, <1>9, <2>5
      <3> QED BY <1>7, <2>1, <2>2, <2>5, <3>1
    <2> QED BY <2>3, <2>4, <2>5
  <1>12. new \in Waiter
    <2>1. new.asked \subseteq Owners \X Nat
      <3>1. \A o \in asked : o \in Owners /\ entry[o].generation \in Nat
        BY <1>0, <1>3, EntryFacts
      <3> QED BY <3>1
    <2>2. new.pending \subseteq Owners \X Nat
      <3> SUFFICES ASSUME NEW id \in new.pending PROVE id \in Owners \X Nat
        OBVIOUS
      <3>1. PICK o \in asked : \E cmd \in Of(o) : id = cmd.id
        BY DEF IdsOf
      <3>2. PICK cmd \in Of(o) : id = cmd.id
        BY <3>1
      <3>3. CASE Waiting(o) = {}
        BY <1>3, <1>4, <3>2, <3>3 DEF Of, AnyCommand
      <3>4. CASE Waiting(o) # {}
        <4>1. cmd \in Range(queue[o[1]]) /\ o[1] \in Sessions
          BY <1>3, <3>2, <3>4, OwnerFacts DEF Of, Waiting
        <4>2. Given(cmd, o[1])
          BY <1>0, <4>1 DEF Queues
        <4> QED BY <3>2, <4>2 DEF Given, AnyCommand
      <3> QED BY <3>3, <3>4
    <2> QED BY <2>1, <2>2 DEF Waiter
  <1>13. /\ force' \in [Callers -> Waiter] /\ force'[f] = new
         /\ \A h \in Callers : h # f => force'[h] = force[h]
    <2> HIDE DEF new
    <2> QED BY <1>0, <1>1, <1>12 DEF RegistryTypes
  <1>14. ASSUME NEW o \in asked
         PROVE  \E cmd \in Waiting(o)' : /\ cmd.generation = entry[o].generation
                                        /\ cmd \in Of(o) /\ cmd \in Range(queue'[o[1]])
    <2>1. o \in Owners /\ o[1] \in Sessions
      BY <1>3, OwnerFacts
    <2>2. CASE o \in fresh
      <3>1. PICK x : x = NewCommand(o)
        OBVIOUS
      <3>2. Waiting(o)' = {x} /\ x \in Of(o) /\ x.generation = entry[o].generation
        BY <1>3, <1>4, <1>9, <2>1, <2>2, <3>1 DEF Of
      <3> QED BY <3>2 DEF Waiting
    <2>3. CASE o \notin fresh
      <3>1. Waiting(o)' = Waiting(o) /\ Waiting(o) # {} /\ Of(o) = Waiting(o)
        BY <1>3, <1>9, <2>1, <2>3 DEF Of
      <3>2. PICK cmd \in Waiting(o) : Acquired(o, cmd.generation)
        BY <1>0, <2>1, <3>1 DEF Phases
      <3> QED BY <3>1, <3>2 DEF Acquired, Waiting
    <2> QED BY <2>2, <2>3
  <1>15. ASSUME NEW s \in Sessions PROVE Range(queue[s]) \subseteq Range(queue'[s])
    BY <1>5
  <1>16. ASSUME NEW h \in Callers PROVE WaiterFits(h)'
    <2>1. CASE h # f
      <3>1. force'[h] = force[h] /\ WaiterFits(h)
        BY <1>0, <1>13, <2>1
      <3>2. force'[h].pending \subseteq UNION {IdsOf(Range(queue'[s])) : s \in Sessions}
        <4> SUFFICES ASSUME NEW id \in force[h].pending
                     PROVE  \E s \in Sessions : id \in IdsOf(Range(queue'[s]))
          BY <3>1
        <4>1. PICK s \in Sessions : id \in IdsOf(Range(queue[s]))
          BY <3>1 DEF WaiterFits
        <4> QED BY <1>15, <4>1 DEF IdsOf
      <3>3. ASSUME force[h].step # "idle", ~force[h].failed, NEW ask \in force[h].asked
            PROVE  /\ ask[2] \in 1..nextGeneration'
                   /\ entry'[ask[1]].generation # ask[2] \/ Pends(h, ask[1], ask[2])'
        <4>1. /\ ask[2] \in 1..nextGeneration
              /\ entry[ask[1]].generation # ask[2] \/ Pends(h, ask[1], ask[2])
          BY <3>1, <3>3 DEF WaiterFits
        <4>2. ask[1] \in Owners
          BY <1>0, <3>3 DEF RegistryTypes, Waiter
        <4>3. Waiting(ask[1]) \subseteq Waiting(ask[1])'
          BY <1>3, <1>9, <4>2
        <4>4. CASE Pends(h, ask[1], ask[2])
          <5>1. Pends(h, ask[1], ask[2])'
            BY <3>1, <4>3, <4>4 DEF Pends
          <5> QED BY <1>1, <4>1, <5>1
        <4>5. CASE entry[ask[1]].generation # ask[2]
          BY <1>1, <1>7, <4>1, <4>2, <4>5
        <4> QED BY <4>1, <4>4, <4>5
      <3>4. force[h].step = "done" => force[h].pending = {} /\ ~force[h].failed
        BY <3>1 DEF WaiterFits
      <3> QED BY <3>1, <3>2, <3>3, <3>4 DEF WaiterFits
    <2>2. CASE h = f
      <3>1. force'[h].pending \subseteq UNION {IdsOf(Range(queue'[s])) : s \in Sessions}
        <4> SUFFICES ASSUME NEW id \in new.pending
                     PROVE  \E s \in Sessions : id \in IdsOf(Range(queue'[s]))
          BY <1>13, <2>2
        <4>1. PICK o \in asked : \E cmd \in Of(o) : id = cmd.id
          BY DEF IdsOf
        <4>2. PICK cmd \in Of(o) : id = cmd.id
          BY <4>1
        <4>3. o \in Owners /\ o[1] \in Sessions
          BY <1>3, <4>1, OwnerFacts
        <4>4. cmd \in Waiting(o)'
          BY <1>3, <1>9, <4>2, <4>3 DEF Of
        <4>5. cmd \in Range(queue'[o[1]])
          BY <4>4 DEF Waiting
        <4> QED BY <4>2, <4>3, <4>5 DEF IdsOf
      <3>2. ASSUME NEW ask \in new.asked
            PROVE  /\ ask[2] \in 1..nextGeneration'
                   /\ entry'[ask[1]].generation # ask[2] \/ Pends(h, ask[1], ask[2])'
        <4>1. PICK o \in asked : ask = <<o, entry[o].generation>>
          OBVIOUS
        <4>2. ask[1] = o /\ ask[2] = entry[o].generation
          BY <4>1
        <4>3. PICK cmd \in Waiting(o)' : cmd.generation = entry[o].generation /\ cmd \in Of(o)
          BY <1>14, <4>1
        <4>4. cmd.id \in new.pending
          BY <4>1, <4>3 DEF IdsOf
        <4>5. Pends(h, ask[1], ask[2])'
          <5> HIDE DEF new
          <5> QED BY <1>13, <2>2, <4>2, <4>3, <4>4 DEF Pends
        <4> QED BY <1>1, <1>4, <4>1, <4>2, <4>5
      <3>3. force'[h].step = "waiting" /\ force'[h].asked = new.asked
        BY <1>13, <2>2
      <3> HIDE DEF new
      <3> QED BY <1>13, <2>2, <3>1, <3>2, <3>3 DEF WaiterFits
    <2> QED BY <2>1, <2>2
  <1>17. Waiters'
    BY <1>16 DEF Waiters, WaiterFits
  <1>18. RegistryTypes'
    BY <1>0, <1>1, <1>2, <1>6, <1>8, <1>13 DEF RegistryTypes
  <1>19. Follows({})
    <2>1. ASSUME NEW s \in Sessions
          PROVE  /\ \A cmd \in Range(queue'[s]) : cmd \in Range(queue[s]) \/ cmd.id[2] > nextCommand
                 /\ \A cmd \in Range(queue[s]) \ {} :
                      cmd \in Range(queue'[s]) \/ entry'[cmd.owner].generation # cmd.generation
      <3>1. ASSUME NEW cmd \in Range(queue'[s]), cmd \notin Range(queue[s])
            PROVE  cmd.id[2] > nextCommand
        <4>1. PICK o \in asked : cmd = NewCommand(o)
          BY <1>3, <1>5, <3>1
        <4> QED BY <1>1, <1>2, <1>4, <4>1
      <3> QED BY <1>15, <3>1
    <2>2. nextGeneration <= nextGeneration' /\ nextCommand <= nextCommand'
      BY <1>1, <1>2
    <2>3. \A o \in Owners : entry'[o].generation \in {entry[o].generation, 0}
      BY <1>7
    <2> QED BY <2>1, <2>2, <2>3 DEF Follows
  <1> QED BY <1>1, <1>7, <1>10, <1>11, <1>17, <1>18, <1>19 DEF Registry

-----------------------------------------------------------------------------
(* A call takes a step *)

\* A command a session works on keeps its number; it is not queued anew.
LEMMA CommandFollows ==
  ASSUME Registry, Registry', NEW gone, Follows(gone), NEW s \in Sessions, NEW cmd,
         cmd \notin gone, Given(cmd, s),
         cmd \in Range(queue[s]) \/ entry[cmd.owner].generation # cmd.generation
  PROVE  /\ Given(cmd, s)'
         /\ cmd \in Range(queue'[s]) \/ entry'[cmd.owner].generation # cmd.generation
         /\ cmd \in Range(queue'[s]) => cmd \in Range(queue[s])
  <1>1. /\ nextGeneration \in Nat /\ nextGeneration' \in Nat /\ nextCommand \in Nat /\ nextCommand' \in Nat
        /\ nextGeneration <= nextGeneration' /\ nextCommand <= nextCommand'
    BY DEF Registry, RegistryTypes, Follows
  <1>2. /\ cmd \in AnyCommand /\ cmd.owner \in Owners /\ cmd.id[2] \in Nat /\ cmd.generation \in Nat
        /\ cmd.id[2] <= nextCommand /\ cmd.generation \in 1..nextGeneration
    BY DEF Given, AnyCommand
  <1>3. Given(cmd, s)'
    <2>1. cmd.id[2] <= nextCommand' /\ cmd.generation \in 1..nextGeneration'
      BY <1>1, <1>2
    <2> QED BY <2>1 DEF Given
  <1>4. cmd \in Range(queue'[s]) => cmd \in Range(queue[s])
    BY <1>1, <1>2 DEF Follows
  <1>5. cmd \in Range(queue'[s]) \/ entry'[cmd.owner].generation # cmd.generation
    <2>1. CASE cmd \in Range(queue[s])
      BY <2>1 DEF Follows
    <2>2. CASE entry[cmd.owner].generation # cmd.generation
      BY <1>1, <1>2, <2>2 DEF Follows
    <2> QED BY <2>1, <2>2
  <1> QED BY <1>3, <1>4, <1>5

\* Nobody else is registered on the connection of k, or about to be.
Alone(k) == \A j \in Calls : j # k /\ Owner(j) = Owner(k) => ~Active(j) /\ ~Entering(j)

\* What a step of call k leaves alone.
CallMoves(k) ==
  /\ call[k].step # "idle" /\ SidecarTypes' /\ UNCHANGED <<limits, session, loop>>
  /\ \A j \in Calls : j # k => call'[j] = call[j]
  /\ \A p \in Owners : p # Owner(k) => driver'[p] = driver[p] /\ holder'[p] = holder[p]
  /\ holder'[Owner(k)] # holder[Owner(k)] => holder[Owner(k)] \in {None, k}
  /\ \/ driver'[Owner(k)] \in {driver[Owner(k)], 0}
     \/ At(k, "dial") /\ driver'[Owner(k)] = Generation(k)
  /\ call'[k].owner = Owner(k) \/ (~Active(k)' /\ ~Entering(k)' /\ ~Uses(k)')
  /\ Active(k)' => Active(k) \/ Alone(k)
  /\ Entering(k)' => Entering(k) \/ Alone(k)

LEMMA HoldsEntering ==
  ASSUME NEW k \in Calls, Entering(k) PROVE Holds(k)
  BY DEF Entering, Holds

LEMMA OthersAsBefore ==
  ASSUME NEW k, NEW j, call'[j] = call[j]
  PROVE  /\ Owner(j)' = Owner(j) /\ Generation(j)' = Generation(j)
         /\ Active(j)' <=> Active(j)
         /\ Entering(j)' <=> Entering(j)
         /\ Holds(j)' <=> Holds(j)
         /\ Uses(j)' <=> Uses(j)
         /\ Running(j)' <=> Running(j)
  BY DEF Owner, Generation, Active, Entering, Holds, Uses, Running

LEMMA MovesKeepApart ==
  ASSUME Sidecar, NEW k \in Calls, CallMoves(k)
  PROVE  Apart'
  <1>0. Apart
    BY DEF Sidecar
  <1>1. \A j \in Calls : j # k => call'[j] = call[j]
    BY DEF CallMoves
  <1>2. /\ Active(k)' => Owner(k)' = Owner(k) /\ (Active(k) \/ Alone(k))
        /\ Entering(k)' => Owner(k)' = Owner(k) /\ (Entering(k) \/ Alone(k))
    BY DEF CallMoves, Owner
  <1> SUFFICES ASSUME NEW a \in Calls, NEW b \in Calls, a # b, Active(a)', Owner(a)' = Owner(b)'
               PROVE  ~Active(b)' /\ ~Entering(b)'
    BY DEF Apart
  <1>3. CASE a # k /\ b # k
    <2>1. Active(a) /\ Owner(a) = Owner(b)
      BY <1>1, <1>3, OthersAsBefore
    <2>2. ~Active(b) /\ ~Entering(b)
      BY <1>0, <2>1 DEF Apart
    <2> QED BY <1>1, <1>3, <2>2, OthersAsBefore
  <1>4. CASE a = k
    <2>1. call'[b] = call[b] /\ Owner(b)' = Owner(b) /\ Owner(b) = Owner(k)
      BY <1>1, <1>2, <1>4, OthersAsBefore
    <2>2. ~Active(b) /\ ~Entering(b)
      BY <1>0, <1>2, <1>4, <2>1 DEF Apart, Alone
    <2> QED BY <2>1, <2>2, OthersAsBefore
  <1>5. CASE b = k
    <2>1. Active(a) /\ Owner(a)' = Owner(a)
      BY <1>1, <1>5, OthersAsBefore
    <2>2. ASSUME Active(b)' \/ Entering(b)' PROVE FALSE
      <3>1. Owner(a) = Owner(k)
        BY <1>2, <1>5, <2>1, <2>2
      <3>2. ~Active(k) /\ ~Entering(k)
        BY <1>0, <1>5, <2>1, <3>1 DEF Apart
      <3>3. Alone(k)
        BY <1>2, <1>5, <2>2, <3>2
      <3> QED BY <1>5, <2>1, <3>1, <3>3 DEF Alone
    <2> QED BY <2>2
  <1> QED BY <1>3, <1>4, <1>5

LEMMA MovesKeepOthers ==
  ASSUME Sidecar, NEW k \in Calls, CallMoves(k), NEW j \in Calls, j # k,
         nextGeneration <= nextGeneration', nextGeneration \in Nat, nextGeneration' \in Nat
  PROVE  CallFits(j)'
  <1>1. call'[j] = call[j] /\ session' = session
    BY DEF CallMoves
  <1>2. SUFFICES ASSUME call[j].step # "idle" PROVE CallFits(j)'
    <2>1. CallFits(j)
      BY DEF Sidecar
    <2> QED BY <1>1, <2>1 DEF CallFits
  <1>3. /\ Owner(j)' = Owner(j) /\ Generation(j)' = Generation(j)
        /\ Active(j)' <=> Active(j)
        /\ Holds(j)' <=> Holds(j)
    BY <1>1, OthersAsBefore
  <1>4. CallFits(j) /\ CallFits(k) /\ call[k].step # "idle" /\ Apart /\ SidecarTypes
    BY DEF Sidecar, CallMoves
  <1>5. Owner(j) \in Owners /\ Generation(j) \in Nat /\ Owner(k) \in Owners
    BY <1>2, <1>4 DEF CallFits, SidecarTypes, AnyCall, Generation
  <1>6. Holds(j) => holder'[Owner(j)] = j
    <2>1. SUFFICES ASSUME Holds(j) PROVE holder'[Owner(j)] = j
      OBVIOUS
    <2>2. holder[Owner(j)] = j
      BY <1>2, <1>4, <2>1 DEF CallFits
    <2>3. j # None /\ j # k
      BY ConstantsAssumption
    <2> QED BY <1>5, <2>2, <2>3 DEF CallMoves
  <1>7. (Active(j) \/ Holds(j)) /\ driver[Owner(j)] = 0 => driver'[Owner(j)] = 0
    <2>1. SUFFICES ASSUME Active(j) \/ Holds(j), driver[Owner(j)] = 0, driver'[Owner(j)] # 0 PROVE FALSE
      OBVIOUS
    <2>2. Owner(j) = Owner(k) /\ At(k, "dial")
      BY <1>5, <2>1 DEF CallMoves
    <2>3. Entering(k) /\ Holds(k)
      BY <2>2 DEF Entering, Holds, At
    <2>4. ~Active(j)
      BY <1>4, <2>2, <2>3 DEF Apart
    <2>5. holder[Owner(j)] = j /\ holder[Owner(j)] = k
      BY <1>2, <1>4, <2>1, <2>2, <2>3, <2>4 DEF CallFits
    <2> QED BY <2>5
  <1>8. Generation(j) <= nextGeneration'
    BY <1>2, <1>4, <1>5 DEF CallFits
  <1>9. call[j].op = "test" /\ call[j].step = "acquire" => Holds(j)
    BY DEF Holds
  <1> QED BY <1>1, <1>2, <1>3, <1>4, <1>5, <1>6, <1>7, <1>8, <1>9 DEF CallFits

LEMMA MovesKeepSidecar ==
  ASSUME Registry, Sidecar, NEW k \in Calls, CallMoves(k), CallFits(k)',
         Registry', Follows({}), UNCHANGED closed
  PROVE  Sidecar'
  <1>0. SidecarTypes /\ Drivers /\ CallFits(k) /\ call[k].step # "idle" /\ SidecarTypes'
    BY DEF Sidecar, CallMoves
  <1>1. /\ nextGeneration \in Nat /\ nextGeneration' \in Nat /\ nextGeneration <= nextGeneration'
        /\ session' = session /\ loop' = loop
    BY DEF Registry, RegistryTypes, Follows, CallMoves
  <1>2. Apart'
    BY MovesKeepApart
  <1>3. \A j \in Calls : CallFits(j)'
    BY <1>1, MovesKeepOthers
  <1>4. Drivers'
    <2>1. ASSUME NEW o \in Owners
          PROVE  driver'[o] <= nextGeneration' /\ (session'[o[1]] # "open" => driver'[o] = 0)
      <3>1. /\ driver[o] \in Nat /\ driver[o] <= nextGeneration
            /\ session[o[1]] # "open" => driver[o] = 0
        BY <1>0 DEF Drivers, SidecarTypes
      <3>2. CASE driver'[o] \in {driver[o], 0}
        BY <1>1, <3>1, <3>2
      <3>3. CASE o = Owner(k) /\ driver'[o] = Generation(k)
        <4>1. Generation(k) \in Nat /\ Generation(k) <= nextGeneration /\ session[o[1]] = "open"
          BY <1>0, <3>3 DEF CallFits, SidecarTypes, AnyCall, Generation
        <4> QED BY <1>1, <3>3, <4>1
      <3> QED BY <3>2, <3>3 DEF CallMoves
    <2>2. \A s \in closed' : session'[s] = "ended"
      BY <1>0, <1>1 DEF Drivers
    <2> QED BY <2>1, <2>2 DEF Drivers
  <1>5. ASSUME NEW s \in Sessions PROVE LoopFits(s)'
    <2>1. SUFFICES ASSUME loop[s].step # "poll" PROVE LoopFits(s)'
      BY <1>1 DEF LoopFits
    <2>2. PICK cmd : cmd = loop[s].command
      OBVIOUS
    <2>3. /\ session[s] = "open" /\ Given(cmd, s)
          /\ cmd \in Range(queue[s]) \/ entry[cmd.owner].generation # cmd.generation
          /\ loop[s].step = "handle" => holder[cmd.owner] = Control
      BY <2>1, <2>2 DEF Sidecar, LoopFits
    <2>4. /\ Given(cmd, s)'
          /\ cmd \in Range(queue'[s]) \/ entry'[cmd.owner].generation # cmd.generation
      <3>1. cmd \notin {}
        OBVIOUS
      <3> QED BY <2>3, <3>1, CommandFollows
    <2>5. loop[s].step = "handle" => holder'[cmd.owner] = Control
      <3>1. cmd.owner \in Owners
        BY <2>3 DEF Given, AnyCommand
      <3>2. Control # k /\ Control # None
        BY ConstantsAssumption
      <3> QED BY <2>3, <3>1, <3>2 DEF CallMoves
    <2>6. loop'[s].command = cmd /\ session'[s] = "open"
      BY <1>1, <2>2, <2>3
    <2> QED BY <1>1, <2>4, <2>5, <2>6 DEF LoopFits
  <1> QED BY <1>0, <1>2, <1>3, <1>4, <1>5 DEF Sidecar

\* What a step of call k keeps of the generations of others.
CallKeeps(k) ==
  /\ UNCHANGED serviceClosed
  /\ \A p \in Owners : p # Owner(k) /\ entry[p].generation # 0 =>
       /\ entry'[p].generation = entry[p].generation
       /\ entry[p].connected => entry'[p].connected
  /\ \A j \in Calls : j # k /\ Owner(j) = Owner(k) /\ Uses(j)
                        => entry'[Owner(k)].generation = entry[Owner(k)].generation
  /\ Uses(k)' => \/ Uses(k)
                 \/ /\ holder[Owner(k)] \in {None, k}
                    /\ driver[Owner(k)] # 0 \/ Waiting(Owner(k)) = {}

LEMMA MovesKeepTruth ==
  ASSUME Registry, Sidecar, Truth, NEW k \in Calls, CallMoves(k), CallKeeps(k), CallFits(k)',
         Registry', Follows({}), NEW o, o = Owner(k), Faultless => UseFits(k)' /\ Shown(o)'
  PROVE  Truth'
  <1>1. /\ \A j \in Calls : j # k => call'[j] = call[j]
        /\ limits' = limits /\ loop' = loop /\ serviceClosed' = serviceClosed
        /\ call[k].step # "idle" /\ SidecarTypes'
    BY DEF CallMoves, CallKeeps
  <1> SUFFICES ASSUME Faultless
               PROVE  /\ \A j \in Calls : UseFits(j)'
                      /\ \A p \in Owners : Shown(p)'
                      /\ \A s \in Sessions : ReportFits(s)'
    BY <1>1 DEF Truth, Faultless
  <1>2. /\ \A j \in Calls : UseFits(j) /\ CallFits(j)
        /\ \A p \in Owners : Shown(p)
        /\ \A s \in Sessions : ReportFits(s)
        /\ UseFits(k)' /\ Shown(o)' /\ SidecarTypes /\ Apart
    BY DEF Truth, Sidecar
  <1>3. o \in Owners
    BY <1>1, <1>2 DEF CallFits
  \* While k is dialing it is the one that holds the connection.
  <1>4. ASSUME driver'[o] \notin {driver[o], 0} PROVE Uses(k) /\ holder[o] = k
    <2>1. At(k, "dial")
      BY <1>4 DEF CallMoves
    <2>2. Uses(k) /\ Holds(k)
      BY <2>1 DEF Uses, Holds, At
    <2> QED BY <1>1, <1>2, <2>2 DEF CallFits
  <1>5. ASSUME Uses(k)' PROVE Owner(k)' = o
    BY <1>5 DEF CallMoves, Owner
  <1>6. ASSUME NEW j \in Calls, j # k PROVE UseFits(j)'
    <2>1. /\ call'[j] = call[j] /\ Owner(j)' = Owner(j) /\ Generation(j)' = Generation(j)
          /\ Uses(j)' <=> Uses(j)
          /\ Holds(j)' <=> Holds(j)
      BY <1>1, <1>6, OthersAsBefore
    <2>2. UseFits(j) /\ CallFits(j)
      BY <1>2
    <2>3. ASSUME Uses(j) PROVE entry'[Owner(j)].generation = Generation(j)
      <3>1. /\ call[j].step # "idle" /\ entry[Owner(j)].generation = Generation(j)
            /\ call[j].step \notin {"lock", "acquire", "stop"}
        BY <2>2, <2>3 DEF UseFits, Uses
      <3>2. Owner(j) \in Owners /\ Generation(j) # 0
        BY <2>2, <3>1 DEF CallFits
      <3> QED BY <1>6, <2>3, <3>1, <3>2 DEF CallKeeps
    <2>4. ASSUME call[j].step \notin {"idle", "lock"}, Holds(j), driver[Owner(j)] = 0
          PROVE  driver'[Owner(j)] = 0
      <3>1. Owner(j) \in Owners /\ holder[Owner(j)] = j
        BY <2>2, <2>4 DEF CallFits
      <3>2. CASE Owner(j) # o
        BY <2>4, <3>1, <3>2 DEF CallMoves
      <3>3. CASE Owner(j) = o
        BY <1>4, <1>6, <2>4, <3>1, <3>3
      <3> QED BY <3>2, <3>3
    <2>5. ASSUME call[j].step = "tell", NEW i \in Calls, Owner(i)' = Owner(j)
          PROVE  ~Running(i)'
      <3>1. Holds(j) /\ holder[Owner(j)] = j
        BY <2>2, <2>5 DEF Holds, CallFits
      <3>2. CASE i # k
        <4>1. Owner(i)' = Owner(i) /\ (Running(i)' <=> Running(i))
          BY <1>1, <3>2, OthersAsBefore
        <4> QED BY <2>2, <2>5, <4>1 DEF UseFits
      <3>3. CASE i = k
        <4>1. SUFFICES ASSUME Running(k)' PROVE FALSE
          BY <3>3
        <4>2. Uses(k)' /\ Owner(k) = Owner(j)
          BY <1>5, <2>5, <3>3, <4>1 DEF Running, Uses
        <4>3. Uses(k)
          <5>1. j # None
            BY ConstantsAssumption
          <5> QED BY <1>6, <3>1, <4>2, <5>1 DEF CallKeeps
        <4>4. ~Running(k)
          BY <2>2, <2>5, <4>2 DEF UseFits
        <4>5. Holds(k)
          BY <4>3, <4>4, <1>1, <1>2 DEF Uses, Running, Holds, CallFits, StepsOf
        <4>6. holder[Owner(k)] = k
          BY <1>1, <1>2, <4>5 DEF CallFits
        <4> QED BY <1>6, <3>1, <4>2, <4>6
      <3> QED BY <3>2, <3>3
    <2>6. call[j].op = "connect" /\ call[j].step = "release" => Holds(j)
      BY DEF Holds
    <2>7. call[j].step = "tell" => Holds(j)
      BY DEF Holds
    <2>8. call'[j].step \notin {"cleanLock", "clean"}
      BY <2>1, <2>2 DEF UseFits
    <2>9. Uses(j)' => entry'[Owner(j)'].generation = Generation(j)'
      BY <2>1, <2>3
    <2>10. call'[j].op = "connect" /\ call'[j].step = "release" => driver'[Owner(j)'] = 0
      BY <2>1, <2>2, <2>4, <2>6 DEF UseFits
    <2>11. call'[j].step = "tell" => driver'[Owner(j)'] = 0
      BY <2>1, <2>2, <2>4, <2>7 DEF UseFits
    <2>12. call'[j].step = "tell" => \A i \in Calls : Owner(i)' = Owner(j)' => ~Running(i)'
      BY <2>1, <2>5
    <2> QED BY <2>8, <2>9, <2>10, <2>11, <2>12 DEF UseFits
  <1>7. ASSUME NEW p \in Owners PROVE Shown(p)'
    <2>1. CASE p = o
      BY <1>2, <2>1
    <2>2. CASE p # o
      <3>1. driver'[p] = driver[p]
        BY <2>2 DEF CallMoves
      <3>2. SUFFICES ASSUME driver[p] # 0 PROVE Shown(p)'
        BY <3>1 DEF Shown
      <3>3. /\ entry[p].generation = driver[p]
            /\ entry[p].connected \/ \E i \in Calls : Owner(i) = p /\ call[i].step \in {"commit", "rollback"}
        BY <1>2, <3>2 DEF Shown
      <3>4. /\ entry'[p].generation = entry[p].generation
            /\ entry[p].connected => entry'[p].connected
        BY <2>2, <3>2, <3>3 DEF CallKeeps
      <3>5. CASE entry[p].connected
        BY <3>1, <3>3, <3>4, <3>5 DEF Shown
      <3>6. CASE ~entry[p].connected
        <4>1. PICK i \in Calls : Owner(i) = p /\ call[i].step \in {"commit", "rollback"}
          BY <3>3, <3>6
        <4>2. i # k
          BY <2>2, <4>1
        <4>3. call'[i] = call[i] /\ Owner(i)' = p
          BY <1>1, <4>1, <4>2, OthersAsBefore
        <4> QED BY <3>1, <3>3, <3>4, <4>1, <4>3 DEF Shown
      <3> QED BY <3>5, <3>6
    <2> QED BY <2>1, <2>2
  <1>8. ASSUME NEW s \in Sessions PROVE ReportFits(s)'
    <2>1. PICK cmd : cmd = loop[s].command
      OBVIOUS
    <2>2. loop'[s].step = loop[s].step /\ loop'[s].command = cmd
      BY <1>1, <2>1
    <2> SUFFICES ASSUME loop[s].step = "report", cmd \in Range(queue'[s])
                 PROVE  /\ driver'[cmd.owner] = 0
                        /\ \A j \in Calls : Owner(j)' = cmd.owner => ~Uses(j)'
      BY <2>2 DEF ReportFits
    <2>3. Given(cmd, s) /\ (cmd \in Range(queue[s]) \/ entry[cmd.owner].generation # cmd.generation)
      BY <2>1 DEF Sidecar, LoopFits
    <2>4. cmd \in Range(queue[s])
      <3>1. cmd \notin {}
        OBVIOUS
      <3> QED BY <2>3, <3>1, CommandFollows
    <2>5. driver[cmd.owner] = 0 /\ \A j \in Calls : Owner(j) = cmd.owner => ~Uses(j)
      BY <1>2, <2>1, <2>4 DEF ReportFits
    <2>6. cmd.owner \in Owners /\ cmd \in Waiting(cmd.owner)
      BY <2>3, <2>4 DEF Given, AnyCommand, Waiting
    <2>7. driver'[cmd.owner] = 0
      <3>1. CASE cmd.owner # o
        BY <2>5, <2>6, <3>1 DEF CallMoves
      <3>2. CASE cmd.owner = o
        BY <1>4, <2>5, <3>2
      <3> QED BY <3>1, <3>2
    <2>8. ASSUME NEW j \in Calls, Owner(j)' = cmd.owner, Uses(j)' PROVE FALSE
      <3>1. CASE j # k
        <4>1. Owner(j)' = Owner(j) /\ (Uses(j)' <=> Uses(j))
          BY <1>1, <3>1, OthersAsBefore
        <4> QED BY <2>5, <2>8, <4>1
      <3>2. CASE j = k
        <4>1. cmd.owner = o
          BY <1>5, <2>8, <3>2
        <4>2. ~Uses(k)
          BY <2>5, <4>1
        <4> QED BY <2>5, <2>6, <2>8, <3>2, <4>1, <4>2 DEF CallKeeps
      <3> QED BY <3>1, <3>2
    <2> QED BY <2>7, <2>8
  <1> QED BY <1>2, <1>6, <1>7, <1>8

\* Call k goes to a step, with a generation that is its own or is not.
Becomes(k, step, g, own) ==
  /\ call' \in [Calls -> AnyCall] /\ \A j \in Calls : j # k => call'[j] = call[j]
  /\ call'[k].step = step /\ call'[k].op = call[k].op /\ call'[k].owner = call[k].owner
  /\ call'[k].generation = g /\ call'[k].own = own
Ends(k) ==
  /\ call' \in [Calls -> AnyCall] /\ \A j \in Calls : j # k => call'[j] = call[j]
  /\ call'[k].step = "idle" /\ call'[k].op = "none" /\ ~call'[k].own

AllSteps == {"idle", "lock", "acquire", "dial", "commit", "rollback", "release",
             "prepare", "run", "stop", "tell", "cleanLock", "clean"}

LEMMA CallTypes ==
  ASSUME SidecarTypes, NEW k \in Calls
  PROVE  /\ call \in [Calls -> AnyCall] /\ call[k] \in AnyCall /\ call[k].generation \in Nat
         /\ call[k].own \in BOOLEAN /\ call[k].step \in AllSteps /\ Generation(k) = call[k].generation
         /\ call[k].op \in {"none", "connect", "test", "disconnect"}
         /\ Owner(k) = call[k].owner
  BY DEF SidecarTypes, AnyCall, AllSteps, Generation, Owner

LEMMA CallSet ==
  ASSUME SidecarTypes, NEW k \in Calls, NEW c \in AnyCall, call' = [call EXCEPT ![k] = c]
  PROVE  /\ call' \in [Calls -> AnyCall] /\ call'[k] = c
         /\ \A j \in Calls : j # k => call'[j] = call[j]
  BY DEF SidecarTypes

LEMMA GoToBecomes ==
  ASSUME SidecarTypes, NEW k \in Calls, NEW step \in AllSteps, GoTo(k, step)
  PROVE  Becomes(k, step, Generation(k), call[k].own)
  <1> DEFINE c == [call[k] EXCEPT !.step = step]
  <1>1. /\ c \in AnyCall /\ c.step = step /\ c.op = call[k].op /\ c.owner = call[k].owner
        /\ c.generation = call[k].generation /\ c.own = call[k].own
    BY CallTypes DEF AnyCall, AllSteps
  <1>2. call' = [call EXCEPT ![k] = c]
    BY DEF GoTo
  <1> HIDE DEF c
  <1> QED BY <1>1, <1>2, CallSet, CallTypes DEF Becomes

LEMMA EndEnds ==
  ASSUME SidecarTypes, NEW k \in Calls, End(k)
  PROVE  Ends(k)
  <1>1. IdleCall \in AnyCall /\ IdleCall.step = "idle" /\ IdleCall.op = "none" /\ ~IdleCall.own
    BY DEF IdleCall, AnyCall
  <1>2. call' = [call EXCEPT ![k] = IdleCall]
    BY DEF End
  <1> QED BY <1>1, <1>2, CallSet DEF Ends

\* A call takes a step and a generation at once.
LEMMA GetBecomes ==
  ASSUME SidecarTypes, NEW k \in Calls, NEW step \in AllSteps, NEW g \in Nat, NEW own \in BOOLEAN,
         \/ call' = [call EXCEPT ![k].step = step, ![k].generation = g, ![k].own = own]
         \/ call' = [call EXCEPT ![k].step = step, ![k].generation = g] /\ own = call[k].own
  PROVE  Becomes(k, step, g, own)
  <1> DEFINE c1 == [call[k] EXCEPT !.step = step]
             c2 == [c1 EXCEPT !.generation = g]
             c3 == [c2 EXCEPT !.own = own]
  <1>1. /\ c1 \in AnyCall /\ c1.step = step /\ c1.op = call[k].op /\ c1.owner = call[k].owner
        /\ c1.own = call[k].own
    BY CallTypes DEF AnyCall, AllSteps
  <1>2. call \in [Calls -> AnyCall]
    BY CallTypes
  <1>3. CASE call' = [call EXCEPT ![k].step = step, ![k].generation = g, ![k].own = own]
    <2>1. call' = [call EXCEPT ![k] = c3]
      BY <1>2, <1>3
    <2> HIDE DEF c1
    <2>2. /\ c2 \in AnyCall /\ c2.step = step /\ c2.op = call[k].op /\ c2.owner = call[k].owner
          /\ c2.generation = g
      BY <1>1 DEF AnyCall
    <2> HIDE DEF c2
    <2>3. /\ c3 \in AnyCall /\ c3.step = step /\ c3.op = call[k].op /\ c3.owner = call[k].owner
          /\ c3.generation = g /\ c3.own = own
      BY <2>2 DEF AnyCall
    <2> HIDE DEF c3
    <2> QED BY <2>1, <2>3, CallSet DEF Becomes
  <1>4. CASE call' = [call EXCEPT ![k].step = step, ![k].generation = g] /\ own = call[k].own
    <2>1. call' = [call EXCEPT ![k] = c2]
      BY <1>2, <1>4
    <2> HIDE DEF c1
    <2>2. /\ c2 \in AnyCall /\ c2.step = step /\ c2.op = call[k].op /\ c2.owner = call[k].owner
          /\ c2.generation = g /\ c2.own = call[k].own
      BY <1>1 DEF AnyCall
    <2> HIDE DEF c2
    <2> QED BY <1>4, <2>1, <2>2, CallSet DEF Becomes
  <1> QED BY <1>3, <1>4

HolderMoves(k) ==
  /\ holder' \in [Owners -> Calls \cup {None, Control}]
  /\ \A p \in Owners : p # Owner(k) => holder'[p] = holder[p]
  /\ holder'[Owner(k)] # holder[Owner(k)] => holder[Owner(k)] \in {None, k}
DriverMoves(k) ==
  /\ driver' \in [Owners -> Nat]
  /\ \A p \in Owners : p # Owner(k) => driver'[p] = driver[p]
  /\ \/ driver'[Owner(k)] \in {driver[Owner(k)], 0}
     \/ At(k, "dial") /\ driver'[Owner(k)] = Generation(k)

LEMMA HolderStays ==
  ASSUME SidecarTypes, NEW k, UNCHANGED holder
  PROVE  HolderMoves(k)
  BY DEF SidecarTypes, HolderMoves

LEMMA DriverStays ==
  ASSUME SidecarTypes, NEW k, UNCHANGED driver
  PROVE  DriverMoves(k)
  BY DEF SidecarTypes, DriverMoves

LEMMA LockMoves ==
  ASSUME SidecarTypes, NEW k \in Calls, NEW o \in Owners, o = Owner(k), Lock(o, k)
  PROVE  HolderMoves(k) /\ holder[o] = None /\ holder'[o] = k
  BY DEF SidecarTypes, HolderMoves, Lock

LEMMA UnlockMoves ==
  ASSUME SidecarTypes, NEW k \in Calls, NEW o \in Owners, o = Owner(k), Unlock(o), holder[o] = k
  PROVE  HolderMoves(k)
  BY DEF SidecarTypes, HolderMoves, Unlock

LEMMA UnlockCallMoves ==
  ASSUME SidecarTypes, NEW k \in Calls, NEW o \in Owners, o = Owner(k), UnlockCall(k)
  PROVE  HolderMoves(k)
  BY HolderStays, UnlockMoves DEF UnlockCall

LEMMA CloseDriverMoves ==
  ASSUME SidecarTypes, NEW k \in Calls, NEW o \in Owners, o = Owner(k),
         driver' = [driver EXCEPT ![o] = 0]
  PROVE  DriverMoves(k) /\ driver'[o] = 0
  BY DEF SidecarTypes, DriverMoves

\* The registry does not change.
LEMMA QuietKeeps ==
  ASSUME NEW k, UNCHANGED registryVars,
         Uses(k)' => \/ Uses(k)
                     \/ /\ holder[Owner(k)] \in {None, k}
                        /\ driver[Owner(k)] # 0 \/ Waiting(Owner(k)) = {}
  PROVE  CallKeeps(k)
  BY DEF registryVars, CallKeeps

\* A call ends, with the connection as it is or closed.
LEMMA EndingKeepsInv ==
  ASSUME Inv, NEW k \in Calls, NEW o \in Owners, o = Owner(k), call[k].step # "idle", Ends(k),
         UNCHANGED <<limits, session, loop>>, HolderMoves(k), DriverMoves(k),
         Registry', Follows({}), UNCHANGED <<closed, serviceClosed>>,
         \A p \in Owners : p # o /\ entry[p].generation # 0 =>
           /\ entry'[p].generation = entry[p].generation
           /\ entry[p].connected => entry'[p].connected,
         Faultless => \A j \in Calls : j # k /\ Owner(j) = o /\ Uses(j)
                                         => entry'[o].generation = entry[o].generation,
         Faultless => Shown(o)'
  PROVE  Inv'
  <1>1. Registry /\ Sidecar /\ Truth /\ SidecarTypes
    BY DEF Inv, Sidecar
  <1>2. ~Active(k)' /\ ~Entering(k)' /\ ~Uses(k)' /\ CallFits(k)'
    BY DEF Ends, Active, Entering, Uses, CallFits
  <1>3. SidecarTypes'
    BY <1>1 DEF SidecarTypes, Ends, HolderMoves, DriverMoves
  <1>4. CallMoves(k)
    BY <1>2, <1>3 DEF CallMoves, Ends, HolderMoves, DriverMoves
  <1>5. Sidecar'
    BY <1>1, <1>2, <1>4, MovesKeepSidecar
  <1>6. Truth'
    <2>1. SUFFICES ASSUME Faultless PROVE Truth'
      <3>1. Faultless' => Faultless
        BY DEF Faultless
      <3> QED BY <3>1 DEF Truth
    <2>2. UseFits(k)'
      BY DEF Ends, UseFits, Uses
    <2>3. CallKeeps(k)
      BY <1>2, <2>1 DEF CallKeeps
    <2> QED BY <1>1, <1>2, <1>4, <2>1, <2>2, <2>3, MovesKeepTruth
  <1> QED BY <1>5, <1>6 DEF Inv

\* A call goes on, with the connection as it is, or closed, or its own.
LEMMA GoingKeepsInv ==
  ASSUME Inv, NEW k \in Calls, NEW o \in Owners, o = Owner(k), call[k].step # "idle",
         NEW step \in AllSteps, NEW g \in Nat, NEW own \in BOOLEAN, Becomes(k, step, g, own),
         UNCHANGED <<limits, session, loop>>, HolderMoves(k), DriverMoves(k),
         Registry', Follows({}), UNCHANGED closed, CallFits(k)',
         Active(k)' => Active(k) \/ Alone(k), Entering(k)' => Entering(k) \/ Alone(k),
         Faultless => CallKeeps(k) /\ UseFits(k)' /\ Shown(o)',
         Faultless' => Faultless
  PROVE  Inv'
  <1>1. Registry /\ Sidecar /\ Truth /\ SidecarTypes
    BY DEF Inv, Sidecar
  <1>2. SidecarTypes'
    BY <1>1 DEF SidecarTypes, Becomes, HolderMoves, DriverMoves
  <1>3. CallMoves(k)
    BY <1>2 DEF CallMoves, Becomes, HolderMoves, DriverMoves, Owner
  <1>4. Sidecar'
    BY <1>1, <1>3, MovesKeepSidecar
  <1>5. Truth'
    <2>1. SUFFICES ASSUME Faultless PROVE Truth'
      BY DEF Truth
    <2> QED BY <1>1, <1>3, <2>1, MovesKeepTruth
  <1> QED BY <1>4, <1>5 DEF Inv

LEMMA StepFacts ==
  ASSUME Inv, NEW k \in Calls, call[k].step # "idle"
  PROVE  /\ Registry /\ Sidecar /\ Truth /\ SidecarTypes /\ CallFits(k)
         /\ Owner(k) \in Owners /\ Generation(k) \in Nat /\ call[k].own \in BOOLEAN
         /\ nextGeneration \in Nat /\ RegistryTypes
         /\ Faultless => UseFits(k) /\ Shown(Owner(k))
         /\ Holds(k) => holder[Owner(k)] = k
  <1>1. Registry /\ Sidecar /\ Truth /\ SidecarTypes /\ CallFits(k) /\ RegistryTypes
    BY DEF Inv, Sidecar, Registry
  <1>2. Owner(k) \in Owners
    BY <1>1 DEF CallFits
  <1> QED BY <1>1, <1>2, CallTypes DEF Truth, RegistryTypes, CallFits

\* The owner of a connection that stays as it is stays shown.
LEMMA ShownStays ==
  ASSUME NEW k \in Calls, NEW o \in Owners, Shown(o), driver'[o] = driver[o],
         entry'[o].generation = entry[o].generation,
         entry[o].connected => entry'[o].connected,
         \A j \in Calls : j # k => call'[j] = call[j],
         \/ call[k].step \notin {"commit", "rollback"}
         \/ Owner(k)' = o /\ call'[k].step \in {"commit", "rollback"}
  PROVE  Shown(o)'
  <1>1. SUFFICES ASSUME driver[o] # 0 PROVE Shown(o)'
    BY DEF Shown
  <1>2. entry[o].generation = driver[o]
    BY <1>1 DEF Shown
  <1>3. CASE entry[o].connected
    BY <1>2, <1>3 DEF Shown
  <1>4. CASE ~entry[o].connected
    <2>1. PICK i \in Calls : Owner(i) = o /\ call[i].step \in {"commit", "rollback"}
      BY <1>1, <1>4 DEF Shown
    <2>2. CASE i # k
      <3>1. call'[i] = call[i] /\ Owner(i)' = o
        BY <2>1, <2>2, OthersAsBefore
      <3> QED BY <1>2, <2>1, <3>1 DEF Shown
    <2>3. CASE i = k
      BY <1>2, <2>1, <2>3 DEF Shown
    <2> QED BY <2>2, <2>3
  <1> QED BY <1>3, <1>4

LEMMA QuietEntries ==
  ASSUME UNCHANGED registryVars
  PROVE  entry' = entry /\ UNCHANGED <<closed, serviceClosed>>
  BY DEF registryVars

\* A call ends and nothing else changes, except for locks of its own.
LEMMA QuietEnding ==
  ASSUME Inv, NEW k \in Calls, call[k].step \notin {"idle", "commit", "rollback"}, End(k),
         UNCHANGED <<registryVars, limits, session, driver, loop>>, HolderMoves(k)
  PROVE  Inv'
  <1> DEFINE o == Owner(k)
  <1>1. Registry /\ SidecarTypes /\ o \in Owners /\ (Faultless => Shown(o))
    BY StepFacts
  <1>2. PICK p \in Owners : p = o
    BY <1>1
  <1>3. Ends(k) /\ DriverMoves(k) /\ Registry' /\ Follows({})
    BY <1>1, EndEnds, DriverStays, UnchangedFollows
  <1>4. entry' = entry /\ UNCHANGED <<closed, serviceClosed>> /\ driver' = driver
    BY QuietEntries
  <1>5. Faultless => Shown(p)'
    BY <1>1, <1>2, <1>3, <1>4, ShownStays DEF Ends
  <1> QED BY <1>2, <1>3, <1>4, <1>5, EndingKeepsInv

LEMMA RefusedKeeps ==
  ASSUME Inv, NEW k \in Calls, Refused(k)
  PROVE  Inv'
  <1>1. SidecarTypes
    BY DEF Inv, Sidecar
  <1>2. /\ call[k].step = "lock" /\ End(k)
        /\ UNCHANGED <<registryVars, limits, session, driver, holder, loop>>
    BY DEF Refused, At
  <1>3. HolderMoves(k)
    BY <1>1, <1>2, HolderStays
  <1> QED BY <1>2, <1>3, QuietEnding

\* With the lock free and no test registered nobody else is on the connection.
LEMMA FreeIsAlone ==
  ASSUME Inv, NEW k \in Calls, holder[Owner(k)] = None, ActiveTests(Owner(k)) = {}
  PROVE  Alone(k)
  <1> SUFFICES ASSUME NEW j \in Calls, Owner(j) = Owner(k) PROVE ~Active(j) /\ ~Entering(j)
    BY DEF Alone
  <1>1. ~Active(j)
    BY DEF Active, ActiveTests
  <1>2. ASSUME Entering(j) PROVE FALSE
    <2>1. Holds(j) /\ call[j].step # "idle"
      BY <1>2 DEF Entering, Holds
    <2>2. holder[Owner(j)] = j
      BY <2>1, StepFacts
    <2> QED BY <2>2, ConstantsAssumption
  <1> QED BY <1>1, <1>2

\* Who enters alone has no other beside it.
LEMMA HolderIsAlone ==
  ASSUME Inv, NEW k \in Calls, Entering(k)
  PROVE  Alone(k)
  <1> SUFFICES ASSUME NEW j \in Calls, j # k, Owner(j) = Owner(k) PROVE ~Active(j) /\ ~Entering(j)
    BY DEF Alone
  <1>1. ~Active(j)
    BY DEF Inv, Sidecar, Apart
  <1>2. ASSUME Entering(j) PROVE FALSE
    <2>1. Holds(j) /\ call[j].step # "idle" /\ Holds(k) /\ call[k].step # "idle"
      BY <1>2 DEF Entering, Holds
    <2>2. holder[Owner(j)] = j /\ holder[Owner(k)] = k
      BY <2>1, StepFacts
    <2> QED BY <2>2
  <1> QED BY <1>1, <1>2

\* Who enters, enters a connection nobody else uses.
LEMMA EnterConnectKeeps ==
  ASSUME Inv, NEW k \in Calls, EnterConnect(k)
  PROVE  Inv'
  <1>1. PICK o : o = Owner(k)
    OBVIOUS
  <1>2. /\ call[k].step = "lock" /\ call[k].op = "connect" /\ ActiveTests(o) = {} /\ Lock(o, k)
        /\ GoTo(k, "acquire") /\ UNCHANGED <<registryVars, limits, session, driver, loop>>
    BY <1>1 DEF EnterConnect, At
  <1>3. /\ Registry /\ SidecarTypes /\ CallFits(k) /\ o \in Owners /\ Generation(k) \in Nat
        /\ call[k].own \in BOOLEAN /\ (Faultless => Shown(o)) /\ nextGeneration \in Nat
    BY <1>1, <1>2, StepFacts
  <1>4. "acquire" \in AllSteps
    BY DEF AllSteps
  <1>5. Becomes(k, "acquire", Generation(k), call[k].own)
    BY <1>2, <1>3, <1>4, GoToBecomes
  <1>6. HolderMoves(k) /\ holder[o] = None /\ holder'[o] = k /\ DriverMoves(k)
    BY <1>1, <1>2, <1>3, LockMoves, DriverStays
  <1>7. Registry' /\ Follows({}) /\ entry' = entry /\ UNCHANGED <<closed, serviceClosed>>
    BY <1>2, <1>3, UnchangedFollows, QuietEntries
  <1>8. CallFits(k)'
    <2>1. ~call[k].own
      BY <1>2, <1>3 DEF CallFits, Active
    <2>2. Generation(k) <= nextGeneration'
      BY <1>2, <1>3 DEF CallFits, registryVars
    <2> QED BY <1>1, <1>2, <1>3, <1>5, <1>6, <2>1, <2>2
            DEF CallFits, Becomes, StepsOf, Active, Holds, Owner, Generation
  <1>9. ~Active(k)' /\ ~Uses(k)'
    BY <1>5 DEF Becomes, Active, Uses
  <1>10. Alone(k)
    BY <1>1, <1>2, <1>6, FreeIsAlone
  <1>11. CallKeeps(k)
    BY <1>2, <1>9, QuietKeeps
  <1>12. Faultless => UseFits(k)' /\ Shown(o)'
    <2>1. UseFits(k)'
      BY <1>5, <1>9 DEF Becomes, UseFits
    <2>2. Faultless => Shown(o)'
      BY <1>2, <1>3, <1>5, <1>7, ShownStays DEF Becomes
    <2> QED BY <2>1, <2>2
  <1>13. Faultless' => Faultless
    BY <1>2, <1>7 DEF Faultless
  <1> QED BY <1>1, <1>2, <1>3, <1>4, <1>5, <1>6, <1>7, <1>8, <1>9, <1>10, <1>11, <1>12, <1>13, GoingKeepsInv

\* A call goes on while the registry stays as it is.
LEMMA QuietGoing ==
  ASSUME Inv, NEW k \in Calls, NEW o \in Owners, o = Owner(k), call[k].step # "idle",
         NEW step \in AllSteps, NEW g \in Nat, NEW own \in BOOLEAN, Becomes(k, step, g, own),
         UNCHANGED <<registryVars, limits, session, loop>>, HolderMoves(k), DriverMoves(k),
         CallFits(k)',
         Active(k)' => Active(k) \/ Alone(k), Entering(k)' => Entering(k) \/ Alone(k),
         Uses(k)' => Uses(k) \/ (holder[o] \in {None, k} /\ driver[o] # 0),
         Faultless => UseFits(k)' /\ Shown(o)'
  PROVE  Inv'
  <1>1. Registry' /\ Follows({}) /\ UNCHANGED <<closed, serviceClosed>>
    BY UnchangedFollows, QuietEntries DEF Inv
  <1>2. CallKeeps(k)
    BY QuietKeeps
  <1>3. Faultless' => Faultless
    BY <1>1 DEF Faultless
  <1> QED BY <1>1, <1>2, <1>3, GoingKeepsInv

LEMMA EnterTestKeeps ==
  ASSUME Inv, NEW k \in Calls, EnterTest(k)
  PROVE  Inv'
  <1>1. PICK o : o = Owner(k)
    OBVIOUS
  <1>2. /\ call[k].step = "lock" /\ call[k].op = "test" /\ ActiveTests(o) = {} /\ Lock(o, k)
        /\ UNCHANGED <<registryVars, limits, session, driver, loop>>
    BY <1>1 DEF EnterTest, At
  <1>3. /\ Registry /\ Sidecar /\ SidecarTypes /\ CallFits(k) /\ o \in Owners /\ Generation(k) \in Nat
        /\ call[k].own \in BOOLEAN /\ (Faultless => Shown(o)) /\ nextGeneration \in Nat
    BY <1>1, <1>2, StepFacts
  <1>4. HolderMoves(k) /\ holder[o] = None /\ holder'[o] = k /\ DriverMoves(k) /\ driver' = driver
    BY <1>1, <1>2, <1>3, LockMoves, DriverStays
  <1>5. nextGeneration' = nextGeneration /\ entry' = entry /\ session' = session
    BY <1>2, QuietEntries DEF registryVars
  <1>6. Alone(k)
    BY <1>1, <1>2, <1>4, FreeIsAlone
  <1>7. ~call[k].own
    BY <1>2, <1>3 DEF CallFits, Active
  <1>8. driver[o] \in Nat /\ driver[o] <= nextGeneration
    BY <1>3 DEF Sidecar, SidecarTypes, Drivers
  <1>9. CASE driver[o] = 0
    <2>1. GoTo(k, "acquire") /\ "acquire" \in AllSteps
      BY <1>1, <1>9 DEF EnterTest, AllSteps
    <2>2. Becomes(k, "acquire", Generation(k), call[k].own)
      BY <1>3, <2>1, GoToBecomes
    <2>3. CallFits(k)'
      BY <1>1, <1>2, <1>3, <1>4, <1>5, <1>7, <1>9, <2>2
         DEF CallFits, Becomes, StepsOf, Active, Holds, Owner, Generation
    <2>4. ~Active(k)' /\ ~Uses(k)'
      BY <2>2 DEF Becomes, Active, Uses
    <2>5. Faultless => UseFits(k)' /\ Shown(o)'
      <3>1. UseFits(k)'
        BY <2>2, <2>4 DEF Becomes, UseFits
      <3>2. Faultless => Shown(o)'
        BY <1>2, <1>3, <1>4, <1>5, <2>2, ShownStays DEF Becomes
      <3> QED BY <3>1, <3>2
    <2> QED BY <1>1, <1>2, <1>3, <1>4, <1>6, <2>1, <2>2, <2>3, <2>4, <2>5, QuietGoing
  <1>10. CASE driver[o] # 0
    <2>1. call' = [call EXCEPT ![k].step = "prepare", ![k].generation = driver[o]] /\ "prepare" \in AllSteps
      BY <1>1, <1>10 DEF EnterTest, AllSteps
    <2>2. Becomes(k, "prepare", driver[o], call[k].own)
      BY <1>3, <1>8, <2>1, GetBecomes
    <2>3. CallFits(k)'
      BY <1>1, <1>2, <1>3, <1>4, <1>5, <1>7, <1>8, <1>10, <2>2
         DEF CallFits, Becomes, StepsOf, Active, Holds, Owner, Generation
    <2>4. ~Entering(k)' /\ Owner(k)' = o /\ Generation(k)' = driver[o]
      BY <1>1, <1>2, <2>2 DEF Becomes, Entering, Owner, Generation
    <2>5. Faultless => UseFits(k)' /\ Shown(o)'
      <3>1. Faultless => entry'[o].generation = driver[o]
        BY <1>3, <1>5, <1>10 DEF Shown
      <3>2. Faultless => UseFits(k)'
        BY <2>2, <2>4, <3>1 DEF Becomes, UseFits
      <3>3. Faultless => Shown(o)'
        BY <1>2, <1>3, <1>4, <1>5, <2>2, ShownStays DEF Becomes
      <3> QED BY <3>2, <3>3
    <2> QED BY <1>1, <1>2, <1>3, <1>4, <1>6, <1>8, <1>10, <2>1, <2>2, <2>3, <2>4, <2>5, QuietGoing
  <1> QED BY <1>9, <1>10

\* The generation of the App is the one the call goes on with.
LEMMA AcquireAnsweredKeeps ==
  ASSUME Inv, NEW k \in Calls, AcquireAnswered(k)
  PROVE  Inv'
  <1>1. PICK o : o = Owner(k)
    OBVIOUS
  <1>2. call[k].step = "acquire" /\ UNCHANGED <<limits, session, driver, loop>>
    BY DEF AcquireAnswered, At
  <1>3. /\ Registry /\ Sidecar /\ SidecarTypes /\ CallFits(k) /\ o \in Owners /\ Generation(k) \in Nat
        /\ call[k].own \in BOOLEAN /\ (Faultless => Shown(o)) /\ nextGeneration \in Nat
        /\ holder[o] = k
    BY <1>1, <1>2, StepFacts DEF Holds
  <1> DEFINE test == call[k].op = "test"
  <1>4. PICK g : /\ Acquire(o, g)
                 /\ IF g = 0 THEN End(k) /\ Unlock(o)
                    ELSE /\ call' = [call EXCEPT ![k].step = IF test THEN "prepare" ELSE "dial",
                                                 ![k].generation = g, ![k].own = test]
                         /\ UNCHANGED holder
    BY <1>1 DEF AcquireAnswered
  <1>5. /\ Registry' /\ Follows({}) /\ UNCHANGED <<closed, serviceClosed>>
        /\ g \in Nat /\ g <= nextGeneration'
        /\ \A p \in Owners : entry[p].generation # 0 => entry'[p] = entry[p]
        /\ g # 0 => entry'[o].generation = g /\ ~entry[o].disconnecting
    BY <1>3, <1>4, AcquireFollows
  <1>6. DriverMoves(k) /\ driver' = driver
    BY <1>2, <1>3, DriverStays
  <1>7. ASSUME NEW j \in Calls, Owner(j) = o, Uses(j), Faultless
        PROVE  entry'[o].generation = entry[o].generation
    <2>1. /\ call[j].step # "idle" /\ UseFits(j) /\ CallFits(j)
          /\ call[j].step \notin {"lock", "acquire", "stop"}
      BY <1>7 DEF Inv, Truth, Sidecar, Uses
    <2>2. entry[o].generation = Generation(j) /\ Generation(j) # 0
      BY <1>7, <2>1 DEF UseFits, CallFits
    <2> QED BY <1>3, <1>5, <2>2
  <1>8. ASSUME Faultless, \A j \in Calls : j # k => call'[j] = call[j] PROVE Shown(o)'
    <2>1. CASE driver[o] = 0
      BY <1>6, <2>1 DEF Shown
    <2>2. CASE driver[o] # 0
      <3>1. entry[o].generation = driver[o] /\ Shown(o)
        BY <1>3, <1>8, <2>2 DEF Shown
      <3>2. entry'[o] = entry[o]
        BY <1>3, <1>5, <2>2, <3>1
      <3> QED BY <1>2, <1>3, <1>6, <1>8, <3>1, <3>2, ShownStays
    <2> QED BY <2>1, <2>2
  <1>9. CASE g = 0
    <2>1. Ends(k)
      BY <1>3, <1>4, <1>9, EndEnds
    <2>2. HolderMoves(k)
      BY <1>1, <1>3, <1>4, <1>9, UnlockMoves
    <2>3. Faultless => Shown(o)'
      BY <1>8, <2>1 DEF Ends
    <2> QED BY <1>1, <1>2, <1>3, <1>5, <1>6, <1>7, <2>1, <2>2, <2>3, EndingKeepsInv
  <1>10. CASE g # 0
    <2> DEFINE step == IF test THEN "prepare" ELSE "dial"
    <2>1. step \in AllSteps /\ call' = [call EXCEPT ![k].step = step, ![k].generation = g, ![k].own = test]
      BY <1>4, <1>10 DEF AllSteps
    <2>2. Becomes(k, step, g, test)
      <3>1. test \in BOOLEAN
        OBVIOUS
      <3> HIDE DEF step, test
      <3> QED BY <1>3, <1>5, <2>1, <3>1, GetBecomes
    <2>3. HolderMoves(k) /\ holder' = holder
      BY <1>3, <1>4, <1>10, HolderStays
    <2>4. call[k].op \in {"connect", "test"}
      BY <1>2, <1>3, CallTypes DEF CallFits, StepsOf
    <2>5. /\ Owner(k)' = o /\ Generation(k)' = g /\ call'[k].op = call[k].op
          /\ call'[k].step = step /\ (call'[k].own <=> test)
      BY <1>1, <2>2, CallTypes, <1>3 DEF Becomes, Owner, Generation
    <2>6. CallFits(k)'
      <3>1. session'[o[1]] = "open" /\ (test => driver'[o] = 0)
        BY <1>1, <1>2, <1>3 DEF CallFits
      <3>2. /\ test => call'[k].step = "prepare" /\ call'[k].op = "test" /\ call'[k].own
            /\ ~test => call'[k].step = "dial" /\ call'[k].op = "connect" /\ ~call'[k].own
        BY <2>4, <2>5
      <3> HIDE DEF test, step
      <3> QED BY <1>3, <1>5, <1>10, <2>3, <2>5, <3>1, <3>2
              DEF CallFits, StepsOf, Active, Holds
    <2>7. Alone(k)
      <3>1. Entering(k)
        BY <1>2 DEF Entering
      <3> QED BY <3>1, HolderIsAlone
    <2>8. CallKeeps(k) \/ ~Faultless
      <3>1. Waiting(o) = {}
        BY <1>3, <1>5, <1>10 DEF Registry, Phases
      <3> QED BY <1>1, <1>3, <1>5, <1>7, <3>1 DEF CallKeeps
    <2>9. Faultless => UseFits(k)' /\ Shown(o)'
      <3>1. UseFits(k)'
        BY <1>5, <1>10, <2>5 DEF UseFits
      <3>2. Faultless => Shown(o)'
        BY <1>8, <2>2 DEF Becomes
      <3> QED BY <3>1, <3>2
    <2>10. Faultless' => Faultless
      BY <1>2, <1>5 DEF Faultless
    <2> HIDE DEF step, test
    <2>11. test \in BOOLEAN
      BY DEF test
    <2> QED BY <1>1, <1>2, <1>3, <1>5, <1>6, <2>1, <2>2, <2>3, <2>6, <2>7, <2>8, <2>9, <2>10,
              <2>11, GoingKeepsInv
  <1> QED BY <1>9, <1>10

LEMMA AcquireInterruptedKeeps ==
  ASSUME Inv, NEW k \in Calls, AcquireInterrupted(k)
  PROVE  Inv'
  <1>1. PICK o : o = Owner(k)
    OBVIOUS
  <1>2. /\ call[k].step = "acquire" /\ UNCHANGED <<limits, session, driver, loop>>
        /\ UNCHANGED registryVars \/ \E g : Acquire(o, g)
        /\ End(k) /\ Unlock(o) /\ ~Faultless
    BY <1>1 DEF AcquireInterrupted, At, Lossy, Faultless
  <1>3. /\ Registry /\ SidecarTypes /\ o \in Owners /\ holder[o] = k
    BY <1>1, <1>2, StepFacts DEF Holds
  <1>4. /\ Registry' /\ Follows({}) /\ UNCHANGED <<closed, serviceClosed>>
        /\ \A p \in Owners : entry[p].generation # 0 => entry'[p] = entry[p]
    <2>1. CASE UNCHANGED registryVars
      BY <1>3, <2>1, UnchangedFollows, QuietEntries
    <2>2. CASE \E g : Acquire(o, g)
      BY <1>3, <2>2, AcquireFollows
    <2> QED BY <1>2, <2>1, <2>2
  <1>5. Ends(k) /\ HolderMoves(k) /\ DriverMoves(k)
    BY <1>1, <1>2, <1>3, EndEnds, UnlockMoves, DriverStays
  <1> QED BY <1>1, <1>2, <1>3, <1>4, <1>5, EndingKeepsInv

LEMMA DialKeeps ==
  ASSUME Inv, NEW k \in Calls, Dial(k)
  PROVE  Inv'
  <1>1. PICK o : o = Owner(k)
    OBVIOUS
  <1>2. /\ call[k].step = "dial" /\ GoTo(k, "commit") /\ "commit" \in AllSteps
        /\ UNCHANGED <<registryVars, limits, session, holder, loop>>
        /\ \/ driver[o] = 0 /\ driver' = [driver EXCEPT ![o] = Generation(k)]
           \/ driver[o] = Generation(k) /\ UNCHANGED driver
    BY <1>1 DEF Dial, At, AllSteps
  <1>3. /\ Registry /\ SidecarTypes /\ CallFits(k) /\ o \in Owners /\ Generation(k) \in Nat
        /\ call[k].own \in BOOLEAN /\ (Faultless => UseFits(k) /\ Shown(o)) /\ nextGeneration \in Nat
        /\ holder[o] = k
    BY <1>1, <1>2, StepFacts DEF Holds
  <1>4. Becomes(k, "commit", Generation(k), call[k].own)
    BY <1>2, <1>3, GoToBecomes
  <1>5. HolderMoves(k)
    BY <1>2, <1>3, HolderStays
  <1>6. DriverMoves(k) /\ driver'[o] = Generation(k)
    BY <1>1, <1>2, <1>3 DEF DriverMoves, SidecarTypes, At
  <1>7. entry' = entry /\ nextGeneration' = nextGeneration
    BY <1>2, QuietEntries DEF registryVars
  <1>8. /\ Owner(k)' = o /\ Generation(k)' = Generation(k) /\ call'[k].op = call[k].op
        /\ call'[k].step = "commit" /\ call'[k].own = call[k].own
    BY <1>1, <1>4 DEF Becomes, Owner, Generation
  <1>9. call[k].op = "connect" /\ ~call[k].own
    BY <1>2, <1>3, CallTypes DEF CallFits, StepsOf, Active
  <1>10. CallFits(k)'
    BY <1>1, <1>2, <1>3, <1>7, <1>8, <1>9 DEF CallFits, StepsOf, Active, Holds
  <1>11. ~Active(k)' /\ Entering(k) /\ Uses(k)
    BY <1>2, <1>8 DEF Active, Entering, Uses
  <1>12. Faultless => UseFits(k)' /\ Shown(o)'
    <2>1. Faultless => entry'[o].generation = Generation(k)
      BY <1>1, <1>3, <1>7, <1>11 DEF UseFits
    <2> QED BY <1>6, <1>8, <2>1 DEF UseFits, Shown
  <1> QED BY <1>1, <1>2, <1>3, <1>4, <1>5, <1>6, <1>10, <1>11, <1>12, QuietGoing

\* A call that goes on to its release keeps the lock and what it owns.
LEMMA DialFailsKeeps ==
  ASSUME Inv, NEW k \in Calls, DialFails(k)
  PROVE  Inv'
  <1>1. PICK o : o = Owner(k)
    OBVIOUS
  <1>2. /\ call[k].step = "dial" /\ GoTo(k, "release") /\ "release" \in AllSteps
        /\ UNCHANGED <<registryVars, limits, session, driver, holder, loop>>
        /\ Faultless => driver[o] # Generation(k)
    BY <1>1 DEF DialFails, At, AllSteps, Faultless
  <1>3. /\ Registry /\ SidecarTypes /\ CallFits(k) /\ o \in Owners /\ Generation(k) \in Nat
        /\ call[k].own \in BOOLEAN /\ (Faultless => UseFits(k) /\ Shown(o)) /\ nextGeneration \in Nat
        /\ holder[o] = k
    BY <1>1, <1>2, StepFacts DEF Holds
  <1>4. Becomes(k, "release", Generation(k), call[k].own)
    BY <1>2, <1>3, GoToBecomes
  <1>5. HolderMoves(k) /\ DriverMoves(k)
    BY <1>2, <1>3, HolderStays, DriverStays
  <1>6. entry' = entry /\ nextGeneration' = nextGeneration
    BY <1>2, QuietEntries DEF registryVars
  <1>7. /\ Owner(k)' = o /\ Generation(k)' = Generation(k) /\ call'[k].op = call[k].op
        /\ call'[k].step = "release" /\ call'[k].own = call[k].own
    BY <1>1, <1>4 DEF Becomes, Owner, Generation
  <1>8. call[k].op = "connect" /\ ~call[k].own
    BY <1>2, <1>3, CallTypes DEF CallFits, StepsOf, Active
  <1>9. CallFits(k)'
    BY <1>1, <1>2, <1>3, <1>6, <1>7, <1>8 DEF CallFits, StepsOf, Active, Holds
  <1>10. ~Active(k)' /\ Entering(k) /\ ~Uses(k)'
    BY <1>2, <1>7, <1>8 DEF Active, Entering, Uses
  <1>11. Faultless => UseFits(k)' /\ Shown(o)'
    <2>1. Faultless => driver[o] = 0
      <3>1. Faultless => entry[o].generation = Generation(k)
        BY <1>1, <1>2, <1>3 DEF UseFits, Uses
      <3> QED BY <1>2, <1>3, <3>1 DEF Shown
    <2> QED BY <1>2, <1>7, <1>10, <2>1 DEF UseFits, Shown
  <1> QED BY <1>1, <1>2, <1>3, <1>4, <1>5, <1>9, <1>10, <1>11, QuietGoing

\* The App shows a connected session from the moment the call ends.
LEMMA CommitKeeps ==
  ASSUME Inv, NEW k \in Calls, Commit(k) \/ CommitLost(k)
  PROVE  Inv'
  <1>1. PICK o : o = Owner(k)
    OBVIOUS
  <1>2. /\ call[k].step = "commit" /\ UNCHANGED <<limits, session, driver, loop>>
        /\ UNCHANGED registryVars \/ Connected(o, Generation(k))
        /\ \/ End(k) /\ Unlock(o) /\ Connected(o, Generation(k)) /\ Connects(o, Generation(k))
           \/ GoTo(k, "rollback") /\ UNCHANGED holder
    BY <1>1 DEF Commit, CommitLost, At
  <1>3. /\ Registry /\ SidecarTypes /\ CallFits(k) /\ o \in Owners /\ Generation(k) \in Nat
        /\ call[k].own \in BOOLEAN /\ (Faultless => UseFits(k) /\ Shown(o)) /\ nextGeneration \in Nat
        /\ holder[o] = k
    BY <1>1, <1>2, StepFacts DEF Holds
  <1>4. /\ Registry' /\ Follows({}) /\ UNCHANGED <<closed, serviceClosed>>
        /\ \A p \in Owners : /\ entry'[p].generation = entry[p].generation
                             /\ entry[p].connected => entry'[p].connected
    <2>1. CASE UNCHANGED registryVars
      BY <1>3, <2>1, UnchangedFollows, QuietEntries
    <2>2. CASE Connected(o, Generation(k))
      BY <1>3, <2>2, ConnectedFollows
    <2> QED BY <1>2, <2>1, <2>2
  <1>5. DriverMoves(k) /\ driver' = driver
    BY <1>2, <1>3, DriverStays
  <1>6. CASE End(k) /\ Unlock(o) /\ Connected(o, Generation(k)) /\ Connects(o, Generation(k))
    <2>1. Ends(k) /\ HolderMoves(k)
      BY <1>1, <1>3, <1>6, EndEnds, UnlockMoves
    <2>2. entry'[o].connected
      BY <1>3, <1>6, ConnectedFollows
    <2>3. Faultless => Shown(o)'
      BY <1>3, <1>4, <1>5, <2>2 DEF Shown
    <2> QED BY <1>1, <1>2, <1>3, <1>4, <1>5, <2>1, <2>3, EndingKeepsInv
  <1>7. CASE GoTo(k, "rollback") /\ UNCHANGED holder
    <2>1. Becomes(k, "rollback", Generation(k), call[k].own) /\ "rollback" \in AllSteps
      BY <1>3, <1>7, GoToBecomes DEF AllSteps
    <2>2. HolderMoves(k) /\ holder' = holder
      BY <1>3, <1>7, HolderStays
    <2>3. /\ Owner(k)' = o /\ Generation(k)' = Generation(k) /\ call'[k].op = call[k].op
          /\ call'[k].step = "rollback" /\ call'[k].own = call[k].own
      BY <1>1, <2>1 DEF Becomes, Owner, Generation
    <2>4. call[k].op = "connect" /\ ~call[k].own
      BY <1>2, <1>3, CallTypes DEF CallFits, StepsOf, Active
    <2>5. Generation(k) <= nextGeneration'
      <3>1. Generation(k) <= nextGeneration /\ nextGeneration <= nextGeneration' /\ nextGeneration' \in Nat
        BY <1>2, <1>3, <1>4 DEF CallFits, Follows, Registry, RegistryTypes
      <3> QED BY <1>3, <3>1
    <2>6. CallFits(k)'
      BY <1>1, <1>2, <1>3, <2>2, <2>3, <2>4, <2>5 DEF CallFits, StepsOf, Active, Holds
    <2>7. ~Active(k)' /\ Entering(k) /\ Uses(k)
      BY <1>2, <2>3 DEF Active, Entering, Uses
    <2>8. CallKeeps(k)
      BY <1>1, <1>3, <1>4, <2>7 DEF CallKeeps
    <2>9. Faultless => UseFits(k)' /\ Shown(o)'
      <3>1. Faultless => entry'[o].generation = Generation(k)
        BY <1>1, <1>3, <1>4, <2>7 DEF UseFits
      <3>2. Faultless => UseFits(k)'
        BY <2>3, <3>1 DEF UseFits
      <3>3. Faultless => Shown(o)'
        BY <1>3, <1>4, <1>5, <2>1, <2>3, ShownStays DEF Becomes
      <3> QED BY <3>2, <3>3
    <2>10. Faultless' => Faultless
      BY <1>2, <1>4 DEF Faultless
    <2> QED BY <1>1, <1>2, <1>3, <1>4, <1>5, <2>1, <2>2, <2>6, <2>7, <2>8, <2>9, <2>10, GoingKeepsInv
  <1> QED BY <1>2, <1>6, <1>7

LEMMA RollbackKeeps ==
  ASSUME Inv, NEW k \in Calls, Rollback(k)
  PROVE  Inv'
  <1>1. PICK o : o = Owner(k)
    OBVIOUS
  <1>2. /\ call[k].step = "rollback" /\ GoTo(k, "release") /\ "release" \in AllSteps
        /\ UNCHANGED <<registryVars, limits, session, holder, loop>>
        /\ driver' = [driver EXCEPT ![o] = 0]
    BY <1>1 DEF Rollback, At, AllSteps
  <1>3. /\ Registry /\ SidecarTypes /\ CallFits(k) /\ o \in Owners /\ Generation(k) \in Nat
        /\ call[k].own \in BOOLEAN /\ nextGeneration \in Nat /\ holder[o] = k
    BY <1>1, <1>2, StepFacts DEF Holds
  <1>4. Becomes(k, "release", Generation(k), call[k].own)
    BY <1>2, <1>3, GoToBecomes
  <1>5. HolderMoves(k) /\ DriverMoves(k) /\ driver'[o] = 0
    BY <1>1, <1>2, <1>3, HolderStays, CloseDriverMoves
  <1>6. nextGeneration' = nextGeneration
    BY <1>2 DEF registryVars
  <1>7. /\ Owner(k)' = o /\ Generation(k)' = Generation(k) /\ call'[k].op = call[k].op
        /\ call'[k].step = "release" /\ call'[k].own = call[k].own
    BY <1>1, <1>4 DEF Becomes, Owner, Generation
  <1>8. call[k].op = "connect" /\ ~call[k].own
    BY <1>2, <1>3, CallTypes DEF CallFits, StepsOf, Active
  <1>9. CallFits(k)'
    BY <1>1, <1>2, <1>3, <1>6, <1>7, <1>8 DEF CallFits, StepsOf, Active, Holds
  <1>10. ~Active(k)' /\ Entering(k) /\ ~Uses(k)'
    BY <1>2, <1>7, <1>8 DEF Active, Entering, Uses
  <1>11. UseFits(k)' /\ Shown(o)'
    BY <1>5, <1>7, <1>10 DEF UseFits, Shown
  <1> QED BY <1>1, <1>2, <1>3, <1>4, <1>5, <1>9, <1>10, <1>11, QuietGoing

\* A test that ends without its own generation leaves the driver to the others.
LEMMA TestEndsKeeps ==
  ASSUME Inv, NEW k \in Calls, TestEnds(k)
  PROVE  Inv'
  <1>1. PICK o : o = Owner(k)
    OBVIOUS
  <1>2. /\ call[k].step \in {"prepare", "run"} /\ UNCHANGED <<registryVars, limits, session, driver, loop>>
        /\ (call[k].step = "prepare" /\ Unlock(o)) \/ UNCHANGED holder
        /\ IF call[k].own THEN GoTo(k, "release") ELSE End(k)
    BY <1>1 DEF TestEnds, At
  <1>3. /\ Registry /\ SidecarTypes /\ CallFits(k) /\ o \in Owners /\ Generation(k) \in Nat
        /\ call[k].own \in BOOLEAN /\ (Faultless => Shown(o)) /\ nextGeneration \in Nat
        /\ call[k].step = "prepare" => holder[o] = k
    BY <1>1, <1>2, StepFacts DEF Holds
  <1>4. HolderMoves(k) /\ DriverMoves(k) /\ driver' = driver
    BY <1>1, <1>2, <1>3, HolderStays, UnlockMoves, DriverStays
  <1>5. CASE ~call[k].own
    BY <1>2, <1>4, <1>5, QuietEnding
  <1>6. CASE call[k].own
    <2>1. Becomes(k, "release", Generation(k), TRUE) /\ "release" \in AllSteps
      <3>1. "release" \in AllSteps /\ call[k].own = TRUE /\ GoTo(k, "release")
        BY <1>2, <1>3, <1>6 DEF AllSteps
      <3>2. Becomes(k, "release", Generation(k), call[k].own)
        BY <1>3, <3>1, GoToBecomes
      <3> QED BY <3>1, <3>2
    <2>2. entry' = entry /\ nextGeneration' = nextGeneration
      BY <1>2, QuietEntries DEF registryVars
    <2>3. /\ Owner(k)' = o /\ Generation(k)' = Generation(k) /\ call'[k].op = call[k].op
          /\ call'[k].step = "release" /\ call'[k].own
      BY <1>1, <2>1 DEF Becomes, Owner, Generation
    <2>4. call[k].op = "test" /\ Active(k)
      BY <1>2, <1>3, <1>6 DEF CallFits, Active
    <2>5. CallFits(k)'
      BY <1>1, <1>2, <1>3, <1>4, <1>6, <2>2, <2>3, <2>4 DEF CallFits, StepsOf, Active, Holds
    <2>6. ~Entering(k)' /\ ~Uses(k)'
      BY <2>3, <2>4 DEF Entering, Uses
    <2>7. Faultless => UseFits(k)' /\ Shown(o)'
      <3>1. UseFits(k)'
        BY <2>3, <2>4, <2>6 DEF UseFits
      <3>2. Faultless => Shown(o)'
        BY <1>2, <1>3, <1>4, <2>1, <2>2, ShownStays DEF Becomes
      <3> QED BY <3>1, <3>2
    <2> QED BY <1>1, <1>2, <1>3, <1>4, <2>1, <2>4, <2>5, <2>6, <2>7, QuietGoing
  <1> QED BY <1>3, <1>5, <1>6

LEMMA TestRunsKeeps ==
  ASSUME Inv, NEW k \in Calls, TestRuns(k)
  PROVE  Inv'
  <1>1. PICK o : o = Owner(k)
    OBVIOUS
  <1>2. /\ call[k].step = "prepare" /\ UNCHANGED <<registryVars, limits, session, driver, loop>>
        /\ Unlock(o) /\ GoTo(k, "run") /\ "run" \in AllSteps
    BY <1>1 DEF TestRuns, At, AllSteps
  <1>3. /\ Registry /\ SidecarTypes /\ CallFits(k) /\ o \in Owners /\ Generation(k) \in Nat
        /\ call[k].own \in BOOLEAN /\ (Faultless => UseFits(k) /\ Shown(o)) /\ nextGeneration \in Nat
        /\ holder[o] = k
    BY <1>1, <1>2, StepFacts DEF Holds
  <1>4. HolderMoves(k) /\ DriverMoves(k) /\ driver' = driver
    BY <1>1, <1>2, <1>3, UnlockMoves, DriverStays
  <1>5. Becomes(k, "run", Generation(k), call[k].own)
    BY <1>2, <1>3, GoToBecomes
  <1>6. entry' = entry /\ nextGeneration' = nextGeneration
    BY <1>2, QuietEntries DEF registryVars
  <1>7. /\ Owner(k)' = o /\ Generation(k)' = Generation(k) /\ call'[k].op = call[k].op
        /\ call'[k].step = "run" /\ call'[k].own = call[k].own
    BY <1>1, <1>5 DEF Becomes, Owner, Generation
  <1>8. call[k].op = "test" /\ Active(k) /\ Uses(k)
    BY <1>2, <1>3, CallTypes DEF CallFits, Active, StepsOf, Uses
  <1>9. CallFits(k)'
    BY <1>1, <1>2, <1>3, <1>4, <1>6, <1>7, <1>8 DEF CallFits, StepsOf, Active, Holds
  <1>10. ~Entering(k)'
    BY <1>7, <1>8 DEF Entering
  <1>11. Faultless => UseFits(k)' /\ Shown(o)'
    <2>1. Faultless => UseFits(k)'
      BY <1>1, <1>3, <1>6, <1>7, <1>8 DEF UseFits
    <2>2. Faultless => Shown(o)'
      BY <1>2, <1>3, <1>4, <1>5, <1>6, ShownStays DEF Becomes
    <2> QED BY <2>1, <2>2
  <1> QED BY <1>1, <1>2, <1>3, <1>4, <1>5, <1>8, <1>9, <1>10, <1>11, QuietGoing

\* Every use of a connection is one of a test or of a connect.
LEMMA UsesOf ==
  ASSUME Inv, NEW j \in Calls, Uses(j)
  PROVE  call[j].step # "idle" /\ (Entering(j) \/ (Active(j) /\ Running(j)))
  <1>1. call[j].step # "idle"
    BY DEF Uses
  <1>2. CallFits(j) /\ SidecarTypes
    BY <1>1, StepFacts
  <1> QED BY <1>1, <1>2, CallTypes DEF Uses, CallFits, StepsOf, Entering, Active, Running

\* A release is sent for a connection without a driver that nobody uses.
LEMMA ReleaseHitsNobody ==
  ASSUME Inv, Faultless, NEW k \in Calls, call[k].step \in {"release", "tell"}
  PROVE  /\ driver[Owner(k)] = 0
         /\ \A j \in Calls : Owner(j) = Owner(k) => ~Uses(j)
  <1>1. /\ CallFits(k) /\ UseFits(k) /\ call[k].step # "idle" /\ SidecarTypes
        /\ Holds(k) => holder[Owner(k)] = k
    BY StepFacts
  <1>2. CASE call[k].step = "tell"
    <2>1. driver[Owner(k)] = 0 /\ holder[Owner(k)] = k
      BY <1>1, <1>2 DEF UseFits, Holds
    <2>2. ASSUME NEW j \in Calls, Owner(j) = Owner(k), Uses(j) PROVE FALSE
      <3>1. ~Running(j)
        BY <1>1, <1>2, <2>2 DEF UseFits
      <3>2. Entering(j) /\ call[j].step # "idle"
        BY <2>2, <3>1, UsesOf
      <3>3. holder[Owner(j)] = j
        BY <3>2, HoldsEntering, StepFacts
      <3> QED BY <1>2, <2>1, <2>2, <3>3 DEF Uses
    <2> QED BY <2>1, <2>2
  <1>3. CASE call[k].step = "release"
    <2>1. call[k].op \in {"connect", "test"}
      BY <1>1, <1>3, CallTypes DEF CallFits, StepsOf
    <2>2. CASE call[k].op = "connect"
      <3>1. driver[Owner(k)] = 0 /\ Entering(k)
        BY <1>1, <1>3, <2>2 DEF UseFits, Entering
      <3>2. Alone(k)
        BY <3>1, HolderIsAlone
      <3>3. ASSUME NEW j \in Calls, Owner(j) = Owner(k), Uses(j) PROVE FALSE
        BY <1>3, <3>2, <3>3, UsesOf DEF Alone, Uses
      <3> QED BY <3>1, <3>3
    <2>3. CASE call[k].op = "test"
      <3>1. driver[Owner(k)] = 0 /\ Active(k)
        BY <1>1, <1>3, <2>3 DEF CallFits
      <3>2. ASSUME NEW j \in Calls, Owner(j) = Owner(k), Uses(j) PROVE FALSE
        <4>1. j # k
          BY <1>3, <3>2 DEF Uses
        <4>2. ~Active(j) /\ ~Entering(j)
          BY <3>1, <3>2, <4>1 DEF Inv, Sidecar, Apart
        <4> QED BY <3>2, <4>2, UsesOf
      <3> QED BY <3>1, <3>2
    <2> QED BY <2>1, <2>2, <2>3
  <1> QED BY <1>2, <1>3

\* A lease that was not released keeps its generation until its cleanup.
LEMMA CleanupKeeps ==
  ASSUME Inv, NEW k \in Calls, NEW o \in Owners, o = Owner(k), call[k].step # "idle", ~Faultless,
         Cleanup(k), Generation(k) # 0,
         call[k].op \in {"connect", "test"}, call[k].op = "test" => call[k].own,
         UNCHANGED <<limits, session, driver, loop>>, HolderMoves(k),
         Registry', Follows({}), UNCHANGED <<closed, serviceClosed>>
  PROVE  Inv'
  <1>1. PICK step : step = IF call[k].op = "test" THEN "clean" ELSE "cleanLock"
    OBVIOUS
  <1>2. /\ Registry /\ SidecarTypes /\ CallFits(k) /\ Generation(k) \in Nat
        /\ call[k].own \in BOOLEAN /\ nextGeneration \in Nat
    BY StepFacts
  <1>3. step \in AllSteps /\ GoTo(k, step)
    BY <1>1 DEF AllSteps, Cleanup
  <1>4. Becomes(k, step, Generation(k), call[k].own)
    BY <1>2, <1>3, GoToBecomes
  <1>5. DriverMoves(k) /\ driver' = driver
    BY <1>2, DriverStays
  <1>6. /\ Owner(k)' = o /\ Generation(k)' = Generation(k) /\ call'[k].op = call[k].op
        /\ call'[k].step = step /\ call'[k].own = call[k].own
    BY <1>4 DEF Becomes, Owner, Generation
  <1>7. Generation(k) <= nextGeneration'
    <2>1. Generation(k) <= nextGeneration /\ nextGeneration <= nextGeneration' /\ nextGeneration' \in Nat
      BY <1>2 DEF CallFits, Follows, Registry, RegistryTypes
    <2> QED BY <1>2, <2>1
  <1>8. call[k].own => Active(k) /\ call[k].op = "test" /\ driver[o] = 0
    BY <1>2 DEF CallFits, Active
  <1>9. CASE call[k].op = "test"
    <2>1. step = "clean"
      BY <1>1, <1>9
    <2>2. CallFits(k)'
      BY <1>2, <1>5, <1>6, <1>7, <1>8, <1>9, <2>1 DEF CallFits, StepsOf, Active, Holds
    <2>3. Active(k) /\ ~Entering(k)'
      BY <1>6, <1>8, <1>9, <2>1 DEF Entering
    <2>4. Faultless' => Faultless
      BY DEF Faultless
    <2> QED BY <1>2, <1>3, <1>4, <1>5, <2>2, <2>3, <2>4, GoingKeepsInv
  <1>10. CASE call[k].op = "connect"
    <2>1. step = "cleanLock" /\ ~call[k].own
      BY <1>1, <1>8, <1>10
    <2>2. CallFits(k)'
      BY <1>2, <1>5, <1>6, <1>7, <1>10, <2>1 DEF CallFits, StepsOf, Active, Holds
    <2>3. ~Active(k)' /\ ~Entering(k)'
      BY <1>6, <1>10, <2>1 DEF Entering, Active
    <2>4. Faultless' => Faultless
      BY DEF Faultless
    <2> QED BY <1>2, <1>3, <1>4, <1>5, <2>2, <2>3, <2>4, GoingKeepsInv
  <1> QED BY <1>9, <1>10

LEMMA ReleaseKeeps ==
  ASSUME Inv, NEW k \in Calls, Release(k) \/ ReleaseInterrupted(k)
  PROVE  Inv'
  <1>1. PICK o : o = Owner(k)
    OBVIOUS
  <1>2. /\ call[k].step = "release" /\ UNCHANGED <<limits, session, driver, loop>>
        /\ UNCHANGED registryVars \/ Released(o, Generation(k))
        /\ (End(k) /\ Released(o, Generation(k))) \/ (Cleanup(k) /\ (~Open(o) \/ Lossy))
        /\ UnlockCall(k)
    BY <1>1 DEF Release, ReleaseInterrupted, At
  <1>3. /\ Registry /\ Sidecar /\ SidecarTypes /\ CallFits(k) /\ o \in Owners
    BY <1>1, <1>2, StepFacts
  <1>4. /\ Registry' /\ Follows({}) /\ UNCHANGED <<closed, serviceClosed>>
        /\ \A p \in Owners : p # o => entry'[p] = entry[p]
    <2>1. CASE UNCHANGED registryVars
      BY <1>3, <2>1, UnchangedFollows, QuietEntries
    <2>2. CASE Released(o, Generation(k))
      BY <1>3, <2>2, ReleasedFollows
    <2> QED BY <1>2, <2>1, <2>2
  <1>5. HolderMoves(k) /\ DriverMoves(k)
    BY <1>1, <1>2, <1>3, UnlockCallMoves, DriverStays
  <1>6. CASE End(k)
    <2>1. Ends(k)
      BY <1>3, <1>6, EndEnds
    <2>2. Faultless => /\ \A j \in Calls : Owner(j) = o => ~Uses(j)
                       /\ driver[o] = 0
      BY <1>1, <1>2, ReleaseHitsNobody
    <2>3. Faultless => Shown(o)'
      BY <1>2, <2>2 DEF Shown
    <2> QED BY <1>1, <1>2, <1>3, <1>4, <1>5, <2>1, <2>2, <2>3, EndingKeepsInv
  <1>7. CASE Cleanup(k) /\ (~Open(o) \/ Lossy)
    <2>1. ~Faultless
      <3>1. SUFFICES ASSUME Faultless PROVE FALSE
        OBVIOUS
      <3>2. o[1] \in closed
        BY <1>7, <3>1 DEF Faultless, Open, Lossy
      <3>3. session[o[1]] = "ended"
        BY <1>3, <3>2 DEF Sidecar, Drivers
      <3> QED BY <1>1, <1>2, <1>3, <3>3 DEF CallFits
    <2>2. /\ Generation(k) # 0 /\ call[k].op \in {"connect", "test"}
          /\ call[k].op = "test" => call[k].own
      BY <1>2, <1>3, CallTypes DEF CallFits, StepsOf
    <2> QED BY <1>1, <1>2, <1>3, <1>4, <1>5, <1>7, <2>1, <2>2, CleanupKeeps
  <1> QED BY <1>2, <1>6, <1>7

LEMMA CleanDriverKeeps ==
  ASSUME Inv, NEW k \in Calls, CleanDriver(k)
  PROVE  Inv'
  <1>1. PICK o : o = Owner(k)
    OBVIOUS
  <1>2. /\ call[k].step = "cleanLock" /\ GoTo(k, "clean") /\ "clean" \in AllSteps
        /\ UNCHANGED <<registryVars, limits, session, holder, loop>>
        /\ driver' = driver \/ driver' = [driver EXCEPT ![o] = 0]
    BY <1>1 DEF CleanDriver, At, AllSteps
  <1>3. /\ Registry /\ SidecarTypes /\ CallFits(k) /\ o \in Owners /\ Generation(k) \in Nat
        /\ call[k].own \in BOOLEAN /\ nextGeneration \in Nat
        /\ ~Faultless
    BY <1>1, <1>2, StepFacts DEF UseFits
  <1>4. Becomes(k, "clean", Generation(k), call[k].own)
    BY <1>2, <1>3, GoToBecomes
  <1>5. HolderMoves(k) /\ DriverMoves(k)
    BY <1>1, <1>2, <1>3, HolderStays, DriverStays, CloseDriverMoves
  <1>6. nextGeneration' = nextGeneration
    BY <1>2 DEF registryVars
  <1>7. /\ Owner(k)' = o /\ Generation(k)' = Generation(k) /\ call'[k].op = call[k].op
        /\ call'[k].step = "clean" /\ call'[k].own = call[k].own
    BY <1>1, <1>4 DEF Becomes, Owner, Generation
  <1>8. call[k].op = "connect" /\ ~call[k].own
    BY <1>2, <1>3, CallTypes DEF CallFits, StepsOf, Active
  <1>9. CallFits(k)'
    BY <1>1, <1>2, <1>3, <1>6, <1>7, <1>8 DEF CallFits, StepsOf, Active, Holds
  <1>10. ~Active(k)' /\ ~Entering(k)' /\ ~Uses(k)'
    BY <1>7, <1>8 DEF Active, Entering, Uses
  <1> QED BY <1>1, <1>2, <1>3, <1>4, <1>5, <1>9, <1>10, QuietGoing

LEMMA CleanReleaseKeeps ==
  ASSUME Inv, NEW k \in Calls, CleanRelease(k)
  PROVE  Inv'
  <1>1. PICK o : o = Owner(k)
    OBVIOUS
  <1>2. /\ call[k].step = "clean" /\ UNCHANGED <<limits, session, driver, holder, loop>> /\ End(k)
        /\ UNCHANGED registryVars \/ Released(o, Generation(k))
    BY <1>1 DEF CleanRelease, At
  <1>3. /\ Registry /\ SidecarTypes /\ o \in Owners /\ ~Faultless
    BY <1>1, <1>2, StepFacts DEF UseFits
  <1>4. /\ Registry' /\ Follows({}) /\ UNCHANGED <<closed, serviceClosed>>
        /\ \A p \in Owners : p # o => entry'[p] = entry[p]
    <2>1. CASE UNCHANGED registryVars
      BY <1>3, <2>1, UnchangedFollows, QuietEntries
    <2>2. CASE Released(o, Generation(k))
      BY <1>3, <2>2, ReleasedFollows
    <2> QED BY <1>2, <2>1, <2>2
  <1>5. Ends(k) /\ HolderMoves(k) /\ DriverMoves(k)
    BY <1>2, <1>3, EndEnds, HolderStays, DriverStays
  <1> QED BY <1>1, <1>2, <1>3, <1>4, <1>5, EndingKeepsInv

LEMMA EnterDisconnectKeeps ==
  ASSUME Inv, NEW k \in Calls, EnterDisconnect(k)
  PROVE  Inv'
  <1>1. PICK o : o = Owner(k)
    OBVIOUS
  <1>2. PICK g : g = IF ActiveTests(o) = {} THEN 0 ELSE Generation(CHOOSE t \in ActiveTests(o) : TRUE)
    OBVIOUS
  <1>3. /\ call[k].step = "lock" /\ call[k].op = "disconnect" /\ Lock(o, k)
        /\ call' = [call EXCEPT ![k].step = "stop", ![k].generation = g] /\ "stop" \in AllSteps
        /\ UNCHANGED <<registryVars, limits, session, driver, loop>>
    BY <1>1, <1>2 DEF EnterDisconnect, At, AllSteps
  <1>4. /\ Registry /\ SidecarTypes /\ CallFits(k) /\ o \in Owners /\ call[k].own \in BOOLEAN
        /\ (Faultless => Shown(o)) /\ nextGeneration \in Nat
    BY <1>1, <1>3, StepFacts
  <1>5. g \in Nat /\ g <= nextGeneration
    <2>1. CASE ActiveTests(o) = {}
      BY <1>2, <1>4, <2>1
    <2>2. CASE ActiveTests(o) # {}
      <3>1. PICK t \in ActiveTests(o) : g = Generation(t)
        BY <1>2, <2>2
      <3>2. t \in Calls /\ call[t].step # "idle"
        BY DEF ActiveTests
      <3>3. CallFits(t) /\ Generation(t) \in Nat
        BY <3>2, StepFacts
      <3> QED BY <3>1, <3>2, <3>3 DEF CallFits
    <2> QED BY <2>1, <2>2
  <1>6. Becomes(k, "stop", g, call[k].own)
    BY <1>3, <1>4, <1>5, GetBecomes
  <1>7. HolderMoves(k) /\ holder'[o] = k /\ DriverMoves(k) /\ driver' = driver
    BY <1>1, <1>3, <1>4, LockMoves, DriverStays
  <1>8. entry' = entry /\ nextGeneration' = nextGeneration
    BY <1>3, QuietEntries DEF registryVars
  <1>9. /\ Owner(k)' = o /\ Generation(k)' = g /\ call'[k].op = "disconnect"
        /\ call'[k].step = "stop" /\ call'[k].own = call[k].own /\ ~call[k].own
    BY <1>1, <1>3, <1>4, <1>6 DEF Becomes, Owner, Generation, CallFits, Active
  <1>10. CallFits(k)'
    BY <1>1, <1>3, <1>4, <1>5, <1>7, <1>8, <1>9 DEF CallFits, StepsOf, Active, Holds
  <1>11. ~Active(k)' /\ ~Entering(k)' /\ ~Uses(k)'
    BY <1>9 DEF Active, Entering, Uses
  <1>12. Faultless => UseFits(k)' /\ Shown(o)'
    <2>1. UseFits(k)'
      BY <1>9, <1>11 DEF UseFits
    <2>2. Faultless => Shown(o)'
      BY <1>3, <1>4, <1>6, <1>7, <1>8, ShownStays DEF Becomes
    <2> QED BY <2>1, <2>2
  <1> QED BY <1>1, <1>3, <1>4, <1>5, <1>6, <1>7, <1>10, <1>11, <1>12, QuietGoing

\* A disconnect goes on when no test of the connection is running any more.
LEMMA StopKeeps ==
  ASSUME Inv, NEW k \in Calls, Stop(k)
  PROVE  Inv'
  <1>1. PICK o : o = Owner(k)
    OBVIOUS
  <1>2. PICK g : g = IF Generation(k) # 0 THEN Generation(k) ELSE driver[o]
    OBVIOUS
  <1>3. /\ call[k].step = "stop" /\ \A t \in ActiveTests(o) : ~Running(t)
        /\ driver' = [driver EXCEPT ![o] = 0]
        /\ IF g = 0 THEN End(k) /\ Unlock(o)
           ELSE call' = [call EXCEPT ![k].step = "tell", ![k].generation = g] /\ UNCHANGED holder
        /\ UNCHANGED <<registryVars, limits, session, loop>> /\ "tell" \in AllSteps
    BY <1>1, <1>2 DEF Stop, At, AllSteps
  <1>4. /\ Registry /\ Sidecar /\ SidecarTypes /\ CallFits(k) /\ o \in Owners /\ Generation(k) \in Nat
        /\ call[k].own \in BOOLEAN /\ nextGeneration \in Nat /\ holder[o] = k
    BY <1>1, <1>3, StepFacts DEF Holds
  <1>5. g \in Nat /\ g <= nextGeneration
    BY <1>2, <1>3, <1>4 DEF CallFits, Sidecar, Drivers, SidecarTypes
  <1>6. DriverMoves(k) /\ driver'[o] = 0
    BY <1>1, <1>3, <1>4, CloseDriverMoves
  <1>7. Shown(o)'
    BY <1>6 DEF Shown
  <1>8. entry' = entry /\ nextGeneration' = nextGeneration /\ UNCHANGED <<closed, serviceClosed>>
    BY <1>3, QuietEntries DEF registryVars
  <1>9. Registry' /\ Follows({})
    BY <1>3, <1>4, UnchangedFollows
  <1>10. CASE g = 0
    <2>1. Ends(k) /\ HolderMoves(k)
      BY <1>1, <1>3, <1>4, <1>10, EndEnds, UnlockMoves
    <2> QED BY <1>1, <1>3, <1>4, <1>6, <1>7, <1>8, <1>9, <2>1, EndingKeepsInv
  <1>11. CASE g # 0
    <2>1. Becomes(k, "tell", g, call[k].own)
      <3>1. call' = [call EXCEPT ![k].step = "tell", ![k].generation = g] /\ "tell" \in AllSteps
        BY <1>3, <1>11
      <3> QED BY <1>4, <1>5, <3>1, GetBecomes
    <2>2. HolderMoves(k) /\ holder' = holder
      BY <1>3, <1>4, <1>11, HolderStays
    <2>3. call[k].op = "disconnect" /\ ~call[k].own
      BY <1>3, <1>4, CallTypes DEF CallFits, Active, StepsOf
    <2>4. /\ Owner(k)' = o /\ Generation(k)' = g /\ call'[k].op = "disconnect"
          /\ call'[k].step = "tell" /\ call'[k].own = call[k].own
      BY <1>1, <2>1, <2>3 DEF Becomes, Owner, Generation
    <2>5. CallFits(k)'
      BY <1>1, <1>3, <1>4, <1>5, <1>8, <1>11, <2>2, <2>3, <2>4 DEF CallFits, StepsOf, Active, Holds
    <2>6. ~Active(k)' /\ ~Entering(k)' /\ ~Uses(k)'
      BY <2>4 DEF Active, Entering, Uses
    <2>7. UseFits(k)'
      <3>1. ASSUME NEW j \in Calls, Owner(j)' = o PROVE ~Running(j)'
        <4>1. CASE j = k
          BY <2>4, <4>1 DEF Running
        <4>2. CASE j # k
          <5>1. call'[j] = call[j]
            BY <2>1, <4>2 DEF Becomes
          <5>2. Owner(j) = o /\ (Running(j)' <=> Running(j))
            BY <3>1, <5>1, OthersAsBefore
          <5>3. Running(j) => j \in ActiveTests(o)
            BY <5>2 DEF Running, ActiveTests
          <5> QED BY <1>3, <5>2, <5>3
        <4> QED BY <4>1, <4>2
      <3> QED BY <1>6, <2>4, <2>6, <3>1 DEF UseFits
    <2> QED BY <1>1, <1>3, <1>4, <1>5, <1>6, <1>7, <2>1, <2>2, <2>5, <2>6, <2>7, QuietGoing
  <1> QED BY <1>10, <1>11

LEMMA TellKeeps ==
  ASSUME Inv, NEW k \in Calls, Tell(k)
  PROVE  Inv'
  <1>1. PICK o : o = Owner(k)
    OBVIOUS
  <1>2. /\ call[k].step = "tell" /\ UNCHANGED <<limits, session, driver, loop>> /\ End(k) /\ Unlock(o)
        /\ UNCHANGED registryVars \/ Released(o, Generation(k))
    BY <1>1 DEF Tell, At
  <1>3. /\ Registry /\ SidecarTypes /\ o \in Owners /\ holder[o] = k
    BY <1>1, <1>2, StepFacts DEF Holds
  <1>4. /\ Registry' /\ Follows({}) /\ UNCHANGED <<closed, serviceClosed>>
        /\ \A p \in Owners : p # o => entry'[p] = entry[p]
    <2>1. CASE UNCHANGED registryVars
      BY <1>3, <2>1, UnchangedFollows, QuietEntries
    <2>2. CASE Released(o, Generation(k))
      BY <1>3, <2>2, ReleasedFollows
    <2> QED BY <1>2, <2>1, <2>2
  <1>5. Ends(k) /\ HolderMoves(k) /\ DriverMoves(k)
    BY <1>1, <1>2, <1>3, EndEnds, UnlockMoves, DriverStays
  <1>6. Faultless => driver[o] = 0 /\ \A j \in Calls : Owner(j) = o => ~Uses(j)
    BY <1>1, <1>2, ReleaseHitsNobody
  <1>7. Faultless => Shown(o)'
    BY <1>2, <1>6 DEF Shown
  <1> QED BY <1>1, <1>2, <1>3, <1>4, <1>5, <1>6, <1>7, EndingKeepsInv

LEMMA AbandonKeeps ==
  ASSUME Inv, NEW k \in Calls, Abandon(k)
  PROVE  Inv'
  <1>1. PICK o : o = Owner(k)
    OBVIOUS
  <1>2. /\ call[k].step \in {"lock", "dial", "commit", "rollback", "prepare", "run", "stop"}
        /\ UNCHANGED <<limits, session, driver, loop>> /\ UnlockCall(k) /\ ~Faultless
        /\ UNCHANGED registryVars \/ Connected(o, Generation(k))
        /\ End(k) \/ (Cleanup(k) /\ (call[k].own \/ call[k].step \in {"dial", "commit", "rollback"}))
    BY <1>1 DEF Abandon, Faultless
  <1>3. /\ Registry /\ SidecarTypes /\ CallFits(k) /\ o \in Owners
    BY <1>1, <1>2, StepFacts
  <1>4. /\ Registry' /\ Follows({}) /\ UNCHANGED <<closed, serviceClosed>>
        /\ \A p \in Owners : /\ entry'[p].generation = entry[p].generation
                             /\ entry[p].connected => entry'[p].connected
    <2>1. CASE UNCHANGED registryVars
      BY <1>3, <2>1, UnchangedFollows, QuietEntries
    <2>2. CASE Connected(o, Generation(k))
      BY <1>3, <2>2, ConnectedFollows
    <2> QED BY <1>2, <2>1, <2>2
  <1>5. HolderMoves(k) /\ DriverMoves(k)
    BY <1>1, <1>2, <1>3, UnlockCallMoves, DriverStays
  <1>6. CASE End(k)
    <2>1. Ends(k)
      BY <1>3, <1>6, EndEnds
    <2> QED BY <1>1, <1>2, <1>3, <1>4, <1>5, <2>1, EndingKeepsInv
  <1>7. CASE Cleanup(k) /\ (call[k].own \/ call[k].step \in {"dial", "commit", "rollback"})
    <2>1. CASE call[k].own
      <3>1. call[k].op = "test" /\ Generation(k) # 0
        BY <1>2, <1>3, <2>1 DEF CallFits, Active
      <3> QED BY <1>1, <1>2, <1>3, <1>4, <1>5, <1>7, <2>1, <3>1, CleanupKeeps
    <2>2. CASE call[k].step \in {"dial", "commit", "rollback"}
      <3>1. call[k].op = "connect" /\ Generation(k) # 0
        BY <1>2, <1>3, <2>2, CallTypes DEF CallFits, StepsOf
      <3> QED BY <1>1, <1>2, <1>3, <1>4, <1>5, <1>7, <3>1, CleanupKeeps
    <2> QED BY <1>7, <2>1, <2>2
  <1> QED BY <1>2, <1>6, <1>7

-----------------------------------------------------------------------------
(* A control loop, a session or the App takes a step *)

LEMMA LoopStays ==
  ASSUME Registry, Registry', NEW gone, Follows(gone), NEW s \in Sessions, LoopFits(s),
         loop'[s] = loop[s], loop[s].command \notin gone \/ loop[s].step = "poll",
         loop[s].step # "poll" => session'[s] = session[s],
         loop[s].step = "handle" => holder'[loop[s].command.owner] = holder[loop[s].command.owner]
  PROVE  /\ LoopFits(s)'
         /\ loop[s].step # "poll" /\ loop[s].command \in Range(queue'[s])
              => loop[s].command \in Range(queue[s])
  <1>1. SUFFICES ASSUME loop[s].step # "poll"
                 PROVE  /\ LoopFits(s)'
                        /\ loop[s].command \in Range(queue'[s]) => loop[s].command \in Range(queue[s])
    BY DEF LoopFits
  <1>2. PICK cmd : cmd = loop[s].command
    OBVIOUS
  <1>3. /\ session[s] = "open" /\ Given(cmd, s) /\ cmd \notin gone
        /\ cmd \in Range(queue[s]) \/ entry[cmd.owner].generation # cmd.generation
        /\ loop[s].step = "handle" => holder[cmd.owner] = Control
    BY <1>1, <1>2 DEF LoopFits
  <1>4. /\ Given(cmd, s)'
        /\ cmd \in Range(queue'[s]) \/ entry'[cmd.owner].generation # cmd.generation
        /\ cmd \in Range(queue'[s]) => cmd \in Range(queue[s])
    BY <1>3, CommandFollows
  <1>5. loop'[s].command = cmd /\ loop'[s].step = loop[s].step /\ session'[s] = "open"
    BY <1>1, <1>2, <1>3
  <1>6. LoopFits(s)'
    BY <1>2, <1>3, <1>4, <1>5 DEF LoopFits
  <1> QED BY <1>2, <1>4, <1>6

LEMMA CallStays ==
  ASSUME NEW k \in Calls, CallFits(k), call'[k] = call[k],
         call[k].step # "idle" => session'[Owner(k)[1]] = session[Owner(k)[1]],
         nextGeneration <= nextGeneration', nextGeneration \in Nat, nextGeneration' \in Nat,
         Generation(k) \in Nat,
         Holds(k) => holder'[Owner(k)] = holder[Owner(k)],
         call[k].step # "idle" /\ driver[Owner(k)] = 0 => driver'[Owner(k)] = 0
  PROVE  CallFits(k)'
  <1>1. SUFFICES ASSUME call[k].step # "idle" PROVE CallFits(k)'
    BY DEF CallFits
  <1>2. /\ Owner(k)' = Owner(k) /\ Generation(k)' = Generation(k)
        /\ (Active(k)' <=> Active(k)) /\ (Holds(k)' <=> Holds(k))
    BY OthersAsBefore
  <1>3. Generation(k) <= nextGeneration'
    BY <1>1 DEF CallFits
  <1> QED BY <1>1, <1>2, <1>3 DEF CallFits

LEMMA ApartStays ==
  ASSUME Apart, UNCHANGED call
  PROVE  Apart'
  <1>1. \A k \in Calls : /\ Owner(k)' = Owner(k)
                         /\ (Active(k)' <=> Active(k)) /\ (Entering(k)' <=> Entering(k))
    BY OthersAsBefore
  <1> QED BY <1>1 DEF Apart

\* What the registry does for a connection that nobody uses is seen by nobody.
Unused(p) == driver[p] = 0 /\ \A k \in Calls : Owner(k) = p => ~Uses(k)

LEMMA TruthStays ==
  ASSUME Inv, Faultless, UNCHANGED call, \A p \in Owners : driver'[p] \in {driver[p], 0},
         \A p \in Owners : \/ Unused(p)
                           \/ /\ entry'[p].generation = entry[p].generation
                              /\ entry[p].connected => entry'[p].connected,
         \A s \in Sessions : \/ ReportFits(s)'
                             \/ /\ loop'[s] = loop[s]
                                /\ loop[s].step # "poll" /\ loop[s].command \in Range(queue'[s])
                                     => loop[s].command \in Range(queue[s])
  PROVE  Truth'
  <1>0. \A k \in Calls : /\ Owner(k)' = Owner(k) /\ Generation(k)' = Generation(k)
                         /\ (Uses(k)' <=> Uses(k)) /\ (Running(k)' <=> Running(k))
    BY OthersAsBefore
  <1>1. /\ \A k \in Calls : UseFits(k)
        /\ \A p \in Owners : Shown(p)
        /\ \A s \in Sessions : ReportFits(s)
        /\ \A k \in Calls : CallFits(k)
    BY DEF Inv, Truth, Sidecar
  <1>2. ASSUME NEW k \in Calls PROVE UseFits(k)'
    <2>1. CASE call[k].step = "idle"
      <3>1. ~Uses(k) /\ call'[k].step = "idle"
        BY <2>1 DEF Uses
      <3> QED BY <1>0, <3>1 DEF UseFits
    <2>2. CASE call[k].step # "idle"
      <3>1. Owner(k) \in Owners /\ UseFits(k)
        BY <1>1, <2>2 DEF CallFits
      <3>2. Uses(k) => entry'[Owner(k)].generation = Generation(k)
        BY <3>1 DEF UseFits, Unused
      <3>3. driver[Owner(k)] = 0 => driver'[Owner(k)] = 0
        BY <3>1
      <3> QED BY <1>0, <3>1, <3>2, <3>3 DEF UseFits
    <2> QED BY <2>1, <2>2
  <1>3. ASSUME NEW p \in Owners PROVE Shown(p)'
    <2>1. SUFFICES ASSUME driver'[p] # 0 PROVE Shown(p)'
      BY DEF Shown
    <2>2. driver'[p] = driver[p] /\ Shown(p) /\ ~Unused(p)
      BY <1>1, <2>1 DEF Unused
    <2>3. /\ entry'[p].generation = entry[p].generation
          /\ entry[p].connected => entry'[p].connected
      BY <2>2
    <2> QED BY <1>0, <2>1, <2>2, <2>3 DEF Shown
  <1>4. ASSUME NEW s \in Sessions PROVE ReportFits(s)'
    <2>1. CASE ReportFits(s)'
      BY <2>1
    <2>2. CASE /\ loop'[s] = loop[s]
               /\ loop[s].step # "poll" /\ loop[s].command \in Range(queue'[s])
                    => loop[s].command \in Range(queue[s])
      <3>1. SUFFICES ASSUME loop[s].step = "report", loop[s].command \in Range(queue'[s])
                     PROVE  ReportFits(s)'
        BY <2>2 DEF ReportFits
      <3>2. PICK cmd : cmd = loop[s].command
        OBVIOUS
      <3>3. /\ driver[cmd.owner] = 0
            /\ \A k \in Calls : Owner(k) = cmd.owner => ~Uses(k)
        BY <1>1, <2>2, <3>1, <3>2 DEF ReportFits
      <3>4. cmd.owner \in Owners
        BY <3>1, <3>2 DEF Inv, Sidecar, LoopFits, Given, AnyCommand
      <3>5. driver'[cmd.owner] = 0 /\ loop'[s].command = cmd
        BY <2>2, <3>2, <3>3, <3>4
      <3> QED BY <1>0, <3>3, <3>5 DEF ReportFits
    <2> QED BY <2>1, <2>2
  <1> QED BY <1>2, <1>3, <1>4 DEF Truth

\* The control loop of session s takes a step.
LEMMA ControlKeepsInv ==
  ASSUME Inv, NEW s \in Sessions, UNCHANGED <<limits, session, call>>, SidecarTypes',
         \A t \in Sessions : t # s => loop'[t] = loop[t],
         \A p \in Owners : driver'[p] \in {driver[p], 0},
         \A p \in Owners : holder'[p] = holder[p] \/ (holder[p] \in {None, Control} /\ p[1] = s),
         Registry', NEW gone, Follows(gone), gone \subseteq {loop[s].command},
         UNCHANGED <<closed, serviceClosed>>, LoopFits(s)',
         \A p \in Owners : entry'[p] = entry[p] \/ (Faultless => Unused(p)),
         Faultless => ReportFits(s)',
         loop[s].step # "poll" \/ gone = {}
  PROVE  Inv'
  <1>0. /\ Registry /\ SidecarTypes /\ Apart /\ Drivers /\ \A k \in Calls : CallFits(k)
        /\ \A t \in Sessions : LoopFits(t)
    BY DEF Inv, Sidecar
  <1>1. /\ nextGeneration \in Nat /\ nextGeneration' \in Nat /\ nextGeneration <= nextGeneration'
    BY <1>0 DEF Registry, RegistryTypes, Follows
  <1>2. ASSUME NEW k \in Calls PROVE CallFits(k)'
    <2>1. Generation(k) \in Nat /\ CallFits(k)
      BY <1>0, CallTypes
    <2>2. Holds(k) => call[k].step # "idle"
      BY <2>1, CallTypes DEF Holds
    <2>3. k # None /\ k # Control
      BY ConstantsAssumption
    <2>4. Holds(k) => holder'[Owner(k)] = holder[Owner(k)]
      BY <2>1, <2>2, <2>3 DEF CallFits
    <2>5. call[k].step # "idle" /\ driver[Owner(k)] = 0 => driver'[Owner(k)] = 0
      BY <2>1 DEF CallFits
    <2> QED BY <1>1, <2>1, <2>4, <2>5, CallStays
  <1>3. Apart'
    BY <1>0, ApartStays
  <1>4. Drivers'
    <2>1. ASSUME NEW o \in Owners
          PROVE  driver'[o] <= nextGeneration' /\ (session'[o[1]] # "open" => driver'[o] = 0)
      <3>1. driver[o] \in Nat /\ driver[o] <= nextGeneration /\ (session[o[1]] # "open" => driver[o] = 0)
        BY <1>0 DEF Drivers, SidecarTypes
      <3> QED BY <1>1, <3>1
    <2> QED BY <1>0, <2>1 DEF Drivers
  <1>5. ASSUME NEW t \in Sessions, t # s
        PROVE  /\ LoopFits(t)' /\ loop'[t] = loop[t]
               /\ loop[t].step # "poll" /\ loop[t].command \in Range(queue'[t])
                    => loop[t].command \in Range(queue[t])
    <2>1. CASE loop[t].step = "poll"
      BY <1>5, <2>1 DEF LoopFits
    <2>2. CASE loop[t].step # "poll"
      <3>1. loop[t].command.owner \in Owners /\ loop[t].command.owner[1] = t
        BY <1>0, <2>2 DEF LoopFits, Given, AnyCommand
      <3>2. holder'[loop[t].command.owner] = holder[loop[t].command.owner]
        BY <1>5, <3>1
      <3>3. loop[t].command \notin gone
        <4>1. CASE loop[s].step # "poll"
          <5>1. loop[s].command.owner[1] = s
            BY <1>0, <4>1 DEF LoopFits, Given
          <5> QED BY <1>5, <3>1, <5>1
        <4>2. CASE gone = {}
          BY <4>2
        <4> QED BY <4>1, <4>2
      <3> QED BY <1>0, <1>5, <3>2, <3>3, LoopStays
    <2> QED BY <2>1, <2>2
  <1>6. Sidecar'
    BY <1>2, <1>3, <1>4, <1>5 DEF Sidecar
  <1>7. Truth'
    <2>1. SUFFICES ASSUME Faultless PROVE Truth'
      BY DEF Truth, Faultless
    <2> QED BY <1>5, <2>1, TruthStays
  <1> QED BY <1>6, <1>7 DEF Inv

LEMMA LoopSet ==
  ASSUME SidecarTypes, NEW s \in Sessions, NEW l \in LoopState, loop' = [loop EXCEPT ![s] = l]
  PROVE  /\ loop' \in [Sessions -> LoopState] /\ loop'[s] = l
         /\ \A t \in Sessions : t # s => loop'[t] = loop[t]
  BY DEF SidecarTypes

LEMMA PollKeeps ==
  ASSUME Inv, NEW s \in Sessions, Poll(s)
  PROVE  Inv'
  <1>0. Registry /\ SidecarTypes
    BY DEF Inv, Sidecar
  <1>1. PICK cmd : cmd = Head(queue[s])
    OBVIOUS
  <1> DEFINE l == [step |-> "lock", command |-> cmd, ok |-> FALSE]
  <1>2. /\ session[s] = "open" /\ loop[s].step = "poll" /\ queue[s] # <<>>
        /\ loop' = [loop EXCEPT ![s] = l]
        /\ UNCHANGED <<registryVars, limits, session, driver, holder, call>>
    BY <1>1 DEF Poll
  <1>3. cmd \in Range(queue[s])
    <2>1. queue[s] \in Seq(AnyCommand)
      BY <1>0 DEF Registry, RegistryTypes
    <2>2. 1 \in DOMAIN queue[s] /\ cmd = queue[s][1]
      BY <1>1, <1>2, <2>1
    <2> QED BY <2>2 DEF Range
  <1>4. Given(cmd, s)
    BY <1>0, <1>3 DEF Registry, Queues
  <1>5. l \in LoopState
    BY <1>4 DEF LoopState, Given
  <1>6. /\ loop' \in [Sessions -> LoopState] /\ loop'[s] = l
        /\ \A t \in Sessions : t # s => loop'[t] = loop[t]
    BY <1>0, <1>2, <1>5, LoopSet
  <1>7. Registry' /\ Follows({}) /\ entry' = entry /\ UNCHANGED <<closed, serviceClosed>>
    BY <1>0, <1>2, UnchangedFollows, QuietEntries
  <1>8. SidecarTypes'
    BY <1>0, <1>2, <1>6 DEF SidecarTypes
  <1>9. LoopFits(s)'
    <2>1. queue' = queue /\ nextCommand' = nextCommand /\ nextGeneration' = nextGeneration
      BY <1>2 DEF registryVars
    <2>2. Given(cmd, s)'
      BY <1>4, <2>1 DEF Given
    <2> QED BY <1>2, <1>3, <1>6, <2>1, <2>2 DEF LoopFits
  <1>10. ReportFits(s)'
    BY <1>6 DEF ReportFits
  <1> QED BY <1>0, <1>2, <1>6, <1>7, <1>8, <1>9, <1>10, ControlKeepsInv

LEMMA LoopFacts ==
  ASSUME Inv, NEW s \in Sessions, loop[s].step # "poll"
  PROVE  /\ Registry /\ Sidecar /\ SidecarTypes /\ loop[s] \in LoopState
         /\ loop[s].command.owner \in Owners /\ loop[s].command.owner[1] = s
         /\ Given(loop[s].command, s) /\ session[s] = "open"
         /\ \/ loop[s].command \in Range(queue[s])
            \/ entry[loop[s].command.owner].generation # loop[s].command.generation
         /\ loop[s].step = "handle" => holder[loop[s].command.owner] = Control
         /\ loop[s].command \in AnyCommand
  <1>1. Registry /\ Sidecar /\ SidecarTypes /\ LoopFits(s)
    BY DEF Inv, Sidecar
  <1>2. loop[s] \in LoopState
    BY <1>1 DEF SidecarTypes
  <1> QED BY <1>1, <1>2 DEF LoopFits, Given, AnyCommand

LEMMA TakeControlKeeps ==
  ASSUME Inv, NEW s \in Sessions, TakeControl(s)
  PROVE  Inv'
  <1>1. PICK cmd : cmd = loop[s].command
    OBVIOUS
  <1>2. PICK o : o = cmd.owner
    OBVIOUS
  <1> DEFINE l == [loop[s] EXCEPT !.step = "handle"]
  <1>3. /\ loop[s].step = "lock" /\ holder[o] = None /\ holder' = [holder EXCEPT ![o] = Control]
        /\ loop' = [loop EXCEPT ![s] = l]
        /\ UNCHANGED <<registryVars, limits, session, driver, call>>
    BY <1>1, <1>2 DEF TakeControl, Lock
  <1>4. /\ Registry /\ Sidecar /\ SidecarTypes /\ loop[s] \in LoopState
        /\ o \in Owners /\ o[1] = s /\ Given(cmd, s) /\ session[s] = "open"
        /\ cmd \in Range(queue[s]) \/ entry[o].generation # cmd.generation
    BY <1>1, <1>2, <1>3, LoopFacts
  <1>5. l \in LoopState /\ l.step = "handle" /\ l.command = cmd
    BY <1>1, <1>4 DEF LoopState
  <1> HIDE DEF l
  <1>6. /\ loop' \in [Sessions -> LoopState] /\ loop'[s] = l
        /\ \A t \in Sessions : t # s => loop'[t] = loop[t]
    BY <1>3, <1>4, <1>5, LoopSet
  <1>7. /\ holder' \in [Owners -> Calls \cup {None, Control}] /\ holder'[o] = Control
        /\ \A p \in Owners : p # o => holder'[p] = holder[p]
    BY <1>3, <1>4 DEF SidecarTypes
  <1>8. Registry' /\ Follows({}) /\ entry' = entry /\ UNCHANGED <<closed, serviceClosed>>
    BY <1>3, <1>4, UnchangedFollows, QuietEntries
  <1>9. SidecarTypes'
    BY <1>3, <1>4, <1>6, <1>7 DEF SidecarTypes
  <1>10. LoopFits(s)'
    <2>1. queue' = queue /\ nextCommand' = nextCommand /\ nextGeneration' = nextGeneration
      BY <1>3 DEF registryVars
    <2>2. Given(cmd, s)'
      BY <1>4, <2>1 DEF Given
    <2> QED BY <1>2, <1>3, <1>4, <1>5, <1>6, <1>7, <1>8, <2>1, <2>2 DEF LoopFits
  <1>11. ReportFits(s)'
    BY <1>5, <1>6 DEF ReportFits
  <1>12. \A p \in Owners : holder'[p] = holder[p] \/ (holder[p] \in {None, Control} /\ p[1] = s)
    BY <1>3, <1>4, <1>7
  <1>13. driver' = driver
    BY <1>3
  <1> QED BY <1>3, <1>6, <1>8, <1>9, <1>10, <1>11, <1>12, <1>13, ControlKeepsInv

\* When a command was handled, nothing of its connection is in use any more.
LEMMA HandleKeeps ==
  ASSUME Inv, NEW s \in Sessions, Handle(s)
  PROVE  Inv'
  <1>1. PICK cmd : cmd = loop[s].command
    OBVIOUS
  <1>2. PICK o : o = cmd.owner
    OBVIOUS
  <1> DEFINE tests == {k \in ActiveTests(o) : Generation(k) = cmd.generation}
             mine == driver[o] = cmd.generation /\ \A k \in tests : ~call[k].own
  <1>3. /\ loop[s].step = "handle" /\ \A k \in tests : ~Running(k)
        /\ driver' = IF mine THEN [driver EXCEPT ![o] = 0] ELSE driver
        /\ \E ok \in BOOLEAN : loop' = [loop EXCEPT ![s].step = "report", ![s].ok = ok]
        /\ holder' = [holder EXCEPT ![o] = None]
        /\ UNCHANGED <<registryVars, limits, session, call>>
    BY <1>1, <1>2 DEF Handle, Unlock
  <1>4. /\ Registry /\ Sidecar /\ SidecarTypes /\ loop[s] \in LoopState
        /\ o \in Owners /\ o[1] = s /\ Given(cmd, s) /\ session[s] = "open" /\ holder[o] = Control
        /\ cmd \in Range(queue[s]) \/ entry[o].generation # cmd.generation
    BY <1>1, <1>2, <1>3, LoopFacts
  <1>5. PICK ok \in BOOLEAN : loop' = [loop EXCEPT ![s].step = "report", ![s].ok = ok]
    BY <1>3
  <1> DEFINE l1 == [loop[s] EXCEPT !.step = "report"]
             l == [l1 EXCEPT !.ok = ok]
  <1>6. l \in LoopState /\ l.step = "report" /\ l.command = cmd
    <2>1. l1 \in LoopState /\ l1.step = "report" /\ l1.command = cmd
      BY <1>1, <1>4 DEF LoopState
    <2> HIDE DEF l1
    <2> QED BY <2>1 DEF LoopState
  <1>7. loop' = [loop EXCEPT ![s] = l]
    BY <1>4, <1>5 DEF SidecarTypes
  <1> HIDE DEF l
  <1>8. /\ loop' \in [Sessions -> LoopState] /\ loop'[s] = l
        /\ \A t \in Sessions : t # s => loop'[t] = loop[t]
    BY <1>4, <1>6, <1>7, LoopSet
  <1>9. /\ holder' \in [Owners -> Calls \cup {None, Control}]
        /\ \A p \in Owners : p # o => holder'[p] = holder[p]
    BY <1>3, <1>4 DEF SidecarTypes
  <1>10. /\ driver' \in [Owners -> Nat] /\ \A p \in Owners : driver'[p] \in {driver[p], 0}
         /\ mine => driver'[o] = 0
    <2> HIDE DEF mine
    <2> QED BY <1>3, <1>4 DEF SidecarTypes
  <1>11. Registry' /\ Follows({}) /\ entry' = entry /\ UNCHANGED <<closed, serviceClosed>>
    BY <1>3, <1>4, UnchangedFollows, QuietEntries
  <1>12. SidecarTypes'
    BY <1>3, <1>4, <1>8, <1>9, <1>10 DEF SidecarTypes
  <1>13. queue' = queue /\ nextCommand' = nextCommand /\ nextGeneration' = nextGeneration
    BY <1>3 DEF registryVars
  <1>14. LoopFits(s)'
    <2>1. Given(cmd, s)'
      BY <1>4, <1>13 DEF Given
    <2> QED BY <1>2, <1>3, <1>4, <1>6, <1>8, <1>11, <1>13, <2>1 DEF LoopFits
  <1>15. Faultless => ReportFits(s)'
    <2> SUFFICES ASSUME Faultless, cmd \in Range(queue[s])
                 PROVE  /\ driver'[o] = 0
                        /\ \A k \in Calls : Owner(k)' = o => ~Uses(k)'
      BY <1>2, <1>6, <1>8, <1>13 DEF ReportFits
    <2>1. entry[o].generation = cmd.generation
      <3>1. cmd \in Waiting(o)
        BY <1>2, <1>4 DEF Waiting
      <3> QED BY <1>4, <3>1 DEF Registry, Phases, Acquired
    <2>2. Shown(o) /\ \A k \in Calls : UseFits(k) /\ CallFits(k)
      BY <1>4 DEF Inv, Truth, Sidecar
    <2>3. ASSUME NEW k \in Calls, Owner(k) = o, Uses(k) PROVE FALSE
      <3>1. call[k].step # "idle" /\ (Entering(k) \/ (Active(k) /\ Running(k)))
        BY <2>3, UsesOf
      <3>2. ~Holds(k)
        <4>1. k # Control
          BY ConstantsAssumption
        <4> QED BY <1>4, <2>2, <2>3, <3>1, <4>1 DEF CallFits
      <3>3. Active(k) /\ Running(k)
        BY <3>1, <3>2, HoldsEntering
      <3>4. Generation(k) = cmd.generation
        BY <2>1, <2>2, <2>3 DEF UseFits
      <3>5. k \in tests
        BY <2>3, <3>3, <3>4 DEF Active, ActiveTests
      <3> QED BY <1>3, <3>3, <3>5
    <2>4. driver'[o] = 0
      <3>1. CASE mine
        BY <1>10, <3>1
      <3>2. CASE driver[o] = 0
        BY <1>4, <1>10, <3>2
      <3>3. CASE driver[o] # 0 /\ ~mine
        <4>1. driver[o] = cmd.generation
          BY <2>1, <2>2, <3>3 DEF Shown
        <4>2. PICK k \in tests : call[k].own
          BY <3>3, <4>1
        <4>3. k \in Calls /\ Owner(k) = o /\ call[k].step # "idle"
          BY DEF ActiveTests
        <4> QED BY <2>2, <3>3, <4>2, <4>3 DEF CallFits
      <3> QED BY <3>1, <3>2, <3>3
    <2>5. \A k \in Calls : Owner(k)' = o => ~Uses(k)'
      BY <1>3, <2>3, OthersAsBefore
    <2> QED BY <2>4, <2>5
  <1>16. \A p \in Owners : holder'[p] = holder[p] \/ (holder[p] \in {None, Control} /\ p[1] = s)
    BY <1>4, <1>9
  <1> HIDE DEF tests, mine
  <1> QED BY <1>3, <1>8, <1>10, <1>11, <1>12, <1>14, <1>15, <1>16, ControlKeepsInv

LEMMA ReportKeeps ==
  ASSUME Inv, NEW s \in Sessions, Report(s)
  PROVE  Inv'
  <1>1. PICK cmd : cmd = loop[s].command
    OBVIOUS
  <1>2. PICK ok : ok = loop[s].ok
    OBVIOUS
  <1>3. /\ loop[s].step = "report" /\ UNCHANGED <<limits, session, driver, holder, call>>
        /\ loop' = [loop EXCEPT ![s] = IdleLoop]
        /\ ControlResult(cmd, ok) \/ UNCHANGED registryVars
    BY <1>1, <1>2 DEF Report
  <1>4. /\ Registry /\ Sidecar /\ SidecarTypes /\ ok \in BOOLEAN
        /\ cmd.owner \in Owners /\ cmd.owner[1] = s
    BY <1>1, <1>2, <1>3, LoopFacts DEF LoopState
  <1>5. IdleLoop \in LoopState /\ IdleLoop.step = "poll"
    BY DEF IdleLoop, LoopState
  <1>6. /\ loop' \in [Sessions -> LoopState] /\ loop'[s] = IdleLoop
        /\ \A t \in Sessions : t # s => loop'[t] = loop[t]
    BY <1>3, <1>4, <1>5, LoopSet
  <1>7. /\ Registry' /\ Follows({cmd}) /\ UNCHANGED <<closed, serviceClosed>>
        /\ \A p \in Owners : entry'[p] = entry[p] \/ (p = cmd.owner /\ cmd \in Range(queue[p[1]]))
    <2>1. CASE UNCHANGED registryVars
      <3>1. Registry' /\ Follows({}) /\ entry' = entry
        BY <1>4, <2>1, UnchangedFollows, QuietEntries
      <3> QED BY <2>1, <3>1, QuietEntries DEF Follows
    <2>2. CASE ControlResult(cmd, ok)
      BY <1>4, <2>2, ControlFollows
    <2> QED BY <1>3, <2>1, <2>2
  <1>8. SidecarTypes'
    BY <1>3, <1>4, <1>6 DEF SidecarTypes
  <1>9. LoopFits(s)' /\ ReportFits(s)'
    BY <1>5, <1>6 DEF LoopFits, ReportFits
  <1>10. ASSUME NEW p \in Owners PROVE entry'[p] = entry[p] \/ (Faultless => Unused(p))
    <2>1. SUFFICES ASSUME entry'[p] # entry[p], Faultless PROVE Unused(p)
      OBVIOUS
    <2>2. p = cmd.owner /\ cmd \in Range(queue[s])
      BY <1>4, <1>7, <2>1
    <2>3. ReportFits(s)
      BY <2>1 DEF Inv, Truth
    <2> QED BY <1>1, <1>3, <2>2, <2>3 DEF ReportFits, Unused
  <1>11. driver' = driver /\ holder' = holder
    BY <1>3
  <1>12. {cmd} \subseteq {loop[s].command} /\ loop[s].step # "poll"
    BY <1>1, <1>3
  <1> QED BY <1>3, <1>6, <1>7, <1>8, <1>9, <1>10, <1>11, <1>12, ControlKeepsInv

LEMMA DropSessionKeeps ==
  ASSUME Inv, NEW s \in Sessions, DropSession(s)
  PROVE  Inv'
  <1>0. /\ Registry /\ SidecarTypes /\ Apart /\ Drivers /\ \A k \in Calls : CallFits(k)
        /\ \A t \in Sessions : LoopFits(t)
    BY DEF Inv, Sidecar
  <1>1. /\ session[s] = "open" /\ \A k \in Calls : ~At(k, "idle") => Owner(k)[1] # s
        /\ session' = [session EXCEPT ![s] = "ending"]
        /\ driver' = [o \in Owners |-> IF o[1] = s THEN 0 ELSE driver[o]]
        /\ holder' = [o \in Owners |-> IF o[1] = s THEN None ELSE holder[o]]
        /\ loop' = [loop EXCEPT ![s] = IdleLoop]
        /\ UNCHANGED <<registryVars, limits, call>>
    BY DEF DropSession
  <1>2. IdleLoop \in LoopState /\ IdleLoop.step = "poll"
    BY DEF IdleLoop, LoopState
  <1>3. /\ loop' \in [Sessions -> LoopState] /\ loop'[s] = IdleLoop
        /\ \A t \in Sessions : t # s => loop'[t] = loop[t]
    BY <1>0, <1>1, <1>2, LoopSet
  <1>4. /\ session' \in [Sessions -> {"open", "ending", "ended"}] /\ session'[s] = "ending"
        /\ \A t \in Sessions : t # s => session'[t] = session[t]
    BY <1>0, <1>1 DEF SidecarTypes
  <1>5. /\ driver' \in [Owners -> Nat] /\ \A p \in Owners : driver'[p] = IF p[1] = s THEN 0 ELSE driver[p]
    BY <1>0, <1>1 DEF SidecarTypes
  <1>6. /\ holder' \in [Owners -> Calls \cup {None, Control}]
        /\ \A p \in Owners : p[1] # s => holder'[p] = holder[p]
    BY <1>0, <1>1 DEF SidecarTypes
  <1>7. SidecarTypes'
    BY <1>0, <1>1, <1>3, <1>4, <1>5, <1>6 DEF SidecarTypes
  <1>8. /\ Registry' /\ Follows({}) /\ entry' = entry /\ UNCHANGED <<closed, serviceClosed>>
        /\ nextGeneration' = nextGeneration /\ nextGeneration \in Nat
    BY <1>0, <1>1, UnchangedFollows, QuietEntries DEF registryVars, Registry, RegistryTypes
  <1>9. ASSUME NEW k \in Calls PROVE CallFits(k)'
    <2>1. CASE call[k].step = "idle"
      <3>1. CallFits(k) /\ call'[k] = call[k]
        BY <1>0, <1>1
      <3> QED BY <2>1, <3>1 DEF CallFits
    <2>2. CASE call[k].step # "idle"
      <3>1. Owner(k) \in Owners /\ Owner(k)[1] # s /\ Generation(k) \in Nat
        BY <1>0, <1>1, <2>2, CallTypes DEF At, CallFits
      <3>2. Owner(k)[1] \in Sessions
        BY <3>1, OwnerFacts
      <3>3. CallFits(k) /\ call'[k] = call[k]
        BY <1>0, <1>1
      <3>4. session'[Owner(k)[1]] = session[Owner(k)[1]] /\ holder'[Owner(k)] = holder[Owner(k)]
        BY <1>4, <1>6, <3>1, <3>2
      <3>5. driver[Owner(k)] = 0 => driver'[Owner(k)] = 0
        BY <1>5, <3>1
      <3>6. nextGeneration <= nextGeneration' /\ nextGeneration \in Nat /\ nextGeneration' \in Nat
        BY <1>8
      <3> QED BY <3>1, <3>3, <3>4, <3>5, <3>6, CallStays
    <2> QED BY <2>1, <2>2
  <1>10. Apart'
    BY <1>0, <1>1, ApartStays
  <1>11. Drivers'
    <2>1. ASSUME NEW o \in Owners
          PROVE  driver'[o] <= nextGeneration' /\ (session'[o[1]] # "open" => driver'[o] = 0)
      BY <1>0, <1>4, <1>5, <1>8, OwnerFacts DEF Drivers
    <2>2. \A t \in closed' : session'[t] = "ended"
      BY <1>0, <1>1, <1>4, <1>8 DEF Drivers, Registry, RegistryTypes
    <2> QED BY <2>1, <2>2 DEF Drivers
  <1>12. ASSUME NEW t \in Sessions, t # s
         PROVE  /\ LoopFits(t)' /\ loop'[t] = loop[t]
                /\ loop[t].step # "poll" /\ loop[t].command \in Range(queue'[t])
                     => loop[t].command \in Range(queue[t])
    <2>1. CASE loop[t].step = "poll"
      BY <1>3, <1>12, <2>1 DEF LoopFits
    <2>2. CASE loop[t].step # "poll"
      <3>1. loop[t].command.owner \in Owners /\ loop[t].command.owner[1] = t
        BY <2>2, LoopFacts
      <3>2. loop[t].command \notin {}
        OBVIOUS
      <3> QED BY <1>0, <1>3, <1>4, <1>6, <1>8, <1>12, <3>1, <3>2, LoopStays
    <2> QED BY <2>1, <2>2
  <1>13. LoopFits(s)' /\ ReportFits(s)'
    BY <1>2, <1>3 DEF LoopFits, ReportFits
  <1>14. Sidecar'
    BY <1>7, <1>9, <1>10, <1>11, <1>12, <1>13 DEF Sidecar
  <1>15. Truth'
    <2>1. SUFFICES ASSUME Faultless PROVE Truth'
      BY <1>1, <1>8 DEF Truth, Faultless
    <2> QED BY <1>1, <1>5, <1>8, <1>12, <1>13, <2>1, TruthStays
  <1> QED BY <1>8, <1>14, <1>15 DEF Inv

LEMMA SendClosedKeeps ==
  ASSUME Inv, NEW s \in Sessions, SendClosed(s)
  PROVE  Inv'
  <1>0. /\ Registry /\ SidecarTypes /\ Apart /\ Drivers /\ \A k \in Calls : CallFits(k)
        /\ \A t \in Sessions : LoopFits(t)
    BY DEF Inv, Sidecar
  <1>1. /\ session[s] = "ending" /\ session' = [session EXCEPT ![s] = "ended"]
        /\ CloseSession(s) \/ UNCHANGED registryVars
        /\ limits' = limits /\ driver' = driver /\ holder' = holder /\ loop' = loop /\ call' = call
    BY DEF SendClosed
  <1>2. /\ session' \in [Sessions -> {"open", "ending", "ended"}] /\ session'[s] = "ended"
        /\ \A t \in Sessions : t # s => session'[t] = session[t]
    BY <1>0, <1>1 DEF SidecarTypes
  <1>3. SidecarTypes'
    BY <1>0, <1>1, <1>2 DEF SidecarTypes
  <1>4. /\ Registry' /\ Follows({}) /\ serviceClosed' = serviceClosed
        /\ closed' \subseteq closed \cup {s}
        /\ \A p \in Owners : entry'[p] = entry[p] \/ p[1] = s
    <2>1. CASE CloseSession(s)
      BY <1>0, <2>1, CloseFollows
    <2>2. CASE UNCHANGED registryVars
      BY <1>0, <2>2, UnchangedFollows, QuietEntries
    <2> QED BY <1>1, <2>1, <2>2
  <1>5. /\ nextGeneration \in Nat /\ nextGeneration' \in Nat /\ nextGeneration <= nextGeneration'
    BY <1>0, <1>4 DEF Registry, RegistryTypes, Follows
  <1>6. ASSUME NEW k \in Calls PROVE CallFits(k)'
    <2>1. CASE call[k].step = "idle"
      <3>1. CallFits(k) /\ call'[k] = call[k]
        BY <1>0, <1>1
      <3> QED BY <2>1, <3>1 DEF CallFits
    <2>2. CASE call[k].step # "idle"
      <3>1. Owner(k) \in Owners /\ session[Owner(k)[1]] = "open" /\ Generation(k) \in Nat
        BY <1>0, <2>2, CallTypes DEF CallFits
      <3>2. Owner(k)[1] \in Sessions /\ Owner(k)[1] # s
        BY <1>1, <3>1, OwnerFacts
      <3> QED BY <1>0, <1>1, <1>2, <1>5, <3>1, <3>2, CallStays
    <2> QED BY <2>1, <2>2
  <1>7. Apart'
    BY <1>0, <1>1, ApartStays
  <1>8. Drivers'
    <2>1. ASSUME NEW o \in Owners
          PROVE  driver'[o] <= nextGeneration' /\ (session'[o[1]] # "open" => driver'[o] = 0)
      <3>1. driver[o] \in Nat /\ driver[o] <= nextGeneration /\ (session[o[1]] # "open" => driver[o] = 0)
        BY <1>0 DEF Drivers, SidecarTypes
      <3>2. session'[o[1]] # "open" => session[o[1]] # "open"
        BY <1>1, <1>2, OwnerFacts
      <3> QED BY <1>1, <1>5, <3>1, <3>2
    <2>2. ASSUME NEW t \in closed' PROVE session'[t] = "ended"
      <3>1. t \in Sessions
        BY <1>4 DEF Registry, RegistryTypes
      <3> QED BY <1>0, <1>2, <1>4, <3>1 DEF Drivers
    <2> QED BY <2>1, <2>2 DEF Drivers
  <1>9. ASSUME NEW t \in Sessions
        PROVE  /\ LoopFits(t)'
               /\ loop[t].step # "poll" /\ loop[t].command \in Range(queue'[t])
                    => loop[t].command \in Range(queue[t])
    <2>1. loop[t].step # "poll" => session'[t] = session[t]
      BY <1>1, <1>2, LoopFacts
    <2>2. loop[t].command \notin {}
      OBVIOUS
    <2> QED BY <1>0, <1>1, <1>4, <2>1, <2>2, LoopStays
  <1>10. Sidecar'
    BY <1>3, <1>6, <1>7, <1>8, <1>9 DEF Sidecar
  <1>11. Truth'
    <2>1. SUFFICES ASSUME Faultless PROVE Truth'
      BY <1>1, <1>4 DEF Truth, Faultless
    <2>2. ASSUME NEW p \in Owners, p[1] = s PROVE Unused(p)
      <3>1. driver[p] = 0
        BY <1>0, <1>1, <2>2 DEF Drivers
      <3>2. ASSUME NEW k \in Calls, Owner(k) = p, Uses(k) PROVE FALSE
        BY <1>0, <1>1, <2>2, <3>2 DEF Uses, CallFits
      <3> QED BY <3>1, <3>2 DEF Unused
    <2>3. ASSUME NEW p \in Owners
          PROVE  \/ Unused(p)
                 \/ /\ entry'[p].generation = entry[p].generation
                    /\ entry[p].connected => entry'[p].connected
      BY <1>4, <2>2
    <2> QED BY <1>1, <1>9, <2>1, <2>3, TruthStays
  <1> QED BY <1>4, <1>10, <1>11 DEF Inv

\* The App does something of its own.
LEMMA AppKeepsInv ==
  ASSUME Inv, UNCHANGED sidecarVars, Registry', Follows({}), closed' \subseteq closed,
         Faultless' => /\ Faultless
                       /\ \A p \in Owners : /\ entry'[p].generation = entry[p].generation
                                            /\ entry[p].connected => entry'[p].connected
  PROVE  Inv'
  <1>0. /\ Registry /\ SidecarTypes /\ Apart /\ Drivers /\ \A k \in Calls : CallFits(k)
        /\ \A t \in Sessions : LoopFits(t)
    BY DEF Inv, Sidecar
  <1>1. /\ limits' = limits /\ session' = session /\ driver' = driver /\ holder' = holder
        /\ loop' = loop /\ call' = call
    BY DEF sidecarVars
  <1>2. SidecarTypes' /\ Apart'
    BY <1>0, <1>1, ApartStays DEF SidecarTypes
  <1>3. /\ nextGeneration \in Nat /\ nextGeneration' \in Nat /\ nextGeneration <= nextGeneration'
    BY <1>0 DEF Registry, RegistryTypes, Follows
  <1>4. ASSUME NEW k \in Calls PROVE CallFits(k)'
    <2>1. CallFits(k) /\ Generation(k) \in Nat
      BY <1>0, CallTypes
    <2> QED BY <1>1, <1>3, <2>1, CallStays
  <1>5. Drivers'
    <2>1. ASSUME NEW o \in Owners
          PROVE  driver'[o] <= nextGeneration' /\ (session'[o[1]] # "open" => driver'[o] = 0)
      <3>1. driver[o] \in Nat /\ driver[o] <= nextGeneration /\ (session[o[1]] # "open" => driver[o] = 0)
        BY <1>0 DEF Drivers, SidecarTypes
      <3> QED BY <1>1, <1>3, <3>1
    <2> QED BY <1>0, <1>1, <2>1 DEF Drivers
  <1>6. ASSUME NEW t \in Sessions
        PROVE  /\ LoopFits(t)'
               /\ loop[t].step # "poll" /\ loop[t].command \in Range(queue'[t])
                    => loop[t].command \in Range(queue[t])
    <2>1. loop[t].command \notin {}
      OBVIOUS
    <2> QED BY <1>0, <1>1, <2>1, LoopStays
  <1>7. Sidecar'
    BY <1>2, <1>4, <1>5, <1>6 DEF Sidecar
  <1>8. Truth'
    <2>1. SUFFICES ASSUME Faultless' PROVE Truth'
      BY DEF Truth
    <2> QED BY <1>1, <1>6, <2>1, TruthStays
  <1> QED BY <1>7, <1>8 DEF Inv

LEMMA ForceKeeps ==
  ASSUME Inv, NEW f \in Callers,
         \/ \E c \in Connections : ForceDisconnect(f, c)
         \/ ForceReturns(f) \/ ForceTimesOut(f) \/ ForceAgain(f)
  PROVE  Inv'
  <1>1. Registry /\ RegistryTypes
    BY DEF Inv, Registry
  <1>2. UNCHANGED sidecarVars
    BY DEF ForceDisconnect, ForceReturns, ForceTimesOut, ForceAgain
  <1>3. /\ Registry' /\ Follows({}) /\ UNCHANGED <<closed, serviceClosed>>
        /\ \A p \in Owners : /\ entry'[p].generation = entry[p].generation
                             /\ entry'[p].connected = entry[p].connected
    <2>1. CASE \E c \in Connections : ForceDisconnect(f, c)
      BY <1>1, <2>1, ForceDisconnectFollows
    <2>2. CASE ForceReturns(f) \/ ForceTimesOut(f) \/ ForceAgain(f)
      <3>1. ForceMoves(f)
        BY <1>1, <2>2, ForceReturnsMoves, ForceEndsMoves
      <3> QED BY <1>1, <3>1, ForceMovesFollows DEF ForceMoves
    <2> QED BY <2>1, <2>2
  <1>4. Faultless' => Faultless
    BY <1>2, <1>3 DEF Faultless, sidecarVars
  <1> QED BY <1>2, <1>3, <1>4, AppKeepsInv

LEMMA ResetKeeps ==
  ASSUME Inv, ResetService
  PROVE  Inv'
  <1>1. Registry' /\ Follows({}) /\ closed' = {} /\ serviceClosed'
    BY ResetFollows DEF Inv
  <1>2. UNCHANGED sidecarVars
    BY DEF ResetService
  <1> QED BY <1>1, <1>2, AppKeepsInv DEF Faultless

LEMMA BeginKeeps ==
  ASSUME Inv, NEW k \in Calls, NEW op \in limits.operations, NEW o \in Owners, BeginCall(k, op, o)
  PROVE  Inv'
  <1>0. /\ Registry /\ Sidecar /\ SidecarTypes /\ Apart /\ Drivers /\ \A j \in Calls : CallFits(j)
        /\ \A t \in Sessions : LoopFits(t)
    BY DEF Inv, Sidecar
  <1> DEFINE c == [IdleCall EXCEPT !.step = "lock", !.op = op, !.owner = o]
  <1>1. /\ call[k].step = "idle" /\ session[o[1]] = "open" /\ call' = [call EXCEPT ![k] = c]
        /\ UNCHANGED <<registryVars, limits, session, driver, holder, loop>>
    BY DEF BeginCall, At
  <1>2. op \in {"connect", "test", "disconnect"}
    BY <1>0, ConstantsAssumption DEF SidecarTypes
  <1>3. PICK x : x = IdleCall
    OBVIOUS
  <1>4. x \in AnyCall /\ x.generation = 0 /\ ~x.own
    BY <1>3 DEF IdleCall, AnyCall
  <1>5. c \in AnyCall /\ c.step = "lock" /\ c.op = op /\ c.owner = o /\ c.generation = 0 /\ ~c.own
    <2> DEFINE a == [x EXCEPT !.step = "lock"]
               b == [a EXCEPT !.op = op]
               d == [b EXCEPT !.owner = o]
    <2>1. a \in AnyCall /\ a.step = "lock" /\ a.generation = 0 /\ ~a.own
      BY <1>4 DEF AnyCall
    <2>2. c = d
      BY <1>3
    <2> HIDE DEF a
    <2>3. b \in AnyCall /\ b.step = "lock" /\ b.op = op /\ b.generation = 0 /\ ~b.own
      BY <1>2, <2>1 DEF AnyCall
    <2> HIDE DEF b
    <2>4. d \in AnyCall /\ d.step = "lock" /\ d.op = op /\ d.owner = o /\ d.generation = 0 /\ ~d.own
      BY <2>3 DEF AnyCall
    <2> QED BY <2>2, <2>4
  <1> HIDE DEF c
  <1>6. /\ call' \in [Calls -> AnyCall] /\ call'[k] = c
        /\ \A j \in Calls : j # k => call'[j] = call[j]
    BY <1>0, <1>1, <1>5, CallSet
  <1>7. /\ Registry' /\ Follows({}) /\ entry' = entry /\ UNCHANGED <<closed, serviceClosed>>
    BY <1>0, <1>1, UnchangedFollows, QuietEntries
  <1>8. /\ nextGeneration' = nextGeneration /\ nextGeneration \in Nat /\ queue' = queue
        /\ nextCommand' = nextCommand
    BY <1>0, <1>1 DEF registryVars, Registry, RegistryTypes
  <1>9. ~Active(k)' /\ ~Entering(k)' /\ ~Uses(k)' /\ ~Running(k)' /\ ~Holds(k)'
    BY <1>5, <1>6 DEF Active, Entering, Uses, Running, Holds
  <1>10. \A j \in Calls : j # k => /\ Owner(j)' = Owner(j) /\ Generation(j)' = Generation(j)
                                  /\ (Active(j)' <=> Active(j)) /\ (Entering(j)' <=> Entering(j))
                                  /\ (Uses(j)' <=> Uses(j)) /\ (Running(j)' <=> Running(j))
    BY <1>6, OthersAsBefore
  <1>11. ASSUME NEW j \in Calls PROVE CallFits(j)'
    <2>1. CASE j # k
      <3>1. CallFits(j) /\ Generation(j) \in Nat
        BY <1>0, CallTypes
      <3> QED BY <1>1, <1>6, <1>8, <2>1, <3>1, CallStays
    <2>2. CASE j = k
      <3>1. Owner(k)' = o /\ Generation(k)' = 0
        BY <1>5, <1>6 DEF Owner, Generation
      <3> QED BY <1>1, <1>2, <1>5, <1>6, <1>8, <1>9, <2>2, <3>1 DEF CallFits, StepsOf
    <2> QED BY <2>1, <2>2
  <1>12. Apart'
    BY <1>0, <1>9, <1>10 DEF Apart
  <1>13. SidecarTypes' /\ Drivers'
    BY <1>0, <1>1, <1>6, <1>7, <1>8 DEF SidecarTypes, Drivers
  <1>14. ASSUME NEW t \in Sessions PROVE LoopFits(t)'
    <2>1. LoopFits(t)
      BY <1>0
    <2> QED BY <1>1, <1>7, <1>8, <2>1 DEF LoopFits, Given
  <1>15. Sidecar'
    BY <1>11, <1>12, <1>13, <1>14 DEF Sidecar
  <1>16. Truth'
    <2>1. SUFFICES ASSUME Faultless
                   PROVE  /\ \A j \in Calls : UseFits(j)'
                          /\ \A p \in Owners : Shown(p)'
                          /\ \A s \in Sessions : ReportFits(s)'
      BY <1>1, <1>7 DEF Truth, Faultless
    <2>2. /\ \A j \in Calls : UseFits(j)
          /\ \A p \in Owners : Shown(p)
          /\ \A s \in Sessions : ReportFits(s)
      BY <2>1 DEF Inv, Truth
    <2>3. ASSUME NEW j \in Calls PROVE UseFits(j)'
      <3>1. CASE j = k
        BY <1>5, <1>6, <1>9, <3>1 DEF UseFits
      <3>2. CASE j # k
        <4>1. call'[j] = call[j] /\ driver' = driver /\ UseFits(j)
          BY <1>1, <1>6, <2>2, <3>2
        <4>2. \A n \in Calls : Owner(n)' = Owner(j) /\ Running(n)' => Owner(n) = Owner(j) /\ Running(n)
          BY <1>9, <1>10
        <4> QED BY <1>7, <1>10, <3>2, <4>1, <4>2 DEF UseFits
      <3> QED BY <3>1, <3>2
    <2>4. ASSUME NEW p \in Owners PROVE Shown(p)'
      <3>1. Shown(p) /\ driver' = driver
        BY <1>1, <2>2
      <3>2. (\E i \in Calls : Owner(i) = p /\ call[i].step \in {"commit", "rollback"})
              => \E i \in Calls : Owner(i)' = p /\ call'[i].step \in {"commit", "rollback"}
        <4>1. SUFFICES ASSUME NEW i \in Calls, Owner(i) = p, call[i].step \in {"commit", "rollback"}
                       PROVE  Owner(i)' = p /\ call'[i].step \in {"commit", "rollback"}
          OBVIOUS
        <4>2. i # k
          BY <1>1, <4>1
        <4> QED BY <1>6, <1>10, <4>1, <4>2
      <3> QED BY <1>7, <3>1, <3>2 DEF Shown
    <2>5. ASSUME NEW s \in Sessions PROVE ReportFits(s)'
      <3>1. ReportFits(s) /\ driver' = driver /\ loop' = loop /\ queue' = queue
        BY <1>1, <1>8, <2>2
      <3>2. \A i \in Calls : Uses(i)' => Owner(i)' = Owner(i) /\ Uses(i)
        BY <1>9, <1>10
      <3> QED BY <3>1, <3>2 DEF ReportFits
    <2> QED BY <2>3, <2>4, <2>5
  <1> QED BY <1>7, <1>15, <1>16 DEF Inv

-----------------------------------------------------------------------------
(* The invariant holds in every behaviour *)

LEMMA InitRegistry == Init => Registry
  <1> SUFFICES ASSUME Init PROVE Registry
    OBVIOUS
  <1>1. /\ entry = [o \in Owners |-> NoEntry] /\ nextGeneration = 0 /\ nextCommand = 0
        /\ queue = [s \in Sessions |-> <<>>] /\ closed = {} /\ serviceClosed = FALSE
        /\ force = [f \in Callers |-> IdleForce]
    BY DEF Init
  <1>2. NoEntry \in Entry /\ NoEntry.generation = 0 /\ ~NoEntry.disconnecting
    BY DEF NoEntry, Entry
  <1>3. IdleForce \in Waiter /\ IdleForce.step = "idle" /\ IdleForce.pending = {}
    BY DEF IdleForce, Waiter
  <1>4. <<>> \in Seq(AnyCommand)
    OBVIOUS
  <1>5. RegistryTypes
    BY <1>1, <1>2, <1>3, <1>4 DEF RegistryTypes
  <1>6. Range(<<>>) = {}
    BY DEF Range
  <1>7. \A s \in Sessions : Range(queue[s]) = {}
    BY <1>1, <1>6
  <1>8. \A o \in Owners : Waiting(o) = {} /\ entry[o].generation = 0 /\ ~entry[o].disconnecting
    BY <1>1, <1>2, <1>7, OwnerFacts DEF Waiting
  <1>9. Queues /\ Phases
    BY <1>1, <1>7, <1>8 DEF Queues, Phases
  <1>10. Waiters
    BY <1>1, <1>3 DEF Waiters
  <1> QED BY <1>5, <1>9, <1>10 DEF Registry

LEMMA InitSidecar == Init => Sidecar /\ Truth
  <1> SUFFICES ASSUME Init PROVE Sidecar /\ Truth
    OBVIOUS
  <1>1. /\ limits \in Limits /\ session = [s \in Sessions |-> "open"]
        /\ driver = [o \in Owners |-> 0] /\ holder = [o \in Owners |-> None]
        /\ loop = [s \in Sessions |-> IdleLoop] /\ call = [k \in Calls |-> IdleCall]
        /\ closed = {} /\ nextGeneration = 0
    BY DEF Init
  <1>2. IdleLoop \in LoopState /\ IdleLoop.step = "poll"
    BY DEF IdleLoop, LoopState
  <1>3. IdleCall \in AnyCall /\ IdleCall.step = "idle" /\ IdleCall.op = "none" /\ ~IdleCall.own
    BY DEF IdleCall, AnyCall
  <1>4. SidecarTypes
    BY <1>1, <1>2, <1>3 DEF SidecarTypes
  <1>5. \A k \in Calls : /\ call[k].step = "idle" /\ call[k].op = "none" /\ ~call[k].own
    BY <1>1, <1>3
  <1>6. \A s \in Sessions : loop[s].step = "poll"
    BY <1>1, <1>2
  <1>7. \A o \in Owners : driver[o] = 0
    BY <1>1
  <1>8. Apart /\ \A k \in Calls : CallFits(k) /\ UseFits(k)
    BY <1>5 DEF Apart, Active, CallFits, UseFits, Uses
  <1>9. \A s \in Sessions : LoopFits(s) /\ ReportFits(s)
    BY <1>6 DEF LoopFits, ReportFits
  <1>10. Drivers /\ \A o \in Owners : Shown(o)
    BY <1>1, <1>7 DEF Drivers, Shown
  <1> QED BY <1>4, <1>8, <1>9, <1>10 DEF Sidecar, Truth

LEMMA StutterKeeps == Inv /\ UNCHANGED vars => Inv'
  <1> SUFFICES ASSUME Inv, UNCHANGED vars PROVE Inv'
    OBVIOUS
  <1>1. UNCHANGED sidecarVars /\ UNCHANGED registryVars /\ Registry
    BY DEF vars, Inv
  <1>2. /\ Registry' /\ Follows({}) /\ entry' = entry
        /\ UNCHANGED <<closed, serviceClosed>>
    BY <1>1, UnchangedFollows, QuietEntries
  <1>3. Faultless' => Faultless
    BY <1>1, <1>2 DEF Faultless, sidecarVars
  <1> QED BY <1>1, <1>2, <1>3, AppKeepsInv

LEMMA CallStepKeeps ==
  ASSUME Inv, NEW k \in Calls, CallStep(k)
  PROVE  Inv'
  <1>1. CASE EnterConnect(k) \/ AcquireAnswered(k) \/ AcquireInterrupted(k) \/ Dial(k) \/ DialFails(k)
    BY <1>1, EnterConnectKeeps, AcquireAnsweredKeeps, AcquireInterruptedKeeps, DialKeeps, DialFailsKeeps
  <1>2. CASE Commit(k) \/ CommitLost(k) \/ Rollback(k) \/ Release(k) \/ ReleaseInterrupted(k)
    BY <1>2, CommitKeeps, RollbackKeeps, ReleaseKeeps
  <1>3. CASE CleanDriver(k) \/ CleanRelease(k)
    BY <1>3, CleanDriverKeeps, CleanReleaseKeeps
  <1>4. CASE EnterTest(k) \/ TestRuns(k) \/ TestEnds(k)
    BY <1>4, EnterTestKeeps, TestRunsKeeps, TestEndsKeeps
  <1>5. CASE EnterDisconnect(k) \/ Stop(k) \/ Tell(k)
    BY <1>5, EnterDisconnectKeeps, StopKeeps, TellKeeps
  <1> QED
    BY <1>1, <1>2, <1>3, <1>4, <1>5 DEF CallStep, ConnectStep, CleanupStep, TestStep, DisconnectStep

LEMMA NextKeeps == Inv /\ Next => Inv'
  <1> SUFFICES ASSUME Inv, Next PROVE Inv'
    OBVIOUS
  <1>1. limits.callers \subseteq Callers
    <2>1. limits \in Limits
      BY DEF Inv, Sidecar, SidecarTypes
    <2> QED BY <2>1, ConstantsAssumption
  <1>2. CASE \E f \in limits.callers : \/ \E c \in Connections : ForceDisconnect(f, c)
                                       \/ ForceReturns(f) \/ ForceTimesOut(f) \/ ForceAgain(f)
    BY <1>1, <1>2, ForceKeeps
  <1>3. CASE \E k \in Calls : \E op \in limits.operations, o \in Owners : BeginCall(k, op, o)
    BY <1>3, BeginKeeps
  <1>4. CASE \E k \in Calls : CallStep(k) \/ Refused(k) \/ Abandon(k)
    BY <1>4, CallStepKeeps, RefusedKeeps, AbandonKeeps
  <1>5. CASE \E s \in Sessions : ControlStep(s)
    BY <1>5, PollKeeps, TakeControlKeeps, HandleKeeps, ReportKeeps DEF ControlStep
  <1>6. CASE \E s \in Sessions : DropSession(s) \/ SendClosed(s)
    BY <1>6, DropSessionKeeps, SendClosedKeeps
  <1>7. CASE ResetService
    BY <1>7, ResetKeeps
  <1> QED BY <1>2, <1>3, <1>4, <1>5, <1>6, <1>7 DEF Next

\* Every behaviour keeps the invariant: the entry of an owner is disconnecting
\* exactly while its one command is queued, a call has the lock and the
\* generation its step needs, one test is registered at a time and no connect is
\* beside it, and while nothing is lost the App's entry is true of the driver.
THEOREM InvariantHolds == Spec => []Inv
  <1>1. Init => Inv
    BY InitRegistry, InitSidecar DEF Inv
  <1>2. Inv /\ [Next]_vars => Inv'
    BY NextKeeps, StutterKeeps
  <1> QED BY <1>1, <1>2, PTL DEF Spec

-----------------------------------------------------------------------------
(* What follows from it *)

\* A command or a release meant for one generation never reaches another one,
\* whatever is lost or abandoned: no driver of another tool call is closed, no
\* command is queued for a generation that is gone, and nobody waits in
\* force_disconnect for a command that is not there.
THEOREM GenerationsAreSeparate == Spec => []GenerationsStaySeparate
  <1>1. Inv => GenerationsStaySeparate
    <2> SUFFICES ASSUME Inv PROVE GenerationsStaySeparate
      OBVIOUS
    <2>1. /\ Registry /\ Phases /\ Waiters /\ \A k \in Calls : CallFits(k)
          /\ \A s \in Sessions : LoopFits(s)
      BY DEF Inv, Registry, Sidecar
    <2>2. ASSUME NEW k \in Calls, call[k].op = "test", call[k].own
          PROVE  driver[Owner(k)] # Generation(k)
      <3>1. CallFits(k) /\ call[k].step # "idle"
        BY <2>1, <2>2 DEF CallFits
      <3> QED BY <2>2, <3>1 DEF CallFits, Active
    <2>3. TestReleaseHitsNoSession
      BY <2>2 DEF TestReleaseHitsNoSession
    <2>4. ASSUME NEW o \in Owners
          PROVE  IF entry[o].disconnecting
                 THEN \E cmd \in Waiting(o) : Waiting(o) = {cmd} /\ Acquired(o, cmd.generation)
                 ELSE Waiting(o) = {}
      BY <2>1 DEF Phases
    <2>5. ASSUME NEW s \in Sessions, loop[s].step \in {"lock", "handle"},
                 loop[s].command \notin Range(queue[s])
          PROVE  entry[loop[s].command.owner].generation # loop[s].command.generation
      BY <2>1, <2>5 DEF LoopFits
    <2>6. \A f \in Callers : force[f].pending \subseteq UNION {IdsOf(Range(queue[s])) : s \in Sessions}
      BY <2>1 DEF Waiters
    <2>7. CommandsFitTheirGeneration
      BY <2>4, <2>5, <2>6 DEF CommandsFitTheirGeneration, Waiting
    <2> QED BY <2>3, <2>7 DEF GenerationsStaySeparate
  <1> QED BY <1>1, InvariantHolds, PTL

\* While nothing is lost, the App shows every driver that nothing is working on
\* as a connected use of its profile: commit_connected and the rollback of a
\* refused connect leave no session the App does not know of.
THEOREM OpenSessionsAreShown == Spec => []OpenSessionIsShown
  <1>1. Inv => OpenSessionIsShown
    <2> SUFFICES ASSUME Inv, limits.faults = {}, NEW o \in Owners, driver[o] # 0, Settled(o), ~serviceClosed
                 PROVE  entry[o].generation = driver[o] /\ entry[o].connected
      BY DEF OpenSessionIsShown
    <2>1. Shown(o) /\ \A k \in Calls : CallFits(k)
      BY DEF Inv, Sidecar, Truth, Faultless
    <2>2. ASSUME NEW k \in Calls, Owner(k) = o, call[k].step \in {"commit", "rollback"} PROVE FALSE
      <3>1. holder[o] = k
        BY <2>1, <2>2 DEF CallFits, Holds
      <3> QED BY <3>1, ConstantsAssumption DEF Settled
    <2> QED BY <2>1, <2>2 DEF Shown
  <1> QED BY <1>1, InvariantHolds, PTL

\* While nothing is lost, a force_disconnect that reports success has ended every
\* generation it asked for: its driver is closed and no test runs on it.
THEOREM SuccessIsDisconnected == Spec => []SuccessMeansDisconnected
  <1>1. Inv => SuccessMeansDisconnected
    <2> SUFFICES ASSUME Inv, limits.faults = {}, NEW f \in Callers, force[f].step = "done", ~serviceClosed,
                        NEW ask \in force[f].asked
                 PROVE  /\ driver[ask[1]] # ask[2]
                        /\ \A k \in Calls : Owner(k) = ask[1] /\ Generation(k) = ask[2] => ~Running(k)
      BY DEF SuccessMeansDisconnected
    <2>1. /\ RegistryTypes /\ Waiters /\ \A k \in Calls : UseFits(k)
          /\ \A o \in Owners : Shown(o)
      BY DEF Inv, Registry, Truth, Faultless
    <2>2. ask[1] \in Owners /\ ask[2] \in Nat
      <3>1. force[f].asked \subseteq Owners \X Nat
        BY <2>1 DEF RegistryTypes, Waiter
      <3> QED BY <3>1
    <2>3. force[f].pending = {} /\ ~force[f].failed
      BY <2>1 DEF Waiters
    <2>4. ask[2] \in 1..nextGeneration /\ entry[ask[1]].generation # ask[2]
      <3>1. ~Pends(f, ask[1], ask[2])
        BY <2>3 DEF Pends
      <3> QED BY <2>1, <2>3, <3>1 DEF Waiters
    <2>5. driver[ask[1]] # ask[2]
      BY <2>1, <2>2, <2>4 DEF Shown, RegistryTypes
    <2>6. ASSUME NEW k \in Calls, Owner(k) = ask[1], Generation(k) = ask[2], Running(k)
          PROVE  FALSE
      <3>1. Uses(k)
        BY <2>6 DEF Running, Uses
      <3> QED BY <2>1, <2>4, <2>6, <3>1 DEF UseFits
    <2> QED BY <2>5, <2>6
  <1> QED BY <1>1, InvariantHolds, PTL
=============================================================================
