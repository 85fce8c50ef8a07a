----------------------- MODULE GridTransactionsProofs -----------------------
(***************************************************************************)
(* TLAPS proofs about GridTransactions: whatever a tab, its transactions   *)
(* and the database do, and in whatever order, an edit reaches the         *)
(* database once, or the user knows that it has not.                       *)
(***************************************************************************)
EXTENDS GridTransactions, SequenceTheorems, TLAPS

-----------------------------------------------------------------------------
(* The inductive invariant *)

\* The part of the types the argument needs.
Types ==
  /\ durable \in [Batches -> Nat] /\ actors \in Seq(Actor) /\ tab \in Tab
  /\ calls \in [Callers -> Call \cup {None}]
  /\ tab.tx \in 0..Len(actors)
  /\ \A c \in Callers : calls[c] # None => calls[c].tx \in 0..Len(actors)
  /\ staged \in 0..MaxBatches /\ tab.changes <= staged /\ gaveUp \subseteq Batches

\* Nothing of the batch is in the database or on its way into it.
Fresh(b) == durable[b] = 0 /\ \A t \in DOMAIN actors : b \notin actors[t].written

\* The database has a batch once, and at most one transaction is writing it.
WrittenOnce ==
  /\ \A b \in Batches : durable[b] <= 1 /\ (durable[b] > 0 => b <= staged)
  /\ \A t \in DOMAIN actors : \A b \in actors[t].written : durable[b] = 0 /\ b <= staged
  /\ \A t, u \in DOMAIN actors : t # u => actors[t].written \cap actors[u].written = {}

\* A transaction remembers what it has written until it ends.
ActorsInOrder ==
  \A t \in DOMAIN actors :
    IF actors[t].running THEN actors[t].applied = actors[t].written
    ELSE actors[t].written = {} /\ actors[t].queue = <<>>

\* What a save or a change of the mode asks of its transaction, in each step.
Asks(caller, step, op) ==
  \/ caller = "save" /\ step \in {"applied", "shared applied"} /\ op = "Batch"
  \/ caller = "save" /\ step = "committing" /\ op = "Commit"
  \/ caller = "save" /\ step = "failing" /\ op = "Rollback"
  \/ caller = "mode" /\ step \in {"old", "rolling back"} /\ op = "Rollback"
  \/ caller = "mode" /\ step = "committing" /\ op = "Commit"

\* A command that writes has its caller waiting; the others only read.
Expected(t, command) ==
  \/ command.caller \in {"load", "export"} /\ command.op \in {"Query", "Stream"}
  \/ LET call == calls[command.caller] IN
     /\ command.caller \in {"save", "mode"}
     /\ call # None /\ call.tx = t /\ call.reply = None
     /\ Asks(command.caller, call.step, command.op)
     /\ command.op = "Batch" => command.batch = call.batch

QueuesInOrder ==
  \A t \in DOMAIN actors : LET queue == actors[t].queue IN
    /\ \A i \in DOMAIN queue : Expected(t, queue[i])
    /\ \A i, j \in DOMAIN queue :
         queue[i].caller = queue[j].caller /\ queue[i].caller \in {"save", "mode"} => i = j

OwnSteps == {"begin", "own", "applied", "committing", "failing"}

\* A save works for the batch on the screen, unless the session went away
\* meanwhile, and knows what became of it.
SaveInOrder == LET save == calls["save"] IN save # None =>
  /\ save.batch \in 1..staged /\ tab.recovery = {}
  /\ tab.kind \in {"Saving", "Unavailable"}
  /\ tab.kind = "Saving" => calls["mode"] = None /\ tab.changes = save.batch
  /\ tab.changes = save.batch \/ save.batch \in gaveUp
  /\ save.step \in OwnSteps => tab.tx = NoActor /\ calls["mode"] = None
  /\ save.step \in {"shared", "shared applied"} /\ tab.kind = "Saving" => save.tx = tab.tx
  /\ save.step \in OwnSteps \cup {"shared", "shared applied", "done"}
  /\ save.step \in {"begin", "own", "shared", "failing", "done"} => Fresh(save.batch)
  /\ save.step \in {"applied", "shared applied"} /\ save.reply # "ok" => Fresh(save.batch)
  /\ save.step = "applied" /\ save.reply = "ok" => save.batch \in Applied(save.tx)
  /\ save.step = "shared applied" /\ save.reply = "ok" /\ tab.kind = "Saving"
       => save.batch \in Applied(save.tx)
  /\ save.step = "committing" => IF save.reply = "ok" THEN durable[save.batch] > 0
                                 ELSE save.batch \in Applied(save.tx)

\* A change of the mode keeps the tab busy.  A commit or a rollback the user
\* asked for works on the tab's transaction; a rollback takes nothing with it
\* that the user has not given up.
ModeInOrder == LET mode == calls["mode"] IN mode # None =>
  /\ tab.busy
  /\ IF mode.step \in {"committing", "rolling back"}
     THEN /\ mode.tx = tab.tx
          /\ mode.reply = "ok" => ~Running(mode.tx) /\ Applied(mode.tx) = {}
     ELSE tab.tx = NoActor
  /\ mode.step = "rolling back" =>
       /\ Applied(mode.tx) \subseteq gaveUp
       /\ calls["save"] # None => calls["save"].batch \in gaveUp

\* What the user may save now is nowhere yet.
StagedIsFresh ==
  /\ tab.open /\ tab.kind = "Saving" => calls["save"] # None
  /\ tab.open /\ tab.changes # 0 /\ calls["save"] = None /\ tab.kind # "Unavailable"
       /\ tab.recovery = {} => Fresh(tab.changes)

Inv ==
  /\ Types /\ WrittenOnce /\ ActorsInOrder /\ QueuesInOrder
  /\ SaveInOrder /\ ModeInOrder /\ StagedIsFresh /\ NoSilentLoss

-----------------------------------------------------------------------------
(* Lemmas about the data *)

\* What an answer changes in the calls.
LEMMA AnswerFacts ==
  ASSUME NEW cs \in [Callers -> Call \cup {None}], NEW callers, NEW reply \in Replies
  PROVE  /\ Answer(cs, callers, reply) \in [Callers -> Call \cup {None}]
         /\ \A c \in Callers : LET new == Answer(cs, callers, reply)[c] IN
              /\ new = None <=> cs[c] = None
              /\ cs[c] # None => /\ new.step = cs[c].step /\ new.tx = cs[c].tx
                                 /\ new.batch = cs[c].batch
              /\ c \notin callers => new = cs[c]
              /\ c \in callers /\ cs[c] # None => new.reply = reply
  <1> DEFINE all == Answer(cs, callers, reply)
  <1>1. all = [c \in Callers |-> IF c \in callers /\ cs[c] # None
                                 THEN [cs[c] EXCEPT !.reply = reply] ELSE cs[c]]
    BY DEF Answer
  <1> HIDE DEF all
  <1>2. ASSUME NEW c \in Callers
        PROVE  /\ all[c] \in Call \cup {None}
               /\ all[c] = None <=> cs[c] = None
               /\ cs[c] # None => /\ all[c].step = cs[c].step /\ all[c].tx = cs[c].tx
                                  /\ all[c].batch = cs[c].batch
               /\ c \notin callers => all[c] = cs[c]
               /\ c \in callers /\ cs[c] # None => all[c].reply = reply
    <2>1. CASE c \in callers /\ cs[c] # None
      <3> DEFINE new == [cs[c] EXCEPT !.reply = reply]
      <3>1. cs[c] \in Call
        BY <2>1
      <3>2. /\ new \in Call /\ new.step = cs[c].step /\ new.tx = cs[c].tx
            /\ new.batch = cs[c].batch /\ new.reply = reply
        BY <3>1 DEF Call
      <3>3. all[c] = new
        BY <1>1, <2>1
      <3> HIDE DEF new
      <3> QED BY <2>1, <3>2, <3>3, NoneAssumption
    <2>2. CASE ~(c \in callers /\ cs[c] # None)
      <3>1. all[c] = cs[c]
        BY <1>1, <2>2
      <3> QED BY <2>2, <3>1
    <2> QED BY <2>1, <2>2
  <1>3. all \in [Callers -> Call \cup {None}]
    BY <1>1, <1>2
  <1> QED BY <1>2, <1>3 DEF all

\* A call in some step, and what it is made of.
LEMMA CallTyped ==
  ASSUME Types, NEW c \in Callers, calls[c] # None
  PROVE  /\ calls[c] \in Call /\ calls[c].tx \in 0..Len(actors)
         /\ calls[c].batch \in 0..MaxBatches /\ calls[c].step \in Steps
         /\ calls[c].reply \in Replies \cup {None}
  BY DEF Types, Call

\* A transaction and the queue it works on.
LEMMA ActorTyped ==
  ASSUME Types, NEW t \in DOMAIN actors
  PROVE  /\ actors[t] \in Actor /\ t \in Nat /\ t # NoActor
         /\ actors[t].queue \in Seq(Command)
         /\ actors[t].applied \in SUBSET Batches /\ actors[t].written \in SUBSET Batches
         /\ actors[t].running \in BOOLEAN
         /\ Running(t) <=> actors[t].running
         /\ Applied(t) = actors[t].applied
  <1>1. actors[t] \in Actor /\ t \in Nat /\ t # 0
    BY DEF Types
  <1> QED BY <1>1 DEF Actor, Running, Applied, NoActor

LEMMA NoBatch == 0 \in 0..MaxBatches
  <1>1. MaxBatches \in Nat
    BY BoundsAssumption, Zenon
  <1> QED BY <1>1

\* What has been staged is a batch.
LEMMA StagedBatch ==
  ASSUME Types, NEW b \in 1..staged
  PROVE  b \in Batches
  <1>1. MaxBatches \in Nat
    BY BoundsAssumption, Zenon
  <1> QED BY <1>1 DEF Types, Batches

LEMMA NoneKnown == None \notin {"ok", "refused", "error"}
  BY NoneAssumption DEF Replies

\* Whoever has no command in flight has none in a queue.
LEMMA NotAsking ==
  ASSUME QueuesInOrder, NEW c \in {"save", "mode"},
         \/ calls[c] = None
         \/ calls[c].reply # None
         \/ \A op \in {"Batch", "Query", "Stream", "Commit", "Rollback"} :
              ~Asks(c, calls[c].step, op)
         \/ c = "save" /\ calls[c].step \notin {"applied", "shared applied", "committing", "failing"}
         \/ c = "mode" /\ calls[c].step \notin {"old", "committing", "rolling back"}
  PROVE  \A t \in DOMAIN actors : \A i \in DOMAIN actors[t].queue : actors[t].queue[i].caller # c
  <1> SUFFICES ASSUME NEW t \in DOMAIN actors, NEW i \in DOMAIN actors[t].queue,
                      actors[t].queue[i].caller = c
               PROVE  FALSE
    OBVIOUS
  <1>1. Expected(t, actors[t].queue[i])
    BY DEF QueuesInOrder
  <1>2. calls[c] # None /\ calls[c].reply = None /\ Asks(c, calls[c].step, actors[t].queue[i].op)
    BY <1>1 DEF Expected
  <1>3. actors[t].queue[i].op \in {"Batch", "Query", "Stream", "Commit", "Rollback"}
    BY <1>2 DEF Asks
  <1> QED BY <1>2, <1>3 DEF Asks

-----------------------------------------------------------------------------
(* The steps of a transaction *)

\* Only transaction t changes, and the calls that waited for it.
OnlyActor(t) ==
  /\ actors' \in Seq(Actor) /\ DOMAIN actors' = DOMAIN actors
  /\ \A u \in DOMAIN actors \ {t} : actors'[u] = actors[u]
  /\ UNCHANGED <<tab, staged, gaveUp>>

Answered(t, c, reply) ==
  /\ calls[c] # None /\ calls[c].tx = t /\ calls[c].reply = None
  /\ calls'[c].reply = reply

OnlyAnswers ==
  /\ calls' \in [Callers -> Call \cup {None}]
  /\ \A c \in Callers :
       /\ calls'[c] = None <=> calls[c] = None
       /\ calls[c] # None => /\ calls'[c].step = calls[c].step /\ calls'[c].tx = calls[c].tx
                             /\ calls'[c].batch = calls[c].batch

Committed(t) == [b \in Batches |-> durable[b] + IF b \in actors[t].written THEN 1 ELSE 0]

\* A command that reads, is refused or has no caller any more.
Reads(t) ==
  /\ OnlyActor(t) /\ OnlyAnswers /\ durable' = durable
  /\ actors[t].running /\ actors'[t].running /\ actors[t].queue # <<>>
  /\ actors'[t].queue = Tail(actors[t].queue)
  /\ actors'[t].applied = actors[t].applied /\ actors'[t].written = actors[t].written
  /\ calls'["mode"] = calls["mode"]
  /\ \/ calls'["save"] = calls["save"]
     \/ Head(actors[t].queue).caller = "save" /\ Answered(t, "save", "refused")

\* The batch of a save is written.
Writes(t) == LET save == calls["save"] IN
  /\ OnlyActor(t) /\ OnlyAnswers /\ durable' = durable
  /\ actors[t].running /\ actors'[t].running /\ actors[t].queue # <<>>
  /\ actors'[t].queue = Tail(actors[t].queue)
  /\ Head(actors[t].queue).caller = "save" /\ Answered(t, "save", "ok")
  /\ save.step \in {"applied", "shared applied"}
  /\ actors'[t].applied = actors[t].applied \cup {save.batch}
  /\ actors'[t].written = actors[t].written \cup {save.batch}
  /\ calls'["mode"] = calls["mode"]

\* The transaction is over.
Ends(t) ==
  /\ OnlyActor(t) /\ OnlyAnswers
  /\ actors[t].running /\ ~actors'[t].running
  /\ actors'[t].queue = <<>> /\ actors'[t].written = {}

\* It fails: whoever waits is told, and a commit may have happened.
Breaks(t) ==
  /\ Ends(t) /\ actors'[t].applied = actors[t].applied
  /\ durable' = durable \/ durable' = Committed(t)
  /\ \A c \in {"save", "mode"} : calls'[c] = calls[c] \/ Answered(t, c, "error")

\* It commits, or rolls back, for the caller.
Commits(t) ==
  /\ Ends(t) /\ actors'[t].applied = {} /\ durable' = Committed(t)
  /\ \E c \in {"save", "mode"} :
       /\ Answered(t, c, "ok") /\ calls[c].step = "committing"
       /\ \A d \in {"save", "mode"} \ {c} : calls'[d] = calls[d] \/ Answered(t, d, "error")

RollsBack(t) ==
  /\ Ends(t) /\ actors'[t].applied = {} /\ durable' = durable
  /\ \E c \in {"save", "mode"} :
       /\ Answered(t, c, "ok")
       /\ IF c = "save" THEN calls[c].step = "failing"
          ELSE calls[c].step \in {"old", "rolling back"}
       /\ \A d \in {"save", "mode"} \ {c} : calls'[d] = calls[d] \/ Answered(t, d, "error")

\* The first command of a queue, and the ones after it.
LEMMA QueueFacts ==
  ASSUME Types, NEW t \in DOMAIN actors, actors[t].queue # <<>>
  PROVE  LET queue == actors[t].queue IN
         /\ Head(queue) \in Command /\ Head(queue) = queue[1] /\ 1 \in DOMAIN queue
         /\ Tail(queue) \in Seq(Command)
         /\ \A i \in DOMAIN Tail(queue) :
              i + 1 \in DOMAIN queue /\ i + 1 # 1 /\ Tail(queue)[i] = queue[i + 1]
  <1> DEFINE queue == actors[t].queue
  <1>1. queue \in Seq(Command)
    BY ActorTyped
  <1> HIDE DEF queue
  <1>2. queue # <<>>
    BY DEF queue
  <1>3. /\ Len(queue) \in Nat /\ Len(queue) # 0 /\ DOMAIN queue = 1..Len(queue)
        /\ Tail(queue) \in Seq(Command) /\ Len(Tail(queue)) = Len(queue) - 1
        /\ DOMAIN Tail(queue) = 1..Len(Tail(queue))
        /\ \A i \in 1..Len(Tail(queue)) : Tail(queue)[i] = queue[i + 1]
        /\ Head(queue) = queue[1]
    BY <1>1, <1>2
  <1>4. queue[1] \in Command
    BY <1>1, <1>3
  <1> QED BY <1>3, <1>4 DEF queue

\* A transaction after a step of its own.
LEMMA ActorReplaced ==
  ASSUME Types, NEW t \in DOMAIN actors, NEW a \in Actor, actors' = [actors EXCEPT ![t] = a]
  PROVE  /\ actors' \in Seq(Actor) /\ DOMAIN actors' = DOMAIN actors /\ actors'[t] = a
         /\ \A u \in DOMAIN actors \ {t} : actors'[u] = actors[u]
  BY DEF Types

LEMMA CommittedTyped ==
  ASSUME Types, NEW t
  PROVE  /\ Committed(t) \in [Batches -> Nat]
         /\ \A b \in Batches : Committed(t)[b] = durable[b] + IF b \in actors[t].written THEN 1 ELSE 0
  BY DEF Types, Committed

LEMMA EndedTyped ==
  ASSUME NEW a \in Actor
  PROVE  /\ Ended(a) \in Actor /\ ~Ended(a).running /\ Ended(a).queue = <<>>
         /\ Ended(a).written = {} /\ Ended(a).applied = a.applied
  <1> DEFINE stopped == [a EXCEPT !.running = FALSE]
             alone == [stopped EXCEPT !.queue = <<>>]
             over == [alone EXCEPT !.written = {}]
  <1>1. stopped \in Actor /\ ~stopped.running /\ stopped.applied = a.applied
    BY DEF Actor
  <1> HIDE DEF stopped
  <1>2. <<>> \in Seq(Command)
    OBVIOUS
  <1>3. /\ alone \in Actor /\ ~alone.running /\ alone.queue = <<>>
        /\ alone.applied = a.applied
    BY <1>1, <1>2 DEF Actor
  <1> HIDE DEF alone
  <1>4. /\ over \in Actor /\ ~over.running /\ over.queue = <<>> /\ over.written = {}
        /\ over.applied = a.applied
    BY <1>3 DEF Actor
  <1>5. Ended(a) = over
    BY DEF Ended, alone, stopped
  <1> QED BY <1>4, <1>5

\* A transaction that stops.
LEMMA StopCase ==
  ASSUME Inv, NEW t \in DOMAIN actors, Stop(t)
  PROVE  Breaks(t)
  <1> DEFINE a == actors[t]
             over == Ended(a)
  <1>0. Types /\ QueuesInOrder
    BY DEF Inv
  <1>1. a \in Actor /\ a.running
    BY <1>0, ActorTyped DEF Stop
  <1>2. /\ over \in Actor /\ ~over.running /\ over.queue = <<>> /\ over.written = {}
        /\ over.applied = a.applied
    BY <1>1, EndedTyped
  <1>3. actors' = [actors EXCEPT ![t] = over] /\ UNCHANGED <<tab, staged, gaveUp>>
    BY DEF Stop
  <1>4. calls' = Answer(calls, Waiting(a), "error")
    BY DEF Stop
  <1>5. durable' = durable \/ durable' = Committed(t)
    BY DEF Stop, Committed
  <1>6. ASSUME NEW c \in {"save", "mode"} PROVE calls'[c] = calls[c] \/ Answered(t, c, "error")
    <2>1. /\ c \in Callers /\ "error" \in Replies
      BY DEF Callers, Replies
    <2>2. c \notin Waiting(a) => calls'[c] = calls[c]
      BY <1>0, <1>4, <2>1, AnswerFacts DEF Types
    <2>3. ASSUME c \in Waiting(a) PROVE Answered(t, c, "error")
      <3>1. PICK i \in DOMAIN a.queue : a.queue[i].caller = c
        BY <2>3 DEF Waiting
      <3>2. Expected(t, a.queue[i])
        BY <1>0 DEF QueuesInOrder
      <3>3. calls[c] # None /\ calls[c].tx = t /\ calls[c].reply = None
        BY <3>1, <3>2 DEF Expected
      <3>4. calls'[c].reply = "error"
        BY <1>0, <1>4, <2>1, <2>3, <3>3, AnswerFacts DEF Types
      <3> QED BY <3>3, <3>4 DEF Answered
    <2> QED BY <2>2, <2>3
  <1>7. OnlyAnswers
    BY <1>0, <1>4, AnswerFacts DEF OnlyAnswers, Types, Replies
  <1> HIDE DEF over
  <1>8. OnlyActor(t) /\ actors'[t] = over
    BY <1>0, <1>2, <1>3, ActorReplaced DEF OnlyActor
  <1> QED BY <1>1, <1>2, <1>5, <1>6, <1>7, <1>8 DEF Breaks, Ends

\* A command that is performed.
LEMMA PerformCases ==
  ASSUME Inv, NEW t \in DOMAIN actors, NEW reply \in Replies, Perform(t, reply)
  PROVE  Reads(t) \/ Writes(t) \/ Breaks(t) \/ Commits(t) \/ RollsBack(t)
  <1> DEFINE a == actors[t]
             command == Head(a.queue)
             rest == [a EXCEPT !.queue = Tail(@)]
             end == reply = "error" \/ command.op \in {"Commit", "Rollback"}
  <1>0. Types /\ QueuesInOrder
    BY DEF Inv
  <1>1. /\ a \in Actor /\ a.running /\ a.queue # <<>>
        /\ UNCHANGED <<tab, staged, gaveUp>>
    BY <1>0, ActorTyped DEF Perform
  <1>2. /\ command \in Command /\ command.caller \in Callers
        /\ Tail(a.queue) \in Seq(Command) /\ Expected(t, command)
    <2>1. command \in Command /\ Tail(a.queue) \in Seq(Command)
          /\ command = a.queue[1] /\ 1 \in DOMAIN a.queue
      BY <1>0, <1>1, QueueFacts
    <2> QED BY <1>0, <2>1 DEF QueuesInOrder, Command
  <1>3. /\ rest \in Actor /\ rest.running /\ rest.queue = Tail(a.queue)
        /\ rest.applied = a.applied /\ rest.written = a.written
    BY <1>1, <1>2 DEF Actor
  <1>4. CASE calls[command.caller] = None \/ calls[command.caller].tx # t
    <2>1. actors' = [actors EXCEPT ![t] = rest] /\ UNCHANGED <<durable, calls>>
      BY <1>4 DEF Perform
    <2>2. OnlyAnswers
      BY <1>0, <2>1 DEF OnlyAnswers, Types
    <2> HIDE DEF rest
    <2>3. OnlyActor(t) /\ actors'[t] = rest
      BY <1>0, <1>1, <1>3, <2>1, ActorReplaced DEF OnlyActor
    <2> QED BY <1>1, <1>3, <2>1, <2>2, <2>3 DEF Reads
  <1>5. CASE ~(calls[command.caller] = None \/ calls[command.caller].tx # t)
    <2> DEFINE done == IF reply # "ok" THEN rest
                       ELSE CASE command.op = "Batch" ->
                                   [rest EXCEPT !.applied = @ \cup {command.batch},
                                                !.written = @ \cup {command.batch}]
                              [] command.op \in {"Commit", "Rollback"} ->
                                   [rest EXCEPT !.applied = {}]
                              [] OTHER -> rest
               told == Answer(calls, {command.caller}, reply)
    <2>1. /\ actors' = [actors EXCEPT ![t] = IF end THEN Ended(done) ELSE done]
          /\ calls' = IF end THEN Answer(told, Waiting(rest), "error") ELSE told
          /\ \/ command.op = "Commit" /\ durable' = Committed(t)
             \/ ~(command.op = "Commit" /\ reply = "ok") /\ durable' = durable
          /\ reply = "refused" => command.op \in {"Batch", "Query", "Stream"}
      BY <1>5 DEF Perform, Committed
    <2>2. command.op \in {"Batch", "Query", "Stream", "Commit", "Rollback"}
      BY <1>2 DEF Command
    <2>3. /\ told \in [Callers -> Call \cup {None}]
          /\ \A c \in Callers :
               /\ told[c] = None <=> calls[c] = None
               /\ calls[c] # None => /\ told[c].step = calls[c].step /\ told[c].tx = calls[c].tx
                                     /\ told[c].batch = calls[c].batch
               /\ c # command.caller => told[c] = calls[c]
               /\ c = command.caller /\ calls[c] # None => told[c].reply = reply
      BY <1>0, AnswerFacts DEF Types
    <2> HIDE DEF told
    <2>4. CASE ~end
      <3>1. calls' = told
        BY <2>1, <2>4
      <3>2. OnlyAnswers
        BY <2>3, <3>1 DEF OnlyAnswers
      <3>3. CASE command.op = "Batch" /\ reply = "ok"
        <4>1. command.caller = "save" /\ Answered(t, "save", "ok")
              /\ calls["save"].step \in {"applied", "shared applied"}
              /\ command.batch = calls["save"].batch
          <5>1. /\ command.caller = "save" /\ calls["save"] # None /\ calls["save"].tx = t
                /\ calls["save"].reply = None /\ command.batch = calls["save"].batch
                /\ calls["save"].step \in {"applied", "shared applied"}
            BY <1>2, <3>3 DEF Expected, Asks
          <5> QED BY <2>3, <3>1, <3>3, <5>1 DEF Answered, Callers
        <4> DEFINE new == [rest EXCEPT !.applied = @ \cup {command.batch},
                                       !.written = @ \cup {command.batch}]
        <4>2. command.batch \in Batches
          <5>1. calls["save"] # None
            BY <4>1 DEF Answered
          <5>2. calls["save"].batch \in 1..staged
            BY <5>1 DEF Inv, SaveInOrder
          <5>3. calls["save"].batch \in Batches
            BY <1>0, <5>2, StagedBatch
          <5> QED BY <4>1, <5>3
        <4>3. /\ new \in Actor /\ new.running /\ new.queue = Tail(a.queue)
              /\ new.applied = a.applied \cup {command.batch}
              /\ new.written = a.written \cup {command.batch}
          <5>1. rest.applied \in SUBSET Batches /\ rest.written \in SUBSET Batches
            BY <1>3 DEF Actor
          <5> HIDE DEF rest
          <5> QED BY <1>3, <4>2, <5>1 DEF Actor
        <4>4. actors' = [actors EXCEPT ![t] = new]
          BY <2>1, <2>4, <3>3
        <4> HIDE DEF new
        <4>5. OnlyActor(t) /\ actors'[t] = new
          BY <1>0, <1>1, <4>3, <4>4, ActorReplaced DEF OnlyActor
        <4>6. durable' = durable
          BY <2>1, <3>3
        <4>7. calls'["mode"] = calls["mode"]
          BY <2>3, <3>1, <4>1 DEF Callers
        <4> QED BY <1>1, <3>2, <4>1, <4>3, <4>5, <4>6, <4>7 DEF Writes
      <3>4. CASE ~(command.op = "Batch" /\ reply = "ok")
        <4>1. done = rest
          BY <2>2, <2>4, <3>4
        <4>2. actors' = [actors EXCEPT ![t] = rest]
          BY <2>1, <2>4, <4>1
        <4> HIDE DEF rest, done
        <4>3. OnlyActor(t) /\ actors'[t] = rest
          BY <1>0, <1>1, <1>3, <4>2, ActorReplaced DEF OnlyActor
        <4>4. durable' = durable /\ command.caller # "mode"
          BY <1>2, <2>1, <2>2, <2>4 DEF Expected, Asks
        <4>5. calls'["mode"] = calls["mode"]
          BY <2>3, <3>1, <4>4 DEF Callers
        <4>6. calls'["save"] = calls["save"] \/ Answered(t, "save", "refused")
          <5>1. CASE command.caller # "save"
            BY <2>3, <3>1, <5>1 DEF Callers
          <5>2. CASE command.caller = "save"
            <6>1. /\ command.op = "Batch" /\ calls["save"] # None /\ calls["save"].tx = t
                  /\ calls["save"].reply = None
              BY <1>2, <2>4, <5>2 DEF Expected, Asks
            <6>2. reply = "refused"
              BY <2>4, <3>4, <6>1 DEF Replies
            <6> QED BY <2>3, <3>1, <5>2, <6>1, <6>2 DEF Answered, Callers
          <5> QED BY <5>1, <5>2
        <4>7. calls'["save"] # calls["save"] => command.caller = "save"
          BY <2>3, <3>1 DEF Callers
        <4> QED BY <1>1, <1>3, <3>2, <4>3, <4>4, <4>5, <4>6, <4>7 DEF Reads
      <3> QED BY <3>3, <3>4
    <2>5. CASE end
      <3>1. /\ done \in Actor /\ (reply # "ok" => done.applied = a.applied)
            /\ (reply = "ok" => done.applied = {})
        <4>1. CASE reply # "ok"
          BY <1>3, <4>1
        <4>2. CASE reply = "ok"
          <5> DEFINE new == [rest EXCEPT !.applied = {}]
          <5>1. new \in Actor /\ new.applied = {}
            BY <1>3 DEF Actor
          <5>2. done = new
            BY <2>5, <4>2
          <5> HIDE DEF new, done
          <5> QED BY <4>2, <5>1, <5>2
        <4> QED BY <4>1, <4>2
      <3> DEFINE over == Ended(done)
      <3> HIDE DEF done, rest
      <3>2. /\ over \in Actor /\ ~over.running /\ over.queue = <<>> /\ over.written = {}
            /\ over.applied = done.applied
        BY <3>1, EndedTyped
      <3>3. actors' = [actors EXCEPT ![t] = over]
        BY <2>1, <2>5
      <3> HIDE DEF over
      <3>4. OnlyActor(t) /\ actors'[t] = over
        BY <1>0, <1>1, <3>2, <3>3, ActorReplaced DEF OnlyActor
      <3>5. calls' = Answer(told, Waiting(rest), "error")
        BY <2>1, <2>5
      <3>6. "error" \in Replies
        BY DEF Replies
      <3>7. /\ calls' \in [Callers -> Call \cup {None}]
            /\ \A c \in Callers :
                 /\ calls'[c] = None <=> told[c] = None
                 /\ told[c] # None => /\ calls'[c].step = told[c].step /\ calls'[c].tx = told[c].tx
                                      /\ calls'[c].batch = told[c].batch
                 /\ c \notin Waiting(rest) => calls'[c] = told[c]
                 /\ c \in Waiting(rest) /\ told[c] # None => calls'[c].reply = "error"
        BY <2>3, <3>5, <3>6, AnswerFacts
      <3>8. OnlyAnswers
        BY <2>3, <3>7 DEF OnlyAnswers
      <3>9. Ends(t)
        BY <1>1, <3>2, <3>4, <3>8 DEF Ends
      <3>10. ASSUME NEW c \in {"save", "mode"}, c \in Waiting(rest)
             PROVE  c # command.caller /\ calls[c] # None /\ calls[c].tx = t /\ calls[c].reply = None
        <4>1. PICK i \in DOMAIN Tail(a.queue) : Tail(a.queue)[i].caller = c
          BY <1>3, <3>10 DEF Waiting
        <4>2. /\ i + 1 \in DOMAIN a.queue /\ a.queue[i + 1].caller = c /\ i + 1 # 1
              /\ command = a.queue[1] /\ 1 \in DOMAIN a.queue
          BY <1>0, <1>1, <4>1, QueueFacts
        <4>3. Expected(t, a.queue[i + 1])
          BY <1>0, <4>2 DEF QueuesInOrder
        <4>4. c # command.caller
          BY <1>0, <4>2 DEF QueuesInOrder
        <4> QED BY <4>2, <4>3, <4>4 DEF Expected
      <3>11. \A c \in {"save", "mode"} :
               \/ c # command.caller /\ (calls'[c] = calls[c] \/ Answered(t, c, "error"))
               \/ c = command.caller /\ Answered(t, c, reply)
        <4> SUFFICES ASSUME NEW c \in {"save", "mode"}
                     PROVE  \/ c # command.caller /\ (calls'[c] = calls[c] \/ Answered(t, c, "error"))
                            \/ c = command.caller /\ Answered(t, c, reply)
          OBVIOUS
        <4>1. c \in Callers
          BY DEF Callers
        <4>2. CASE c = command.caller
          <5>1. calls[c] # None /\ calls[c].tx = t /\ calls[c].reply = None
            BY <1>2, <4>2 DEF Expected
          <5>2. calls'[c].reply = reply
            BY <2>3, <3>7, <3>10, <4>1, <4>2, <5>1
          <5> QED BY <4>2, <5>1, <5>2 DEF Answered
        <4>3. CASE c # command.caller
          BY <2>3, <3>7, <3>10, <4>1, <4>3 DEF Answered
        <4> QED BY <4>2, <4>3
      <3>12. CASE reply = "ok"
        <4>1. /\ command.caller \in {"save", "mode"}
              /\ Asks(command.caller, calls[command.caller].step, command.op)
              /\ command.op \in {"Commit", "Rollback"}
          BY <1>2, <2>5, <3>12 DEF Expected
        <4>2. Answered(t, command.caller, "ok")
          BY <3>11, <3>12, <4>1
        <4>3. actors'[t].applied = {}
          BY <3>1, <3>2, <3>4, <3>12
        <4>4. CASE command.op = "Commit"
          <5>1. durable' = Committed(t) /\ calls[command.caller].step = "committing"
            BY <2>1, <3>12, <4>1, <4>4 DEF Asks
          <5> QED BY <3>9, <3>11, <4>1, <4>2, <4>3, <5>1 DEF Commits
        <4>5. CASE command.op = "Rollback"
          <5>1. /\ durable' = durable
                /\ IF command.caller = "save" THEN calls[command.caller].step = "failing"
                   ELSE calls[command.caller].step \in {"old", "rolling back"}
            BY <2>1, <4>1, <4>5 DEF Asks
          <5> QED BY <3>9, <3>11, <4>1, <4>2, <4>3, <5>1 DEF RollsBack
        <4> QED BY <4>1, <4>4, <4>5
      <3>13. CASE reply # "ok"
        <4>1. reply = "error"
          BY <2>1, <2>5, <3>13 DEF Replies
        <4>2. actors'[t].applied = a.applied
          BY <3>1, <3>2, <3>4, <3>13
        <4> QED BY <2>1, <3>9, <3>11, <4>1, <4>2 DEF Breaks
      <3> QED BY <3>12, <3>13
    <2> QED BY <2>4, <2>5
  <1> QED BY <1>4, <1>5

Moves(t) == Reads(t) \/ Writes(t) \/ Breaks(t) \/ Commits(t) \/ RollsBack(t)

\* What every step of a transaction has in common.
LEMMA MoveFacts ==
  ASSUME Inv, NEW t \in DOMAIN actors, Moves(t)
  PROVE  /\ OnlyActor(t) /\ OnlyAnswers /\ actors[t].running /\ Types'
         /\ \A b \in Batches :
              /\ durable'[b] \in Nat /\ durable'[b] >= durable[b]
              /\ b \notin actors[t].written => durable'[b] = durable[b]
              /\ b \in actors[t].written => durable[b] = 0 /\ durable'[b] \in {0, 1}
         /\ Ends(t) \/ durable' = durable
         /\ actors'[t].written # {} => actors'[t].running
  <1>0. Types /\ WrittenOnce
    BY DEF Inv
  <1>1. /\ OnlyActor(t) /\ OnlyAnswers /\ actors[t].running
        /\ Ends(t) \/ durable' = durable
        /\ actors'[t].written # {} => actors'[t].running
        /\ durable' = durable \/ durable' = Committed(t)
    BY DEF Moves, Reads, Writes, Breaks, Commits, RollsBack, Ends
  <1>2. ASSUME NEW b \in Batches
        PROVE  /\ durable'[b] \in Nat /\ durable'[b] >= durable[b]
               /\ b \notin actors[t].written => durable'[b] = durable[b]
               /\ b \in actors[t].written => durable[b] = 0 /\ durable'[b] \in {0, 1}
    <2>1. durable[b] \in Nat /\ (b \in actors[t].written => durable[b] = 0)
      BY <1>0 DEF Types, WrittenOnce
    <2>2. Committed(t)[b] = durable[b] + IF b \in actors[t].written THEN 1 ELSE 0
      BY <1>0, CommittedTyped
    <2> QED BY <1>1, <2>1, <2>2
  <1>3. durable' \in [Batches -> Nat]
    BY <1>0, <1>1, CommittedTyped DEF Types
  <1>4. Len(actors') = Len(actors)
    BY <1>0, <1>1 DEF OnlyActor, Types
  <1>5. Types'
    BY <1>0, <1>1, <1>3, <1>4 DEF Types, OnlyActor, OnlyAnswers
  <1> QED BY <1>1, <1>2, <1>5

\* Nothing that is nowhere gets anywhere, but the batch that is written.
LEMMA MoveKeepsFresh ==
  ASSUME Inv, NEW t \in DOMAIN actors, Moves(t), NEW b \in Batches, Fresh(b),
         Writes(t) => b # calls["save"].batch
  PROVE  Fresh(b)'
  <1>1. durable'[b] = 0
    BY MoveFacts DEF Fresh
  <1>2. b \notin actors'[t].written
    BY DEF Fresh, Moves, Reads, Writes, Breaks, Commits, RollsBack, Ends
  <1>3. \A u \in DOMAIN actors' \ {t} : actors'[u].written = actors[u].written
    BY MoveFacts DEF OnlyActor
  <1> QED BY <1>1, <1>2, <1>3, MoveFacts DEF Fresh, OnlyActor

\* The save whose batch is written has not got it anywhere before.
LEMMA WritesFresh ==
  ASSUME Inv, NEW t \in DOMAIN actors, Writes(t)
  PROVE  /\ calls["save"].batch \in Batches /\ calls["save"].batch \in 1..staged
         /\ durable[calls["save"].batch] = 0
         /\ \A u \in DOMAIN actors : calls["save"].batch \notin actors[u].written
  <1>1. calls["save"] # None /\ calls["save"].reply = None
        /\ calls["save"].step \in {"applied", "shared applied"}
    BY DEF Writes, Answered
  <1>2. Fresh(calls["save"].batch) /\ calls["save"].batch \in 1..staged
    BY <1>1, NoneKnown DEF Inv, SaveInOrder
  <1> QED BY <1>2, StagedBatch DEF Fresh, Inv

LEMMA MoveKeepsWritten ==
  ASSUME Inv, NEW t \in DOMAIN actors, Moves(t)
  PROVE  WrittenOnce'
  <1>0. Types /\ WrittenOnce
    BY DEF Inv
  <1> DEFINE batch == calls["save"].batch
  <1>1. /\ \A u \in DOMAIN actors \ {t} : actors'[u].written = actors[u].written
        /\ staged' = staged /\ DOMAIN actors' = DOMAIN actors
    BY MoveFacts DEF OnlyActor
  <1>2. /\ actors'[t].written \subseteq actors[t].written \cup {batch}
        /\ batch \in actors'[t].written \ actors[t].written => Writes(t)
        /\ Ends(t) => actors'[t].written = {}
        /\ Writes(t) => durable' = durable
    BY DEF Moves, Reads, Writes, Breaks, Commits, RollsBack, Ends
  <1>3. Writes(t) => /\ batch \in 1..staged /\ durable[batch] = 0
                     /\ \A u \in DOMAIN actors : batch \notin actors[u].written
    BY WritesFresh
  <1> HIDE DEF batch
  <1>4. ASSUME NEW b \in Batches
        PROVE  durable'[b] <= 1 /\ (durable'[b] > 0 => b <= staged)
    <2>1. CASE b \in actors[t].written
      BY <1>0, <2>1, MoveFacts DEF WrittenOnce
    <2>2. CASE b \notin actors[t].written
      BY <1>0, <2>2, MoveFacts DEF WrittenOnce
    <2> QED BY <2>1, <2>2
  <1>5. ASSUME NEW u \in DOMAIN actors, NEW b \in actors'[u].written
        PROVE  durable'[b] = 0 /\ b <= staged
    <2>1. CASE u = t
      <3>1. durable' = durable
        BY <1>2, <1>5, <2>1, MoveFacts
      <3>2. CASE b \in actors[t].written
        BY <1>0, <3>1, <3>2 DEF WrittenOnce
      <3>3. CASE b \notin actors[t].written
        <4>1. b = batch /\ Writes(t)
          BY <1>2, <1>5, <2>1, <3>3
        <4> QED BY <1>0, <1>3, <3>1, <4>1 DEF Types
      <3> QED BY <3>2, <3>3
    <2>2. CASE u # t
      <3>1. b \in actors[u].written /\ actors[u].written \cap actors[t].written = {}
        BY <1>0, <1>1, <1>5, <2>2 DEF WrittenOnce
      <3>2. b \in Batches
        BY <1>0, <3>1, ActorTyped
      <3>3. durable'[b] = durable[b]
        BY <3>1, <3>2, MoveFacts
      <3> QED BY <1>0, <3>1, <3>3 DEF WrittenOnce
    <2> QED BY <2>1, <2>2
  <1>6. ASSUME NEW u \in DOMAIN actors, NEW v \in DOMAIN actors, u # v
        PROVE  actors'[u].written \cap actors'[v].written = {}
    <2>1. actors[u].written \cap actors[v].written = {}
      BY <1>0, <1>6 DEF WrittenOnce
    <2>2. ASSUME NEW w \in DOMAIN actors, NEW b \in actors'[w].written, b \notin actors[w].written
          PROVE  b = batch /\ w = t /\ Writes(t)
      BY <1>1, <1>2, <2>2
    <2>3. ASSUME NEW b \in actors'[u].written, b \in actors'[v].written PROVE FALSE
      <3>1. CASE b \in actors[u].written /\ b \in actors[v].written
        BY <2>1, <3>1
      <3>2. CASE b \notin actors[u].written
        BY <1>1, <1>3, <1>6, <2>2, <2>3, <3>2
      <3>3. CASE b \notin actors[v].written
        BY <1>1, <1>3, <1>6, <2>2, <2>3, <3>3
      <3> QED BY <3>1, <3>2, <3>3
    <2> QED BY <2>3
  <1> QED BY <1>1, <1>4, <1>5, <1>6 DEF WrittenOnce

LEMMA MoveKeepsActors ==
  ASSUME Inv, NEW t \in DOMAIN actors, Moves(t)
  PROVE  ActorsInOrder'
  <1>1. /\ DOMAIN actors' = DOMAIN actors
        /\ \A u \in DOMAIN actors \ {t} : actors'[u] = actors[u]
    BY MoveFacts DEF OnlyActor
  <1>2. actors[t].running /\ actors[t].applied = actors[t].written
    BY MoveFacts DEF Inv, ActorsInOrder
  <1>3. IF actors'[t].running THEN actors'[t].applied = actors'[t].written
        ELSE actors'[t].written = {} /\ actors'[t].queue = <<>>
    BY <1>2 DEF Moves, Reads, Writes, Breaks, Commits, RollsBack, Ends
  <1> QED BY <1>1, <1>3 DEF Inv, ActorsInOrder

\* Whoever is answered had a command of this transaction, which has left its queue.
LEMMA MoveKeepsQueues ==
  ASSUME Inv, NEW t \in DOMAIN actors, Moves(t)
  PROVE  QueuesInOrder'
  <1>0. Types /\ QueuesInOrder
    BY DEF Inv
  <1>1. /\ DOMAIN actors' = DOMAIN actors
        /\ \A u \in DOMAIN actors \ {t} : actors'[u] = actors[u]
        /\ OnlyAnswers
    BY MoveFacts DEF OnlyActor
  <1>2. \/ actors'[t].queue = <<>>
        \/ actors[t].queue # <<>> /\ actors'[t].queue = Tail(actors[t].queue)
    BY DEF Moves, Reads, Writes, Breaks, Commits, RollsBack, Ends
  <1>3. \A c \in {"save", "mode"} :
          \/ calls'[c] = calls[c]
          \/ /\ calls[c].tx = t
             /\ actors'[t].queue = <<>> \/ Head(actors[t].queue).caller = c
    BY DEF Moves, Reads, Writes, Breaks, Commits, RollsBack, Ends, Answered
  <1>4. ASSUME NEW u \in DOMAIN actors, NEW i \in DOMAIN actors'[u].queue,
               NEW command, command = actors'[u].queue[i]
        PROVE  /\ Expected(u, command)'
               /\ \A j \in DOMAIN actors'[u].queue :
                    actors'[u].queue[i].caller = actors'[u].queue[j].caller
                      /\ actors'[u].queue[i].caller \in {"save", "mode"} => i = j
    <2>1. CASE u # t
      <3>1. actors'[u] = actors[u]
        BY <1>1, <2>1
      <3>2. Expected(u, command)
        BY <1>0, <1>4, <3>1 DEF QueuesInOrder
      <3>3. Expected(u, command)'
        <4>1. CASE command.caller \in {"load", "export"}
          BY <3>2, <4>1 DEF Expected
        <4>2. CASE command.caller \in {"save", "mode"}
          <5>1. calls[command.caller].tx = u
            BY <3>2, <4>2 DEF Expected
          <5>2. calls'[command.caller] = calls[command.caller]
            BY <1>3, <2>1, <4>2, <5>1
          <5> QED BY <3>2, <4>2, <5>2 DEF Expected
        <4> QED BY <3>2, <4>1, <4>2 DEF Expected
      <3> QED BY <1>0, <1>4, <3>1, <3>3 DEF QueuesInOrder
    <2>2. CASE u = t
      <3>1. actors[t].queue # <<>> /\ actors'[t].queue = Tail(actors[t].queue)
        BY <1>2, <1>4, <2>2
      <3>2. /\ Head(actors[t].queue) = actors[t].queue[1] /\ 1 \in DOMAIN actors[t].queue
            /\ \A j \in DOMAIN actors'[t].queue :
                 /\ j + 1 \in DOMAIN actors[t].queue /\ j + 1 # 1
                 /\ actors'[t].queue[j] = actors[t].queue[j + 1]
        BY <1>0, <3>1, QueueFacts
      <3>3. command = actors[t].queue[i + 1]
        BY <1>4, <2>2, <3>2
      <3>4. Expected(t, command)
        BY <1>0, <1>4, <2>2, <3>2, <3>3 DEF QueuesInOrder
      <3>5. Expected(t, command)'
        <4>1. CASE command.caller \in {"load", "export"}
          BY <3>4, <4>1 DEF Expected
        <4>2. CASE command.caller \in {"save", "mode"}
          <5>1. Head(actors[t].queue).caller # command.caller
            BY <1>0, <1>4, <2>2, <3>2, <3>3, <4>2 DEF QueuesInOrder
          <5>2. actors'[t].queue # <<>>
            BY <1>4, <2>2
          <5>3. calls'[command.caller] = calls[command.caller]
            BY <1>3, <4>2, <5>1, <5>2
          <5> QED BY <3>4, <4>2, <5>3 DEF Expected
        <4> QED BY <3>4, <4>1, <4>2 DEF Expected
      <3>6. DOMAIN actors'[t].queue \subseteq Nat
        <4>1. Tail(actors[t].queue) \in Seq(Command)
          BY <1>0, <3>1, QueueFacts
        <4> QED BY <3>1, <4>1
      <3>7. \A j \in DOMAIN actors'[t].queue :
              actors'[t].queue[i].caller = actors'[t].queue[j].caller
                /\ actors'[t].queue[i].caller \in {"save", "mode"} => i + 1 = j + 1
        BY <1>0, <1>4, <2>2, <3>2 DEF QueuesInOrder
      <3> QED BY <1>4, <2>2, <3>5, <3>6, <3>7
    <2> QED BY <2>1, <2>2
  <1> QED BY <1>1, <1>4 DEF QueuesInOrder

\* What a transaction remembers after a step.
LEMMA MoveApplied ==
  ASSUME Inv, NEW t \in DOMAIN actors, Moves(t), NEW u \in 0..Len(actors)
  PROVE  /\ u # t \/ Reads(t) \/ Breaks(t) => Applied(u)' = Applied(u)
         /\ Writes(t) => Applied(u)' \subseteq Applied(u) \cup {calls["save"].batch}
                         /\ Applied(u) \subseteq Applied(u)'
         /\ Writes(t) /\ u = t => calls["save"].batch \in Applied(u)'
         /\ Commits(t) \/ RollsBack(t) => Applied(u)' \subseteq Applied(u)
         /\ Running(u)' => Running(u)
  <1>0. Types
    BY DEF Inv
  <1>1. t # NoActor /\ DOMAIN actors = 1..Len(actors)
    BY <1>0, ActorTyped DEF Types
  <1>2. CASE u = NoActor
    BY <1>1, <1>2 DEF Applied, Running
  <1>3. CASE u # NoActor /\ u # t
    <2>1. u \in DOMAIN actors
      BY <1>1, <1>3 DEF NoActor
    <2>2. actors'[u] = actors[u]
      BY <1>3, <2>1, MoveFacts DEF OnlyActor
    <2> QED BY <1>3, <2>2 DEF Applied, Running
  <1>4. CASE u = t
    <2>1. Reads(t) \/ Breaks(t) => actors'[t].applied = actors[t].applied
      BY DEF Reads, Breaks
    <2>2. Writes(t) => actors'[t].applied = actors[t].applied \cup {calls["save"].batch}
      BY DEF Writes
    <2>3. Commits(t) \/ RollsBack(t) => actors'[t].applied = {}
      BY DEF Commits, RollsBack
    <2>4. actors[t].running
      BY MoveFacts
    <2> QED BY <1>1, <1>4, <2>1, <2>2, <2>3, <2>4 DEF Applied, Running
  <1> QED BY <1>2, <1>3, <1>4

\* What a save learns from a step of a transaction.
LEMMA MoveAnswersSave ==
  ASSUME Inv, NEW t \in DOMAIN actors, Moves(t), calls["save"] # None
  PROVE  LET save == calls["save"] IN
         /\ calls'["save"] # None /\ calls'["save"].step = save.step
         /\ calls'["save"].tx = save.tx /\ calls'["save"].batch = save.batch
         /\ \/ calls'["save"] = save
            \/ save.tx = t /\ save.reply = None
         /\ calls'["save"].reply = "ok" =>
              \/ calls'["save"] = save
              \/ Writes(t)
              \/ Commits(t) /\ save.step = "committing"
              \/ RollsBack(t) /\ save.step = "failing"
         /\ Writes(t) => /\ calls'["save"].reply = "ok"
                         /\ save.step \in {"applied", "shared applied"}
         /\ (Commits(t) \/ RollsBack(t)) /\ save.step \notin {"committing", "failing"}
              => /\ calls["mode"] # None /\ calls["mode"].tx = t
                 /\ calls["mode"].step \in {"committing", "old", "rolling back"}
         /\ Commits(t) /\ save.step = "committing" => save.tx = t \/ calls["mode"] # None
         /\ RollsBack(t) /\ save.step = "committing" => calls["mode"] # None
  <1>1. OnlyAnswers /\ "save" \in Callers
    BY MoveFacts DEF Callers
  <1>2. Moves(t)
    OBVIOUS
  <1> QED BY <1>1, <1>2, NoneKnown
          DEF Moves, Reads, Writes, Breaks, Commits, RollsBack, Answered, OnlyAnswers

LEMMA MoveKeepsSave ==
  ASSUME Inv, NEW t \in DOMAIN actors, Moves(t)
  PROVE  SaveInOrder'
  <1>0. Types /\ SaveInOrder /\ ActorsInOrder
    BY DEF Inv
  <1>1. /\ OnlyActor(t) /\ OnlyAnswers /\ {"save", "mode"} \subseteq Callers
        /\ UNCHANGED <<tab, staged, gaveUp>>
    BY MoveFacts DEF OnlyActor, Callers
  <1> SUFFICES ASSUME calls'["save"] # None
               PROVE  SaveInOrder'
    BY DEF SaveInOrder
  <1> DEFINE save == calls["save"]
             new == calls'["save"]
  <1>2. save # None /\ (calls'["mode"] = None <=> calls["mode"] = None)
    BY <1>1 DEF OnlyAnswers
  <1>3. /\ new.step = save.step /\ new.tx = save.tx /\ new.batch = save.batch
        /\ new = save \/ save.reply = None
    BY <1>2, MoveAnswersSave
  <1>4. PICK batch \in Batches : batch = save.batch
    BY <1>0, <1>2, StagedBatch DEF SaveInOrder
  <1>5. PICK x \in 0..Len(actors) : x = save.tx
    BY <1>0, <1>2, CallTyped, <1>1
  <1>6. Fresh(batch) /\ ~Writes(t) => Fresh(batch)'
    BY MoveKeepsFresh
  <1>7. save.step \in {"begin", "own", "shared", "failing", "done"} => Fresh(batch)'
    <2>1. Writes(t) => save.step \in {"applied", "shared applied"}
      BY <1>2, MoveAnswersSave
    <2> QED BY <1>0, <1>2, <1>4, <1>6, <2>1 DEF SaveInOrder
  <1>8. save.step \in {"applied", "shared applied"} /\ new.reply # "ok" => Fresh(batch)'
    <2>1. Writes(t) => new.reply = "ok"
      BY <1>2, MoveAnswersSave
    <2>2. new.reply # "ok" => save.reply # "ok"
      BY <1>3, NoneKnown
    <2> QED BY <1>0, <1>2, <1>4, <1>6, <2>1, <2>2 DEF SaveInOrder
  <1>9. ASSUME save.step \in {"applied", "shared applied"}, new.reply = "ok",
               save.step = "applied" \/ tab.kind = "Saving"
        PROVE  batch \in Applied(x)'
    <2>1. calls["mode"] = None
      BY <1>0, <1>2, <1>9 DEF SaveInOrder, OwnSteps
    <2>2. ~Commits(t) /\ ~RollsBack(t)
      BY <1>2, <1>9, <2>1, MoveAnswersSave
    <2>3. CASE Writes(t)
      <3>1. save.tx = t
        BY <2>3 DEF Writes, Answered
      <3> QED BY <1>4, <1>5, <2>3, <3>1, MoveApplied
    <2>4. CASE ~Writes(t)
      <3>1. new = save
        BY <1>2, <1>9, <2>2, <2>4, MoveAnswersSave
      <3>2. save.reply = "ok"
        BY <1>9, <3>1
      <3>3. batch \in Applied(x)
        BY <1>0, <1>2, <1>4, <1>5, <1>9, <3>2 DEF SaveInOrder
      <3>4. Reads(t) \/ Breaks(t)
        BY <2>2, <2>4 DEF Moves
      <3> QED BY <3>3, <3>4, MoveApplied
    <2> QED BY <2>3, <2>4
  <1>10. ASSUME save.step = "committing"
         PROVE  IF new.reply = "ok" THEN durable'[batch] > 0 ELSE batch \in Applied(x)'
    <2>1. calls["mode"] = None
      BY <1>0, <1>2, <1>10 DEF SaveInOrder, OwnSteps
    <2>2. ~Writes(t) /\ ~RollsBack(t)
      BY <1>2, <1>10, <2>1, MoveAnswersSave
    <2>3. CASE Commits(t)
      <3>1. /\ save.tx = t /\ new.reply = "ok" /\ save.reply = None
        BY <2>1, <2>3 DEF Commits, Answered
      <3>2. batch \in Applied(x)
        BY <1>0, <1>2, <1>4, <1>5, <1>10, <3>1, NoneKnown DEF SaveInOrder
      <3>3. x = t /\ Applied(t) = actors[t].applied
        BY <1>0, <1>5, <3>1, ActorTyped
      <3>4. actors[t].applied = actors[t].written
        BY <1>0, MoveFacts DEF ActorsInOrder
      <3>5. durable' = Committed(t) /\ durable[batch] \in Nat
        BY <1>0, <2>3 DEF Commits, Types
      <3>6. durable'[batch] = durable[batch] + 1
        BY <1>0, <3>2, <3>3, <3>4, <3>5, CommittedTyped
      <3> QED BY <3>1, <3>5, <3>6
    <2>4. CASE (Reads(t) \/ Breaks(t)) /\ ~Commits(t)
      <3>1. Applied(x)' = Applied(x)
        BY <2>4, MoveApplied
      <3>2. CASE new.reply = "ok"
        <4>2. new = save
          BY <1>2, <2>2, <2>4, <3>2, MoveAnswersSave
        <4>3. durable[batch] > 0 /\ durable[batch] \in Nat
          BY <1>0, <1>2, <1>4, <1>10, <3>2, <4>2 DEF SaveInOrder, Types
        <4>4. durable'[batch] \in Nat /\ durable'[batch] >= durable[batch]
          BY MoveFacts
        <4> QED BY <3>2, <4>3, <4>4
      <3>3. CASE new.reply # "ok"
        <4>1. save.reply # "ok"
          BY <1>3, <3>3, NoneKnown
        <4> QED BY <1>0, <1>2, <1>4, <1>5, <1>10, <3>1, <3>3, <4>1 DEF SaveInOrder
      <3> QED BY <3>2, <3>3
    <2> QED BY <2>2, <2>3, <2>4 DEF Moves
  <1>11. batch = new.batch /\ x = new.tx
    BY <1>3, <1>4, <1>5
  <1>12. /\ new.batch \in 1..staged' /\ tab'.recovery = {}
         /\ tab'.kind \in {"Saving", "Unavailable"}
         /\ tab'.kind = "Saving" => calls'["mode"] = None /\ tab'.changes = new.batch
         /\ tab'.changes = new.batch \/ new.batch \in gaveUp'
         /\ new.step \in OwnSteps => tab'.tx = NoActor /\ calls'["mode"] = None
         /\ new.step \in {"shared", "shared applied"} /\ tab'.kind = "Saving" => new.tx = tab'.tx
         /\ new.step \in OwnSteps \cup {"shared", "shared applied", "done"}
    BY <1>0, <1>1, <1>2, <1>3 DEF SaveInOrder
  <1> HIDE DEF save
  <1>13. /\ new.step \in {"begin", "own", "shared", "failing", "done"} => Fresh(batch)'
         /\ new.step \in {"applied", "shared applied"} /\ new.reply # "ok" => Fresh(batch)'
         /\ new.step = "applied" /\ new.reply = "ok" => batch \in Applied(x)'
         /\ new.step = "shared applied" /\ new.reply = "ok" /\ tab'.kind = "Saving"
              => batch \in Applied(x)'
         /\ new.step = "committing" => IF new.reply = "ok" THEN durable'[batch] > 0
                                       ELSE batch \in Applied(x)'
    BY <1>1, <1>3, <1>7, <1>8, <1>9, <1>10
  <1> QED BY <1>11, <1>12, <1>13 DEF SaveInOrder, Fresh, Applied

LEMMA MoveKeepsMode ==
  ASSUME Inv, NEW t \in DOMAIN actors, Moves(t)
  PROVE  ModeInOrder'
  <1>0. Types /\ SaveInOrder /\ ModeInOrder
    BY DEF Inv
  <1>1. /\ OnlyActor(t) /\ OnlyAnswers /\ {"save", "mode"} \subseteq Callers
        /\ UNCHANGED <<tab, staged, gaveUp>>
    BY MoveFacts DEF OnlyActor, Callers
  <1> SUFFICES ASSUME calls'["mode"] # None
               PROVE  ModeInOrder'
    BY DEF ModeInOrder
  <1> DEFINE mode == calls["mode"]
             new == calls'["mode"]
             save == calls["save"]
  <1>2. /\ mode # None /\ new.step = mode.step /\ new.tx = mode.tx
        /\ calls'["save"] # None <=> save # None
        /\ save # None => calls'["save"].batch = save.batch
    BY <1>1 DEF OnlyAnswers
  <1>3. PICK x \in 0..Len(actors) : x = mode.tx
    BY <1>0, <1>1, <1>2, CallTyped
  <1>4. t \in 0..Len(actors) /\ t # NoActor
    BY <1>0, ActorTyped DEF Types
  <1>5. ASSUME mode.step \in {"committing", "rolling back"}, new.reply = "ok"
        PROVE  ~Running(x)' /\ Applied(x)' = {}
    <2>1. CASE new = mode
      <3>1. ~Running(x) /\ Applied(x) = {}
        BY <1>0, <1>2, <1>3, <1>5, <2>1 DEF ModeInOrder
      <3>2. ~Running(x)'
        BY <3>1, MoveApplied
      <3>3. Writes(t) => x # t
        <4>1. actors[t].running
          BY MoveFacts
        <4> QED BY <1>0, <3>1, <4>1, ActorTyped
      <3>4. Applied(x)' = {}
        BY <3>1, <3>3, MoveApplied DEF Moves
      <3> QED BY <3>2, <3>4
    <2>2. CASE new # mode
      <3>1. Commits(t) \/ RollsBack(t)
        BY <1>5, <2>2, NoneKnown DEF Moves, Reads, Writes, Breaks, Answered
      <3>2. x = t
        BY <1>3, <2>2, <3>1 DEF Commits, RollsBack, Answered
      <3>3. ~actors'[t].running /\ actors'[t].applied = {}
        BY <3>1 DEF Commits, RollsBack, Ends
      <3> QED BY <3>2, <3>3 DEF Running, Applied
    <2> QED BY <2>1, <2>2
  <1>6. ASSUME mode.step = "rolling back" PROVE Applied(x)' \subseteq gaveUp
    <2>1. Applied(x) \subseteq gaveUp /\ (save # None => save.batch \in gaveUp)
      BY <1>0, <1>2, <1>3, <1>6 DEF ModeInOrder
    <2>2. Writes(t) => save # None
      BY DEF Writes, Answered
    <2> HIDE DEF save
    <2>3. Applied(x)' \subseteq Applied(x) \cup (IF Writes(t) THEN {save.batch} ELSE {})
      BY MoveApplied DEF Moves, save
    <2> QED BY <2>1, <2>2, <2>3
  <1>7. x = new.tx
    BY <1>2, <1>3
  <1>8. /\ tab'.busy
        /\ IF new.step \in {"committing", "rolling back"} THEN new.tx = tab'.tx
           ELSE tab'.tx = NoActor
        /\ new.step = "rolling back" =>
             (calls'["save"] # None => calls'["save"].batch \in gaveUp')
    BY <1>0, <1>1, <1>2 DEF ModeInOrder
  <1>9. new.step \in {"committing", "rolling back"} /\ new.reply = "ok"
          => ~Running(x)' /\ Applied(x)' = {}
    BY <1>2, <1>5
  <1>10. new.step = "rolling back" => Applied(x)' \subseteq gaveUp'
    BY <1>1, <1>2, <1>6
  <1> QED BY <1>7, <1>8, <1>9, <1>10 DEF ModeInOrder, Running, Applied

LEMMA MoveKeepsStaged ==
  ASSUME Inv, NEW t \in DOMAIN actors, Moves(t)
  PROVE  StagedIsFresh'
  <1>0. Types /\ StagedIsFresh
    BY DEF Inv
  <1>1. /\ UNCHANGED <<tab, staged, gaveUp>>
        /\ calls'["save"] = None <=> calls["save"] = None
    BY MoveFacts DEF OnlyActor, OnlyAnswers, Callers
  <1>2. ASSUME tab.open, tab.changes # 0, calls["save"] = None, tab.kind # "Unavailable",
               tab.recovery = {}
        PROVE  Fresh(tab.changes)'
    <2>1. Fresh(tab.changes)
      BY <1>0, <1>2 DEF StagedIsFresh
    <2>2. tab.changes \in 1..staged
      BY <1>0, <1>2 DEF Types, Tab
    <2>3. PICK b \in Batches : b = tab.changes
      BY <1>0, <2>2, StagedBatch
    <2>4. ~Writes(t)
      BY <1>2 DEF Writes, Answered
    <2>5. Fresh(b)
      BY <2>1, <2>3
    <2>6. Fresh(b)'
      BY <2>4, <2>5, MoveKeepsFresh
    <2> QED BY <1>1, <2>3, <2>6 DEF Fresh
  <1> QED BY <1>0, <1>1, <1>2 DEF StagedIsFresh, Fresh

LEMMA MoveLosesNothing ==
  ASSUME Inv, NEW t \in DOMAIN actors, Moves(t)
  PROVE  NoSilentLoss'
  <1>0. Types /\ NoSilentLoss /\ ActorsInOrder /\ ModeInOrder /\ SaveInOrder
    BY DEF Inv
  <1>1. UNCHANGED <<tab, staged, gaveUp>>
    BY MoveFacts DEF OnlyActor
  <1> SUFFICES ASSUME NEW b \in 1..staged
               PROVE  \/ durable'[b] > 0 \/ b \in gaveUp
                      \/ tab.open /\ b \in Staged \cup tab.recovery \cup Applied(tab.tx)'
    BY <1>1 DEF NoSilentLoss, Unsaved, Staged, Applied
  <1>2. b \in Batches /\ durable[b] \in Nat
    BY <1>0, StagedBatch DEF Types
  <1>3. PICK x \in 0..Len(actors) : x = tab.tx
    BY <1>0 DEF Types
  <1>4. durable[b] > 0 => durable'[b] > 0
    BY <1>2, MoveFacts
  <1>5. CASE Applied(x) \subseteq Applied(x)'
    BY <1>0, <1>1, <1>3, <1>4, <1>5 DEF NoSilentLoss, Unsaved, Applied
  <1>6. CASE ~(Applied(x) \subseteq Applied(x)')
    <2>1. x = t /\ (Commits(t) \/ RollsBack(t))
      BY <1>6, MoveApplied DEF Moves
    <2>2. t # NoActor /\ Applied(t) = actors[t].applied /\ actors[t].applied = actors[t].written
      BY <1>0, MoveFacts, ActorTyped DEF ActorsInOrder
    <2>3. b \notin Applied(x) => \/ durable[b] > 0 \/ b \in gaveUp
                                 \/ tab.open /\ b \in Staged \cup tab.recovery
      <3>1. Applied(tab.tx) = Applied(x)
        BY <1>3 DEF Applied
      <3>2. durable[b] > 0 \/ b \in gaveUp \/ (tab.open /\ b \in Unsaved)
        BY <1>0 DEF NoSilentLoss
      <3>3. Unsaved = Staged \cup tab.recovery \cup Applied(tab.tx)
        BY DEF Unsaved
      <3> QED BY <3>1, <3>2, <3>3
    <2>4. ASSUME b \in Applied(x) PROVE durable'[b] > 0 \/ b \in gaveUp
      <3>1. CASE Commits(t)
        <4>1. durable'[b] = durable[b] + 1
          BY <1>0, <1>2, <2>1, <2>2, <2>4, <3>1, CommittedTyped DEF Commits
        <4> QED BY <1>2, <4>1
      <3>2. CASE RollsBack(t)
        <4>1. PICK c \in {"save", "mode"} :
                /\ calls[c] # None /\ calls[c].tx = t
                /\ IF c = "save" THEN calls[c].step = "failing"
                   ELSE calls[c].step \in {"old", "rolling back"}
          BY <3>2 DEF RollsBack, Answered
        <4>2. CASE c = "save"
          BY <1>0, <1>3, <2>1, <2>2, <4>1, <4>2 DEF SaveInOrder, OwnSteps
        <4>3. CASE c = "mode"
          <5>1. calls["mode"].step = "rolling back"
            BY <1>0, <1>3, <2>1, <2>2, <4>1, <4>3 DEF ModeInOrder
          <5>2. Applied(calls["mode"].tx) \subseteq gaveUp /\ calls["mode"].tx = x
            BY <1>0, <2>1, <4>1, <4>3, <5>1 DEF ModeInOrder
          <5> QED BY <2>4, <5>2
        <4> QED BY <4>1, <4>2, <4>3
      <3> QED BY <2>1, <3>1, <3>2
    <2> QED BY <1>4, <2>3, <2>4
  <1> QED BY <1>5, <1>6

\* A step of a transaction keeps the invariant.
LEMMA ActorStepCase ==
  ASSUME Inv, NEW t \in DOMAIN actors, ActorStep(t)
  PROVE  Inv'
  <1>1. Moves(t)
    <2>1. CASE Stop(t)
      BY <2>1, StopCase DEF Moves
    <2>2. ASSUME NEW reply \in {"ok", "refused", "error"}, Perform(t, reply)
          PROVE  Moves(t)
      BY <2>2, PerformCases DEF Moves, Replies
    <2> QED BY <2>1, <2>2 DEF ActorStep
  <1> QED BY <1>1, MoveFacts, MoveKeepsWritten, MoveKeepsActors, MoveKeepsQueues, MoveKeepsSave,
             MoveKeepsMode, MoveKeepsStaged, MoveLosesNothing DEF Inv

-----------------------------------------------------------------------------
(* The other steps: nothing is written, answered or ended *)

\* Transactions keep what they have; one may be born.
Kept ==
  /\ durable' = durable /\ staged' \in Nat /\ staged' >= staged
  /\ actors' \in Seq(Actor) /\ Len(actors') >= Len(actors)
  /\ \A t \in DOMAIN actors :
       /\ actors'[t].running = actors[t].running
       /\ actors'[t].applied = actors[t].applied
       /\ actors'[t].written = actors[t].written
  /\ \A t \in DOMAIN actors' \ DOMAIN actors : actors'[t] = NewActor

QueuesKept == \A t \in DOMAIN actors : actors'[t].queue = actors[t].queue
QueueGets(t, command) ==
  /\ actors[t].running /\ command \in Command
  /\ actors'[t].queue = Append(actors[t].queue, command)
  /\ \A u \in DOMAIN actors \ {t} : actors'[u].queue = actors[u].queue

\* No command of the caller is in a queue.
Absent(c) == \A t \in DOMAIN actors : \A i \in DOMAIN actors[t].queue :
               actors[t].queue[i].caller # c

LEMMA KeptFacts ==
  ASSUME Inv, Kept
  PROVE  /\ WrittenOnce' /\ DOMAIN actors \subseteq DOMAIN actors'
         /\ \A b \in Batches : Fresh(b) => Fresh(b)'
         /\ \A u \in 0..Len(actors) : /\ Applied(u)' = Applied(u)
                                      /\ Running(u)' <=> Running(u)
  <1>0. Types /\ WrittenOnce
    BY DEF Inv
  <1>1. DOMAIN actors = 1..Len(actors) /\ DOMAIN actors' = 1..Len(actors')
        /\ Len(actors) \in Nat /\ Len(actors') \in Nat /\ Len(actors') >= Len(actors)
    BY <1>0 DEF Types, Kept
  <1>2. DOMAIN actors \subseteq DOMAIN actors'
    BY <1>1
  <1>3. \A t \in DOMAIN actors' : IF t \in DOMAIN actors THEN actors'[t].written = actors[t].written
                                  ELSE actors'[t].written = {}
    BY DEF Kept, NewActor
  <1>4. \A b \in Batches : Fresh(b) => Fresh(b)'
    BY <1>3 DEF Fresh, Kept
  <1>5. ASSUME NEW u \in 0..Len(actors)
        PROVE  Applied(u)' = Applied(u) /\ (Running(u)' <=> Running(u))
    <2>1. CASE u = NoActor
      BY <2>1 DEF Applied, Running
    <2>2. CASE u # NoActor
      <3>1. u \in DOMAIN actors
        BY <1>1, <2>2 DEF NoActor
      <3> QED BY <2>2, <3>1 DEF Applied, Running, Kept
    <2> QED BY <2>1, <2>2
  <1>6. WrittenOnce'
    <2>1. \A b \in Batches : durable'[b] <= 1 /\ (durable'[b] > 0 => b <= staged')
      BY <1>0 DEF WrittenOnce, Kept, Types, Batches
    <2>2. ASSUME NEW t \in DOMAIN actors', NEW b \in actors'[t].written
          PROVE  durable'[b] = 0 /\ b <= staged'
      <3>1. t \in DOMAIN actors /\ b \in actors[t].written
        BY <1>3, <2>2
      <3>2. b \in Batches
        BY <1>0, <3>1, ActorTyped
      <3>3. durable[b] = 0 /\ b <= staged
        BY <1>0, <3>1 DEF WrittenOnce
      <3> QED BY <1>0, <3>2, <3>3 DEF Kept, Types, Batches
    <2>3. ASSUME NEW t \in DOMAIN actors', NEW u \in DOMAIN actors', t # u
          PROVE  actors'[t].written \cap actors'[u].written = {}
      BY <1>0, <1>3, <2>3 DEF WrittenOnce
    <2> QED BY <2>1, <2>2, <2>3 DEF WrittenOnce
  <1> QED BY <1>2, <1>4, <1>5, <1>6

\* A command stays expected while its caller stays where it is.
LEMMA ExpectedStays ==
  ASSUME Inv, NEW t \in DOMAIN actors, NEW i \in DOMAIN actors[t].queue,
         NEW command, command = actors[t].queue[i],
         \A c \in {"save", "mode"} : calls'[c] = calls[c] \/ Absent(c)
  PROVE  Expected(t, command)'
  <1>1. Expected(t, command)
    BY DEF Inv, QueuesInOrder
  <1>2. CASE command.caller \in {"load", "export"}
    BY <1>1, <1>2 DEF Expected
  <1>3. CASE command.caller \in {"save", "mode"}
    <2>1. calls'[command.caller] = calls[command.caller]
      BY <1>3 DEF Absent
    <2> QED BY <1>1, <1>3, <2>1 DEF Expected
  <1> QED BY <1>1, <1>2, <1>3 DEF Expected

LEMMA NewActorFields ==
  /\ NewActor.running /\ NewActor.queue = <<>>
  /\ NewActor.applied = {} /\ NewActor.written = {}
  BY DEF NewActor

LEMMA QueuesStay ==
  ASSUME Inv, Kept, QueuesKept,
         \A c \in {"save", "mode"} : calls'[c] = calls[c] \/ Absent(c)
  PROVE  ActorsInOrder' /\ QueuesInOrder'
  <1>1. ASSUME NEW t \in DOMAIN actors' \ DOMAIN actors
        PROVE  actors'[t].running /\ actors'[t].queue = <<>> /\ actors'[t].applied = actors'[t].written
    BY NewActorFields DEF Kept
  <1>2. ActorsInOrder'
    <2> SUFFICES ASSUME NEW t \in DOMAIN actors'
                 PROVE  IF actors'[t].running THEN actors'[t].applied = actors'[t].written
                        ELSE actors'[t].written = {} /\ actors'[t].queue = <<>>
      BY DEF ActorsInOrder
    <2>1. CASE t \in DOMAIN actors
      BY <2>1 DEF Inv, ActorsInOrder, Kept, QueuesKept
    <2>2. CASE t \notin DOMAIN actors
      BY <1>1, <2>2
    <2> QED BY <2>1, <2>2
  <1>3. ASSUME NEW t \in DOMAIN actors', NEW i \in DOMAIN actors'[t].queue,
               NEW command, command = actors'[t].queue[i]
        PROVE  /\ Expected(t, command)'
               /\ \A j \in DOMAIN actors'[t].queue :
                    actors'[t].queue[i].caller = actors'[t].queue[j].caller
                      /\ actors'[t].queue[i].caller \in {"save", "mode"} => i = j
    <2>1. CASE t \in DOMAIN actors
      <3>1. actors'[t].queue = actors[t].queue
        BY <2>1 DEF QueuesKept
      <3>2. Expected(t, command)'
        BY <1>3, <2>1, <3>1, ExpectedStays
      <3> QED BY <1>3, <2>1, <3>1, <3>2 DEF Inv, QueuesInOrder
    <2>2. CASE t \notin DOMAIN actors
      BY <1>1, <1>3, <2>2
    <2> QED BY <2>1, <2>2
  <1> QED BY <1>2, <1>3 DEF QueuesInOrder

LEMMA QueueGrows ==
  ASSUME Inv, Kept, NEW t \in DOMAIN actors, NEW command, QueueGets(t, command),
         \A c \in {"save", "mode"} : calls'[c] = calls[c] \/ Absent(c),
         command.caller \in {"load", "export"} \/ Absent(command.caller),
         Expected(t, command)'
  PROVE  ActorsInOrder' /\ QueuesInOrder'
  <1>0. Types
    BY DEF Inv
  <1>1. ASSUME NEW u \in DOMAIN actors' \ DOMAIN actors
        PROVE  actors'[u].running /\ actors'[u].queue = <<>> /\ actors'[u].applied = actors'[u].written
    BY NewActorFields DEF Kept
  <1>2. ActorsInOrder'
    <2> SUFFICES ASSUME NEW u \in DOMAIN actors'
                 PROVE  IF actors'[u].running THEN actors'[u].applied = actors'[u].written
                        ELSE actors'[u].written = {} /\ actors'[u].queue = <<>>
      BY DEF ActorsInOrder
    <2>1. CASE u \in DOMAIN actors
      BY <2>1 DEF Inv, ActorsInOrder, Kept, QueueGets
    <2>2. CASE u \notin DOMAIN actors
      BY <1>1, <2>2
    <2> QED BY <2>1, <2>2
  <1> DEFINE queue == actors[t].queue
             new == actors'[t].queue
  <1>3. queue \in Seq(Command) /\ command \in Command /\ new = Append(queue, command)
    BY <1>0, ActorTyped DEF QueueGets
  <1>4. \/ command.caller \in {"load", "export"}
        \/ \A i \in DOMAIN queue : queue[i].caller # command.caller
    BY DEF Absent
  <1>5. \A i, j \in DOMAIN queue :
          queue[i].caller = queue[j].caller /\ queue[i].caller \in {"save", "mode"} => i = j
    BY DEF Inv, QueuesInOrder
  <1> HIDE DEF queue, new
  <1>6. /\ Len(queue) \in Nat /\ DOMAIN queue = 1..Len(queue) /\ DOMAIN new = 1..(Len(queue) + 1)
        /\ \A i \in 1..Len(queue) : new[i] = queue[i]
        /\ new[Len(queue) + 1] = command
    BY <1>3
  <1>7. \A i \in DOMAIN new : \/ i \in DOMAIN queue /\ new[i] = queue[i]
                              \/ i = Len(queue) + 1 /\ i \notin DOMAIN queue /\ new[i] = command
    BY <1>6
  <1>8. ASSUME NEW u \in DOMAIN actors', NEW i \in DOMAIN actors'[u].queue,
               NEW c, c = actors'[u].queue[i]
        PROVE  /\ Expected(u, c)'
               /\ \A j \in DOMAIN actors'[u].queue :
                    actors'[u].queue[i].caller = actors'[u].queue[j].caller
                      /\ actors'[u].queue[i].caller \in {"save", "mode"} => i = j
    <2>1. CASE u \notin DOMAIN actors
      BY <1>1, <1>8, <2>1
    <2>2. CASE u \in DOMAIN actors /\ u # t
      <3>1. actors'[u].queue = actors[u].queue
        BY <2>2 DEF QueueGets
      <3>2. Expected(u, c)'
        BY <1>8, <2>2, <3>1, ExpectedStays
      <3> QED BY <1>8, <2>2, <3>1, <3>2 DEF Inv, QueuesInOrder
    <2>3. CASE u = t
      <3>1. i \in DOMAIN new /\ c = new[i]
        BY <1>8, <2>3 DEF new
      <3>2. Expected(t, c)'
        <4>1. CASE i \in DOMAIN queue /\ new[i] = queue[i]
          BY <3>1, <4>1, ExpectedStays DEF queue
        <4>2. CASE new[i] = command
          BY <3>1, <4>2
        <4> QED BY <1>7, <3>1, <4>1, <4>2
      <3>3. \A j \in DOMAIN new :
              new[i].caller = new[j].caller /\ new[i].caller \in {"save", "mode"} => i = j
        BY <1>4, <1>5, <1>7, <3>1
      <3> QED BY <2>3, <3>2, <3>3 DEF new
    <2> QED BY <2>1, <2>2, <2>3
  <1> QED BY <1>2, <1>8 DEF QueuesInOrder

\* The transactions are left alone.
LEMMA SameActors ==
  ASSUME Inv, UNCHANGED <<durable, actors>>, staged' \in Nat, staged' >= staged
  PROVE  Kept /\ QueuesKept
  BY DEF Inv, Types, Kept, QueuesKept

\* A new transaction begins.
LEMMA BornActor ==
  ASSUME Inv, UNCHANGED <<durable, staged>>, actors' = Append(actors, NewActor)
  PROVE  Kept /\ QueuesKept /\ Len(actors') = Len(actors) + 1
  <1>1. actors \in Seq(Actor) /\ staged \in Nat
    BY DEF Inv, Types
  <1>2. NewActor \in Actor
    <2>1. <<>> \in Seq(Command)
      OBVIOUS
    <2> QED BY <2>1 DEF NewActor, Actor
  <1>3. /\ actors' \in Seq(Actor) /\ Len(actors') = Len(actors) + 1 /\ Len(actors) \in Nat
        /\ DOMAIN actors = 1..Len(actors) /\ DOMAIN actors' = 1..(Len(actors) + 1)
        /\ \A t \in 1..Len(actors) : actors'[t] = actors[t]
        /\ actors'[Len(actors) + 1] = NewActor
    BY <1>1, <1>2
  <1>4. \A t \in DOMAIN actors' \ DOMAIN actors : actors'[t] = NewActor
    BY <1>3
  <1> QED BY <1>1, <1>3, <1>4 DEF Kept, QueuesKept

\* A transaction is asked for something.
LEMMA AskedActor ==
  ASSUME Inv, UNCHANGED <<durable, staged>>, NEW t \in DOMAIN actors, actors[t].running,
         NEW command \in Command,
         actors' = [actors EXCEPT ![t].queue = Append(@, command)]
  PROVE  Kept /\ QueueGets(t, command) /\ Len(actors') = Len(actors)
  <1>0. Types
    BY DEF Inv
  <1> DEFINE queue == Append(actors[t].queue, command)
             a == [actors[t] EXCEPT !.queue = queue]
  <1>1. actors[t] \in Actor
    BY <1>0, ActorTyped
  <1>2. queue \in Seq(Command)
    <2>1. actors[t].queue \in Seq(Command)
      BY <1>0, ActorTyped
    <2> QED BY <2>1
  <1> HIDE DEF queue
  <1>3. /\ a \in Actor /\ a.running = actors[t].running /\ a.applied = actors[t].applied
        /\ a.written = actors[t].written /\ a.queue = queue
    BY <1>1, <1>2 DEF Actor
  <1>4. actors' = [actors EXCEPT ![t] = a]
    BY DEF queue
  <1> HIDE DEF a
  <1>5. /\ actors' \in Seq(Actor) /\ DOMAIN actors' = DOMAIN actors /\ actors'[t] = a
        /\ \A u \in DOMAIN actors \ {t} : actors'[u] = actors[u]
    BY <1>0, <1>3, <1>4, ActorReplaced
  <1>6. Len(actors') = Len(actors) /\ staged \in Nat
    BY <1>0, <1>5 DEF Types
  <1>7. Len(actors') >= Len(actors) /\ staged' \in Nat /\ staged' >= staged
    BY <1>0, <1>6 DEF Types
  <1>8. Kept
    BY <1>3, <1>5, <1>7 DEF Kept
  <1>9. QueueGets(t, command)
    BY <1>3, <1>5 DEF QueueGets, queue
  <1> QED BY <1>6, <1>8, <1>9

\* A request: the call is in its new step, and its command is the last of the queue.
LEMMA RequestFacts ==
  ASSUME Inv, UNCHANGED <<durable, staged>>, NEW c \in {"save", "load", "mode"}, calls[c] # None,
         NEW step \in Steps, NEW t \in 0..Len(actors), NEW batch \in 0..MaxBatches,
         NEW op \in {"Batch", "Query", "Stream", "Commit", "Rollback"},
         Request(c, step, t, op, batch),
         c = "load" \/ Absent(c),
         IF c = "load" THEN op = "Query" ELSE Asks(c, step, op),
         op = "Batch" => batch = calls[c].batch
  PROVE  /\ Kept /\ ActorsInOrder' /\ QueuesInOrder' /\ Len(actors') = Len(actors)
         /\ calls' \in [Callers -> Call \cup {None}]
         /\ calls'[c] # None /\ calls'[c].step = step /\ calls'[c].tx = t
         /\ calls'[c].batch = calls[c].batch /\ calls'[c].reply \in {None, "error"}
         /\ \A d \in Callers \ {c} : calls'[d] = calls[d]
  <1>0. Types
    BY DEF Inv
  <1> DEFINE command == [op |-> op, caller |-> c, batch |-> batch]
             reply == IF Running(t) THEN None ELSE "error"
             staying == [calls[c] EXCEPT !.step = step]
             going == [staying EXCEPT !.tx = t]
             new == [going EXCEPT !.reply = reply]
  <1>1. c \in Callers /\ calls[c] \in Call /\ t \in Nat /\ reply \in Replies \cup {None}
    BY <1>0, CallTyped DEF Callers, Replies
  <1> HIDE DEF reply
  <1>2. staying \in Call /\ staying.step = step /\ staying.batch = calls[c].batch
    BY <1>1 DEF Call
  <1> HIDE DEF staying
  <1>3. going \in Call /\ going.step = step /\ going.tx = t /\ going.batch = calls[c].batch
    BY <1>1, <1>2 DEF Call
  <1> HIDE DEF going
  <1>4. /\ new \in Call /\ new.step = step /\ new.tx = t /\ new.batch = calls[c].batch
        /\ new.reply = reply
    BY <1>1, <1>3 DEF Call
  <1>5. calls' = [calls EXCEPT ![c] = new]
    BY DEF Request, staying, going, reply
  <1> HIDE DEF new
  <1>6. /\ calls' \in [Callers -> Call \cup {None}] /\ calls'[c] = new
        /\ \A d \in Callers \ {c} : calls'[d] = calls[d]
    BY <1>0, <1>1, <1>4, <1>5 DEF Types
  <1>7. new # None /\ reply \in {None, "error"}
    BY <1>4, NoneAssumption DEF reply
  <1>8. \A d \in {"save", "mode"} : calls'[d] = calls[d] \/ Absent(d)
    BY <1>6 DEF Callers
  <1>9. CASE Running(t)
    <2>1. t \in DOMAIN actors /\ actors[t].running
      BY <1>0, <1>9 DEF Running, NoActor, Types
    <2>2. command \in Command
      BY <1>1 DEF Command
    <2>3. actors' = [actors EXCEPT ![t].queue = Append(@, command)]
      BY <1>9 DEF Request
    <2>4. Expected(t, command)'
      <3>1. command.caller = c /\ command.op = op /\ command.batch = batch
        OBVIOUS
      <3> HIDE DEF command
      <3>2. calls'[c].reply = None
        BY <1>4, <1>6, <1>9 DEF reply
      <3>3. PICK x : x = calls[c].batch
        OBVIOUS
      <3> QED BY <1>4, <1>6, <1>7, <3>1, <3>2, <3>3 DEF Expected, Asks
    <2> HIDE DEF command
    <2>5. Kept /\ QueueGets(t, command) /\ Len(actors') = Len(actors)
      BY <2>1, <2>2, <2>3, AskedActor
    <2>6. command.caller = c
      BY DEF command
    <2>7. command.caller \in {"load", "export"} \/ Absent(command.caller)
      BY <2>6
    <2>8. ActorsInOrder' /\ QueuesInOrder'
      BY <1>8, <2>1, <2>4, <2>5, <2>7, QueueGrows
    <2> QED BY <1>4, <1>6, <1>7, <2>5, <2>8
  <1>10. CASE ~Running(t)
    <2>1. actors' = actors
      BY <1>10 DEF Request
    <2>2. staged' \in Nat /\ staged' >= staged
      BY <1>0 DEF Types
    <2>3. Kept /\ QueuesKept
      BY <2>1, <2>2, SameActors
    <2>4. ActorsInOrder' /\ QueuesInOrder'
      BY <1>8, <2>3, QueuesStay
    <2> QED BY <1>4, <1>6, <1>7, <2>1, <2>3, <2>4
  <1> QED BY <1>9, <1>10

-----------------------------------------------------------------------------
(* The calls and the tab *)

\* The tab shows something else, but nothing of a save or of a change of the mode.
TabKept ==
  /\ tab' \in Tab /\ UNCHANGED <<staged, gaveUp>>
  /\ tab'.open = tab.open /\ tab'.changes = tab.changes /\ tab'.tx = tab.tx
  /\ tab'.busy = tab.busy /\ tab'.recovery = tab.recovery
  /\ \/ tab'.kind = tab.kind
     \/ {tab.kind, tab'.kind} \cap {"Saving", "Unavailable"} = {}

CallsTyped ==
  /\ calls' \in [Callers -> Call \cup {None}]
  /\ \A c \in Callers : calls'[c] # None => calls'[c].tx \in 0..Len(actors')

\* A save is waiting for its next step, and knows what became of its batch.
LEMMA SaveFacts ==
  ASSUME Inv, calls["save"] # None
  PROVE  /\ calls["save"].batch \in Batches /\ calls["save"].batch \in 1..staged
         /\ calls["save"].tx \in 0..Len(actors) /\ "save" \in Callers
         /\ calls["save"] \in Call
  <1>1. calls["save"].batch \in 1..staged
    BY DEF Inv, SaveInOrder
  <1>2. Types /\ "save" \in Callers
    BY DEF Inv, Callers
  <1> QED BY <1>1, <1>2, StagedBatch, CallTyped

\* What a step must leave alone to keep each part.
LEMMA ModeStays ==
  ASSUME Inv, Kept, TabKept, calls'["mode"] = calls["mode"],
         calls'["save"] = None <=> calls["save"] = None,
         calls["save"] # None => calls'["save"].batch = calls["save"].batch
  PROVE  ModeInOrder'
  <1>0. Types /\ ModeInOrder
    BY DEF Inv
  <1> SUFFICES ASSUME calls["mode"] # None PROVE ModeInOrder'
    BY DEF ModeInOrder
  <1>1. PICK x \in 0..Len(actors) : x = calls["mode"].tx
    BY <1>0, CallTyped DEF Callers
  <1>2. Applied(x)' = Applied(x) /\ (Running(x)' <=> Running(x))
    BY KeptFacts
  <1> DEFINE mode == calls["mode"]
  <1>3. /\ mode.step \in {"committing", "rolling back"} /\ mode.reply = "ok"
             => ~Running(x) /\ Applied(x) = {}
        /\ mode.step = "rolling back" => Applied(x) \subseteq gaveUp
    BY <1>0, <1>1 DEF ModeInOrder, Running, Applied
  <1>4. /\ mode.step \in {"committing", "rolling back"} /\ mode.reply = "ok"
             => ~Running(x)' /\ Applied(x)' = {}
        /\ mode.step = "rolling back" => Applied(x)' \subseteq gaveUp'
    BY <1>2, <1>3 DEF TabKept
  <1>5. /\ tab'.busy
        /\ IF mode.step \in {"committing", "rolling back"} THEN mode.tx = tab'.tx
           ELSE tab'.tx = NoActor
        /\ mode.step = "rolling back" =>
             (calls'["save"] # None => calls'["save"].batch \in gaveUp')
    BY <1>0 DEF ModeInOrder, TabKept
  <1> QED BY <1>1, <1>4, <1>5 DEF ModeInOrder, Running, Applied

LEMMA StagedStays ==
  ASSUME Inv, Kept, TabKept, calls'["save"] = None <=> calls["save"] = None
  PROVE  StagedIsFresh'
  <1>0. Types /\ StagedIsFresh
    BY DEF Inv
  <1>1. /\ tab'.kind = "Saving" <=> tab.kind = "Saving"
        /\ tab'.kind = "Unavailable" <=> tab.kind = "Unavailable"
    BY DEF TabKept
  <1>2. ASSUME tab.open, tab.changes # 0, calls["save"] = None, tab.kind # "Unavailable",
               tab.recovery = {}
        PROVE  Fresh(tab.changes)'
    <2>1. tab.changes \in 1..staged
      BY <1>0, <1>2 DEF Types, Tab
    <2>2. PICK b \in Batches : b = tab.changes
      BY <1>0, <2>1, StagedBatch
    <2>3. Fresh(b)
      BY <1>0, <1>2, <2>2 DEF StagedIsFresh, Fresh
    <2>4. Fresh(b)'
      BY <2>3, KeptFacts
    <2> QED BY <2>2, <2>4 DEF Fresh, TabKept
  <1> QED BY <1>0, <1>1, <1>2 DEF StagedIsFresh, Fresh, TabKept

LEMMA NothingLost ==
  ASSUME Inv, Kept, TabKept
  PROVE  NoSilentLoss'
  <1>0. Types /\ NoSilentLoss
    BY DEF Inv
  <1>1. PICK x \in 0..Len(actors) : x = tab.tx
    BY <1>0 DEF Types
  <1>2. Applied(x)' = Applied(x)
    BY KeptFacts
  <1>3. \A b \in 1..staged : \/ durable[b] > 0 \/ b \in gaveUp
                             \/ tab.open /\ b \in Staged \cup tab.recovery \cup Applied(x)
    BY <1>0, <1>1 DEF NoSilentLoss, Unsaved, Applied
  <1>4. \A b \in 1..staged' : \/ durable'[b] > 0 \/ b \in gaveUp'
                              \/ tab'.open /\ b \in Staged' \cup tab'.recovery \cup Applied(x)'
    BY <1>2, <1>3 DEF TabKept, Kept, Staged
  <1>5. x = tab'.tx
    BY <1>1 DEF TabKept
  <1> QED BY <1>4, <1>5 DEF NoSilentLoss, Unsaved, Applied

LEMMA SaveStays ==
  ASSUME Inv, Kept, TabKept, calls'["save"] = calls["save"],
         calls["mode"] = None => calls'["mode"] = None
  PROVE  SaveInOrder'
  <1>0. Types /\ SaveInOrder
    BY DEF Inv
  <1>1. /\ tab'.kind = "Saving" <=> tab.kind = "Saving"
        /\ tab'.kind = "Unavailable" <=> tab.kind = "Unavailable"
    BY DEF TabKept
  <1> SUFFICES ASSUME calls["save"] # None PROVE SaveInOrder'
    BY DEF SaveInOrder
  <1>2. PICK batch \in Batches : batch = calls["save"].batch
    BY SaveFacts
  <1>3. PICK x \in 0..Len(actors) : x = calls["save"].tx
    BY SaveFacts
  <1>4. Applied(x)' = Applied(x) /\ (Fresh(batch) => Fresh(batch)')
    BY KeptFacts
  <1>5. durable' = durable
    BY DEF Kept
  <1> DEFINE save == calls["save"]
  <1>6. /\ save.step \in {"begin", "own", "shared", "failing", "done"} => Fresh(batch)
        /\ save.step \in {"applied", "shared applied"} /\ save.reply # "ok" => Fresh(batch)
        /\ save.step = "applied" /\ save.reply = "ok" => batch \in Applied(x)
        /\ save.step = "shared applied" /\ save.reply = "ok" /\ tab.kind = "Saving"
             => batch \in Applied(x)
        /\ save.step = "committing" => IF save.reply = "ok" THEN durable[batch] > 0
                                       ELSE batch \in Applied(x)
    BY <1>0, <1>2, <1>3 DEF SaveInOrder, Fresh, Applied
  <1>7. /\ save.step \in {"begin", "own", "shared", "failing", "done"} => Fresh(batch)'
        /\ save.step \in {"applied", "shared applied"} /\ save.reply # "ok" => Fresh(batch)'
        /\ save.step = "applied" /\ save.reply = "ok" => batch \in Applied(x)'
        /\ save.step = "shared applied" /\ save.reply = "ok" /\ tab'.kind = "Saving"
             => batch \in Applied(x)'
        /\ save.step = "committing" => IF save.reply = "ok" THEN durable'[batch] > 0
                                       ELSE batch \in Applied(x)'
    BY <1>1, <1>4, <1>5, <1>6
  <1>8. /\ save.batch \in 1..staged' /\ tab'.recovery = {}
        /\ tab'.kind \in {"Saving", "Unavailable"}
        /\ tab'.kind = "Saving" => calls'["mode"] = None /\ tab'.changes = save.batch
        /\ tab'.changes = save.batch \/ save.batch \in gaveUp'
        /\ save.step \in OwnSteps => tab'.tx = NoActor /\ calls'["mode"] = None
        /\ save.step \in {"shared", "shared applied"} /\ tab'.kind = "Saving"
             => save.tx = tab'.tx
        /\ save.step \in OwnSteps \cup {"shared", "shared applied", "done"}
    BY <1>0, <1>1 DEF SaveInOrder, TabKept
  <1> QED BY <1>2, <1>3, <1>7, <1>8 DEF SaveInOrder, Fresh, Applied

LEMMA TypesStay ==
  ASSUME Inv, Kept, TabKept, CallsTyped
  PROVE  Types'
  <1>0. Types
    BY DEF Inv
  <1>1. Len(actors) \in Nat /\ Len(actors') \in Nat /\ Len(actors') >= Len(actors)
    BY <1>0 DEF Types, Kept
  <1>2. tab'.tx \in 0..Len(actors')
    BY <1>0, <1>1 DEF TabKept, Types
  <1> QED BY <1>0, <1>2 DEF TabKept, CallsTyped, Kept, Types

\* Whatever is in flight, a step that leaves all of this alone keeps everything.
LEMMA NothingMoves ==
  ASSUME Inv, Kept, TabKept, calls'["save"] = calls["save"], calls'["mode"] = calls["mode"],
         CallsTyped
  PROVE  Types' /\ SaveInOrder' /\ ModeInOrder' /\ StagedIsFresh' /\ NoSilentLoss'
  BY TypesStay, SaveStays, ModeStays, StagedStays, NothingLost

\* The result of a call, and a call that is over.
LEMMA ResultFacts ==
  ASSUME Inv, NEW c \in Callers, calls[c] # None, NEW reply \in Replies, Result(c, reply)
  PROVE  /\ calls' \in [Callers -> Call \cup {None}] /\ calls'[c] # None
         /\ calls'[c].step = "done" /\ calls'[c].reply = reply
         /\ calls'[c].tx = calls[c].tx /\ calls'[c].batch = calls[c].batch
         /\ \A d \in Callers \ {c} : calls'[d] = calls[d]
  <1> DEFINE staying == [calls[c] EXCEPT !.step = "done"]
             new == [staying EXCEPT !.reply = reply]
  <1>1. calls[c] \in Call /\ calls \in [Callers -> Call \cup {None}]
    BY CallTyped DEF Inv, Types
  <1>2. /\ staying \in Call /\ staying.step = "done" /\ staying.tx = calls[c].tx
        /\ staying.batch = calls[c].batch
    BY <1>1 DEF Call, Steps
  <1> HIDE DEF staying
  <1>3. /\ new \in Call /\ new.step = "done" /\ new.tx = calls[c].tx
        /\ new.batch = calls[c].batch /\ new.reply = reply
    BY <1>2 DEF Call
  <1>4. calls' = [calls EXCEPT ![c] = new]
    BY DEF Result, staying
  <1> HIDE DEF new
  <1>5. new # None
    BY <1>3, NoneAssumption
  <1> QED BY <1>1, <1>3, <1>4, <1>5

LEMMA WithoutFacts ==
  ASSUME Inv, NEW c \in Callers
  PROVE  /\ Without(c) \in [Callers -> Call \cup {None}] /\ Without(c)[c] = None
         /\ \A d \in Callers \ {c} : Without(c)[d] = calls[d]
  BY DEF Inv, Types, Without

\* A load begins, and nothing else of the tab changes.
LEMMA LoadFacts ==
  ASSUME NEW t \in Tab, NEW cs \in [Callers -> Call \cup {None}], Load(t, cs)
  PROVE  /\ tab' \in Tab /\ tab'.kind = "Loading"
         /\ tab'.open = t.open /\ tab'.changes = t.changes /\ tab'.tx = t.tx
         /\ tab'.busy = t.busy /\ tab'.recovery = t.recovery
         /\ calls' \in [Callers -> Call \cup {None}]
         /\ \A c \in Callers \ {"load"} : calls'[c] = cs[c]
         /\ calls'["load"].tx = t.tx
  <1> DEFINE new == [step |-> "start", tx |-> t.tx, reply |-> None, batch |-> 0, manual |-> TRUE]
  <1>1. tab' = [t EXCEPT !.kind = "Loading"] /\ calls' = [cs EXCEPT !["load"] = new]
    BY DEF Load
  <1>2. t.tx \in Nat
    BY DEF Tab
  <1>3. 0 \in 0..MaxBatches
    BY NoBatch
  <1>4. new \in Call
    BY <1>2, <1>3 DEF Call, Steps
  <1>5. /\ tab' \in Tab /\ tab'.kind = "Loading"
        /\ tab'.open = t.open /\ tab'.changes = t.changes /\ tab'.tx = t.tx
        /\ tab'.busy = t.busy /\ tab'.recovery = t.recovery
    BY <1>1 DEF Tab
  <1>6. new.tx = t.tx
    OBVIOUS
  <1> HIDE DEF new
  <1> QED BY <1>1, <1>4, <1>5, <1>6 DEF Callers

\* A load is begun if the tab is quiet.
LEMMA TryLoadFacts ==
  ASSUME NEW t \in Tab, NEW cs \in [Callers -> Call \cup {None}], TryLoad(t, cs)
  PROVE  /\ tab' \in Tab
         /\ tab'.open = t.open /\ tab'.changes = t.changes /\ tab'.tx = t.tx
         /\ tab'.busy = t.busy /\ tab'.recovery = t.recovery
         /\ \/ tab'.kind = t.kind
            \/ t.kind \notin {"Loading", "Saving", "Unavailable"} /\ tab'.kind = "Loading"
         /\ calls' \in [Callers -> Call \cup {None}]
         /\ \A c \in Callers \ {"load"} : calls'[c] = cs[c]
         /\ calls'["load"] = cs["load"] \/ calls'["load"].tx = t.tx
  <1>1. CASE t.kind \in {"Loading", "Saving", "Unavailable"} \/ t.changes # 0
    BY <1>1 DEF TryLoad
  <1>2. CASE ~(t.kind \in {"Loading", "Saving", "Unavailable"} \/ t.changes # 0)
    <2>1. Load(t, cs)
      BY <1>2 DEF TryLoad
    <2> QED BY <1>2, <2>1, LoadFacts
  <1> QED BY <1>1, <1>2

\* Loads, exports and questions leave saves, modes and transactions alone.
LEMMA QuietCase ==
  ASSUME Inv, UNCHANGED <<durable, actors>>, TabKept, CallsTyped,
         calls'["save"] = calls["save"], calls'["mode"] = calls["mode"]
  PROVE  Inv'
  <1>1. staged' \in Nat /\ staged' >= staged
    BY DEF Inv, Types, TabKept
  <1>2. Kept /\ QueuesKept
    BY <1>1, SameActors
  <1>3. ActorsInOrder' /\ QueuesInOrder'
    BY <1>2, QueuesStay
  <1> QED BY <1>2, <1>3, NothingMoves, KeptFacts DEF Inv

\* A tab that stays as it is.
LEMMA SameTab ==
  ASSUME Inv, UNCHANGED <<tab, staged, gaveUp>>
  PROVE  TabKept
  BY DEF Inv, Types, TabKept

\* Calls that stay as they are, but for one.
LEMMA OneCall ==
  ASSUME Inv, NEW c \in Callers, calls' \in [Callers -> Call \cup {None}],
         Len(actors') \in Nat, Len(actors') >= Len(actors),
         \A d \in Callers \ {c} : calls'[d] = calls[d],
         calls'[c] # None => calls'[c].tx \in 0..Len(actors')
  PROVE  CallsTyped
  <1>1. Len(actors) \in Nat
    BY DEF Inv, Types
  <1>2. \A d \in Callers : calls[d] # None => calls[d].tx \in 0..Len(actors)
    BY DEF Inv, Types
  <1>3. ASSUME NEW d \in Callers, calls'[d] # None PROVE calls'[d].tx \in 0..Len(actors')
    <2>1. CASE d = c
      BY <1>3, <2>1
    <2>2. CASE d # c
      BY <1>1, <1>2, <1>3, <2>2
    <2> QED BY <2>1, <2>2
  <1> QED BY <1>3 DEF CallsTyped

LEMMA LoadQueriesCase ==
  ASSUME Inv, LoadQueries PROVE Inv'
  <1>0. Types /\ "load" \in Callers /\ calls["load"] # None
    BY DEF Inv, Callers, LoadQueries, At
  <1>1. UNCHANGED <<durable, tab, staged, gaveUp>>
    BY DEF LoadQueries, world
  <1>2. calls["load"].tx \in 0..Len(actors) /\ Len(actors) \in Nat /\ 0 \in 0..MaxBatches
    BY <1>0, CallTyped, NoBatch DEF Types
  <1>3. TabKept
    BY <1>1, SameTab
  <1>4. CASE \E reply \in Replies : Result("load", reply) /\ actors' = actors
    <2>1. PICK reply \in Replies : Result("load", reply) /\ actors' = actors
      BY <1>4
    <2>2. /\ calls' \in [Callers -> Call \cup {None}] /\ calls'["load"].tx = calls["load"].tx
          /\ \A d \in Callers \ {"load"} : calls'[d] = calls[d]
      BY <1>0, <2>1, ResultFacts
    <2>3. CallsTyped
      BY <1>0, <1>2, <2>1, <2>2, OneCall
    <2> QED BY <1>1, <1>3, <2>1, <2>2, <2>3, QuietCase DEF Callers
  <1>5. CASE Request("load", "page", calls["load"].tx, "Query", 0)
    <2>1. /\ Kept /\ ActorsInOrder' /\ QueuesInOrder' /\ Len(actors') = Len(actors)
          /\ calls' \in [Callers -> Call \cup {None}]
          /\ calls'["load"].tx = calls["load"].tx
          /\ \A d \in Callers \ {"load"} : calls'[d] = calls[d]
      BY <1>0, <1>1, <1>2, <1>5, RequestFacts DEF Steps
    <2>2. CallsTyped
      BY <1>0, <1>2, <2>1, OneCall
    <2> QED BY <1>3, <2>1, <2>2, NothingMoves, KeptFacts DEF Inv, Callers
  <1> QED BY <1>4, <1>5 DEF LoadQueries, Replies

LEMMA LoadCountsCase ==
  ASSUME Inv, LoadCounts PROVE Inv'
  <1>0. Types /\ "load" \in Callers /\ calls["load"] # None
    BY DEF Inv, Callers, LoadCounts, At
  <1>1. UNCHANGED <<durable, tab, staged, gaveUp>>
    BY DEF LoadCounts, world
  <1>2. calls["load"].tx \in 0..Len(actors) /\ Len(actors) \in Nat /\ 0 \in 0..MaxBatches
    BY <1>0, CallTyped, NoBatch DEF Types
  <1>3. TabKept
    BY <1>1, SameTab
  <1>4. CASE Result("load", "error") /\ actors' = actors
    <2>1. "error" \in Replies
      BY DEF Replies
    <2>2. /\ calls' \in [Callers -> Call \cup {None}] /\ calls'["load"].tx = calls["load"].tx
          /\ \A d \in Callers \ {"load"} : calls'[d] = calls[d]
      BY <1>0, <1>4, <2>1, ResultFacts
    <2>3. CallsTyped
      BY <1>0, <1>2, <1>4, <2>2, OneCall
    <2> QED BY <1>1, <1>3, <1>4, <2>2, <2>3, QuietCase DEF Callers
  <1>5. CASE Request("load", "count", calls["load"].tx, "Query", 0)
    <2>1. /\ Kept /\ ActorsInOrder' /\ QueuesInOrder' /\ Len(actors') = Len(actors)
          /\ calls' \in [Callers -> Call \cup {None}]
          /\ calls'["load"].tx = calls["load"].tx
          /\ \A d \in Callers \ {"load"} : calls'[d] = calls[d]
      BY <1>0, <1>1, <1>2, <1>5, RequestFacts DEF Steps
    <2>2. CallsTyped
      BY <1>0, <1>2, <2>1, OneCall
    <2> QED BY <1>3, <2>1, <2>2, NothingMoves, KeptFacts DEF Inv, Callers
  <1> QED BY <1>4, <1>5 DEF LoadCounts

LEMMA FinishLoadCase ==
  ASSUME Inv, FinishLoad PROVE Inv'
  <1>1. UNCHANGED <<durable, actors, staged, gaveUp>> /\ calls' = Without("load")
    BY DEF FinishLoad, quiet
  <1>2. TabKept
    <2>1. CASE tab' = tab
      BY <1>1, <2>1, SameTab
    <2>2. CASE tab.kind = "Loading" /\ \E kind \in {"Ready", "Failed"} : tab' = [tab EXCEPT !.kind = kind]
      <3>1. tab \in Tab
        BY DEF Inv, Types
      <3> QED BY <1>1, <2>2, <3>1 DEF TabKept, Tab
    <2> QED BY <2>1, <2>2 DEF FinishLoad
  <1>3. "load" \in Callers /\ Len(actors') \in Nat /\ Len(actors') >= Len(actors)
    BY <1>1 DEF Callers, Inv, Types
  <1>4. /\ calls' \in [Callers -> Call \cup {None}] /\ calls'["load"] = None
        /\ \A d \in Callers \ {"load"} : calls'[d] = calls[d]
    BY <1>1, <1>3, WithoutFacts
  <1>5. CallsTyped
    BY <1>3, <1>4, OneCall
  <1> QED BY <1>1, <1>2, <1>4, <1>5, QuietCase DEF Callers

LEMMA ExportOverCase ==
  ASSUME Inv, FinishExport \/ CancelExport PROVE Inv'
  <1>1. UNCHANGED <<durable, actors, tab, staged, gaveUp>> /\ calls' = Without("export")
    BY DEF FinishExport, CancelExport, quiet
  <1>2. TabKept
    BY <1>1, SameTab
  <1>3. "export" \in Callers /\ Len(actors') \in Nat /\ Len(actors') >= Len(actors)
    BY <1>1 DEF Callers, Inv, Types
  <1>4. /\ calls' \in [Callers -> Call \cup {None}] /\ calls'["export"] = None
        /\ \A d \in Callers \ {"export"} : calls'[d] = calls[d]
    BY <1>1, <1>3, WithoutFacts
  <1>5. CallsTyped
    BY <1>3, <1>4, OneCall
  <1> QED BY <1>1, <1>2, <1>4, <1>5, QuietCase DEF Callers

LEMMA NoChangeCase ==
  ASSUME Inv, UNCHANGED <<durable, actors, tab, calls, staged, gaveUp>>
  PROVE  Inv'
  <1>1. TabKept
    BY SameTab
  <1>2. CallsTyped
    BY DEF CallsTyped, Inv, Types
  <1> QED BY <1>1, <1>2, QuietCase

LEMMA RefreshCase ==
  ASSUME Inv, Refresh \/ ApplyFilter PROVE Inv'
  <1>1. /\ UNCHANGED <<durable, actors, staged, gaveUp>> /\ Load(tab, calls)
        /\ tab.kind \notin {"Loading", "Saving", "Unavailable"}
    BY DEF Refresh, ApplyFilter, quiet, NotBusy, Available
  <1>2. tab \in Tab /\ calls \in [Callers -> Call \cup {None}] /\ tab.tx \in 0..Len(actors)
        /\ Len(actors') \in Nat /\ Len(actors') >= Len(actors) /\ "load" \in Callers
    BY <1>1 DEF Inv, Types, Callers
  <1>3. /\ tab' \in Tab /\ tab'.kind = "Loading"
        /\ tab'.open = tab.open /\ tab'.changes = tab.changes /\ tab'.tx = tab.tx
        /\ tab'.busy = tab.busy /\ tab'.recovery = tab.recovery
        /\ calls' \in [Callers -> Call \cup {None}]
        /\ \A c \in Callers \ {"load"} : calls'[c] = calls[c]
        /\ calls'["load"].tx = tab.tx
    BY <1>1, <1>2, LoadFacts
  <1>4. TabKept
    BY <1>1, <1>3 DEF TabKept
  <1>5. CallsTyped
    BY <1>1, <1>2, <1>3, OneCall
  <1> QED BY <1>1, <1>3, <1>4, <1>5, QuietCase DEF Callers

\* The user or the workspace changes the tab; a save in flight keeps its batch,
\* or the user has given that up.
LEMMA TabCase ==
  ASSUME Inv, UNCHANGED <<durable, actors>>, CallsTyped,
         calls'["save"] = calls["save"], calls'["mode"] = calls["mode"],
         tab' \in Tab, tab'.tx = tab.tx, tab'.busy = tab.busy,
         staged' \in 0..MaxBatches, staged' >= staged, tab'.changes <= staged',
         gaveUp \subseteq gaveUp', gaveUp' \subseteq Batches,
         calls["save"] # None =>
           /\ tab'.recovery = {} /\ tab'.kind \in {"Saving", "Unavailable"}
           /\ tab'.kind = "Saving" => tab.kind = "Saving" /\ tab'.changes = tab.changes
           /\ tab'.changes = tab.changes \/ tab.changes \in gaveUp'
  PROVE  /\ Types' /\ WrittenOnce' /\ ActorsInOrder' /\ QueuesInOrder'
         /\ SaveInOrder' /\ ModeInOrder'
  <1>0. Types /\ SaveInOrder /\ ModeInOrder
    BY DEF Inv
  <1>1. staged' \in Nat
    BY DEF Inv, Types
  <1>2. Kept /\ QueuesKept
    BY <1>1, SameActors
  <1>3. ActorsInOrder' /\ QueuesInOrder' /\ WrittenOnce'
    BY <1>2, QueuesStay, KeptFacts
  <1>4. Types'
    BY <1>0 DEF Types, CallsTyped
  <1>5. SaveInOrder'
    <2> SUFFICES ASSUME calls["save"] # None PROVE SaveInOrder'
      BY DEF SaveInOrder
    <2> DEFINE save == calls["save"]
    <2>1. /\ tab'.recovery = {} /\ tab'.kind \in {"Saving", "Unavailable"}
          /\ tab'.kind = "Saving" => tab.kind = "Saving" /\ tab'.changes = tab.changes
          /\ tab'.changes = tab.changes \/ tab.changes \in gaveUp'
      OBVIOUS
    <2>2. save.batch \in 1..staged'
      <3>1. save.batch \in 1..staged
        BY <1>0 DEF SaveInOrder
      <3> QED BY <1>0, <1>1, <3>1 DEF Types
    <2>3. /\ tab'.kind = "Saving" => calls'["mode"] = None /\ tab'.changes = save.batch
          /\ tab'.changes = save.batch \/ save.batch \in gaveUp'
          /\ save.step \in OwnSteps => tab'.tx = NoActor /\ calls'["mode"] = None
          /\ save.step \in {"shared", "shared applied"} /\ tab'.kind = "Saving"
               => save.tx = tab'.tx
          /\ save.step \in OwnSteps \cup {"shared", "shared applied", "done"}
      BY <1>0, <2>1 DEF SaveInOrder
    <2> QED BY <1>0, <2>3, <2>1, <2>2 DEF SaveInOrder, Fresh, Applied
  <1>6. ModeInOrder'
    BY <1>0 DEF ModeInOrder, Applied, Running
  <1> QED BY <1>3, <1>4, <1>5, <1>6

LEMMA SameCalls ==
  ASSUME Inv, UNCHANGED <<actors, calls>>
  PROVE  CallsTyped
  BY DEF Inv, Types, CallsTyped

LEMMA InvalidateCase ==
  ASSUME Inv, InvalidateSession PROVE Inv'
  <1>0. Types /\ SaveInOrder /\ StagedIsFresh /\ NoSilentLoss
    BY DEF Inv
  <1>1. /\ UNCHANGED <<durable, actors, calls, staged, gaveUp>>
        /\ tab' = [tab EXCEPT !.kind = "Unavailable"]
    BY DEF InvalidateSession, quiet
  <1>2. /\ tab' \in Tab /\ tab'.open = tab.open /\ tab'.changes = tab.changes /\ tab'.tx = tab.tx
        /\ tab'.busy = tab.busy /\ tab'.recovery = tab.recovery /\ tab'.kind = "Unavailable"
    BY <1>0, <1>1 DEF Types, Tab
  <1>3. CallsTyped
    BY <1>1, SameCalls
  <1>4. calls["save"] # None => tab.recovery = {}
    BY <1>0 DEF SaveInOrder
  <1>5. staged \in 0..MaxBatches /\ staged >= staged /\ tab.changes <= staged /\ gaveUp \subseteq Batches
    BY <1>0 DEF Types
  <1>6. /\ Types' /\ WrittenOnce' /\ ActorsInOrder' /\ QueuesInOrder'
        /\ SaveInOrder' /\ ModeInOrder'
    BY <1>1, <1>2, <1>3, <1>4, <1>5, TabCase
  <1>7. StagedIsFresh'
    BY <1>2 DEF StagedIsFresh
  <1>8. NoSilentLoss'
    BY <1>0, <1>1, <1>2 DEF NoSilentLoss, Unsaved, Staged, Applied
  <1> QED BY <1>6, <1>7, <1>8 DEF Inv

LEMMA StageCase ==
  ASSUME Inv, Stage PROVE Inv'
  <1>0. Types /\ SaveInOrder /\ StagedIsFresh /\ NoSilentLoss /\ WrittenOnce
    BY DEF Inv
  <1>1. /\ UNCHANGED <<durable, actors, calls, gaveUp>> /\ staged' = staged + 1
        /\ tab' = [tab EXCEPT !.changes = staged + 1]
        /\ tab.open /\ tab.changes = 0 /\ tab.kind \notin {"Saving", "Unavailable"}
        /\ staged < MaxBatches
    BY DEF Stage, User, NotBusy, Available
  <1>2. staged \in Nat /\ staged + 1 \in 0..MaxBatches /\ staged + 1 \in Batches
    <2>1. MaxBatches \in Nat
      BY BoundsAssumption, Zenon
    <2> QED BY <1>0, <1>1, <2>1 DEF Types, Batches
  <1>3. /\ tab' \in Tab /\ tab'.open = tab.open /\ tab'.kind = tab.kind /\ tab'.tx = tab.tx
        /\ tab'.busy = tab.busy /\ tab'.recovery = tab.recovery /\ tab'.changes = staged + 1
    BY <1>0, <1>1, <1>2 DEF Types, Tab
  <1>4. calls["save"] = None
    BY <1>0, <1>1 DEF SaveInOrder
  <1>5. CallsTyped
    BY <1>1, SameCalls
  <1>6. /\ staged' >= staged /\ staged' \in 0..MaxBatches /\ tab'.changes <= staged'
        /\ gaveUp \subseteq gaveUp' /\ gaveUp' \subseteq Batches
    BY <1>0, <1>1, <1>2, <1>3 DEF Types
  <1>7. /\ Types' /\ WrittenOnce' /\ ActorsInOrder' /\ QueuesInOrder'
        /\ SaveInOrder' /\ ModeInOrder'
    BY <1>1, <1>3, <1>4, <1>5, <1>6, TabCase
  <1>8. Fresh(staged + 1)
    <2>1. ~(staged + 1 <= staged) /\ durable[staged + 1] \in Nat
      BY <1>0, <1>2 DEF Types
    <2>2. durable[staged + 1] = 0
      BY <1>0, <1>2, <2>1 DEF WrittenOnce
    <2>3. \A t \in DOMAIN actors : staged + 1 \notin actors[t].written
      BY <1>0, <2>1 DEF WrittenOnce
    <2> QED BY <2>2, <2>3 DEF Fresh
  <1>9. StagedIsFresh'
    BY <1>1, <1>3, <1>8 DEF StagedIsFresh, Fresh
  <1>10. NoSilentLoss'
    <2> SUFFICES ASSUME NEW b \in 1..staged'
                 PROVE  durable[b] > 0 \/ b \in gaveUp \/ (tab'.open /\ b \in Unsaved')
      BY <1>1 DEF NoSilentLoss
    <2>1. CASE b = staged + 1
      BY <1>1, <1>2, <1>3, <2>1 DEF Unsaved, Staged
    <2>2. CASE b # staged + 1
      <3>1. b \in 1..staged
        BY <1>1, <1>2, <2>2
      <3>2. b \in Unsaved => b \in Unsaved'
        BY <1>1, <1>3 DEF Unsaved, Staged, Applied
      <3> QED BY <1>0, <1>1, <1>3, <3>1, <3>2 DEF NoSilentLoss
    <2> QED BY <2>1, <2>2
  <1> QED BY <1>7, <1>9, <1>10 DEF Inv

\* What is staged, and what else is unsaved, is made of batches.
LEMMA UnsavedBatches ==
  ASSUME Types
  PROVE  Staged \subseteq Batches /\ Unsaved \subseteq Batches /\ Staged \subseteq Unsaved
         /\ (tab.changes # 0 => tab.changes \in Staged)
  <1>1. Staged \subseteq Batches
    BY StagedBatch DEF Staged, Types, Tab
  <1>2. Applied(tab.tx) \subseteq Batches
    <2>1. CASE tab.tx = NoActor
      BY <2>1 DEF Applied
    <2>2. CASE tab.tx # NoActor
      <3>1. PICK x \in DOMAIN actors : x = tab.tx
        BY <2>2 DEF Types, NoActor
      <3> QED BY <2>2, <3>1, ActorTyped DEF Applied
    <2> QED BY <2>1, <2>2
  <1>3. tab.recovery \subseteq Batches
    BY DEF Types, Tab
  <1> QED BY <1>1, <1>2, <1>3 DEF Unsaved, Staged

LEMMA UndoCase ==
  ASSUME Inv, UndoAll PROVE Inv'
  <1>0. Types /\ SaveInOrder /\ StagedIsFresh /\ NoSilentLoss
    BY DEF Inv
  <1>1. /\ UNCHANGED <<durable, actors, calls, staged>> /\ gaveUp' = gaveUp \cup Staged
        /\ tab' = [tab EXCEPT !.changes = 0]
        /\ tab.open /\ tab.changes # 0 /\ tab.kind # "Saving"
    BY DEF UndoAll, User
  <1>2. /\ tab' \in Tab /\ tab'.open = tab.open /\ tab'.kind = tab.kind /\ tab'.tx = tab.tx
        /\ tab'.busy = tab.busy /\ tab'.recovery = tab.recovery /\ tab'.changes = 0
    BY <1>0, <1>1, NoBatch DEF Types, Tab
  <1>3. CallsTyped
    BY <1>1, SameCalls
  <1>4. tab.changes \in gaveUp' /\ gaveUp \subseteq gaveUp' /\ gaveUp' \subseteq Batches
    BY <1>0, <1>1, UnsavedBatches DEF Types
  <1>5. staged' \in 0..MaxBatches /\ staged' >= staged /\ tab'.changes <= staged'
    BY <1>0, <1>1, <1>2 DEF Types
  <1>6. calls["save"] # None =>
          /\ tab'.recovery = {} /\ tab'.kind \in {"Saving", "Unavailable"}
          /\ tab'.kind # "Saving"
    BY <1>0, <1>1, <1>2 DEF SaveInOrder
  <1>7. /\ Types' /\ WrittenOnce' /\ ActorsInOrder' /\ QueuesInOrder'
        /\ SaveInOrder' /\ ModeInOrder'
    BY <1>1, <1>2, <1>3, <1>4, <1>5, <1>6, TabCase
  <1>8. StagedIsFresh'
    BY <1>1, <1>2 DEF StagedIsFresh
  <1>9. NoSilentLoss'
    BY <1>0, <1>1, <1>2 DEF NoSilentLoss, Unsaved, Staged, Applied
  <1> QED BY <1>7, <1>8, <1>9 DEF Inv

\* The tab closes: nothing is unsaved, or the user has given it up.
LEMMA CloseCase ==
  ASSUME Inv, CloseTab \/ \E yes \in BOOLEAN : AnswerClose(yes) PROVE Inv'
  <1>0. Types /\ SaveInOrder /\ StagedIsFresh /\ NoSilentLoss
    BY DEF Inv
  <1>1. /\ UNCHANGED <<durable, actors, calls, staged>>
        /\ \/ UNCHANGED <<tab, gaveUp>>
           \/ /\ tab' = [tab EXCEPT !.open = FALSE]
              /\ \/ Unsaved = {} /\ gaveUp' = gaveUp
                 \/ gaveUp' = gaveUp \cup Unsaved
    BY DEF CloseTab, AnswerClose, HasUnsavedChanges
  <1>2. CASE UNCHANGED <<tab, gaveUp>>
    BY <1>1, <1>2, NoChangeCase
  <1>3. CASE /\ tab' = [tab EXCEPT !.open = FALSE]
             /\ \/ Unsaved = {} /\ gaveUp' = gaveUp
                \/ gaveUp' = gaveUp \cup Unsaved
    <2>1. /\ tab' \in Tab /\ ~tab'.open /\ tab'.kind = tab.kind /\ tab'.tx = tab.tx
          /\ tab'.busy = tab.busy /\ tab'.recovery = tab.recovery /\ tab'.changes = tab.changes
      BY <1>0, <1>3 DEF Types, Tab
    <2>2. CallsTyped
      BY <1>1, SameCalls
    <2>3. gaveUp \subseteq gaveUp' /\ gaveUp' \subseteq Batches
      BY <1>0, <1>3, UnsavedBatches DEF Types
    <2>4. staged' \in 0..MaxBatches /\ staged' >= staged /\ tab'.changes <= staged'
      BY <1>0, <1>1, <2>1 DEF Types
    <2>5. calls["save"] # None => tab'.recovery = {} /\ tab'.kind \in {"Saving", "Unavailable"}
      BY <1>0, <2>1 DEF SaveInOrder
    <2>6. /\ Types' /\ WrittenOnce' /\ ActorsInOrder' /\ QueuesInOrder'
          /\ SaveInOrder' /\ ModeInOrder'
      BY <1>1, <2>1, <2>2, <2>3, <2>4, <2>5, TabCase
    <2>7. StagedIsFresh'
      BY <2>1 DEF StagedIsFresh
    <2>8. NoSilentLoss'
      BY <1>0, <1>1, <1>3 DEF NoSilentLoss
    <2> QED BY <2>6, <2>7, <2>8 DEF Inv
  <1> QED BY <1>1, <1>2, <1>3

LEMMA DiscardCase ==
  ASSUME Inv, NEW yes \in BOOLEAN, AnswerDiscard(yes) PROVE Inv'
  <1>0. Types /\ SaveInOrder /\ StagedIsFresh /\ NoSilentLoss
    BY DEF Inv
  <1> DEFINE t == [tab EXCEPT !.recovery = {}, !.changes = IF tab.kind = "Saving" THEN @ ELSE 0,
                              !.kind = IF @ = "SaveFailed" THEN "Ready" ELSE @]
  <1>1. UNCHANGED <<durable, actors, staged>>
    BY DEF AnswerDiscard
  <1>2. CASE UNCHANGED <<tab, calls, gaveUp>>
    BY <1>1, <1>2, NoChangeCase
  <1>3. CASE /\ tab.open /\ gaveUp' = gaveUp \cup Unsaved
             /\ IF tab.recovery # {} THEN TryLoad(t, calls) ELSE tab' = t /\ calls' = calls
    <2>1. /\ t \in Tab /\ t.open = tab.open /\ t.tx = tab.tx /\ t.busy = tab.busy /\ t.recovery = {}
          /\ t.changes = IF tab.kind = "Saving" THEN tab.changes ELSE 0
          /\ t.kind = IF tab.kind = "SaveFailed" THEN "Ready" ELSE tab.kind
      <3> DEFINE t1 == [tab EXCEPT !.recovery = {}]
                 t2 == [t1 EXCEPT !.changes = IF tab.kind = "Saving" THEN @ ELSE 0]
                 t3 == [t2 EXCEPT !.kind = IF @ = "SaveFailed" THEN "Ready" ELSE @]
      <3>1. /\ t1 \in Tab /\ t1.open = tab.open /\ t1.tx = tab.tx /\ t1.busy = tab.busy
            /\ t1.recovery = {} /\ t1.changes = tab.changes /\ t1.kind = tab.kind
        BY <1>0 DEF Types, Tab
      <3> HIDE DEF t1
      <3>2. /\ t2 \in Tab /\ t2.open = tab.open /\ t2.tx = tab.tx /\ t2.busy = tab.busy
            /\ t2.recovery = {} /\ t2.kind = tab.kind
            /\ t2.changes = IF tab.kind = "Saving" THEN tab.changes ELSE 0
        BY <3>1, NoBatch DEF Tab
      <3> HIDE DEF t2
      <3>3. /\ t3 \in Tab /\ t3.open = tab.open /\ t3.tx = tab.tx /\ t3.busy = tab.busy
            /\ t3.recovery = {} /\ t3.changes = t2.changes
            /\ t3.kind = IF tab.kind = "SaveFailed" THEN "Ready" ELSE tab.kind
        BY <3>2 DEF Tab
      <3>4. t = t3
        BY DEF t1, t2
      <3> HIDE DEF t3, t
      <3> QED BY <3>2, <3>3, <3>4
    <2> HIDE DEF t
    <2>2. /\ tab' \in Tab /\ tab'.open = t.open /\ tab'.changes = t.changes /\ tab'.tx = t.tx
          /\ tab'.busy = t.busy /\ tab'.recovery = t.recovery
          /\ \/ tab'.kind = t.kind
             \/ t.kind \notin {"Loading", "Saving", "Unavailable"} /\ tab'.kind = "Loading"
          /\ calls' \in [Callers -> Call \cup {None}]
          /\ \A c \in Callers \ {"load"} : calls'[c] = calls[c]
          /\ calls'["load"] = calls["load"] \/ calls'["load"].tx = t.tx
      <3>1. calls \in [Callers -> Call \cup {None}]
        BY <1>0 DEF Types
      <3> QED BY <1>3, <2>1, <3>1, TryLoadFacts
    <2>3. CallsTyped
      <3>1. tab.tx \in 0..Len(actors) /\ "load" \in Callers
            /\ (calls["load"] # None => calls["load"].tx \in 0..Len(actors))
        BY <1>0 DEF Types, Callers
      <3>2. Len(actors') \in Nat /\ Len(actors') >= Len(actors)
        BY <1>0, <1>1 DEF Types
      <3>3. calls'["load"] # None => calls'["load"].tx \in 0..Len(actors')
        BY <1>1, <2>1, <2>2, <3>1
      <3> QED BY <2>2, <3>1, <3>2, <3>3, OneCall
    <2>4. gaveUp \subseteq gaveUp' /\ gaveUp' \subseteq Batches /\ Staged \subseteq gaveUp'
          /\ (tab.changes # 0 => tab.changes \in gaveUp')
      BY <1>0, <1>3, UnsavedBatches DEF Types
    <2>5. staged' \in 0..MaxBatches /\ staged' >= staged /\ tab'.changes <= staged'
      BY <1>0, <1>1, <2>1, <2>2 DEF Types
    <2>6. calls'["save"] = calls["save"] /\ calls'["mode"] = calls["mode"]
      BY <2>2 DEF Callers
    <2>7. calls["save"] # None =>
            /\ tab'.recovery = {} /\ tab'.kind \in {"Saving", "Unavailable"}
            /\ tab'.kind = "Saving" => tab.kind = "Saving" /\ tab'.changes = tab.changes
            /\ tab'.changes = tab.changes \/ tab.changes \in gaveUp'
      <3>1. calls["save"] # None => tab.kind \in {"Saving", "Unavailable"}
        BY <1>0 DEF SaveInOrder
      <3> QED BY <2>1, <2>2, <2>4, <3>1
    <2>8. tab'.tx = tab.tx /\ tab'.busy = tab.busy
      BY <2>1, <2>2
    <2>9. /\ Types' /\ WrittenOnce' /\ ActorsInOrder' /\ QueuesInOrder'
          /\ SaveInOrder' /\ ModeInOrder'
      BY <1>1, <2>2, <2>3, <2>4, <2>5, <2>6, <2>7, <2>8, TabCase
    <2>10. StagedIsFresh'
      <3>1. tab'.kind = "Saving" => tab.kind = "Saving"
        BY <2>1, <2>2
      <3>2. tab'.changes # 0 => tab.kind = "Saving"
        BY <2>1, <2>2
      <3>3. tab.kind = "Saving" => calls["save"] # None
        BY <1>0, <1>3 DEF StagedIsFresh
      <3> QED BY <2>6, <3>1, <3>2, <3>3 DEF StagedIsFresh
    <2>11. NoSilentLoss'
      BY <1>0, <1>1, <1>3 DEF NoSilentLoss
    <2> QED BY <2>9, <2>10, <2>11 DEF Inv
  <1> QED BY <1>2, <1>3 DEF AnswerDiscard

LEMMA AbsentSave ==
  ASSUME Inv, \/ calls["save"] = None \/ calls["save"].reply # None
              \/ calls["save"].step \notin {"applied", "shared applied", "committing", "failing"}
  PROVE  Absent("save")
  <1>1. QueuesInOrder /\ "save" \in {"save", "mode"}
    BY DEF Inv
  <1> QED BY <1>1, NotAsking DEF Absent

LEMMA AbsentMode ==
  ASSUME Inv, \/ calls["mode"] = None \/ calls["mode"].reply # None
              \/ calls["mode"].step \notin {"old", "committing", "rolling back"}
  PROVE  Absent("mode")
  <1>1. QueuesInOrder /\ "mode" \in {"save", "mode"}
    BY DEF Inv
  <1> QED BY <1>1, NotAsking DEF Absent

LEMMA SaveCase ==
  ASSUME Inv, Save PROVE Inv'
  <1>0. Types /\ SaveInOrder /\ ModeInOrder /\ StagedIsFresh /\ NoSilentLoss
    BY DEF Inv
  <1> DEFINE step == IF tab.tx # NoActor THEN "shared" ELSE "begin"
             new == [step |-> step, tx |-> tab.tx, reply |-> None, batch |-> tab.changes,
                     manual |-> TRUE]
  <1>1. /\ UNCHANGED <<durable, actors, staged, gaveUp>>
        /\ tab' = [tab EXCEPT !.kind = "Saving"] /\ calls' = [calls EXCEPT !["save"] = new]
        /\ tab.open /\ tab.changes # 0 /\ tab.kind \notin {"Loading", "Saving", "Unavailable"}
        /\ tab.recovery = {} /\ ~tab.busy
    BY DEF Save, User, NotBusy, Available, StartCall, quiet
  <1>2. /\ tab' \in Tab /\ tab'.open = tab.open /\ tab'.kind = "Saving" /\ tab'.tx = tab.tx
        /\ tab'.busy = tab.busy /\ tab'.recovery = tab.recovery /\ tab'.changes = tab.changes
    BY <1>0, <1>1 DEF Types, Tab
  <1>3. calls["save"] = None /\ calls["mode"] = None
    BY <1>0, <1>1 DEF SaveInOrder, ModeInOrder
  <1>4. PICK batch \in Batches : batch = tab.changes
    <2>1. tab.changes \in 1..staged
      BY <1>0, <1>1 DEF Types, Tab
    <2> QED BY <1>0, <2>1, StagedBatch
  <1>5. tab.changes \in 1..staged /\ tab.changes \in 0..MaxBatches /\ tab.tx \in Nat
        /\ tab.tx \in 0..Len(actors)
    BY <1>0, <1>1 DEF Types, Tab
  <1>6. new \in Call
    BY <1>5 DEF Call, Steps
  <1>7. /\ new.step = step /\ new.tx = tab.tx /\ new.reply = None /\ new.batch = tab.changes
    OBVIOUS
  <1> HIDE DEF new
  <1>8. /\ calls' \in [Callers -> Call \cup {None}] /\ calls'["save"] = new
        /\ \A d \in Callers \ {"save"} : calls'[d] = calls[d]
        /\ calls'["mode"] = None /\ new # None
    BY <1>0, <1>1, <1>3, <1>6, NoneAssumption DEF Types, Callers
  <1>9. CallsTyped
    <2>1. Len(actors') \in Nat /\ Len(actors') >= Len(actors) /\ "save" \in Callers
      BY <1>0, <1>1 DEF Types, Callers
    <2> QED BY <1>1, <1>5, <1>7, <1>8, <2>1, OneCall
  <1>10. Kept /\ QueuesKept
    BY <1>0, <1>1, SameActors DEF Types
  <1>11. ActorsInOrder' /\ QueuesInOrder'
    BY <1>3, <1>8, <1>10, AbsentSave, QueuesStay
  <1>12. Types'
    BY <1>0, <1>1, <1>2, <1>9 DEF Types, CallsTyped
  <1>13. Fresh(batch)'
    <2>1. Fresh(batch)
      BY <1>0, <1>1, <1>3, <1>4 DEF StagedIsFresh, Fresh
    <2> QED BY <1>10, <2>1, KeptFacts
  <1>14. SaveInOrder'
    <2>1. step \in {"shared", "begin"} /\ (step = "begin" => tab.tx = NoActor)
      OBVIOUS
    <2> HIDE DEF step
    <2>2. /\ new.batch \in 1..staged' /\ tab'.recovery = {}
          /\ tab'.kind \in {"Saving", "Unavailable"}
          /\ tab'.kind = "Saving" => calls'["mode"] = None /\ tab'.changes = new.batch
          /\ tab'.changes = new.batch \/ new.batch \in gaveUp'
          /\ new.step \in OwnSteps => tab'.tx = NoActor /\ calls'["mode"] = None
          /\ new.step \in {"shared", "shared applied"} /\ tab'.kind = "Saving" => new.tx = tab'.tx
          /\ new.step \in OwnSteps \cup {"shared", "shared applied", "done"}
      BY <1>1, <1>2, <1>5, <1>7, <1>8, <2>1 DEF OwnSteps
    <2>3. new.step \notin {"applied", "shared applied", "committing"} /\ batch = new.batch
      BY <1>4, <1>7, <2>1
    <2> QED BY <1>8, <1>13, <2>2, <2>3 DEF SaveInOrder, Fresh
  <1>15. ModeInOrder'
    BY <1>8 DEF ModeInOrder
  <1>16. StagedIsFresh'
    BY <1>8 DEF StagedIsFresh
  <1>17. NoSilentLoss'
    BY <1>0, <1>1, <1>2 DEF NoSilentLoss, Unsaved, Staged, Applied
  <1> QED BY <1>10, <1>11, <1>12, <1>14, <1>15, <1>16, <1>17, KeptFacts DEF Inv

\* A save takes a step: what it knows of its batch is all there is to show.
LEMMA SaveGoesOn ==
  ASSUME Inv, Kept, TabKept, calls'["mode"] = calls["mode"],
         calls["save"] # None, calls'["save"] # None, CallsTyped,
         calls'["save"].batch = calls["save"].batch,
         calls'["save"].step \in {"shared", "shared applied"}
           => calls["save"].step = "shared" /\ calls'["save"].tx = calls["save"].tx,
         calls'["save"].step \in OwnSteps => calls["save"].step \in OwnSteps,
         calls'["save"].step \in OwnSteps \cup {"shared", "shared applied", "done"},
         calls'["save"].step \in {"begin", "own", "shared", "failing", "done"}
           => Fresh(calls["save"].batch),
         calls'["save"].step \in {"applied", "shared applied"}
           => Fresh(calls["save"].batch) /\ calls'["save"].reply # "ok",
         calls'["save"].step = "committing"
           => /\ calls["save"].batch \in Applied(calls["save"].tx)
              /\ calls'["save"].tx = calls["save"].tx /\ calls'["save"].reply # "ok"
  PROVE  Types' /\ SaveInOrder' /\ ModeInOrder' /\ StagedIsFresh' /\ NoSilentLoss'
  <1>0. SaveInOrder
    BY DEF Inv
  <1> DEFINE save == calls["save"]
             new == calls'["save"]
  <1>1. Types' /\ ModeInOrder' /\ StagedIsFresh' /\ NoSilentLoss'
    BY TypesStay, ModeStays, StagedStays, NothingLost
  <1>2. PICK batch \in Batches : batch = calls["save"].batch
    BY SaveFacts
  <1>3. PICK x \in 0..Len(actors) : x = calls["save"].tx
    BY SaveFacts
  <1>4. Applied(x)' = Applied(x) /\ (Fresh(batch) => Fresh(batch)')
    BY KeptFacts
  <1>5. /\ new.step \in {"begin", "own", "shared", "failing", "done"} => Fresh(batch)'
        /\ new.step \in {"applied", "shared applied"} => Fresh(batch)' /\ new.reply # "ok"
    <2>1. Fresh(save.batch) <=> Fresh(batch)
      BY <1>2 DEF Fresh
    <2> QED BY <1>4, <2>1
  <1>6. new.step = "committing" => batch \in Applied(x)' /\ new.tx = x /\ new.reply # "ok"
    <2>1. Applied(save.tx) = Applied(x)
      BY <1>3 DEF Applied
    <2> QED BY <1>2, <1>3, <1>4, <2>1
  <1>7. /\ tab'.kind = "Saving" <=> tab.kind = "Saving"
        /\ tab'.kind = "Unavailable" <=> tab.kind = "Unavailable"
    BY DEF TabKept
  <1>8. /\ new.batch \in 1..staged' /\ tab'.recovery = {}
        /\ tab'.kind \in {"Saving", "Unavailable"}
        /\ tab'.kind = "Saving" => calls'["mode"] = None /\ tab'.changes = new.batch
        /\ tab'.changes = new.batch \/ new.batch \in gaveUp'
        /\ new.step \in OwnSteps => tab'.tx = NoActor /\ calls'["mode"] = None
        /\ new.step \in OwnSteps \cup {"shared", "shared applied", "done"}
    BY <1>0, <1>7 DEF SaveInOrder, TabKept
  <1>9. new.step \in {"shared", "shared applied"} /\ tab'.kind = "Saving" => new.tx = tab'.tx
    <2>1. save.step = "shared" /\ tab.kind = "Saving" => save.tx = tab.tx
      BY <1>0 DEF SaveInOrder
    <2> QED BY <1>7, <2>1 DEF TabKept
  <1>10. batch = new.batch
    BY <1>2
  <1>11. SaveInOrder'
    BY <1>5, <1>6, <1>8, <1>9, <1>10 DEF SaveInOrder, Fresh, Applied
  <1> QED BY <1>1, <1>11

\* What a save in each step knows.
LEMMA SaveKnows ==
  ASSUME Inv, calls["save"] # None
  PROVE  LET save == calls["save"] IN
         /\ save.step \in {"begin", "own", "shared", "failing", "done"} => Fresh(save.batch)
         /\ save.step \in {"applied", "shared applied"} /\ save.reply # "ok" => Fresh(save.batch)
         /\ save.step = "applied" /\ save.reply = "ok" => save.batch \in Applied(save.tx)
  BY DEF Inv, SaveInOrder

\* A transaction is begun, or not.
LEMMA BeginFacts ==
  ASSUME Inv, NEW c \in {"save", "mode"}, calls[c] # None, NEW step \in Steps, Begin(c, step),
         Absent(c), UNCHANGED <<durable, staged>>
  PROVE  /\ Kept /\ ActorsInOrder' /\ QueuesInOrder' /\ CallsTyped
         /\ calls'[c] # None /\ calls'[c].batch = calls[c].batch
         /\ \A d \in Callers \ {c} : calls'[d] = calls[d]
         /\ \/ calls'[c].step = step
            \/ calls'[c].step = "done" /\ calls'[c].reply = "error"
  <1>0. Types /\ c \in Callers /\ calls[c] \in Call
    BY CallTyped DEF Inv, Callers
  <1>1. CASE Result(c, "error") /\ actors' = actors
    <2>1. "error" \in Replies
      BY DEF Replies
    <2>2. /\ calls' \in [Callers -> Call \cup {None}] /\ calls'[c] # None
          /\ calls'[c].step = "done" /\ calls'[c].reply = "error"
          /\ calls'[c].tx = calls[c].tx /\ calls'[c].batch = calls[c].batch
          /\ \A d \in Callers \ {c} : calls'[d] = calls[d]
      BY <1>0, <1>1, <2>1, ResultFacts
    <2>3. Kept /\ QueuesKept
      BY <1>0, <1>1, SameActors DEF Types
    <2>4. \A d \in {"save", "mode"} : calls'[d] = calls[d] \/ Absent(d)
      BY <2>2 DEF Callers
    <2>5. CallsTyped
      <3>1. Len(actors') \in Nat /\ Len(actors') >= Len(actors)
        BY <1>0, <1>1 DEF Types
      <3> QED BY <1>0, <1>1, <2>2, <3>1, OneCall, CallTyped
    <2> QED BY <2>2, <2>3, <2>4, <2>5, QueuesStay
  <1>2. CASE /\ actors' = Append(actors, NewActor)
             /\ calls' = [calls EXCEPT ![c].step = step, ![c].tx = Len(actors) + 1]
    <2> DEFINE staying == [calls[c] EXCEPT !.step = step]
               new == [staying EXCEPT !.tx = Len(actors) + 1]
    <2>1. Len(actors) + 1 \in Nat
      BY <1>0 DEF Types
    <2>2. staying \in Call /\ staying.step = step /\ staying.batch = calls[c].batch
      BY <1>0 DEF Call
    <2> HIDE DEF staying
    <2>3. new \in Call /\ new.step = step /\ new.batch = calls[c].batch /\ new.tx = Len(actors) + 1
      BY <2>1, <2>2 DEF Call
    <2>4. calls' = [calls EXCEPT ![c] = new]
      BY <1>2 DEF staying
    <2> HIDE DEF new
    <2>5. /\ calls' \in [Callers -> Call \cup {None}] /\ calls'[c] = new /\ new # None
          /\ \A d \in Callers \ {c} : calls'[d] = calls[d]
      BY <1>0, <2>3, <2>4, NoneAssumption DEF Types
    <2>6. Kept /\ QueuesKept /\ Len(actors') = Len(actors) + 1
      BY <1>2, BornActor
    <2>7. \A d \in {"save", "mode"} : calls'[d] = calls[d] \/ Absent(d)
      BY <2>5 DEF Callers
    <2>8. CallsTyped
      <3>1. Len(actors') \in Nat /\ Len(actors') >= Len(actors)
            /\ Len(actors) + 1 \in 0..Len(actors')
        BY <1>0, <2>6 DEF Types
      <3> QED BY <1>0, <2>3, <2>5, <3>1, OneCall
    <2> QED BY <2>3, <2>5, <2>6, <2>7, <2>8, QueuesStay
  <1> QED BY <1>1, <1>2 DEF Begin

LEMMA SaveBeginsCase ==
  ASSUME Inv, SaveBegins PROVE Inv'
  <1>1. /\ calls["save"] # None /\ calls["save"].step = "begin" /\ Begin("save", "own")
        /\ UNCHANGED <<durable, tab, staged, gaveUp>>
    BY DEF SaveBegins, At, world
  <1>2. Absent("save")
    BY <1>1, AbsentSave
  <1>3. "own" \in Steps
    BY DEF Steps
  <1>4. /\ Kept /\ ActorsInOrder' /\ QueuesInOrder' /\ CallsTyped
        /\ calls'["save"] # None /\ calls'["save"].batch = calls["save"].batch
        /\ \A d \in Callers \ {"save"} : calls'[d] = calls[d]
        /\ \/ calls'["save"].step = "own"
           \/ calls'["save"].step = "done" /\ calls'["save"].reply = "error"
    BY <1>1, <1>2, <1>3, BeginFacts
  <1>5. calls'["mode"] = calls["mode"] /\ TabKept
    BY <1>1, <1>4, SameTab DEF Callers
  <1>6. Fresh(calls["save"].batch)
    BY <1>1, SaveKnows
  <1>7. Types' /\ SaveInOrder' /\ ModeInOrder' /\ StagedIsFresh' /\ NoSilentLoss'
    BY <1>1, <1>4, <1>5, <1>6, SaveGoesOn DEF OwnSteps
  <1> QED BY <1>4, <1>7, KeptFacts DEF Inv

LEMMA SaveAppliesCase ==
  ASSUME Inv, SaveApplies PROVE Inv'
  <1> DEFINE save == calls["save"]
             new == calls'["save"]
  <1>0. Types
    BY DEF Inv
  <1>1. /\ save # None /\ save.step \in {"own", "shared"}
        /\ UNCHANGED <<durable, tab, staged, gaveUp>>
    BY DEF SaveApplies, At, world
  <1>2. Absent("save") /\ Fresh(save.batch) /\ TabKept
    BY <1>1, AbsentSave, SaveKnows, SameTab
  <1>3. /\ save.batch \in 0..MaxBatches /\ save.tx \in 0..Len(actors) /\ Len(actors) \in Nat
        /\ 0 \in 0..MaxBatches /\ "save" \in Callers
    BY <1>0, <1>1, CallTyped, NoBatch DEF Callers, Types
  <1>4. CASE Request("save", IF At("save", "own") THEN "applied" ELSE "shared applied", save.tx,
                     "Batch", save.batch)
    <2> DEFINE step == IF At("save", "own") THEN "applied" ELSE "shared applied"
    <2>1. /\ step \in Steps /\ step \in {"applied", "shared applied"}
          /\ step = "shared applied" => save.step = "shared"
          /\ step = "applied" => save.step = "own"
      BY <1>1 DEF Steps, At
    <2>2. Asks("save", step, "Batch")
      BY <2>1 DEF Asks
    <2>3. Request("save", step, save.tx, "Batch", save.batch)
      BY <1>4
    <2> HIDE DEF step
    <2>4. /\ Kept /\ ActorsInOrder' /\ QueuesInOrder' /\ Len(actors') = Len(actors)
          /\ calls' \in [Callers -> Call \cup {None}]
          /\ new # None /\ new.step = step /\ new.tx = save.tx
          /\ new.batch = save.batch /\ new.reply \in {None, "error"}
          /\ \A d \in Callers \ {"save"} : calls'[d] = calls[d]
      BY <1>1, <1>2, <1>3, <2>1, <2>2, <2>3, RequestFacts
    <2>5. CallsTyped /\ calls'["mode"] = calls["mode"] /\ new.reply # "ok"
      BY <1>3, <2>4, OneCall, NoneKnown DEF Callers
    <2>6. Types' /\ SaveInOrder' /\ ModeInOrder' /\ StagedIsFresh' /\ NoSilentLoss'
      BY <1>1, <1>2, <2>1, <2>4, <2>5, SaveGoesOn DEF OwnSteps
    <2> QED BY <2>4, <2>6, KeptFacts DEF Inv
  <1>5. CASE save.step = "own" /\ Request("save", "failing", save.tx, "Rollback", 0)
    <2>1. "failing" \in Steps /\ Asks("save", "failing", "Rollback")
      BY DEF Steps, Asks
    <2>2. /\ Kept /\ ActorsInOrder' /\ QueuesInOrder' /\ Len(actors') = Len(actors)
          /\ calls' \in [Callers -> Call \cup {None}]
          /\ new # None /\ new.step = "failing" /\ new.tx = save.tx
          /\ new.batch = save.batch /\ new.reply \in {None, "error"}
          /\ \A d \in Callers \ {"save"} : calls'[d] = calls[d]
      BY <1>1, <1>2, <1>3, <1>5, <2>1, RequestFacts
    <2>3. CallsTyped /\ calls'["mode"] = calls["mode"]
      BY <1>3, <2>2, OneCall DEF Callers
    <2>4. Types' /\ SaveInOrder' /\ ModeInOrder' /\ StagedIsFresh' /\ NoSilentLoss'
      BY <1>1, <1>2, <1>5, <2>2, <2>3, SaveGoesOn DEF OwnSteps
    <2> QED BY <2>2, <2>4, KeptFacts DEF Inv
  <1>6. CASE Result("save", "error") /\ actors' = actors
    <2>1. "error" \in Replies
      BY DEF Replies
    <2>2. /\ calls' \in [Callers -> Call \cup {None}] /\ new # None /\ new.step = "done"
          /\ new.tx = save.tx /\ new.batch = save.batch
          /\ \A d \in Callers \ {"save"} : calls'[d] = calls[d]
      BY <1>1, <1>3, <1>6, <2>1, ResultFacts
    <2>3. CallsTyped /\ calls'["mode"] = calls["mode"]
      BY <1>3, <1>6, <2>2, OneCall DEF Callers
    <2>4. Kept /\ QueuesKept
      BY <1>0, <1>1, <1>6, SameActors DEF Types
    <2>5. ActorsInOrder' /\ QueuesInOrder'
      BY <1>2, <2>3, <2>4, QueuesStay
    <2>6. Types' /\ SaveInOrder' /\ ModeInOrder' /\ StagedIsFresh' /\ NoSilentLoss'
      BY <1>1, <1>2, <2>2, <2>3, <2>4, SaveGoesOn DEF OwnSteps
    <2> QED BY <2>4, <2>5, <2>6, KeptFacts DEF Inv
  <1> QED BY <1>1, <1>4, <1>5, <1>6 DEF SaveApplies, At

LEMMA SaveCommitsCase ==
  ASSUME Inv, SaveCommits PROVE Inv'
  <1> DEFINE save == calls["save"]
             new == calls'["save"]
  <1>0. Types
    BY DEF Inv
  <1>1. /\ save # None /\ save.step = "applied" /\ save.reply # None
        /\ UNCHANGED <<durable, tab, staged, gaveUp>>
    BY DEF SaveCommits, At, world
  <1>2. Absent("save") /\ TabKept
    BY <1>1, AbsentSave, SameTab
  <1>3. /\ save.tx \in 0..Len(actors) /\ Len(actors) \in Nat
        /\ 0 \in 0..MaxBatches /\ "save" \in Callers
    BY <1>0, <1>1, CallTyped, NoBatch DEF Callers, Types
  <1>4. ASSUME NEW step \in {"committing", "failing"}, NEW op \in {"Commit", "Rollback"},
               step = "committing" <=> op = "Commit",
               Request("save", step, save.tx, op, 0),
               step = "committing" => save.batch \in Applied(save.tx),
               step = "failing" => Fresh(save.batch)
        PROVE  Inv'
    <2>1. step \in Steps /\ Asks("save", step, op)
      BY <1>4 DEF Steps, Asks
    <2>2. /\ Kept /\ ActorsInOrder' /\ QueuesInOrder' /\ Len(actors') = Len(actors)
          /\ calls' \in [Callers -> Call \cup {None}]
          /\ new # None /\ new.step = step /\ new.tx = save.tx
          /\ new.batch = save.batch /\ new.reply \in {None, "error"}
          /\ \A d \in Callers \ {"save"} : calls'[d] = calls[d]
      BY <1>1, <1>2, <1>3, <1>4, <2>1, RequestFacts
    <2>3. CallsTyped /\ calls'["mode"] = calls["mode"] /\ new.reply # "ok"
      BY <1>3, <2>2, OneCall, NoneKnown DEF Callers
    <2>4. Types' /\ SaveInOrder' /\ ModeInOrder' /\ StagedIsFresh' /\ NoSilentLoss'
      BY <1>1, <1>2, <1>4, <2>2, <2>3, SaveGoesOn DEF OwnSteps
    <2> QED BY <2>2, <2>4, KeptFacts DEF Inv
  <1>5. CASE save.reply = "ok"
    <2>1. save.batch \in Applied(save.tx)
      BY <1>1, <1>5, SaveKnows
    <2>2. Request("save", "committing", save.tx, "Commit", 0)
      BY <1>5 DEF SaveCommits
    <2> QED BY <1>4, <2>1, <2>2
  <1>6. CASE save.reply # "ok"
    <2>1. Fresh(save.batch)
      BY <1>1, <1>6, SaveKnows
    <2>2. Request("save", "failing", save.tx, "Rollback", 0)
      BY <1>6 DEF SaveCommits
    <2> QED BY <1>4, <2>1, <2>2
  <1> QED BY <1>5, <1>6

\* A save is over.
LEMMA SaveOver ==
  ASSUME Inv, UNCHANGED <<durable, actors, staged, gaveUp>>, Absent("save"),
         calls'["save"] = None, calls'["mode"] = calls["mode"], CallsTyped,
         tab' \in Tab, tab'.tx = tab.tx, tab'.busy = tab.busy, tab'.changes \in {tab.changes, 0}
  PROVE  /\ Types' /\ WrittenOnce' /\ ActorsInOrder' /\ QueuesInOrder'
         /\ SaveInOrder' /\ ModeInOrder'
  <1>0. Types /\ ModeInOrder
    BY DEF Inv
  <1>1. Kept /\ QueuesKept
    BY <1>0, SameActors DEF Types
  <1>2. ActorsInOrder' /\ QueuesInOrder' /\ WrittenOnce'
    BY <1>1, QueuesStay, KeptFacts
  <1>3. Types'
    BY <1>0 DEF Types, CallsTyped
  <1>4. SaveInOrder'
    BY DEF SaveInOrder
  <1>5. ModeInOrder'
    BY <1>0 DEF ModeInOrder, Applied, Running
  <1> QED BY <1>2, <1>3, <1>4, <1>5

\* The result of a save reaches the tab.
LEMMA FinishSaveCase ==
  ASSUME Inv, FinishSave PROVE Inv'
  <1>0. Types /\ SaveInOrder /\ ModeInOrder /\ StagedIsFresh /\ NoSilentLoss
    BY DEF Inv
  <1> DEFINE save == calls["save"]
             ok == save.step \in {"committing", "shared applied"} /\ save.reply = "ok"
             recovery == IF ~ok /\ save.step = "committing" THEN Applied(save.tx) ELSE {}
             t == [tab EXCEPT !.recovery = recovery]
  <1>1. /\ save # None /\ save.step \in {"committing", "shared applied", "failing", "done"}
        /\ save.reply # None /\ UNCHANGED <<durable, actors, staged, gaveUp>>
    BY DEF FinishSave, Settled, quiet
  <1>2. /\ save.batch \in Batches /\ save.batch \in 1..staged /\ save.tx \in 0..Len(actors)
    BY <1>1, SaveFacts
  <1>3. recovery \in SUBSET Batches
    <2>1. CASE save.tx = NoActor
      BY <2>1 DEF Applied
    <2>2. CASE save.tx # NoActor
      <3>1. PICK x \in DOMAIN actors : x = save.tx
        BY <1>0, <1>2, <2>2 DEF Types, NoActor
      <3>2. Applied(save.tx) = actors[x].applied
        BY <2>2, <3>1 DEF Applied
      <3> QED BY <1>0, <3>1, <3>2, ActorTyped
    <2> QED BY <2>1, <2>2
  <1>4. tab.recovery = {} /\ Absent("save")
    BY <1>0, <1>1, AbsentSave DEF SaveInOrder
  <1>5. /\ "save" \in Callers /\ "load" \in Callers /\ tab.tx \in 0..Len(actors) /\ tab \in Tab
        /\ Len(actors') \in Nat /\ Len(actors') >= Len(actors)
        /\ (calls["load"] # None => calls["load"].tx \in 0..Len(actors))
    <2>1. "save" \in Callers /\ "load" \in Callers
      BY DEF Callers
    <2>2. actors \in Seq(Actor) /\ actors' = actors
      BY <1>0, <1>1 DEF Types
    <2>3. Len(actors) \in Nat /\ Len(actors) >= Len(actors)
      BY <2>2
    <2> QED BY <1>0, <2>1, <2>2, <2>3 DEF Types
  <1>6. /\ Without("save") \in [Callers -> Call \cup {None}] /\ Without("save")["save"] = None
        /\ \A d \in Callers \ {"save"} : Without("save")[d] = calls[d]
    BY <1>5, WithoutFacts
  <1>7. /\ t \in Tab /\ t.open = tab.open /\ t.kind = tab.kind /\ t.changes = tab.changes
        /\ t.tx = tab.tx /\ t.busy = tab.busy /\ t.recovery = recovery
    <2> HIDE DEF recovery
    <2> QED BY <1>3, <1>5 DEF Tab
  <1>8. calls' = Without("save") => CallsTyped /\ calls'["save"] = None /\ calls'["mode"] = calls["mode"]
    BY <1>5, <1>6, OneCall DEF Callers
  <1>9. CASE ~tab.open \/ tab.kind # "Saving"
    <2>1. tab' = (IF tab.open THEN t ELSE tab) /\ calls' = Without("save")
      BY <1>9 DEF FinishSave
    <2> HIDE DEF t, recovery
    <2>2. /\ tab' \in Tab /\ tab'.tx = tab.tx /\ tab'.busy = tab.busy /\ tab'.changes = tab.changes
          /\ tab'.open = tab.open /\ tab'.kind = tab.kind
          /\ tab.recovery \subseteq tab'.recovery
      BY <1>4, <1>5, <1>7, <2>1
    <2>3. /\ Types' /\ WrittenOnce' /\ ActorsInOrder' /\ QueuesInOrder'
          /\ SaveInOrder' /\ ModeInOrder'
      BY <1>1, <1>4, <1>8, <2>1, <2>2, SaveOver
    <2>4. StagedIsFresh'
      <3>1. tab.kind \in {"Saving", "Unavailable"}
        BY <1>0, <1>1 DEF SaveInOrder
      <3> QED BY <1>9, <2>2, <3>1 DEF StagedIsFresh
    <2>5. NoSilentLoss'
      BY <1>0, <1>1, <2>2 DEF NoSilentLoss, Unsaved, Staged, Applied
    <2> QED BY <2>3, <2>4, <2>5 DEF Inv
  <1>10. CASE tab.open /\ tab.kind = "Saving" /\ ok
    <2> DEFINE idle == [t EXCEPT !.kind = "Idle"]
               empty == [idle EXCEPT !.changes = 0]
    <2>1. TryLoad([t EXCEPT !.kind = "Idle", !.changes = 0], Without("save"))
      BY <1>10 DEF FinishSave
    <2> HIDE DEF t, recovery
    <2>2. /\ idle \in Tab /\ idle.open = tab.open /\ idle.tx = tab.tx /\ idle.busy = tab.busy
          /\ idle.recovery = recovery /\ idle.kind = "Idle"
      BY <1>7 DEF Tab
    <2>3. TryLoad(empty, Without("save"))
      BY <2>1
    <2> HIDE DEF idle
    <2>4. /\ empty \in Tab /\ empty.open = tab.open /\ empty.tx = tab.tx /\ empty.busy = tab.busy
          /\ empty.recovery = recovery /\ empty.kind = "Idle" /\ empty.changes = 0
      BY <2>2, NoBatch DEF Tab
    <2> HIDE DEF empty
    <2>5. /\ tab' \in Tab /\ tab'.open = empty.open /\ tab'.changes = empty.changes
          /\ tab'.tx = empty.tx /\ tab'.busy = empty.busy /\ tab'.recovery = empty.recovery
          /\ tab'.kind = "Idle" \/ tab'.kind = "Loading"
          /\ calls' \in [Callers -> Call \cup {None}]
          /\ \A c \in Callers \ {"load"} : calls'[c] = Without("save")[c]
          /\ calls'["load"] = Without("save")["load"] \/ calls'["load"].tx = empty.tx
      BY <1>6, <2>3, <2>4, TryLoadFacts
    <2>6. /\ calls'["save"] = None /\ calls'["mode"] = calls["mode"]
          /\ calls'["load"] = calls["load"] \/ calls'["load"].tx = tab.tx
          /\ calls'["export"] = calls["export"]
      BY <1>6, <2>4, <2>5 DEF Callers
    <2>7. CallsTyped
      BY <1>0, <1>1, <1>5, <2>5, <2>6 DEF CallsTyped, Types, Callers
    <2>8. /\ Types' /\ WrittenOnce' /\ ActorsInOrder' /\ QueuesInOrder'
          /\ SaveInOrder' /\ ModeInOrder'
      BY <1>1, <1>4, <2>4, <2>5, <2>6, <2>7, SaveOver
    <2>9. StagedIsFresh'
      BY <2>4, <2>5 DEF StagedIsFresh
    <2>10. tab.changes = save.batch /\ (durable[save.batch] > 0 \/ save.batch \in Applied(tab.tx))
      <3>1. save.step = "shared applied" => save.batch \in Applied(tab.tx)
        <4>1. save.step = "shared applied" => save.tx = tab.tx /\ save.batch \in Applied(save.tx)
          BY <1>0, <1>1, <1>10 DEF SaveInOrder
        <4> QED BY <4>1 DEF Applied
      <3>2. save.step = "committing" => durable[save.batch] > 0
        BY <1>0, <1>1, <1>10 DEF SaveInOrder
      <3>3. tab.changes = save.batch
        BY <1>0, <1>1, <1>10 DEF SaveInOrder
      <3> QED BY <1>10, <3>1, <3>2, <3>3
    <2>11. NoSilentLoss'
      <3> SUFFICES ASSUME NEW b \in 1..staged
                   PROVE  durable[b] > 0 \/ b \in gaveUp \/ (tab'.open /\ b \in Unsaved')
        BY <1>1 DEF NoSilentLoss
      <3>1. Applied(tab.tx) \subseteq Unsaved'
        BY <1>1, <2>4, <2>5 DEF Unsaved, Applied
      <3>2. b \in Unsaved => b = save.batch \/ b \in Applied(tab.tx)
        BY <1>4, <2>10 DEF Unsaved, Staged
      <3>3. tab'.open
        BY <1>10, <2>4, <2>5
      <3> QED BY <1>0, <2>10, <3>1, <3>2, <3>3 DEF NoSilentLoss
    <2> QED BY <2>8, <2>9, <2>11 DEF Inv
  <1>11. CASE tab.open /\ tab.kind = "Saving" /\ ~ok
    <2>1. tab' = [t EXCEPT !.kind = "SaveFailed"] /\ calls' = Without("save")
      BY <1>11 DEF FinishSave
    <2> HIDE DEF t
    <2>2. /\ tab' \in Tab /\ tab'.tx = tab.tx /\ tab'.busy = tab.busy /\ tab'.changes = tab.changes
          /\ tab'.open = tab.open /\ tab'.kind = "SaveFailed" /\ tab'.recovery = recovery
      BY <1>7, <2>1 DEF Tab
    <2>3. /\ Types' /\ WrittenOnce' /\ ActorsInOrder' /\ QueuesInOrder'
          /\ SaveInOrder' /\ ModeInOrder'
      BY <1>1, <1>4, <1>8, <2>1, <2>2, SaveOver
    <2>4. tab.changes = save.batch
      BY <1>0, <1>1, <1>11 DEF SaveInOrder
    <2>5. recovery = {} => Fresh(save.batch)
      <3>1. CASE save.step = "committing"
        BY <1>0, <1>1, <1>11, <3>1 DEF SaveInOrder
      <3>2. CASE save.step = "shared applied"
        BY <1>0, <1>1, <1>11, <3>2 DEF SaveInOrder
      <3>3. CASE save.step \in {"failing", "done"}
        BY <1>0, <1>1, <3>3 DEF SaveInOrder
      <3> QED BY <1>1, <3>1, <3>2, <3>3
    <2>6. StagedIsFresh'
      <3> HIDE DEF recovery
      <3> QED BY <1>1, <2>2, <2>4, <2>5 DEF StagedIsFresh, Fresh
    <2>7. NoSilentLoss'
      BY <1>0, <1>1, <1>4, <2>2 DEF NoSilentLoss, Unsaved, Staged, Applied
    <2> QED BY <2>3, <2>6, <2>7 DEF Inv
  <1> QED BY <1>9, <1>10, <1>11

\* A change of the mode takes a step: the tab has no transaction meanwhile.
LEMMA ModeGoesOn ==
  ASSUME Inv, Kept, TabKept, calls'["save"] = calls["save"], CallsTyped,
         calls["mode"] # None, calls["mode"].step \notin {"committing", "rolling back"},
         calls'["mode"] # None, calls'["mode"].step \notin {"committing", "rolling back"}
  PROVE  Types' /\ SaveInOrder' /\ ModeInOrder' /\ StagedIsFresh' /\ NoSilentLoss'
  <1>1. tab.busy /\ tab.tx = NoActor
    BY DEF Inv, ModeInOrder
  <1>2. ModeInOrder'
    BY <1>1 DEF ModeInOrder, TabKept
  <1> QED BY <1>2, TypesStay, SaveStays, StagedStays, NothingLost

\* The old transaction is over, or there was none.
LEMMA ToBegin ==
  ASSUME Inv, calls["mode"] # None,
         calls' = [calls EXCEPT !["mode"].step = "begin", !["mode"].tx = NoActor],
         actors' = actors
  PROVE  /\ CallsTyped /\ calls'["mode"] # None /\ calls'["mode"].step = "begin"
         /\ calls'["save"] = calls["save"]
  <1> DEFINE staying == [calls["mode"] EXCEPT !.step = "begin"]
             new == [staying EXCEPT !.tx = NoActor]
  <1>1. "mode" \in Callers /\ calls \in [Callers -> Call \cup {None}] /\ calls["mode"] \in Call
    BY CallTyped DEF Inv, Types, Callers
  <1>2. staying \in Call /\ staying.step = "begin"
    BY <1>1 DEF Call, Steps
  <1> HIDE DEF staying
  <1>3. new \in Call /\ new.step = "begin" /\ new.tx = 0
    BY <1>2 DEF Call, NoActor
  <1>4. calls' = [calls EXCEPT !["mode"] = new]
    BY DEF staying
  <1> HIDE DEF new
  <1>5. /\ calls' \in [Callers -> Call \cup {None}] /\ calls'["mode"] = new /\ new # None
        /\ \A d \in Callers \ {"mode"} : calls'[d] = calls[d]
    BY <1>1, <1>3, <1>4, NoneAssumption
  <1>6. Len(actors') \in Nat /\ Len(actors') >= Len(actors)
    BY DEF Inv, Types
  <1>7. calls'["mode"].tx \in 0..Len(actors')
    <2>1. 0 \in 0..Len(actors')
      BY <1>6
    <2> QED BY <1>3, <1>5, <2>1, Zenon
  <1>8. CallsTyped
    BY <1>1, <1>5, <1>6, <1>7, OneCall
  <1> QED BY <1>3, <1>5, <1>8 DEF Callers

LEMMA ModeStartsCase ==
  ASSUME Inv, ModeStarts PROVE Inv'
  <1> DEFINE mode == calls["mode"]
             new == calls'["mode"]
  <1>0. Types
    BY DEF Inv
  <1>1. /\ mode # None /\ mode.step = "start" /\ UNCHANGED <<durable, tab, staged, gaveUp>>
    BY DEF ModeStarts, At, world
  <1>2. Absent("mode") /\ TabKept
    BY <1>1, AbsentMode, SameTab
  <1>3. CASE Request("mode", "old", mode.tx, "Rollback", 0)
    <2>1. /\ mode.tx \in 0..Len(actors) /\ Len(actors) \in Nat
          /\ 0 \in 0..MaxBatches /\ "mode" \in Callers
      BY <1>0, <1>1, CallTyped, NoBatch DEF Callers, Types
    <2>2. "old" \in Steps /\ Asks("mode", "old", "Rollback")
      BY DEF Steps, Asks
    <2>3. /\ Kept /\ ActorsInOrder' /\ QueuesInOrder' /\ Len(actors') = Len(actors)
          /\ calls' \in [Callers -> Call \cup {None}]
          /\ new # None /\ new.step = "old" /\ new.tx = mode.tx
          /\ \A d \in Callers \ {"mode"} : calls'[d] = calls[d]
      BY <1>1, <1>2, <1>3, <2>1, <2>2, RequestFacts
    <2>4. CallsTyped /\ calls'["save"] = calls["save"]
      BY <2>1, <2>3, OneCall DEF Callers
    <2>5. Types' /\ SaveInOrder' /\ ModeInOrder' /\ StagedIsFresh' /\ NoSilentLoss'
      BY <1>1, <1>2, <2>3, <2>4, ModeGoesOn
    <2> QED BY <2>3, <2>5, KeptFacts DEF Inv
  <1>4. CASE /\ calls' = [calls EXCEPT !["mode"].step = "begin", !["mode"].tx = NoActor]
             /\ actors' = actors
    <2>1. /\ CallsTyped /\ new # None /\ new.step = "begin" /\ calls'["save"] = calls["save"]
      BY <1>1, <1>4, ToBegin
    <2>2. Kept /\ QueuesKept
      BY <1>0, <1>1, <1>4, SameActors DEF Types
    <2>3. ActorsInOrder' /\ QueuesInOrder'
      BY <1>2, <2>1, <2>2, QueuesStay
    <2>4. Types' /\ SaveInOrder' /\ ModeInOrder' /\ StagedIsFresh' /\ NoSilentLoss'
      BY <1>1, <1>2, <2>1, <2>2, ModeGoesOn
    <2> QED BY <2>2, <2>3, <2>4, KeptFacts DEF Inv
  <1> QED BY <1>3, <1>4 DEF ModeStarts

LEMMA ModeFinishesOldCase ==
  ASSUME Inv, ModeFinishesOld PROVE Inv'
  <1> DEFINE mode == calls["mode"]
             new == calls'["mode"]
  <1>0. Types /\ "mode" \in Callers
    BY DEF Inv, Callers
  <1>1. /\ mode # None /\ mode.step = "old" /\ mode.reply # None
        /\ UNCHANGED <<durable, actors, tab, staged, gaveUp>>
    BY DEF ModeFinishesOld, At, world
  <1>2. Absent("mode") /\ TabKept /\ Kept /\ QueuesKept
    BY <1>0, <1>1, AbsentMode, SameTab, SameActors DEF Types
  <1>3. CallsTyped /\ new # None /\ new.step \in {"begin", "done"} /\ calls'["save"] = calls["save"]
    <2>1. CASE calls' = [calls EXCEPT !["mode"].step = "begin", !["mode"].tx = NoActor]
      BY <1>1, <2>1, ToBegin
    <2>2. CASE Result("mode", "error")
      <3>1. "error" \in Replies
        BY DEF Replies
      <3>2. /\ calls' \in [Callers -> Call \cup {None}] /\ new # None /\ new.step = "done"
            /\ new.tx = mode.tx /\ \A d \in Callers \ {"mode"} : calls'[d] = calls[d]
        BY <1>0, <1>1, <2>2, <3>1, ResultFacts
      <3>3. mode.tx \in 0..Len(actors) /\ Len(actors') \in Nat /\ Len(actors') >= Len(actors)
        BY <1>0, <1>1, CallTyped DEF Types
      <3>4. CallsTyped
        BY <1>0, <1>1, <3>2, <3>3, OneCall
      <3> QED BY <3>2, <3>4 DEF Callers
    <2> QED BY <2>1, <2>2 DEF ModeFinishesOld
  <1>4. ActorsInOrder' /\ QueuesInOrder'
    BY <1>2, <1>3, QueuesStay
  <1>5. Types' /\ SaveInOrder' /\ ModeInOrder' /\ StagedIsFresh' /\ NoSilentLoss'
    BY <1>1, <1>2, <1>3, ModeGoesOn
  <1> QED BY <1>2, <1>4, <1>5, KeptFacts DEF Inv

LEMMA ModeBeginsCase ==
  ASSUME Inv, ModeBegins PROVE Inv'
  <1> DEFINE mode == calls["mode"]
             new == calls'["mode"]
  <1>0. Types /\ "mode" \in Callers
    BY DEF Inv, Callers
  <1>1. /\ mode # None /\ mode.step = "begin" /\ UNCHANGED <<durable, tab, staged, gaveUp>>
    BY DEF ModeBegins, At, world
  <1>2. Absent("mode") /\ TabKept
    BY <1>1, AbsentMode, SameTab
  <1>3. CASE Begin("mode", "begun")
    <2>1. "begun" \in Steps
      BY DEF Steps
    <2>2. /\ Kept /\ ActorsInOrder' /\ QueuesInOrder' /\ CallsTyped
          /\ new # None /\ new.step \in {"begun", "done"}
          /\ \A d \in Callers \ {"mode"} : calls'[d] = calls[d]
      BY <1>1, <1>2, <1>3, <2>1, BeginFacts
    <2>3. calls'["save"] = calls["save"]
      BY <2>2 DEF Callers
    <2>4. Types' /\ SaveInOrder' /\ ModeInOrder' /\ StagedIsFresh' /\ NoSilentLoss'
      BY <1>1, <1>2, <2>2, <2>3, ModeGoesOn
    <2> QED BY <2>2, <2>4, KeptFacts DEF Inv
  <1>4. CASE Result("mode", "ok") /\ actors' = actors
    <2>1. "ok" \in Replies
      BY DEF Replies
    <2>2. /\ calls' \in [Callers -> Call \cup {None}] /\ new # None /\ new.step = "done"
          /\ new.tx = mode.tx /\ \A d \in Callers \ {"mode"} : calls'[d] = calls[d]
      BY <1>0, <1>1, <1>4, <2>1, ResultFacts
    <2>3. mode.tx \in 0..Len(actors) /\ Len(actors') \in Nat /\ Len(actors') >= Len(actors)
      BY <1>0, <1>1, <1>4, CallTyped DEF Types
    <2>4. CallsTyped /\ calls'["save"] = calls["save"]
      BY <1>0, <1>4, <2>2, <2>3, OneCall DEF Callers
    <2>5. Kept /\ QueuesKept
      BY <1>0, <1>1, <1>4, SameActors DEF Types
    <2>6. ActorsInOrder' /\ QueuesInOrder'
      BY <1>2, <2>4, <2>5, QueuesStay
    <2>7. Types' /\ SaveInOrder' /\ ModeInOrder' /\ StagedIsFresh' /\ NoSilentLoss'
      BY <1>1, <1>2, <2>2, <2>4, <2>5, ModeGoesOn
    <2> QED BY <2>5, <2>6, <2>7, KeptFacts DEF Inv
  <1> QED BY <1>3, <1>4 DEF ModeBegins

\* The mode that is left, and a save beside it, whose session has gone away.
ModeLeft ==
  calls'["mode"] # None =>
    /\ tab'.busy /\ tab'.tx = NoActor
    /\ calls'["mode"].step \notin {"committing", "rolling back"}
SaveAside ==
  calls["save"] # None =>
    /\ tab'.kind = "Unavailable" /\ tab'.recovery = {}
    /\ tab'.changes = tab.changes \/ tab.changes \in gaveUp'
    /\ calls["save"].step \notin OwnSteps

\* A change of the mode is over, or begins: no save works on the screen then.
LEMMA ModeChanges ==
  ASSUME Inv, UNCHANGED <<durable, actors, staged>>, Absent("mode"),
         calls'["save"] = calls["save"], CallsTyped,
         tab' \in Tab, tab'.tx \in 0..Len(actors), tab'.changes = tab.changes \/ tab'.changes = 0,
         gaveUp \subseteq gaveUp', gaveUp' \subseteq Batches, ModeLeft, SaveAside
  PROVE  /\ Types' /\ WrittenOnce' /\ ActorsInOrder' /\ QueuesInOrder'
         /\ SaveInOrder' /\ ModeInOrder'
  <1>0. Types /\ SaveInOrder /\ UNCHANGED <<durable, actors, staged>>
    BY DEF Inv
  <1>1. Kept /\ QueuesKept
    BY <1>0, SameActors DEF Types
  <1>2. ActorsInOrder' /\ QueuesInOrder' /\ WrittenOnce'
    BY <1>1, QueuesStay, KeptFacts
  <1>3. Types'
    <2>1. tab'.tx \in 0..Len(actors') /\ gaveUp' \subseteq Batches
      BY <1>0
    <2>2. tab'.changes <= staged'
      BY <1>0 DEF Types
    <2> QED BY <1>0, <2>1, <2>2 DEF Types, CallsTyped
  <1>4. SaveInOrder'
    <2> SUFFICES ASSUME calls["save"] # None PROVE SaveInOrder'
      BY DEF SaveInOrder
    <2> DEFINE save == calls["save"]
    <2>1. /\ tab'.kind = "Unavailable" /\ tab'.recovery = {}
          /\ tab'.changes = tab.changes \/ tab.changes \in gaveUp'
          /\ save.step \notin OwnSteps
      BY DEF SaveAside
    <2>2. /\ save.batch \in 1..staged'
          /\ tab'.changes = save.batch \/ save.batch \in gaveUp'
          /\ save.step \in {"shared", "shared applied", "done"}
      BY <1>0, <2>1 DEF SaveInOrder
    <2> QED BY <1>0, <2>1, <2>2 DEF SaveInOrder, Fresh, Applied, OwnSteps
  <1>5. ModeInOrder'
    BY DEF ModeInOrder, ModeLeft
  <1> QED BY <1>2, <1>3, <1>4, <1>5

\* A save beside a change of the mode: the session has gone away.
LEMMA SaveBesideMode ==
  ASSUME Inv, calls["mode"] # None, calls["save"] # None
  PROVE  /\ tab.kind = "Unavailable" /\ tab.recovery = {} /\ calls["save"].step \notin OwnSteps
  BY DEF Inv, SaveInOrder

LEMMA FinishModeCase ==
  ASSUME Inv, FinishMode PROVE Inv'
  <1> DEFINE mode == calls["mode"]
  <1>0. Types /\ ModeInOrder /\ StagedIsFresh /\ NoSilentLoss /\ "mode" \in Callers
    BY DEF Inv, Callers
  <1>1. /\ mode # None /\ mode.step \in {"begun", "done"}
        /\ UNCHANGED <<durable, actors, staged, gaveUp>>
    BY DEF FinishMode, quiet
  <1>2. Absent("mode") /\ tab.tx = NoActor
    BY <1>0, <1>1, AbsentMode DEF ModeInOrder
  <1>3. /\ Without("mode") \in [Callers -> Call \cup {None}] /\ Without("mode")["mode"] = None
        /\ \A d \in Callers \ {"mode"} : Without("mode")[d] = calls[d]
    BY <1>0, WithoutFacts
  <1>4. /\ tab \in Tab /\ mode.tx \in 0..Len(actors) /\ gaveUp \subseteq Batches
        /\ Len(actors') \in Nat /\ Len(actors') >= Len(actors) /\ mode \in Call
    BY <1>0, <1>1, CallTyped DEF Types
  <1>5. CASE calls' = Without("mode") /\ tab' \in {tab, [tab EXCEPT !.busy = FALSE, !.manual = FALSE]}
    <2>1. CallsTyped /\ calls'["save"] = calls["save"] /\ calls'["mode"] = None
      BY <1>0, <1>3, <1>4, <1>5, OneCall DEF Callers
    <2>2. /\ tab' \in Tab /\ tab'.tx = tab.tx /\ tab'.changes = tab.changes
          /\ tab'.open = tab.open /\ tab'.kind = tab.kind /\ tab'.recovery = tab.recovery
      <3>1. CASE tab' = tab
        BY <1>4, <3>1
      <3>2. CASE tab' = [tab EXCEPT !.busy = FALSE, !.manual = FALSE]
        <4> DEFINE free == [tab EXCEPT !.busy = FALSE]
        <4>1. /\ free \in Tab /\ free.tx = tab.tx /\ free.changes = tab.changes
              /\ free.open = tab.open /\ free.kind = tab.kind /\ free.recovery = tab.recovery
          BY <1>4 DEF Tab
        <4>2. tab' = [free EXCEPT !.manual = FALSE]
          BY <3>2
        <4> HIDE DEF free
        <4> QED BY <4>1, <4>2 DEF Tab
      <3> QED BY <1>5, <3>1, <3>2
    <2>3. tab'.tx \in 0..Len(actors)
      BY <1>0, <2>2 DEF Types
    <2>4. ModeLeft /\ SaveAside
      BY <1>1, <2>1, <2>2, SaveBesideMode DEF ModeLeft, SaveAside
    <2>5. /\ Types' /\ WrittenOnce' /\ ActorsInOrder' /\ QueuesInOrder'
          /\ SaveInOrder' /\ ModeInOrder'
      BY <1>1, <1>2, <1>4, <2>1, <2>2, <2>3, <2>4, ModeChanges
    <2>6. StagedIsFresh'
      BY <1>0, <1>1, <2>1, <2>2 DEF StagedIsFresh, Fresh
    <2>7. NoSilentLoss'
      BY <1>0, <1>1, <2>2 DEF NoSilentLoss, Unsaved, Staged, Applied
    <2> QED BY <2>5, <2>6, <2>7 DEF Inv
  <1>6. CASE TryLoad([tab EXCEPT !.busy = FALSE, !.tx = mode.tx, !.manual = mode.manual],
                     Without("mode"))
    <2> DEFINE free == [tab EXCEPT !.busy = FALSE]
               held == [free EXCEPT !.tx = mode.tx]
               t == [held EXCEPT !.manual = mode.manual]
    <2>1. /\ free \in Tab /\ free.changes = tab.changes
          /\ free.open = tab.open /\ free.kind = tab.kind /\ free.recovery = tab.recovery
      BY <1>4 DEF Tab
    <2>2. TryLoad(t, Without("mode"))
      BY <1>6
    <2> HIDE DEF free
    <2>3. /\ held \in Tab /\ held.changes = tab.changes /\ held.tx = mode.tx
          /\ held.open = tab.open /\ held.kind = tab.kind /\ held.recovery = tab.recovery
      BY <1>4, <2>1 DEF Tab, Call
    <2> HIDE DEF held
    <2>4. /\ t \in Tab /\ t.changes = tab.changes /\ t.tx = mode.tx
          /\ t.open = tab.open /\ t.kind = tab.kind /\ t.recovery = tab.recovery
      BY <1>4, <2>3 DEF Tab, Call
    <2> HIDE DEF t
    <2>5. /\ tab' \in Tab /\ tab'.open = t.open /\ tab'.changes = t.changes
          /\ tab'.tx = t.tx /\ tab'.recovery = t.recovery
          /\ \/ tab'.kind = t.kind
             \/ t.kind \notin {"Loading", "Saving", "Unavailable"} /\ tab'.kind = "Loading"
          /\ calls' \in [Callers -> Call \cup {None}]
          /\ \A c \in Callers \ {"load"} : calls'[c] = Without("mode")[c]
          /\ calls'["load"] = Without("mode")["load"] \/ calls'["load"].tx = t.tx
      BY <1>3, <2>2, <2>4, TryLoadFacts
    <2>6. /\ calls'["save"] = calls["save"] /\ calls'["mode"] = None
          /\ calls'["load"] = calls["load"] \/ calls'["load"].tx = mode.tx
          /\ calls'["export"] = calls["export"]
      BY <1>3, <2>4, <2>5 DEF Callers
    <2>7. CallsTyped
      BY <1>0, <1>1, <1>4, <2>5, <2>6 DEF CallsTyped, Types, Callers
    <2>8. /\ Types' /\ WrittenOnce' /\ ActorsInOrder' /\ QueuesInOrder'
          /\ SaveInOrder' /\ ModeInOrder'
      <3>1. tab'.tx \in 0..Len(actors) /\ tab'.changes = tab.changes
        BY <1>4, <2>4, <2>5
      <3>2. ModeLeft /\ SaveAside
        BY <1>1, <2>4, <2>5, <2>6, <3>1, SaveBesideMode DEF ModeLeft, SaveAside
      <3> QED BY <1>1, <1>2, <1>4, <2>5, <2>6, <2>7, <3>1, <3>2, ModeChanges
    <2>9. StagedIsFresh'
      BY <1>0, <1>1, <2>4, <2>5, <2>6 DEF StagedIsFresh, Fresh
    <2>10. NoSilentLoss'
      <3>1. Unsaved \subseteq Unsaved'
        BY <1>2, <2>4, <2>5 DEF Unsaved, Staged, Applied
      <3> QED BY <1>0, <1>1, <2>4, <2>5, <3>1 DEF NoSilentLoss
    <2> QED BY <2>8, <2>9, <2>10 DEF Inv
  <1> QED BY <1>5, <1>6 DEF FinishMode

\* A change of the mode is begun if nothing is unsaved and nothing is under way.
LEMMA ChangeFacts ==
  ASSUME Types, NEW t \in Tab, NEW cs \in [Callers -> Call \cup {None}], NEW manual \in BOOLEAN,
         ChangeConfiguration(t, cs, manual)
  PROVE  \/ tab' = t /\ calls' = cs
         \/ /\ tab' \in Tab /\ tab'.open = t.open /\ tab'.kind = t.kind /\ tab'.changes = t.changes
            /\ tab'.recovery = t.recovery /\ tab'.busy /\ tab'.tx = NoActor
            /\ t.changes = 0 /\ t.recovery = {} /\ Applied(t.tx) = {} /\ ~t.busy
            /\ t.kind \notin {"Loading", "Saving", "Unavailable"}
            /\ calls' \in [Callers -> Call \cup {None}]
            /\ calls'["mode"] # None /\ calls'["mode"].step = "start" /\ calls'["mode"].tx = t.tx
            /\ \A c \in Callers \ {"mode"} : calls'[c] = cs[c]
  <1>1. CASE tab' = t /\ calls' = cs
    BY <1>1
  <1>2. CASE ~(tab' = t /\ calls' = cs)
    <2> DEFINE new == [step |-> "start", tx |-> t.tx, reply |-> None, batch |-> 0,
                       manual |-> manual]
               busy == [t EXCEPT !.busy = TRUE]
    <2>1. /\ t.changes = 0 /\ t.recovery = {} /\ Applied(t.tx) = {} /\ ~t.busy
          /\ t.kind \notin {"Loading", "Saving", "Unavailable"}
          /\ tab' = [t EXCEPT !.busy = TRUE, !.tx = NoActor] /\ calls' = [cs EXCEPT !["mode"] = new]
      BY <1>2 DEF ChangeConfiguration
    <2>2. tab' = [busy EXCEPT !.tx = NoActor]
      BY <2>1
    <2>3. /\ busy \in Tab /\ busy.open = t.open /\ busy.kind = t.kind /\ busy.changes = t.changes
          /\ busy.recovery = t.recovery /\ busy.busy
      BY DEF Tab
    <2> HIDE DEF busy
    <2>4. /\ tab' \in Tab /\ tab'.open = t.open /\ tab'.kind = t.kind /\ tab'.changes = t.changes
          /\ tab'.recovery = t.recovery /\ tab'.busy /\ tab'.tx = NoActor
      BY <2>2, <2>3 DEF Tab, NoActor
    <2>5. new \in Call /\ new.step = "start" /\ new.tx = t.tx
      BY NoBatch DEF Call, Steps, Tab
    <2> HIDE DEF new
    <2>6. /\ calls' \in [Callers -> Call \cup {None}] /\ calls'["mode"] = new /\ new # None
          /\ \A c \in Callers \ {"mode"} : calls'[c] = cs[c]
      BY <2>1, <2>5, NoneAssumption DEF Callers
    <2> QED BY <2>1, <2>4, <2>5, <2>6
  <1> QED BY <1>1, <1>2

LEMMA ChooseModeCase ==
  ASSUME Inv, NEW manual \in BOOLEAN, ChooseMode(manual) PROVE Inv'
  <1>0. Types /\ SaveInOrder /\ ModeInOrder /\ StagedIsFresh /\ NoSilentLoss
    BY DEF Inv
  <1>1. /\ UNCHANGED <<durable, actors, staged, gaveUp>> /\ ChangeConfiguration(tab, calls, manual)
        /\ tab' # tab /\ tab.open
    BY DEF ChooseMode, User, quiet
  <1>2. tab \in Tab /\ calls \in [Callers -> Call \cup {None}] /\ tab.tx \in 0..Len(actors)
    BY <1>0 DEF Types
  <1>3. /\ tab' \in Tab /\ tab'.open = tab.open /\ tab'.kind = tab.kind
        /\ tab'.changes = tab.changes /\ tab'.recovery = tab.recovery /\ tab'.busy
        /\ tab'.tx = NoActor /\ tab.changes = 0 /\ tab.recovery = {} /\ Applied(tab.tx) = {}
        /\ ~tab.busy /\ tab.kind \notin {"Loading", "Saving", "Unavailable"}
        /\ calls' \in [Callers -> Call \cup {None}]
        /\ calls'["mode"] # None /\ calls'["mode"].step = "start" /\ calls'["mode"].tx = tab.tx
        /\ \A c \in Callers \ {"mode"} : calls'[c] = calls[c]
    BY <1>0, <1>1, <1>2, ChangeFacts
  <1>4. calls["save"] = None /\ calls["mode"] = None /\ calls'["save"] = calls["save"]
    BY <1>0, <1>3 DEF SaveInOrder, ModeInOrder, Callers
  <1>5. Absent("mode")
    BY <1>4, AbsentMode
  <1>6. CallsTyped
    <2>1. "mode" \in Callers /\ Len(actors') \in Nat /\ Len(actors') >= Len(actors)
      BY <1>0, <1>1 DEF Types, Callers
    <2>2. calls'["mode"].tx \in 0..Len(actors')
      BY <1>1, <1>2, <1>3
    <2> QED BY <1>3, <2>1, <2>2, OneCall
  <1>7. ModeLeft /\ SaveAside
    BY <1>3, <1>4 DEF ModeLeft, SaveAside
  <1>8. gaveUp \subseteq gaveUp' /\ gaveUp' \subseteq Batches
    BY <1>0, <1>1 DEF Types
  <1>9. tab'.tx \in 0..Len(actors)
    BY <1>0, <1>3 DEF NoActor, Types
  <1>10. /\ Types' /\ WrittenOnce' /\ ActorsInOrder' /\ QueuesInOrder'
         /\ SaveInOrder' /\ ModeInOrder'
    BY <1>1, <1>3, <1>4, <1>5, <1>6, <1>7, <1>8, <1>9, ModeChanges
  <1>11. StagedIsFresh'
    BY <1>3 DEF StagedIsFresh
  <1>12. NoSilentLoss'
    BY <1>0, <1>1, <1>3 DEF NoSilentLoss, Unsaved, Staged
  <1> QED BY <1>10, <1>11, <1>12 DEF Inv

\* The result of Commit or Roll Back reaches the tab.
LEMMA FinishTransactionCase ==
  ASSUME Inv, FinishTransaction PROVE Inv'
  <1> DEFINE mode == calls["mode"]
             commit == mode.step = "committing"
             kind == IF ~commit /\ tab.kind = "SaveFailed" THEN "Ready" ELSE tab.kind
             changes == IF commit THEN tab.changes ELSE 0
             t1 == [tab EXCEPT !.busy = FALSE]
             t2 == [t1 EXCEPT !.tx = NoActor]
             t3 == [t2 EXCEPT !.changes = changes]
             t == [t3 EXCEPT !.kind = kind]
  <1>0. Types /\ ModeInOrder /\ StagedIsFresh /\ NoSilentLoss /\ "mode" \in Callers
    BY DEF Inv, Callers
  <1>1. /\ mode # None /\ mode.step \in {"committing", "rolling back"} /\ mode.reply # None
        /\ UNCHANGED <<durable, actors, staged>>
    BY DEF FinishTransaction, Settled
  <1>2. Absent("mode") /\ mode.tx = tab.tx
        /\ (mode.reply = "ok" => Applied(mode.tx) = {})
    BY <1>0, <1>1, AbsentMode DEF ModeInOrder
  <1>3. /\ Without("mode") \in [Callers -> Call \cup {None}] /\ Without("mode")["mode"] = None
        /\ \A d \in Callers \ {"mode"} : Without("mode")[d] = calls[d]
    BY <1>0, WithoutFacts
  <1>4. /\ tab \in Tab /\ tab.tx \in 0..Len(actors) /\ gaveUp \subseteq Batches
        /\ Staged \subseteq Batches /\ (tab.changes # 0 => tab.changes \in Staged)
    BY <1>0, UnsavedBatches DEF Types
  <1>5. /\ t1 \in Tab /\ t1.open = tab.open /\ t1.kind = tab.kind /\ t1.changes = tab.changes
        /\ t1.tx = tab.tx /\ t1.recovery = tab.recovery /\ ~t1.busy
    BY <1>4 DEF Tab
  <1>L. Len(actors') \in Nat /\ Len(actors') >= Len(actors) /\ actors' = actors
    <2>1. actors \in Seq(Actor) /\ actors' = actors
      BY <1>0, <1>1 DEF Types
    <2> QED BY <2>1
  <1>6. CASE tab' \in {tab, t1} /\ calls' = Without("mode") /\ gaveUp' = gaveUp
    <2> HIDE DEF t1
    <2>1. CallsTyped /\ calls'["save"] = calls["save"] /\ calls'["mode"] = None
      <3>1. \A c \in Callers : calls[c] # None => calls[c].tx \in 0..Len(actors')
        BY <1>0, <1>L DEF Types
      <3> QED BY <1>0, <1>3, <1>6, <1>L, <3>1, OneCall DEF Callers
    <2>2. /\ tab' \in Tab /\ tab'.tx = tab.tx /\ tab'.changes = tab.changes
          /\ tab'.open = tab.open /\ tab'.kind = tab.kind /\ tab'.recovery = tab.recovery
      BY <1>4, <1>5, <1>6
    <2>3. tab'.tx \in 0..Len(actors) /\ gaveUp \subseteq gaveUp' /\ gaveUp' \subseteq Batches
      BY <1>4, <1>6, <2>2
    <2>4. ModeLeft /\ SaveAside
      BY <1>1, <2>1, <2>2, SaveBesideMode DEF ModeLeft, SaveAside
    <2>5. /\ Types' /\ WrittenOnce' /\ ActorsInOrder' /\ QueuesInOrder'
          /\ SaveInOrder' /\ ModeInOrder'
      BY <1>1, <1>2, <2>1, <2>2, <2>3, <2>4, ModeChanges
    <2>6. StagedIsFresh'
      BY <1>0, <1>1, <2>1, <2>2 DEF StagedIsFresh, Fresh
    <2>7. NoSilentLoss'
      BY <1>0, <1>1, <1>6, <2>2 DEF NoSilentLoss, Unsaved, Staged, Applied
    <2> QED BY <2>5, <2>6, <2>7 DEF Inv
  <1>7. CASE /\ mode.reply = "ok" /\ ChangeConfiguration(t, Without("mode"), TRUE)
             /\ gaveUp' = IF commit THEN gaveUp ELSE gaveUp \cup Staged
    <2>1. kind \in {"Ready", tab.kind} /\ (tab.kind = "Unavailable" => kind = "Unavailable")
          /\ (kind = "Unavailable" => tab.kind = "Unavailable")
          /\ (kind = "Saving" => tab.kind = "Saving") /\ kind = t.kind
      <3>1. t3 \in Tab
        BY <1>5, NoBatch DEF Tab, NoActor
      <3> QED BY <3>1 DEF Tab
    <2>2. changes \in {0, tab.changes} /\ (changes # tab.changes => gaveUp' = gaveUp \cup Staged)
      BY <1>7
    <2> HIDE DEF t1, kind, changes, commit
    <2>3. /\ t2 \in Tab /\ t2.open = tab.open /\ t2.kind = tab.kind
          /\ t2.tx = NoActor /\ t2.recovery = tab.recovery /\ ~t2.busy
      BY <1>5 DEF Tab, NoActor
    <2> HIDE DEF t2
    <2>4. changes \in 0..MaxBatches
      BY <1>4, <2>2, NoBatch DEF Tab
    <2>5. /\ t3 \in Tab /\ t3.open = tab.open /\ t3.kind = tab.kind /\ t3.changes = changes
          /\ t3.tx = NoActor /\ t3.recovery = tab.recovery /\ ~t3.busy
      BY <2>3, <2>4 DEF Tab
    <2> HIDE DEF t3
    <2>6. /\ t \in Tab /\ t.open = tab.open /\ t.kind = kind /\ t.changes = changes
          /\ t.tx = NoActor /\ t.recovery = tab.recovery /\ ~t.busy
      BY <1>4, <2>1, <2>5 DEF Tab
    <2> HIDE DEF t
    <2>7. \/ tab' = t /\ calls' = Without("mode")
          \/ /\ tab' \in Tab /\ tab'.open = t.open /\ tab'.kind = t.kind /\ tab'.changes = t.changes
             /\ tab'.recovery = t.recovery /\ tab'.busy /\ tab'.tx = NoActor
             /\ calls' \in [Callers -> Call \cup {None}]
             /\ calls'["mode"] # None /\ calls'["mode"].step = "start" /\ calls'["mode"].tx = t.tx
             /\ \A c \in Callers \ {"mode"} : calls'[c] = Without("mode")[c]
      BY <1>0, <1>3, <1>7, <2>6, ChangeFacts
    <2>8. /\ tab' \in Tab /\ tab'.open = tab.open /\ tab'.kind = kind /\ tab'.changes = changes
          /\ tab'.recovery = tab.recovery /\ tab'.tx = NoActor
          /\ calls' \in [Callers -> Call \cup {None}]
          /\ \A c \in Callers \ {"mode"} : calls'[c] = calls[c]
          /\ calls'["mode"] # None => /\ tab'.busy /\ calls'["mode"].step = "start"
                                      /\ calls'["mode"].tx = NoActor
      BY <1>3, <2>6, <2>7
    <2>9. CallsTyped /\ calls'["save"] = calls["save"]
      <3>1. NoActor \in 0..Len(actors')
        BY <1>L DEF NoActor
      <3> QED BY <1>0, <1>L, <2>8, <3>1, OneCall DEF Callers
    <2>10. gaveUp \subseteq gaveUp' /\ gaveUp' \subseteq Batches
      BY <1>4, <1>7
    <2>11. tab'.tx \in 0..Len(actors)
      BY <1>0, <2>8 DEF NoActor, Types
    <2>12. ModeLeft /\ SaveAside
      <3>1. tab'.changes = tab.changes \/ tab.changes \in gaveUp'
        BY <1>4, <2>2, <2>8
      <3> QED BY <1>1, <2>1, <2>8, <3>1, SaveBesideMode DEF ModeLeft, SaveAside
    <2>13. /\ Types' /\ WrittenOnce' /\ ActorsInOrder' /\ QueuesInOrder'
           /\ SaveInOrder' /\ ModeInOrder'
      BY <1>1, <1>2, <2>2, <2>8, <2>9, <2>10, <2>11, <2>12, ModeChanges
    <2>14. StagedIsFresh'
      <3>1. tab'.kind = "Saving" => tab.kind = "Saving"
        BY <2>1, <2>8
      <3>2. tab'.kind # "Unavailable" => tab.kind # "Unavailable"
        BY <2>1, <2>8
      <3>3. tab'.changes # 0 => tab'.changes = tab.changes
        BY <2>2, <2>8
      <3> QED BY <1>0, <1>1, <2>8, <2>9, <3>1, <3>2, <3>3 DEF StagedIsFresh, Fresh
    <2>15. NoSilentLoss'
      <3> SUFFICES ASSUME NEW b \in 1..staged
                   PROVE  durable[b] > 0 \/ b \in gaveUp' \/ (tab'.open /\ b \in Unsaved')
        BY <1>1 DEF NoSilentLoss
      <3>1. Applied(tab.tx) = {}
        BY <1>2, <1>7 DEF Applied
      <3>2. b \in Staged => b \in gaveUp' \/ b \in Unsaved'
        BY <2>2, <2>8 DEF Staged, Unsaved
      <3>3. b \in tab.recovery => b \in Unsaved'
        BY <2>8 DEF Unsaved
      <3> QED BY <1>0, <2>8, <2>10, <3>1, <3>2, <3>3 DEF NoSilentLoss, Unsaved
    <2> QED BY <2>13, <2>14, <2>15 DEF Inv
  <1>8. CASE ~tab.open
    BY <1>6, <1>8 DEF FinishTransaction
  <1>9. CASE tab.open /\ mode.reply # "ok"
    BY <1>6, <1>9 DEF FinishTransaction
  <1>10. CASE tab.open /\ mode.reply = "ok"
    BY <1>7, <1>10 DEF FinishTransaction
  <1> QED BY <1>8, <1>9, <1>10

LEMMA ActorsCounted ==
  ASSUME Types
  PROVE  Len(actors) \in Nat /\ DOMAIN actors = 1..Len(actors)
  <1>1. actors \in Seq(Actor)
    BY DEF Types
  <1> QED BY <1>1

\* The user has the transaction finished: its last command is the request for it.
Finishes(step, op) ==
  \/ step = "committing" /\ op = "Commit" /\ gaveUp' = gaveUp
  \/ step = "rolling back" /\ op = "Rollback" /\ gaveUp' = gaveUp \cup Unsaved

LEMMA FinishCase ==
  ASSUME Inv, NEW step, NEW op, UNCHANGED <<durable, staged>>,
         tab.open, CanFinish, Finish(step, op), Finishes(step, op)
  PROVE  Inv'
  <1> DEFINE new == [step |-> step, tx |-> tab.tx, reply |-> None, batch |-> 0, manual |-> TRUE]
             command == [op |-> op, caller |-> "mode", batch |-> 0]
  <1>0. Types /\ SaveInOrder /\ ModeInOrder /\ StagedIsFresh /\ NoSilentLoss
    BY DEF Inv
  <1>1. /\ tab' = [tab EXCEPT !.busy = TRUE] /\ calls' = [calls EXCEPT !["mode"] = new]
        /\ actors' = [actors EXCEPT ![tab.tx].queue = Append(@, command)]
    BY DEF Finish
  <1>2. /\ ~tab.busy /\ tab.kind \notin {"Loading", "Saving"} /\ Running(tab.tx)
        /\ tab.tx # NoActor /\ tab.tx \in Nat /\ tab.tx \in 0..Len(actors)
    BY <1>0 DEF CanFinish, NotBusy, Running, Types, Tab
  <1>3. tab.tx \in DOMAIN actors /\ actors[tab.tx].running
    <2>1. Len(actors) \in Nat /\ DOMAIN actors = 1..Len(actors)
      BY <1>0, ActorsCounted
    <2>2. tab.tx \in DOMAIN actors
      BY <1>2, <2>1 DEF NoActor
    <2> QED BY <1>2, <2>2 DEF Running
  <1>4. /\ tab' \in Tab /\ tab'.open = tab.open /\ tab'.kind = tab.kind /\ tab'.tx = tab.tx
        /\ tab'.busy /\ tab'.recovery = tab.recovery /\ tab'.changes = tab.changes
    BY <1>0, <1>1 DEF Types, Tab
  <1>5. /\ calls["mode"] = None /\ Absent("mode")
        /\ calls["save"] # None => tab.kind = "Unavailable" /\ calls["save"].step \notin OwnSteps
    <2>1. calls["mode"] = None
      BY <1>0, <1>2 DEF ModeInOrder
    <2> QED BY <1>0, <1>2, <2>1, AbsentMode DEF SaveInOrder
  <1>6. /\ new.step = step /\ new.tx = tab.tx /\ new.reply = None /\ new \in Call
        /\ command \in Command /\ command.op = op /\ command.caller = "mode"
    BY <1>2, NoBatch DEF Call, Command, Steps, Callers, Finishes
  <1> HIDE DEF new, command
  <1>7. /\ calls' \in [Callers -> Call \cup {None}] /\ calls'["mode"] = new /\ new # None
        /\ \A d \in Callers \ {"mode"} : calls'[d] = calls[d]
        /\ calls'["save"] = calls["save"] /\ "mode" \in Callers
    BY <1>0, <1>1, <1>6, NoneAssumption DEF Types, Callers
  <1>8. PICK t \in DOMAIN actors : t = tab.tx
    BY <1>3
  <1>9. Kept /\ QueueGets(t, command) /\ Len(actors') = Len(actors)
    <2>1. actors[t].running /\ actors' = [actors EXCEPT ![t].queue = Append(@, command)]
      BY <1>1, <1>3, <1>8
    <2> QED BY <1>6, <2>1, AskedActor
  <1>10. Expected(t, command)'
    <2>1. Asks("mode", step, op) /\ op # "Batch"
      BY DEF Asks, Finishes
    <2> QED BY <1>6, <1>7, <1>8, <2>1 DEF Expected
  <1>11. ActorsInOrder' /\ QueuesInOrder'
    BY <1>5, <1>6, <1>7, <1>9, <1>10, QueueGrows
  <1>12. CallsTyped
    <2>1. Len(actors) \in Nat
      BY <1>0, ActorsCounted
    <2>2. Len(actors') \in Nat /\ Len(actors') >= Len(actors)
      BY <1>9, <2>1
    <2>3. calls'["mode"].tx \in 0..Len(actors')
      BY <1>2, <1>6, <1>7, <1>9
    <2> QED BY <1>7, <2>2, <2>3, OneCall
  <1>13. /\ gaveUp \subseteq gaveUp' /\ gaveUp' \subseteq Batches
         /\ step = "rolling back" => Unsaved \subseteq gaveUp'
    BY <1>0, UnsavedBatches DEF Types, Finishes
  <1>14. Types'
    BY <1>0, <1>2, <1>4, <1>9, <1>12, <1>13 DEF Types, CallsTyped, Kept
  <1>15. Applied(t)' = Applied(t) /\ durable' = durable
    <2>1. t \in 0..Len(actors)
      BY <1>2, <1>8
    <2> QED BY <1>9, <2>1, KeptFacts
  <1>16. SaveInOrder'
    <2> SUFFICES ASSUME calls["save"] # None PROVE SaveInOrder'
      BY <1>7 DEF SaveInOrder
    <2> DEFINE save == calls["save"]
    <2>1. PICK batch \in Batches : batch = save.batch
      BY SaveFacts
    <2>2. /\ save.step \in {"shared", "done"} => Fresh(save.batch)
          /\ save.step = "shared applied" /\ save.reply # "ok" => Fresh(save.batch)
          /\ save.batch \in 1..staged /\ tab.recovery = {}
          /\ tab.changes = save.batch \/ save.batch \in gaveUp
          /\ save.step \in {"shared", "shared applied", "done"}
      BY <1>0, <1>5 DEF SaveInOrder
    <2>3. /\ save.step \in {"shared", "done"} => Fresh(batch)'
          /\ save.step = "shared applied" /\ save.reply # "ok" => Fresh(batch)'
      <3>1. Fresh(batch) => Fresh(batch)'
        BY <1>9, KeptFacts
      <3>2. Fresh(save.batch) <=> Fresh(batch)
        BY <2>1 DEF Fresh
      <3> QED BY <2>2, <3>1, <3>2
    <2> HIDE DEF save
    <2>4. calls'["save"] = save /\ tab'.kind = "Unavailable" /\ save.step \notin OwnSteps
      BY <1>4, <1>5, <1>7 DEF save
    <2>5. /\ save.batch \in 1..staged' /\ tab'.recovery = {}
          /\ tab'.changes = save.batch \/ save.batch \in gaveUp'
      BY <1>4, <1>13, <2>2
    <2> QED BY <2>1, <2>2, <2>3, <2>4, <2>5 DEF SaveInOrder, Fresh, OwnSteps
  <1>17. ModeInOrder'
    <2>1. new.reply # "ok"
      BY <1>6, NoneKnown
    <2>2. ASSUME step = "rolling back"
          PROVE  /\ Applied(t) \subseteq gaveUp'
                 /\ calls["save"] # None => calls["save"].batch \in gaveUp'
      <3>1. Applied(t) \subseteq Unsaved
        BY <1>8 DEF Unsaved, Applied
      <3>2. calls["save"] # None => \/ calls["save"].batch \in gaveUp
                                    \/ tab.changes = calls["save"].batch
        BY <1>0 DEF SaveInOrder
      <3>4. calls["save"] # None => calls["save"].batch \in 1..staged
        BY <1>0 DEF SaveInOrder
      <3>5. calls["save"] # None => calls["save"].batch # 0
        BY <3>4
      <3>3. tab.changes # 0 => tab.changes \in Unsaved
        BY <1>0, UnsavedBatches
      <3> QED BY <1>13, <2>2, <3>1, <3>2, <3>3, <3>5
    <2>3. step \in {"committing", "rolling back"}
      BY DEF Finishes
    <2>4. Applied(t)' \subseteq gaveUp' <=> Applied(t) \subseteq gaveUp'
      BY <1>15
    <2>5. step = "rolling back" => /\ Applied(t)' \subseteq gaveUp'
                                   /\ calls'["save"] # None => calls'["save"].batch \in gaveUp'
      BY <1>7, <2>2, <2>4
    <2> QED BY <1>4, <1>6, <1>7, <1>8, <2>1, <2>3, <2>5 DEF ModeInOrder, Applied
  <1>18. StagedIsFresh'
    <2> SUFFICES ASSUME tab'.open, tab'.changes # 0, calls'["save"] = None,
                        tab'.kind # "Unavailable", tab'.recovery = {}
                 PROVE  Fresh(tab.changes)'
      BY <1>2, <1>4 DEF StagedIsFresh
    <2>1. PICK b \in Batches : b = tab.changes
      BY <1>0, <1>4, UnsavedBatches
    <2>2. Fresh(b)
      BY <1>0, <1>4, <1>7, <2>1 DEF StagedIsFresh, Fresh
    <2>3. Fresh(b)'
      BY <1>9, <2>2, KeptFacts
    <2> QED BY <1>4, <2>1, <2>3 DEF Fresh
  <1>19. NoSilentLoss'
    <2>1. Unsaved' = Unsaved
      BY <1>4, <1>8, <1>15 DEF Unsaved, Staged, Applied
    <2> QED BY <1>0, <1>4, <1>13, <1>15, <2>1 DEF NoSilentLoss
  <1> QED BY <1>9, <1>11, <1>14, <1>16, <1>17, <1>18, <1>19, KeptFacts DEF Inv

LEMMA CommitCase ==
  ASSUME Inv, CommitTransaction PROVE Inv'
  <1>1. /\ UNCHANGED <<durable, staged>> /\ gaveUp' = gaveUp /\ tab.open /\ CanFinish
        /\ Finish("committing", "Commit")
    BY DEF CommitTransaction, User, quiet
  <1> QED BY <1>1, FinishCase DEF Finishes

LEMMA RollbackCase ==
  ASSUME Inv, NEW yes \in BOOLEAN, AnswerRollback(yes) PROVE Inv'
  <1>1. CASE yes /\ tab.open /\ CanFinish
    <2>1. /\ UNCHANGED <<durable, staged>> /\ gaveUp' = gaveUp \cup Unsaved
          /\ Finish("rolling back", "Rollback")
      BY <1>1 DEF AnswerRollback
    <2> QED BY <1>1, <2>1, FinishCase DEF Finishes
  <1>2. CASE ~(yes /\ tab.open /\ CanFinish)
    BY <1>2, NoChangeCase DEF AnswerRollback
  <1> QED BY <1>1, <1>2

\* An export asks the transaction to read; nothing of the tab depends on it.
LEMMA ExportCase ==
  ASSUME Inv, Export PROVE Inv'
  <1> DEFINE new == [step |-> "streaming", tx |-> tab.tx, reply |-> None, batch |-> 0,
                     manual |-> TRUE]
             command == [op |-> "Stream", caller |-> "export", batch |-> 0]
  <1>0. Types
    BY DEF Inv
  <1>1. /\ calls' = [calls EXCEPT !["export"] = new] /\ Running(tab.tx)
        /\ actors' = [actors EXCEPT ![tab.tx].queue = Append(@, command)]
        /\ UNCHANGED <<durable, tab, staged, gaveUp>>
    BY DEF Export
  <1>2. /\ tab.tx # NoActor /\ tab.tx \in Nat /\ tab.tx \in 0..Len(actors)
    BY <1>0, <1>1 DEF Running, Types, Tab
  <1>3. tab.tx \in DOMAIN actors /\ actors[tab.tx].running
    <2>1. Len(actors) \in Nat /\ DOMAIN actors = 1..Len(actors)
      BY <1>0, ActorsCounted
    <2>2. tab.tx \in DOMAIN actors
      BY <1>2, <2>1 DEF NoActor
    <2> QED BY <1>1, <2>2 DEF Running
  <1>4. /\ new.tx = tab.tx /\ new \in Call
        /\ command \in Command /\ command.op = "Stream" /\ command.caller = "export"
    BY <1>2, NoBatch DEF Call, Command, Steps, Callers
  <1> HIDE DEF new, command
  <1>5. /\ calls' \in [Callers -> Call \cup {None}] /\ calls'["export"] = new
        /\ \A d \in Callers \ {"export"} : calls'[d] = calls[d]
        /\ calls'["save"] = calls["save"] /\ calls'["mode"] = calls["mode"]
        /\ "export" \in Callers
    BY <1>0, <1>1, <1>4 DEF Types, Callers
  <1>6. PICK t \in DOMAIN actors : t = tab.tx
    BY <1>3
  <1>7. Kept /\ QueueGets(t, command) /\ Len(actors') = Len(actors)
    <2>1. actors[t].running /\ actors' = [actors EXCEPT ![t].queue = Append(@, command)]
      BY <1>1, <1>3, <1>6
    <2> QED BY <1>1, <1>4, <2>1, AskedActor
  <1>8. ActorsInOrder' /\ QueuesInOrder'
    <2>1. Expected(t, command)'
      BY <1>4 DEF Expected
    <2> QED BY <1>4, <1>5, <1>7, <2>1, QueueGrows
  <1>9. CallsTyped
    <2>1. Len(actors) \in Nat
      BY <1>0, ActorsCounted
    <2>2. Len(actors') \in Nat /\ Len(actors') >= Len(actors)
      BY <1>7, <2>1
    <2>3. calls'["export"].tx \in 0..Len(actors')
      BY <1>2, <1>4, <1>5, <1>7
    <2> QED BY <1>5, <2>2, <2>3, OneCall
  <1>10. TabKept
    BY <1>1, SameTab
  <1> QED BY <1>5, <1>7, <1>8, <1>9, <1>10, NothingMoves, KeptFacts DEF Inv

-----------------------------------------------------------------------------
(* The theorem *)

LEMMA InitHolds == Init => Inv
  <1> SUFFICES ASSUME Init PROVE Inv
    OBVIOUS
  <1>1. /\ actors = <<>> /\ durable = [b \in Batches |-> 0] /\ staged = 0 /\ gaveUp = {}
        /\ calls = [c \in Callers |-> None]
        /\ tab = [open |-> TRUE, kind |-> "Ready", changes |-> 0, manual |-> FALSE,
                  tx |-> NoActor, busy |-> FALSE, recovery |-> {}]
    BY DEF Init
  <1>2. tab.tx = 0 /\ tab.changes = 0 /\ tab.kind = "Ready" /\ tab.recovery = {}
    BY <1>1 DEF NoActor
  <1>3. calls["save"] = None /\ calls["mode"] = None /\ \A c \in Callers : calls[c] = None
    BY <1>1 DEF Callers
  <1>4. DOMAIN actors = {} /\ actors \in Seq(Actor) /\ Len(actors) = 0
    BY <1>1
  <1>5. Types
    <2>1. tab \in Tab
      BY <1>1, NoBatch DEF Tab, NoActor
    <2>2. durable \in [Batches -> Nat] /\ calls \in [Callers -> Call \cup {None}]
      BY <1>1
    <2>3. staged \in 0..MaxBatches /\ tab.changes <= staged /\ tab.tx \in 0..Len(actors)
      BY <1>1, <1>2, <1>4, NoBatch
    <2>4. gaveUp \subseteq Batches
      BY <1>1
    <2> QED BY <1>3, <1>4, <2>1, <2>2, <2>3, <2>4 DEF Types
  <1>6. WrittenOnce
    BY <1>1, <1>4 DEF WrittenOnce
  <1>7. ActorsInOrder /\ QueuesInOrder
    BY <1>4 DEF ActorsInOrder, QueuesInOrder
  <1>8. SaveInOrder /\ ModeInOrder /\ StagedIsFresh
    BY <1>2, <1>3 DEF SaveInOrder, ModeInOrder, StagedIsFresh
  <1>9. NoSilentLoss
    BY <1>1 DEF NoSilentLoss
  <1> QED BY <1>5, <1>6, <1>7, <1>8, <1>9 DEF Inv

LEMMA NextKeeps == Inv /\ [Next]_vars => Inv'
  <1> SUFFICES ASSUME Inv, [Next]_vars PROVE Inv'
    OBVIOUS
  <1>1. CASE \E t \in DOMAIN actors : ActorStep(t)
    BY <1>1, ActorStepCase
  <1>2. CASE CallStep
    BY <1>2, SaveBeginsCase, SaveAppliesCase, SaveCommitsCase, LoadQueriesCase, LoadCountsCase,
       ModeStartsCase, ModeFinishesOldCase, ModeBeginsCase DEF CallStep
  <1>3. CASE Results
    BY <1>3, FinishSaveCase, FinishLoadCase, FinishModeCase, FinishTransactionCase,
       ExportOverCase DEF Results
  <1>4. CASE Retire
    BY <1>4, NoChangeCase DEF Retire
  <1>5. CASE InvalidateSession
    BY <1>5, InvalidateCase
  <1>6. CASE UserStep
    <2>1. CASE Stage \/ UndoAll \/ Save \/ Refresh \/ ApplyFilter
      BY <2>1, StageCase, UndoCase, SaveCase, RefreshCase
    <2>2. ASSUME NEW manual \in BOOLEAN, ChooseMode(manual) PROVE Inv'
      BY <2>2, ChooseModeCase
    <2>3. CASE CommitTransaction
      BY <2>3, CommitCase
    <2>4. CASE AskRollback
      BY <2>4, NoChangeCase DEF AskRollback
    <2>5. CASE AskDiscard
      BY <2>5, NoChangeCase DEF AskDiscard
    <2>6. CASE Export \/ CancelExport
      BY <2>6, ExportCase, ExportOverCase
    <2>7. CASE CloseTab \/ \E yes \in BOOLEAN : AnswerClose(yes)
      BY <2>7, CloseCase
    <2>8. ASSUME NEW yes \in BOOLEAN, AnswerRollback(yes) PROVE Inv'
      BY <2>8, RollbackCase
    <2>9. ASSUME NEW yes \in BOOLEAN, AnswerDiscard(yes) PROVE Inv'
      BY <2>9, DiscardCase
    <2> QED BY <1>6, <2>1, <2>2, <2>3, <2>4, <2>5, <2>6, <2>7, <2>8, <2>9 DEF UserStep
  <1>7. CASE UNCHANGED vars
    BY <1>7, NoChangeCase DEF vars
  <1> QED BY <1>1, <1>2, <1>3, <1>4, <1>5, <1>6, <1>7 DEF Next

\* The inductive invariant holds in every reachable state.
THEOREM InvariantHolds == Spec => []Inv
  BY InitHolds, NextKeeps, PTL DEF Spec

\* Whatever fails, whenever the session goes away and in whatever order the
\* answers come, an edit is in the database once, or is still shown as unsaved,
\* or was given up by the user (start_save, finish_save, finish_transaction,
\* the recovery list of GridTransaction, has_unsaved_changes).
THEOREM EveryEditArrivesOnce == Spec => []EditsArriveOnce
  <1>1. Inv => EditsArriveOnce
    BY DEF Inv, WrittenOnce, EditsArriveOnce, NeverWrittenTwice
  <1> QED BY <1>1, InvariantHolds, PTL
=============================================================================
