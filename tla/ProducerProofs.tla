---------------------------- MODULE ProducerProofs ----------------------------
(***************************************************************************)
(* Theorems about Producer, for any number of goroutines, any capacities   *)
(* and any number of failures: there is a report to come for each          *)
(* goroutine that waits (Balance), and as long as goroutines push one at a *)
(* time and no kafka.Error comes, each gets its own and                    *)
(* SendInitTasksToFront ends with all its messages delivered.              *)
(***************************************************************************)
EXTENDS Producer, FiniteSetTheorems, TLAPS

-----------------------------------------------------------------------------
\* An asynchronous producer has no pusher that waits, and none that was told anything.
SyncOnly == ~sync => /\ Waiting = {}
                     /\ \A g \in Pushers : report[g] = Nothing

\* While nothing is crossed, one goroutine at most waits, and what is under way is its
\* message.
Mine == ~crossed /\ sync =>
          /\ errors = 0
          /\ \A g, h \in Waiting : g = h
          /\ \A i \in 1..Len(queue) : \E g \in Waiting : queue[i] = Message(g)
          /\ \A i \in 1..Len(events) :
               events[i] # Error /\ \E g \in Waiting : events[i].msg = Message(g)

\* A good report is that of a delivered message.
Reported == \A i \in 1..Len(events) :
              events[i] # Error /\ events[i].ok => events[i].msg \in delivered

\* What SendInitTasksToFront counted is delivered, and it ends with the count.
Counted == /\ ~crossed /\ sync => \A i \in 1..sent : <<Starter, i>> \in delivered
           /\ sync /\ pc[Starter] = "done" => sent = DisplayNum

ProducerInv == TypeOK /\ SyncOnly /\ Balance /\ Mine /\ OwnReport /\ Reported /\ Counted

-----------------------------------------------------------------------------
LEMMA WaitingFinite == IsFiniteSet(Waiting) /\ Cardinality(Waiting) \in Nat
<1>1. IsFiniteSet({Starter} \cup Fronts) /\ IsFiniteSet(Singles)
  BY ProducerAssumption, FS_EmptySet, FS_AddElement, FS_Singleton, FS_Union
<1>2. IsFiniteSet(Pushers)
  BY <1>1, FS_Union DEF Pushers
<1>3. Waiting \subseteq Pushers
  BY DEF Waiting
<1> QED
  BY <1>2, <1>3, FS_Subset, FS_CardinalityType

LEMMA MessageType ==
  ASSUME TypeOK, NEW g \in Pushers, pc[g] # "done"
  PROVE  Message(g) \in Messages /\ Message(g)[1] = g
<1>1. 1 \in 1..DisplayNum
  BY ProducerAssumption
<1>2. g = Starter => sent + 1 \in 1..DisplayNum
  BY ProducerAssumption DEF TypeOK
<1> QED
  BY <1>1, <1>2 DEF Message, Messages

\* Where Push is back, its goroutine waits no more, and the count of the Starter goes on
\* only after a success.
LEMMA ReturnStep ==
  ASSUME TypeOK, NEW g \in Pushers, NEW ok \in BOOLEAN, pc[g] # "done", Return(g, ok)
  PROVE  /\ pc' \in [Pushers -> {"start", "push", "wait", "done"}]
         /\ Waiting' = Waiting \ {g}
         /\ sent' \in 0..DisplayNum
         /\ pc'[Starter] # "done" => sent' < DisplayNum
         /\ mutex' \in Fronts \cup {Free}
         /\ sent' = IF g = Starter /\ ok THEN sent + 1 ELSE sent
         /\ pc'[Starter] = "done" /\ pc[Starter] # "done" => sent' = DisplayNum
         /\ g # Starter => pc'[Starter] = pc[Starter]
<1>1. /\ pc \in [Pushers -> {"start", "push", "wait", "done"}]
      /\ sent \in 0..DisplayNum
      /\ pc[Starter] # "done" => sent < DisplayNum
      /\ mutex \in Fronts \cup {Free}
      /\ DisplayNum \in Nat
      /\ Starter \in Pushers
  BY ProducerAssumption DEF TypeOK, Pushers
<1>2. /\ sent' = IF g = Starter /\ ok THEN sent + 1 ELSE sent
      /\ pc' = [pc EXCEPT ![g] = IF g = Starter /\ ~(ok /\ sent + 1 = DisplayNum)
                                 THEN "start" ELSE "done"]
      /\ mutex' = IF mutex = g THEN Free ELSE mutex
  BY DEF Return, Goto
<1>3. Waiting' = Waiting \ {g}
  BY <1>1, <1>2 DEF Waiting
<1>4. pc' \in [Pushers -> {"start", "push", "wait", "done"}]
  BY <1>1, <1>2
<1>5. mutex' \in Fronts \cup {Free}
  BY <1>1, <1>2
<1>6. CASE g = Starter
  <2>1. /\ pc'[Starter] = IF ok /\ sent + 1 = DisplayNum THEN "done" ELSE "start"
        /\ sent' = IF ok THEN sent + 1 ELSE sent
        /\ sent < DisplayNum
    BY <1>1, <1>2, <1>6
  <2>2. CASE ok
    BY <1>1, <1>2, <1>3, <1>4, <1>5, <1>6, <2>1, <2>2
  <2>3. CASE ~ok
    BY <1>1, <1>2, <1>3, <1>4, <1>5, <1>6, <2>1, <2>3
  <2> QED
    BY <2>2, <2>3
<1>7. CASE g # Starter
  <2>1. pc'[Starter] = pc[Starter] /\ sent' = sent
    BY <1>1, <1>2, <1>7
  <2> QED
    BY <1>1, <1>2, <1>3, <1>4, <1>5, <1>7, <2>1
<1> QED
  BY <1>6, <1>7

\* Sequences.
LEMMA WithoutSeq ==
  ASSUME NEW S, NEW s \in Seq(S), NEW i \in Nat, i \in 1..Len(s)
  PROVE  /\ Without(s, i) \in Seq(S)
         /\ Len(Without(s, i)) = Len(s) - 1
         /\ \A j \in 1..Len(Without(s, i)) : \E k \in 1..Len(s) : Without(s, i)[j] = s[k]
<1> DEFINE n == Len(s) - 1
<1>1. n \in Nat /\ Len(s) \in Nat
  OBVIOUS
<1>2. \A j \in 1..n : j \in 1..Len(s) /\ j + 1 \in 1..Len(s)
  BY <1>1
<1>3. \A j \in 1..n : (IF j < i THEN s[j] ELSE s[j + 1]) \in S
  BY <1>2
<1>4. Without(s, i) \in [1..n -> S]
  BY <1>3 DEF Without
<1>5. Without(s, i) \in Seq(S) /\ Len(Without(s, i)) = n
  BY <1>1, <1>4 DEF Without
<1>6. \A j \in 1..n : Without(s, i)[j] = IF j < i THEN s[j] ELSE s[j + 1]
  BY DEF Without
<1> QED
  BY <1>1, <1>2, <1>5, <1>6

LEMMA AppendSeq ==
  ASSUME NEW S, NEW s \in Seq(S), NEW x \in S
  PROVE  /\ Append(s, x) \in Seq(S)
         /\ Len(Append(s, x)) = Len(s) + 1
         /\ \A j \in 1..Len(Append(s, x)) :
              Append(s, x)[j] = x \/ (j \in 1..Len(s) /\ Append(s, x)[j] = s[j])
OBVIOUS

LEMMA TailSeq ==
  ASSUME NEW S, NEW s \in Seq(S), s # <<>>
  PROVE  /\ Head(s) = s[1] /\ s[1] \in S /\ 1 \in 1..Len(s)
         /\ Tail(s) \in Seq(S)
         /\ Len(Tail(s)) = Len(s) - 1
         /\ \A j \in 1..Len(Tail(s)) : j + 1 \in 1..Len(s) /\ Tail(s)[j] = s[j + 1]
OBVIOUS

-----------------------------------------------------------------------------
LEMMA ProducerInit == ASSUME Init PROVE ProducerInv
<1> USE ProducerAssumption DEF Init
<1>1. Waiting = {}
  BY DEF Waiting
<1>2. TypeOK
  <2>1. /\ queue \in Seq(Messages) /\ Len(queue) <= QueueCap
        /\ events \in Seq(Reports \cup {Error}) /\ Len(events) <= EventsCap
    OBVIOUS
  <2>2. pc \in [Pushers -> {"start", "push", "wait", "done"}]
    OBVIOUS
  <2>3. report \in [Pushers -> Messages \cup {Error, Nothing}]
    OBVIOUS
  <2>4. sent \in 0..DisplayNum /\ sent < DisplayNum
    OBVIOUS
  <2>5. fails \in 0..MaxFails /\ errors \in 0..MaxErrors
    OBVIOUS
  <2>6. sync \in BOOLEAN
    OBVIOUS
  <2> QED
    BY <2>1, <2>2, <2>3, <2>4, <2>5, <2>6 DEF TypeOK
<1>3. Balance
  BY <1>1, FS_EmptySet DEF Balance
<1>4. SyncOnly /\ Mine /\ OwnReport /\ Reported
  BY <1>1 DEF SyncOnly, Mine, OwnReport, Reported
<1>5. Counted
  BY DEF Counted, Pushers
<1> QED
  BY <1>2, <1>3, <1>4, <1>5 DEF ProducerInv

\* Steps that push nothing and take nothing: the goroutines that wait stay the same, and
\* so does all that is under way.
LEMMA QuietStep ==
  ASSUME ProducerInv, Waiting' = Waiting, sent' = sent,
         UNCHANGED <<sync, report, queue, events, pushed, crossed, errors, delivered>>,
         pc'[Starter] = "done" => pc[Starter] = "done"
  PROVE  SyncOnly' /\ Balance' /\ Mine' /\ OwnReport' /\ Reported' /\ Counted'
<1>1. \A g \in Pushers : Message(g)' = Message(g)
  BY DEF Message
<1>2. Waiting \subseteq Pushers
  BY DEF Waiting
<1>3. Balance'
  BY DEF ProducerInv, Balance
<1>4. SyncOnly' /\ OwnReport' /\ Reported' /\ Counted'
  BY DEF ProducerInv, SyncOnly, OwnReport, Reported, Counted
<1>5. Mine'
  BY <1>1, <1>2 DEF ProducerInv, Mine
<1> QED
  BY <1>3, <1>4, <1>5

LEMMA ReadTaskStep == ASSUME ProducerInv, ReadTask PROVE ProducerInv'
<1>1. /\ pc \in [Pushers -> {"start", "push", "wait", "done"}] /\ Starter \in Pushers
      /\ pc' = [pc EXCEPT ![Starter] = "push"] /\ pc[Starter] = "start"
  BY DEF ProducerInv, TypeOK, ReadTask, Goto, Pushers
<1>2. Waiting' = Waiting /\ pc'[Starter] = "push"
  BY <1>1 DEF Waiting
<1>3. TypeOK'
  BY <1>1, <1>2 DEF ProducerInv, TypeOK, ReadTask, envVars
<1> QED
  BY <1>2, <1>3, QuietStep DEF ProducerInv, ReadTask, envVars

LEMMA LockFrontStep ==
  ASSUME ProducerInv, NEW g \in Pushers, LockFront(g) PROVE ProducerInv'
<1>1. /\ pc \in [Pushers -> {"start", "push", "wait", "done"}]
      /\ g \in Fronts /\ g # Starter /\ pc[g] = "start"
      /\ \E place \in {"push", "done"} : pc' = [pc EXCEPT ![g] = place]
      /\ mutex' \in Fronts \cup {Free}
  BY ProducerAssumption DEF ProducerInv, TypeOK, LockFront, Goto
<1>2. Waiting' = Waiting /\ pc'[Starter] = pc[Starter]
  BY <1>1 DEF Waiting, Pushers
<1>3. pc' \in [Pushers -> {"start", "push", "wait", "done"}]
  BY <1>1
<1>4. TypeOK'
  BY <1>1, <1>2, <1>3 DEF ProducerInv, TypeOK, LockFront, envVars
<1> QED
  BY <1>2, <1>4, QuietStep DEF ProducerInv, LockFront, envVars

LEMMA ProduceFailsStep ==
  ASSUME ProducerInv, NEW g \in Pushers, ProduceFails(g) PROVE ProducerInv'
<1>1. TypeOK /\ pc[g] = "push" /\ Return(g, FALSE)
  BY DEF ProducerInv, ProduceFails
<1>2. /\ pc' \in [Pushers -> {"start", "push", "wait", "done"}]
      /\ Waiting' = Waiting \ {g}
      /\ sent' \in 0..DisplayNum /\ sent' = sent
      /\ pc'[Starter] # "done" => sent' < DisplayNum
      /\ mutex' \in Fronts \cup {Free}
      /\ pc'[Starter] = "done" /\ pc[Starter] # "done" => sent' = DisplayNum
  BY <1>1, ReturnStep
<1>3. Waiting' = Waiting
  BY <1>1, <1>2 DEF Waiting
<1>4. TypeOK'
  BY <1>2 DEF ProducerInv, TypeOK, ProduceFails, envVars
<1>5. pc'[Starter] = "done" => pc[Starter] = "done"
  BY <1>1, <1>2 DEF TypeOK, ProducerInv
<1> QED
  BY <1>2, <1>3, <1>4, <1>5, QuietStep DEF ProducerInv, ProduceFails, envVars

LEMMA ListenerStep ==
  ASSUME ProducerInv, PullTask \/ AppendTask PROVE ProducerInv'
<1>1. /\ UNCHANGED <<sync, pc, sent, report, mutex, queue, events, pushed, crossed, envVars>>
      /\ wanting' \in BOOLEAN
  BY DEF PullTask, AppendTask
<1>2. Waiting' = Waiting
  BY <1>1 DEF Waiting
<1>3. TypeOK'
  BY <1>1 DEF ProducerInv, TypeOK, envVars
<1> QED
  BY <1>1, <1>2, <1>3, QuietStep DEF ProducerInv, envVars

-----------------------------------------------------------------------------
\* A message is given to a synchronous producer: one goroutine more waits, and one report
\* more is to come.
LEMMA ProduceSyncStep ==
  ASSUME ProducerInv, NEW g \in Pushers, Produce(g), sync PROVE ProducerInv'
<1> USE DEF ProducerInv
<1>1. /\ TypeOK /\ pc[g] = "push" /\ Len(queue) < QueueCap
      /\ queue' = Append(queue, Message(g))
      /\ pc' = [pc EXCEPT ![g] = "wait"]
      /\ crossed' = (crossed \/ Waiting # {})
      /\ report' = [report EXCEPT ![g] = Nothing]
      /\ UNCHANGED <<sync, sent, mutex, wanting, events, pushed, fails, errors, delivered>>
  BY DEF Produce, Goto, envVars
<1>2. Message(g) \in Messages
  BY <1>1, MessageType
<1>3. /\ queue' \in Seq(Messages) /\ Len(queue') = Len(queue) + 1
      /\ \A j \in 1..Len(queue') :
           queue'[j] = Message(g) \/ (j \in 1..Len(queue) /\ queue'[j] = queue[j])
  BY <1>1, <1>2, AppendSeq DEF TypeOK
<1>4. Waiting' = Waiting \cup {g} /\ g \notin Waiting
  BY <1>1 DEF Waiting, TypeOK
<1>5. TypeOK'
  <2>1. pc' \in [Pushers -> {"start", "push", "wait", "done"}]
    BY <1>1 DEF TypeOK
  <2>2. pc[Starter] # "done" <=> pc'[Starter] # "done"
    BY <1>1 DEF TypeOK, Pushers
  <2>3. report' \in [Pushers -> Messages \cup {Error, Nothing}]
    BY <1>1 DEF TypeOK
  <2>4. Len(queue') <= QueueCap
    BY <1>1, <1>3, ProducerAssumption DEF TypeOK
  <2> QED
    BY <1>1, <1>3, <2>1, <2>2, <2>3, <2>4 DEF TypeOK
<1>6. Balance'
  <2>1. Cardinality(Waiting') = Cardinality(Waiting) + 1
    BY <1>4, WaitingFinite, FS_AddElement
  <2>2. Len(queue) \in Nat /\ Len(events) \in Nat /\ errors \in Nat
    BY DEF TypeOK
  <2> QED
    BY <1>1, <1>3, <2>1, <2>2, WaitingFinite DEF Balance
<1>7. \A h \in Pushers : Message(h)' = Message(h)
  BY <1>1 DEF Message
<1>8. Mine'
  <2> SUFFICES ASSUME ~crossed' PROVE Mine'
    BY DEF Mine
  <2>1. ~crossed /\ Waiting = {}
    BY <1>1
  <2>2. Len(queue) = 0 /\ Len(events) = 0
    <3>1. Len(queue) \in Nat /\ Len(events) \in Nat /\ errors = 0
      BY <2>1 DEF TypeOK, Mine
    <3>2. Len(queue) + Len(events) = 0
      BY <3>1, <2>1, FS_EmptySet DEF Balance
    <3> QED
      BY <3>1, <3>2
  <2>3. Waiting' = {g} /\ errors' = 0
    BY <1>1, <1>4, <2>1 DEF Mine
  <2>4. \A j \in 1..Len(queue') : queue'[j] = Message(g)'
    BY <1>3, <1>7, <2>2
  <2>5. 1..Len(events') = {}
    BY <1>1, <2>2
  <2> QED
    BY <2>3, <2>4, <2>5 DEF Mine
<1>9. OwnReport'
  BY <1>1 DEF OwnReport, TypeOK
<1>10. SyncOnly' /\ Reported'
  BY <1>1 DEF SyncOnly, Reported
<1>11. Counted'
  BY <1>1 DEF Counted, TypeOK, Pushers
<1> QED
  BY <1>5, <1>6, <1>8, <1>9, <1>10, <1>11

\* A message is given to an asynchronous producer: its report stays for good.
LEMMA ProduceAsyncStep ==
  ASSUME ProducerInv, NEW g \in Pushers, Produce(g), ~sync PROVE ProducerInv'
<1> USE DEF ProducerInv
<1>1. /\ TypeOK /\ pc[g] = "push" /\ Len(queue) < QueueCap
      /\ queue' = Append(queue, Message(g))
      /\ Return(g, TRUE)
      /\ report' = [report EXCEPT ![g] = Nothing]
      /\ pushed' = pushed + 1
      /\ UNCHANGED <<sync, wanting, events, crossed, fails, errors, delivered>>
  BY DEF Produce, envVars
<1>2. Message(g) \in Messages
  BY <1>1, MessageType
<1>3. /\ queue' \in Seq(Messages) /\ Len(queue') = Len(queue) + 1
  BY <1>1, <1>2, AppendSeq DEF TypeOK
<1>4. /\ pc' \in [Pushers -> {"start", "push", "wait", "done"}]
      /\ Waiting' = Waiting \ {g}
      /\ sent' \in 0..DisplayNum
      /\ pc'[Starter] # "done" => sent' < DisplayNum
      /\ mutex' \in Fronts \cup {Free}
  BY <1>1, ReturnStep
<1>5. report' \in [Pushers -> Messages \cup {Error, Nothing}] /\ pushed' \in Nat
  BY <1>1 DEF TypeOK
<1>6. Len(queue') <= QueueCap
  BY <1>1, <1>3, ProducerAssumption DEF TypeOK
<1>7. TypeOK'
  BY <1>1, <1>3, <1>4, <1>5, <1>6 DEF TypeOK
<1>8. Balance'
  <2>1. Len(queue) \in Nat /\ Len(events) \in Nat /\ errors \in Nat /\ pushed \in Nat
    BY DEF TypeOK
  <2> QED
    BY <1>1, <1>3, <2>1 DEF Balance
<1>9. SyncOnly'
  BY <1>1, <1>4 DEF SyncOnly, TypeOK
<1>10. OwnReport'
  BY <1>1, <1>9 DEF OwnReport, SyncOnly
<1>11. Mine' /\ Reported' /\ Counted'
  BY <1>1 DEF Mine, Reported, Counted
<1> QED
  BY <1>7, <1>8, <1>9, <1>10, <1>11

-----------------------------------------------------------------------------
\* A goroutine takes the next event: one goroutine less waits, and one report less is to
\* come.  If it waits alone, the event is its own report, and the last.
LEMMA TakeStep ==
  ASSUME ProducerInv, NEW g \in Pushers, Take(g) PROVE ProducerInv'
<1> USE DEF ProducerInv
<1> DEFINE event == Head(events)
           ok == event = Error \/ event.ok
<1>1. /\ TypeOK /\ pc[g] = "wait" /\ events # <<>>
      /\ Return(g, ok)
      /\ report' = [report EXCEPT ![g] = Subject(event)]
      /\ events' = Tail(events)
      /\ UNCHANGED <<sync, wanting, queue, pushed, crossed, fails, errors, delivered>>
  BY DEF Take, envVars
<1>2. /\ event = events[1] /\ event \in Reports \cup {Error} /\ 1 \in 1..Len(events)
      /\ events' \in Seq(Reports \cup {Error}) /\ Len(events') = Len(events) - 1
      /\ \A j \in 1..Len(events') : j + 1 \in 1..Len(events) /\ events'[j] = events[j + 1]
  BY <1>1, TailSeq DEF TypeOK
<1>3. ok \in BOOLEAN
  BY <1>2 DEF Reports
<1>4. /\ pc' \in [Pushers -> {"start", "push", "wait", "done"}]
      /\ Waiting' = Waiting \ {g}
      /\ sent' \in 0..DisplayNum
      /\ pc'[Starter] # "done" => sent' < DisplayNum
      /\ mutex' \in Fronts \cup {Free}
      /\ sent' = IF g = Starter /\ ok THEN sent + 1 ELSE sent
      /\ pc'[Starter] = "done" /\ pc[Starter] # "done" => sent' = DisplayNum
      /\ g # Starter => pc'[Starter] = pc[Starter]
  BY <1>1, <1>3, ReturnStep
<1>5. g \in Waiting /\ sync
  BY <1>1 DEF Waiting, SyncOnly, TypeOK
<1>6. Subject(event) \in Messages \cup {Error}
  BY <1>2 DEF Subject, Reports
<1>7. TypeOK'
  <2>1. report' \in [Pushers -> Messages \cup {Error, Nothing}]
    BY <1>1, <1>6 DEF TypeOK
  <2>2. Len(events') <= EventsCap
    BY <1>2, ProducerAssumption DEF TypeOK
  <2> QED
    BY <1>1, <1>2, <1>4, <2>1, <2>2 DEF TypeOK
<1>8. Balance'
  <2>1. Cardinality(Waiting') = Cardinality(Waiting) - 1
    BY <1>4, <1>5, WaitingFinite, FS_RemoveElement
  <2>2. Len(queue) \in Nat /\ Len(events) \in Nat /\ errors \in Nat
    BY DEF TypeOK
  <2> QED
    BY <1>1, <1>2, <1>5, <2>1, <2>2, WaitingFinite DEF Balance
<1>9. ASSUME ~crossed
      PROVE  /\ Waiting = {g} /\ Waiting' = {} /\ errors = 0
             /\ event # Error /\ event.msg = Message(g)
             /\ Len(queue) = 0 /\ Len(events') = 0
  <2>1. /\ errors = 0 /\ \A h \in Waiting : h = g
        /\ event # Error /\ \E h \in Waiting : event.msg = Message(h)
    BY <1>2, <1>5, <1>9 DEF Mine
  <2>2. Waiting = {g}
    BY <1>5, <2>1
  <2>3. Len(queue) + Len(events) = 1
    <3>1. Cardinality(Waiting) = 1
      BY <2>2, FS_Singleton
    <3> QED
      BY <1>5, <2>1, <3>1 DEF Balance
  <2>4. Len(queue) \in Nat /\ Len(events) \in Nat
    BY DEF TypeOK
  <2>5. Len(queue) = 0 /\ Len(events') = 0
    BY <1>2, <2>3, <2>4
  <2> QED
    BY <1>4, <2>1, <2>2, <2>5
<1>10. Mine'
  <2> SUFFICES ASSUME ~crossed PROVE Mine'
    BY <1>1 DEF Mine
  <2>1. Len(queue') = 0 /\ Len(events') = 0
    BY <1>1, <1>9
  <2>2. 1..Len(queue') = {} /\ 1..Len(events') = {}
    BY <2>1
  <2> QED
    BY <1>1, <1>9, <2>2 DEF Mine
<1>11. OwnReport'
  <2> SUFFICES ASSUME ~crossed PROVE OwnReport'
    BY <1>1 DEF OwnReport
  <2>1. report'[g] = Message(g) /\ \A h \in Pushers : h # g => report'[h] = report[h]
    BY <1>1, <1>9 DEF Subject, TypeOK
  <2>2. Message(g) \in Messages /\ Message(g)[1] = g
    BY <1>1, MessageType
  <2>3. Error \notin Messages
    BY EventAssumption
  <2> QED
    BY <2>1, <2>2, <2>3 DEF OwnReport
<1>12. SyncOnly'
  BY <1>1, <1>5 DEF SyncOnly
<1>13. Reported'
  BY <1>1, <1>2 DEF Reported
<1>14. Counted'
  <2>1. ASSUME ~crossed, NEW i \in 1..sent' PROVE <<Starter, i>> \in delivered
    <3>1. CASE i \in 1..sent
      BY <1>5, <2>1, <3>1 DEF Counted
    <3>2. CASE i \notin 1..sent
      <4>1. g = Starter /\ ok /\ i = sent + 1
        BY <1>4, <3>2 DEF TypeOK
      <4>2. event # Error /\ event.msg = Message(g) /\ event.ok
        BY <1>9, <2>1, <4>1
      <4>3. event.msg \in delivered
        BY <1>2, <4>2 DEF Reported
      <4> QED
        BY <4>1, <4>2, <4>3 DEF Message
    <3> QED
      BY <3>1, <3>2
  <2>2. pc'[Starter] = "done" => sent' = DisplayNum
    BY <1>1, <1>4, <1>5 DEF Counted
  <2> QED
    BY <1>1, <2>1, <2>2 DEF Counted
<1> QED
  BY <1>7, <1>8, <1>10, <1>11, <1>12, <1>13, <1>14

-----------------------------------------------------------------------------
LEMMA DeliverStep ==
  ASSUME ProducerInv, NEW i \in 1..Len(queue), NEW ok \in BOOLEAN, Deliver(i, ok)
  PROVE  ProducerInv'
<1> USE DEF ProducerInv
<1> DEFINE event == [msg |-> queue[i], ok |-> ok]
<1>1. /\ TypeOK /\ Len(events) < EventsCap /\ (ok \/ fails < MaxFails)
      /\ events' = Append(events, event)
      /\ queue' = Without(queue, i)
      /\ fails' = IF ok THEN fails ELSE fails + 1
      /\ delivered' = IF ok THEN delivered \cup {queue[i]} ELSE delivered
      /\ UNCHANGED <<sync, pc, sent, report, mutex, wanting, pushed, crossed, errors>>
  BY DEF Deliver
<1>2. queue[i] \in Messages /\ event \in Reports /\ event # Error
  BY <1>1, EventAssumption DEF TypeOK, Reports
<1>3. /\ events' \in Seq(Reports \cup {Error}) /\ Len(events') = Len(events) + 1
      /\ \A j \in 1..Len(events') :
           events'[j] = event \/ (j \in 1..Len(events) /\ events'[j] = events[j])
  BY <1>1, <1>2, AppendSeq DEF TypeOK
<1>4. /\ queue' \in Seq(Messages) /\ Len(queue') = Len(queue) - 1
      /\ \A j \in 1..Len(queue') : \E k \in 1..Len(queue) : queue'[j] = queue[k]
  <2>1. queue \in Seq(Messages)
    BY DEF TypeOK
  <2>2. /\ Without(queue, i) \in Seq(Messages)
        /\ Len(Without(queue, i)) = Len(queue) - 1
        /\ \A j \in 1..Len(Without(queue, i)) :
             \E k \in 1..Len(queue) : Without(queue, i)[j] = queue[k]
    BY <2>1, i \in Nat, WithoutSeq
  <2> QED
    BY <1>1, <2>2
<1>5. Len(queue) \in Nat /\ Len(events) \in Nat
  BY DEF TypeOK
<1>6. TypeOK'
  <2>1. Len(events') <= EventsCap /\ Len(queue') <= QueueCap
    <3>1. EventsCap \in Nat /\ QueueCap \in Nat /\ Len(queue) <= QueueCap
      BY ProducerAssumption DEF TypeOK
    <3>2. Len(events') = Len(events) + 1 /\ Len(queue') = Len(queue) - 1
      BY <1>3, <1>4
    <3> QED
      BY <1>1, <1>5, <3>1, <3>2
  <2>2. fails' \in 0..MaxFails
    BY <1>1, ProducerAssumption DEF TypeOK
  <2>3. delivered' \subseteq Messages
    BY <1>1, <1>2 DEF TypeOK
  <2> QED
    BY <1>1, <1>3, <1>4, <2>1, <2>2, <2>3 DEF TypeOK
<1>7. Waiting' = Waiting /\ \A g \in Pushers : Message(g)' = Message(g)
  BY <1>1 DEF Waiting, Message
<1>8. Balance'
  BY <1>1, <1>3, <1>4, <1>5, <1>7 DEF Balance
<1>9. Mine'
  <2> SUFFICES ASSUME ~crossed, sync PROVE Mine'
    BY <1>1 DEF Mine
  <2>1. \A j \in 1..Len(queue) : \E g \in Waiting : queue[j] = Message(g)
    BY DEF Mine
  <2>2. \A j \in 1..Len(queue') : \E g \in Waiting : queue'[j] = Message(g)
    BY <1>4, <2>1
  <2>3. \A j \in 1..Len(events') :
          events'[j] # Error /\ \E g \in Waiting : events'[j].msg = Message(g)
    BY <1>2, <1>3, <2>1 DEF Mine
  <2>4. Waiting \subseteq Pushers
    BY DEF Waiting
  <2> QED
    BY <1>1, <1>7, <2>2, <2>3, <2>4 DEF Mine
<1>10. Reported'
  BY <1>1, <1>3 DEF Reported
<1>11. SyncOnly' /\ OwnReport'
  BY <1>1, <1>7 DEF SyncOnly, OwnReport
<1>12. Counted'
  BY <1>1 DEF Counted
<1> QED
  BY <1>6, <1>8, <1>9, <1>10, <1>11, <1>12

LEMMA BrokerErrorStep == ASSUME ProducerInv, BrokerError PROVE ProducerInv'
<1> USE DEF ProducerInv
<1>1. /\ TypeOK /\ errors < MaxErrors /\ Len(events) < EventsCap
      /\ errors' = errors + 1
      /\ events' = Append(events, Error)
      /\ crossed'
      /\ UNCHANGED <<sync, pc, sent, report, mutex, wanting, queue, pushed, fails, delivered>>
  BY DEF BrokerError
<1>2. /\ events' \in Seq(Reports \cup {Error}) /\ Len(events') = Len(events) + 1
      /\ \A j \in 1..Len(events') :
           events'[j] = Error \/ (j \in 1..Len(events) /\ events'[j] = events[j])
  BY <1>1, AppendSeq DEF TypeOK
<1>3. Waiting' = Waiting
  BY <1>1 DEF Waiting
<1>4. TypeOK'
  <2>1. Len(events') <= EventsCap /\ errors' \in 0..MaxErrors /\ crossed' \in BOOLEAN
    BY <1>1, <1>2, ProducerAssumption DEF TypeOK, BrokerError
  <2> QED
    BY <1>1, <1>2, <2>1 DEF TypeOK
<1>5. Balance'
  <2>1. /\ Len(queue) \in Nat /\ Len(events) \in Nat /\ errors \in Nat /\ pushed \in Nat
        /\ Cardinality(Waiting) \in Nat
    BY WaitingFinite DEF TypeOK
  <2>2. /\ Cardinality(Waiting') = Cardinality(Waiting)
        /\ Len(queue') = Len(queue) /\ pushed' = pushed /\ sync' = sync
    BY <1>1, <1>3
  <2>3. errors' = errors + 1 /\ Len(events') = Len(events) + 1
    BY <1>1, <1>2
  <2>4. CASE sync
    BY <2>1, <2>2, <2>3, <2>4 DEF Balance
  <2>5. CASE ~sync
    BY <2>1, <2>2, <2>3, <2>5 DEF Balance
  <2> QED
    BY <2>4, <2>5
<1>6. SyncOnly'
  BY <1>1, <1>3 DEF SyncOnly
<1>7. Mine' /\ OwnReport' /\ Counted'
  BY <1>1 DEF Mine, OwnReport, Counted
<1>8. Reported'
  BY <1>1, <1>2 DEF Reported
<1> QED
  BY <1>4, <1>5, <1>6, <1>7, <1>8

LEMMA ProducerNext == ASSUME ProducerInv, [Next]_vars PROVE ProducerInv'
<1>1. CASE UNCHANGED vars
  <2>1. Waiting' = Waiting /\ TypeOK'
    BY <1>1 DEF vars, envVars, Waiting, ProducerInv, TypeOK
  <2> QED
    BY <1>1, <2>1, QuietStep DEF vars, envVars, ProducerInv
<1>2. ASSUME NEW g \in Pushers, Push(g) PROVE ProducerInv'
  BY <1>2, LockFrontStep, ProduceSyncStep, ProduceAsyncStep, ProduceFailsStep, TakeStep
  DEF Push
<1>3. CASE Broker
  BY <1>3, DeliverStep DEF Broker
<1> QED
  BY <1>1, <1>2, <1>3, ReadTaskStep, BrokerErrorStep, ListenerStep DEF Next

-----------------------------------------------------------------------------
\* Types, and the bounds of queue and channel.
THEOREM ProducerTypes == Spec => []TypeOK
<1>1. ProducerInv => TypeOK
  BY DEF ProducerInv
<1> QED
  BY <1>1, ProducerInit, ProducerNext, PTL DEF Spec

\* Producer.Balance: for each goroutine that waits in GetDeliveryReports a report is to
\* come, and one is left over for each kafka.Error; of an asynchronous producer all are.
THEOREM ReportsBalance == Spec => []Balance
<1>1. ProducerInv => Balance
  BY DEF ProducerInv
<1> QED
  BY <1>1, ProducerInit, ProducerNext, PTL DEF Spec

\* Producer.OwnReport: what Push returns is about its own message while goroutines push
\* one at a time and no kafka.Error comes.
THEOREM ReportsMatch == Spec => []OwnReport
<1>1. ProducerInv => OwnReport
  BY DEF ProducerInv
<1> QED
  BY <1>1, ProducerInit, ProducerNext, PTL DEF Spec

\* Producer.InitTasksDelivered: SendInitTasksToFront ends with all its messages delivered.
THEOREM FirstTasksDelivered == Spec => []InitTasksDelivered
<1>1. ProducerInv => InitTasksDelivered
  BY DEF ProducerInv, InitTasksDelivered, Counted
<1> QED
  BY <1>1, ProducerInit, ProducerNext, PTL DEF Spec

-----------------------------------------------------------------------------
\* The Mutex is held by a SendTaskToFront that is in its Push, and a goroutine that starts
\* without looking at the Mutex is not among those that wait for it.
Held == /\ mutex # Free => mutex \in Fronts /\ pc[mutex] \in {"push", "wait"}
        /\ \A g \in Singles : pc[g] # "start"

\* Some goroutine has not returned, or ListenKafka has a task to append.
Unfinished == wanting \/ \E g \in Pushers : pc[g] # "done"

\* A goroutine can take its next step, or the broker can answer: a Push is tried, a report
\* is there for one that waits, a report fits into the channel, or the Mutex is free for
\* one that wants it.
Moves == \/ \E g \in Pushers : pc[g] = "push"
         \/ Waiting # {} /\ events # <<>>
         \/ queue # <<>> /\ Len(events) < EventsCap
         \/ mutex = Free /\ (wanting \/ \E g \in Fronts \cup {Starter} : pc[g] = "start")

LEMMA HeldInit == ASSUME Init PROVE Held
BY ProducerAssumption DEF Init, Held, Pushers

LEMMA HeldReturn ==
  ASSUME TypeOK, Held, NEW g \in Pushers, NEW ok \in BOOLEAN, Return(g, ok)
  PROVE  Held'
<1>1. /\ pc \in [Pushers -> {"start", "push", "wait", "done"}]
      /\ Fronts \subseteq Pushers /\ Singles \subseteq Pushers /\ Starter \notin Singles
      /\ pc' = [pc EXCEPT ![g] = IF g = Starter /\ ~(ok /\ sent + 1 = DisplayNum)
                                 THEN "start" ELSE "done"]
      /\ mutex' = IF mutex = g THEN Free ELSE mutex
  BY ProducerAssumption DEF TypeOK, Return, Goto, Pushers
<1>2. \A h \in Pushers : h # g => pc'[h] = pc[h]
  BY <1>1
<1>3. \A h \in Singles : pc'[h] # "start"
  BY <1>1, <1>2 DEF Held
<1> QED
  BY <1>1, <1>2, <1>3 DEF Held

LEMMA HeldNext == ASSUME TypeOK, Held, [Next]_vars PROVE Held'
<1>1. /\ pc \in [Pushers -> {"start", "push", "wait", "done"}]
      /\ Fronts \subseteq Pushers /\ Singles \subseteq Pushers /\ Starter \in Pushers
      /\ Starter \notin Fronts \cup Singles /\ Fronts \cap Singles = {}
      /\ Free \notin Pushers
  BY ProducerAssumption DEF TypeOK, Pushers
<1>2. CASE UNCHANGED <<pc, mutex>>
  BY <1>2 DEF Held
<1>3. CASE ReadTask
  <2>1. mutex' = mutex /\ mutex = Free /\ pc' = [pc EXCEPT ![Starter] = "push"]
    BY <1>3 DEF ReadTask, Goto
  <2> QED
    BY <1>1, <2>1 DEF Held
<1>4. ASSUME NEW g \in Pushers, LockFront(g) PROVE Held'
  <2>1. /\ g \in Fronts /\ mutex = Free
        /\ \/ mutex' = g /\ pc' = [pc EXCEPT ![g] = "push"]
           \/ mutex' = mutex /\ pc' = [pc EXCEPT ![g] = "done"]
    BY <1>4 DEF LockFront, Goto
  <2> QED
    BY <1>1, <2>1 DEF Held
<1>5. ASSUME NEW g \in Pushers, Produce(g) PROVE Held'
  <2>1. CASE sync
    <3>1. mutex' = mutex /\ pc' = [pc EXCEPT ![g] = "wait"]
      BY <1>5, <2>1 DEF Produce, Goto
    <3> QED
      BY <1>1, <3>1 DEF Held
  <2>2. CASE ~sync
    BY <1>5, <2>2, HeldReturn DEF Produce
  <2> QED
    BY <2>1, <2>2
<1>6. ASSUME NEW g \in Pushers, ProduceFails(g) PROVE Held'
  BY <1>6, HeldReturn DEF ProduceFails
<1>7. ASSUME NEW g \in Pushers, Take(g) PROVE Held'
  <2> DEFINE good == Head(events) = Error \/ Head(events).ok
  <2>1. Return(g, good) /\ events # <<>>
    BY <1>7 DEF Take
  <2>2. Head(events) \in Reports \cup {Error}
    BY <2>1, TailSeq DEF TypeOK
  <2>3. good \in BOOLEAN
    BY <2>2 DEF Reports
  <2> HIDE DEF good
  <2> QED
    BY <2>1, <2>3, HeldReturn
<1>8. CASE Broker \/ BrokerError \/ PullTask \/ AppendTask
  <2>1. UNCHANGED <<pc, mutex>>
    BY <1>8 DEF Broker, Deliver, BrokerError, PullTask, AppendTask
  <2> QED
    BY <1>2, <2>1
<1> QED
  BY <1>2, <1>3, <1>4, <1>5, <1>6, <1>7, <1>8 DEF Next, Push, vars

\* The goroutines of the worker never lock each other up: whoever keeps the Mutex over its
\* Push, whichever took another's report, and however small queue and channel are, while
\* one of them has not returned some step of it or of the broker can be taken.  What
\* ListenerGetsMutex and PushReturns rest on, for any number of goroutines.
THEOREM PushersNeverStuck == Spec => [](Unfinished => Moves)
<1>1. Init => ProducerInv /\ Held
  BY ProducerInit, HeldInit
<1>2. ProducerInv /\ Held /\ [Next]_vars => ProducerInv' /\ Held'
  BY ProducerNext, HeldNext DEF ProducerInv
<1>3. ProducerInv /\ Held => (Unfinished => Moves)
  <2> SUFFICES ASSUME ProducerInv, Held, Unfinished PROVE Moves
    OBVIOUS
  <2>1. CASE Waiting # {}
    <3>1. sync
      BY <2>1 DEF ProducerInv, SyncOnly
    <3>2. /\ Len(queue) \in Nat /\ Len(events) \in Nat /\ errors \in Nat
          /\ Cardinality(Waiting) \in Nat
      BY WaitingFinite DEF ProducerInv, TypeOK
    <3>3. Cardinality(Waiting) # 0
      BY <2>1, WaitingFinite, FS_EmptySet
    <3>4. Len(queue) + Len(events) > 0
      BY <3>1, <3>2, <3>3 DEF ProducerInv, Balance
    <3>5. CASE events = <<>>
      <4>1. Len(events) = 0 /\ queue # <<>>
        BY <3>2, <3>4, <3>5
      <4> QED
        BY <4>1, ProducerAssumption DEF Moves
    <3> QED
      BY <2>1, <3>5 DEF Moves
  <2>2. CASE Waiting = {} /\ \A g \in Pushers : pc[g] # "push"
    <3>1. \A g \in Pushers : pc[g] \in {"start", "done"}
      BY <2>2 DEF ProducerInv, TypeOK, Waiting
    <3>2. mutex = Free
      BY <3>1 DEF Held, Pushers
    <3>3. wanting \/ \E g \in Fronts \cup {Starter} : pc[g] = "start"
      BY <3>1 DEF Unfinished, Held, Pushers
    <3> QED
      BY <3>2, <3>3 DEF Moves
  <2> QED
    BY <2>1, <2>2 DEF Moves
<1> QED
  BY <1>1, <1>2, <1>3, PTL DEF Spec
=============================================================================
