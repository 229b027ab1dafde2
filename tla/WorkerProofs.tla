---------------------------- MODULE WorkerProofs ----------------------------
(***************************************************************************)
(* Proofs about the worker manager: its types, the agreement of queue and  *)
(* map, and that only a start sets a halted worker to work again, for any  *)
(* number of tasks, messages, starts, stops and crashes; that it takes     *)
(* three starts to block the listener; and, with one start at most or no   *)
(* stops, that no task is lost, that a committed success has its results,  *)
(* that a RUNNING task comes again, and that the worker implements         *)
(* TaskLife.                                                               *)
(***************************************************************************)
EXTENDS WorkerManager, SequenceTheorems, TLAPS

\* ListenKafka has a task message in hand.
Pulled == {"lookup", "check", "append"}

\* CheckInference works on the task at the head of the queue.
Working == {"annotate", "stream", "success", "results", "after", "fail", "ack",
            "remove"}

\* The message in hand is a task and the last one pulled.
InHand == lpc \in Pulled => lmsg = pos /\ lmsg \in 1..Len(log) /\ log[lmsg] \in Tasks

\* The queue holds tasks that were pulled, before the one in hand, which is not in
\* the map when it is about to be appended; its head is the task in work.
QueueInv ==
  /\ \A i \in 1..Len(queue) : queue[i] <= pos /\ log[queue[i]] \in Tasks
  /\ lpc \in Pulled => \A i \in 1..Len(queue) : queue[i] < lmsg
  /\ lpc = "append" => log[lmsg] \notin map
  /\ cpc \in Working => queue # <<>> /\ cmsg = queue[1]

IInv == TypeOK /\ InHand /\ QueueInv /\ QueueIsMap

-----------------------------------------------------------------------------
\* A longer log says the same of the old positions.
LEMMA LongerLog ==
  ASSUME TypeOK, NEW m \in Tasks \cup {Junk}, log' = Append(log, m)
  PROVE  /\ log' \in Seq(Tasks \cup {Junk})
         /\ Len(log') = Len(log) + 1 /\ Len(log) \in Nat
         /\ \A k \in 1..Len(log) : log'[k] = log[k]
         /\ queue \in Seq(1..Len(log'))
<1> DEFINE T == Tasks \cup {Junk}
<1>1. log \in Seq(T) /\ queue \in Seq(1..Len(log))
  BY DEF TypeOK
<1>2. /\ Append(log, m) \in Seq(T) /\ Len(Append(log, m)) = Len(log) + 1
      /\ \A k \in 1..Len(log) : Append(log, m)[k] = log[k]
  BY <1>1, AppendProperties
<1>3. Len(log) \in Nat
  BY <1>1, LenProperties
<1>4. 1..Len(log) \subseteq 1..(Len(log) + 1)
  BY <1>3
<1>5. queue \in Seq(1..(Len(log) + 1))
  BY <1>1, <1>4, SeqMonotonic
<1> QED
  BY <1>2, <1>3, <1>5

\* What the proofs use of the queue.
LEMMA QueueFacts ==
  ASSUME TypeOK
  PROVE  /\ Len(queue) \in Nat /\ Len(log) \in Nat
         /\ \A i \in 1..Len(queue) : queue[i] \in 1..Len(log)
         /\ queue # <<>> => /\ Len(queue) > 0
                            /\ Head(queue) = queue[1]
                            /\ Tail(queue) \in Seq(1..Len(log))
                            /\ Len(Tail(queue)) = Len(queue) - 1
                            /\ \A i \in 1..Len(queue) - 1 : Tail(queue)[i] = queue[i + 1]
<1>1. log \in Seq(Tasks \cup {Junk}) /\ queue \in Seq(1..Len(log))
  BY DEF TypeOK
<1>2. Len(queue) \in Nat /\ Len(log) \in Nat
  BY <1>1, LenProperties
<1>3. \A i \in 1..Len(queue) : queue[i] \in 1..Len(log)
  BY <1>1, ElementOfSeq
<1>4. ASSUME queue # <<>>
      PROVE  /\ Len(queue) > 0 /\ Head(queue) = queue[1]
             /\ Tail(queue) \in Seq(1..Len(log))
             /\ Len(Tail(queue)) = Len(queue) - 1
             /\ \A i \in 1..Len(queue) - 1 : Tail(queue)[i] = queue[i + 1]
  <2>1. /\ Tail(queue) \in Seq(1..Len(log))
        /\ Len(Tail(queue)) = Len(queue) - 1
        /\ \A i \in 1..Len(Tail(queue)) : Tail(queue)[i] = queue[i + 1]
    BY <1>1, <1>4, HeadTailProperties
  <2>2. Len(queue) > 0
    BY <1>1, <1>2, <1>4, EmptySeq
  <2> QED
    BY <1>2, <2>1, <2>2
<1> QED
  BY <1>2, <1>3, <1>4

-----------------------------------------------------------------------------
\* A step that leaves log, queue, map and the two messages alone keeps what is said
\* of them, unless it pulls a message or starts to work on a task.
LEMMA KeepQueue ==
  ASSUME InHand, QueueInv, QueueIsMap,
         UNCHANGED <<log, pos, queue, map, lmsg, cmsg>>,
         lpc' \in Pulled => lpc' = lpc,
         cpc' \in Working => cpc \in Working
  PROVE  InHand' /\ QueueInv' /\ QueueIsMap'
<1>1. /\ log' = log /\ pos' = pos /\ queue' = queue
      /\ map' = map /\ lmsg' = lmsg /\ cmsg' = cmsg
  OBVIOUS
<1>2. InHand'
  BY <1>1 DEF InHand
<1>3. QueueInv'
  <2>1. (\A i \in 1..Len(queue) : queue[i] <= pos /\ log[queue[i]] \in Tasks)'
    BY <1>1 DEF QueueInv
  <2>2. (lpc \in Pulled => \A i \in 1..Len(queue) : queue[i] < lmsg)'
    BY <1>1 DEF QueueInv
  <2>3. (lpc = "append" => log[lmsg] \notin map)'
    BY <1>1 DEF QueueInv, Pulled
  <2>4. (cpc \in Working => queue # <<>> /\ cmsg = queue[1])'
    BY <1>1 DEF QueueInv
  <2> QED
    BY <2>1, <2>2, <2>3, <2>4 DEF QueueInv
<1>4. QueueIsMap'
  BY <1>1 DEF QueueIsMap
<1> QED
  BY <1>2, <1>3, <1>4

\* A worker that has just come up holds nothing.
LEMMA FreshWorker ==
  ASSUME TypeOK, Reboot
  PROVE  TypeOK' /\ InHand' /\ QueueInv' /\ QueueIsMap'
<1>1. queue' \in Seq(1..Len(log')) /\ Len(queue') = 0
  BY EmptySeq DEF Reboot
<1>2. /\ log' = log /\ committed' = committed /\ starts' = starts
      /\ startsCommitted' = startsCommitted /\ stops' = stops
      /\ stopsCommitted' = stopsCommitted
      /\ row' = row /\ results' = results /\ outcome' = outcome /\ front' = front
  BY DEF Reboot, kafkaVars, dbVars
<1>3. /\ pos' \in 0..Len(log) /\ startPos' \in 0..starts /\ stopPos' \in 0..stops
      /\ lmsg' \in 0..Len(log) /\ cmsg' \in 0..Len(log)
  BY QueueFacts DEF TypeOK, Reboot
<1>4. shown' \in 0..DisplayNum /\ fronts' \in Nat /\ boots' \in 0..MaxBoots
  BY BoundsAssumption DEF TypeOK, Reboot
<1>5. TypeOK'
  BY <1>1, <1>2, <1>3, <1>4 DEF TypeOK, Reboot
<1> QED
  BY <1>1, <1>5 DEF Reboot, InHand, QueueInv, QueueIsMap, Pulled, Working

-----------------------------------------------------------------------------
\* The actions that write neither the queue, nor the map, nor the two messages in
\* hand, and do not pull.
Quiet ==
  \/ \E t \in Tasks : InsertRow(t)
  \/ PublishStart \/ PublishStop
  \/ PullStart \/ SendStart \/ AckStart \/ PullStop \/ AckStop
  \/ SkipDuplicate \/ InitReady \/ InitSend \/ SendTaskToFront \/ TakeStart
  \/ AnnotateStopped \/ AnnotateStream \/ AnnotateError \/ StreamEnd
  \/ UpdateSuccess \/ UpdateSuccessFails \/ InsertResults
  \/ After \/ UpdateFailed \/ UpdateFailedFails \/ AckTask

\* None of them loses the type.
LEMMA QuietTypes ==
  ASSUME TypeOK, InHand, QueueInv, Quiet
  PROVE  TypeOK'
<1> USE BoundsAssumption DEF kafkaVars, dbVars, posVars, sharedVars, listenVars, checkVars,
        initVars, TypeOK
<1>1. ASSUME NEW t \in Tasks, InsertRow(t) PROVE TypeOK'
  BY <1>1 DEF InsertRow
<1>2. CASE PublishStart
  BY <1>2 DEF PublishStart
<1>3. CASE PublishStop
  BY <1>3 DEF PublishStop
<1>4. CASE PullStart
  <2>1. startPos' \in 0..starts
    BY <1>4 DEF PullStart
  <2> QED
    BY <1>4, <2>1 DEF PullStart
<1>5. CASE SendStart
  BY <1>5 DEF SendStart
<1>6. CASE AckStart
  BY <1>6 DEF AckStart, AckTo
<1>7. CASE PullStop
  BY <1>7 DEF PullStop
<1>8. CASE AckStop
  BY <1>8 DEF AckStop, AckTo
<1>9. CASE SkipDuplicate
  BY <1>9 DEF SkipDuplicate
<1>10. CASE InitReady
  BY <1>10 DEF InitReady
<1>11. CASE InitSend
  <2>1. 1 \in 1..Len(queue) /\ shown + 1 \in 1..Len(queue)
    BY <1>11, QueueFacts DEF InitSend
  <2>2. front' \subseteq Tasks
    BY <1>11, <2>1 DEF InitSend, QueueInv
  <2>3. shown' \in 0..DisplayNum
    <3>1. shown \in 0..DisplayNum
      OBVIOUS
    <3>2. shown' = shown + 1 /\ shown < DisplayNum
      BY <1>11 DEF InitSend
    <3> HIDE DEF TypeOK
    <3> QED
      BY <3>1, <3>2
  <2> QED
    BY <1>11, <2>2, <2>3 DEF InitSend
<1>12. CASE SendTaskToFront
  <2>1. CASE queue = <<>>
    BY <1>12, <2>1 DEF SendTaskToFront
  <2>2. CASE queue # <<>>
    <3> DEFINE i == IF Len(queue) > DisplayNum THEN DisplayNum ELSE Len(queue)
    <3>1. i \in 1..Len(queue)
      BY <2>2, QueueFacts
    <3>2. log[queue[i]] \in Tasks
      BY <3>1 DEF QueueInv
    <3>3. front' = front \cup {log[queue[i]]}
      BY <1>12, <2>2 DEF SendTaskToFront
    <3>4. front' \subseteq Tasks
      BY <3>2, <3>3
    <3> QED
      BY <1>12, <3>4 DEF SendTaskToFront
  <2> QED
    BY <2>1, <2>2
<1>13. CASE TakeStart
  BY <1>13 DEF TakeStart
<1>14. CASE AnnotateStopped
  BY <1>14 DEF AnnotateStopped
<1>15. CASE AnnotateStream
  BY <1>15 DEF AnnotateStream
<1>16. CASE AnnotateError
  BY <1>16 DEF AnnotateError
<1>17. CASE StreamEnd
  BY <1>17 DEF StreamEnd
<1>18. CASE UpdateSuccess
  BY <1>18 DEF UpdateSuccess, SetStatus, Current
<1>19. CASE UpdateSuccessFails
  BY <1>19 DEF UpdateSuccessFails
<1>20. CASE InsertResults
  <2>1. Current \in Tasks
    BY <1>20, QueueFacts DEF InsertResults, Current, QueueInv, Working
  <2>2. results' \in [Tasks -> Nat]
    <3>1. results \in [Tasks -> Nat]
      OBVIOUS
    <3>2. \/ results' = results
          \/ results' = [results EXCEPT ![Current] = @ + 1]
      BY <1>20 DEF InsertResults
    <3> HIDE DEF TypeOK
    <3>3. results[Current] + 1 \in Nat
      BY <2>1, <3>1
    <3> QED
      BY <2>1, <3>1, <3>2, <3>3
  <2>3. outcome' \in [Tasks -> SUBSET {"SUCCESS", "FAILED", "UNWRITTEN"}]
    <3>1. outcome \in [Tasks -> SUBSET {"SUCCESS", "FAILED", "UNWRITTEN"}]
      OBVIOUS
    <3>2. \/ outcome' = outcome
          \/ outcome' = [outcome EXCEPT ![Current] = @ \cup {"UNWRITTEN"}]
      BY <1>20 DEF InsertResults
    <3> HIDE DEF TypeOK
    <3>3. outcome[Current] \cup {"UNWRITTEN"} \in SUBSET {"SUCCESS", "FAILED", "UNWRITTEN"}
      BY <2>1, <3>1
    <3> QED
      BY <2>1, <3>1, <3>2, <3>3
  <2> QED
    BY <1>20, <2>2, <2>3 DEF InsertResults
<1>21. CASE After
  BY <1>21 DEF After
<1>22. CASE UpdateFailed
  BY <1>22 DEF UpdateFailed, SetStatus, Current
<1>23. CASE UpdateFailedFails
  BY <1>23 DEF UpdateFailedFails
<1>24. CASE AckTask
  BY <1>24 DEF AckTask, AckTo
<1> QED
  BY <1>1, <1>2, <1>3, <1>4, <1>5, <1>6, <1>7, <1>8, <1>9, <1>10, <1>11,
     <1>12, <1>13, <1>14, <1>15, <1>16, <1>17, <1>18, <1>19, <1>20, <1>21, <1>22,
     <1>23, <1>24 DEF Quiet

\* None of them touches what KeepQueue asks for.
LEMMA QuietKeeps ==
  ASSUME Quiet
  PROVE  /\ UNCHANGED <<log, pos, queue, map, lmsg, cmsg>>
         /\ lpc' \in Pulled => lpc' = lpc
         /\ cpc' \in Working => cpc \in Working
<1> DEFINE Kept == /\ UNCHANGED <<log, pos, queue, map, lmsg, cmsg>>
                   /\ lpc' \in Pulled => lpc' = lpc
                   /\ cpc' \in Working => cpc \in Working
<1> USE DEF kafkaVars, dbVars, posVars, sharedVars, listenVars, checkVars, initVars,
            Pulled, Working
<1>1. ASSUME NEW t \in Tasks, InsertRow(t) PROVE Kept
  BY <1>1 DEF InsertRow
<1>2. CASE PublishStart \/ PublishStop
  BY <1>2 DEF PublishStart, PublishStop
<1>3. CASE PullStart \/ SendStart \/ AckStart \/ PullStop \/ AckStop \/ SkipDuplicate
  BY <1>3 DEF PullStart, SendStart, AckStart, PullStop, AckStop, SkipDuplicate
<1>4. CASE InitReady \/ InitSend \/ SendTaskToFront
  BY <1>4 DEF InitReady, InitSend, SendTaskToFront
<1>5. CASE TakeStart \/ AnnotateStopped \/ AnnotateStream \/ AnnotateError \/ StreamEnd
  BY <1>5 DEF TakeStart, AnnotateStopped, AnnotateStream, AnnotateError, StreamEnd
<1>6. CASE UpdateSuccess \/ UpdateSuccessFails \/ InsertResults
  BY <1>6 DEF UpdateSuccess, UpdateSuccessFails, InsertResults
<1>7. CASE After \/ UpdateFailed \/ UpdateFailedFails \/ AckTask
  BY <1>7 DEF After, UpdateFailed, UpdateFailedFails, AckTask
<1> QED
  BY <1>1, <1>2, <1>3, <1>4, <1>5, <1>6, <1>7 DEF Quiet

-----------------------------------------------------------------------------
\* A longer log leaves queue, map and messages with what they were.
LEMMA PublishKeeps ==
  ASSUME IInv, NEW m \in Tasks \cup {Junk}, Publish(m)
  PROVE  IInv'
<1> USE DEF kafkaVars, dbVars, posVars, sharedVars, listenVars, checkVars, initVars
<1>1. /\ log' = Append(log, m) /\ pos' = pos /\ queue' = queue /\ map' = map
      /\ lmsg' = lmsg /\ cmsg' = cmsg /\ lpc' = lpc /\ cpc' = cpc
  BY DEF Publish
<1>2. /\ log' \in Seq(Tasks \cup {Junk})
      /\ Len(log') = Len(log) + 1 /\ Len(log) \in Nat
      /\ \A k \in 1..Len(log) : log'[k] = log[k]
      /\ queue' \in Seq(1..Len(log'))
  BY <1>1, LongerLog DEF IInv
<1>3. \A i \in 1..Len(queue) : log'[queue[i]] = log[queue[i]]
  BY <1>2, QueueFacts DEF IInv
<1>4. TypeOK'
  <2>1. /\ committed' \in 0..Len(log') /\ pos' \in 0..Len(log')
        /\ lmsg' \in 0..Len(log') /\ cmsg' \in 0..Len(log')
    BY <1>2 DEF IInv, TypeOK, Publish
  <2> QED
    BY <1>2, <2>1 DEF IInv, TypeOK, Publish
<1>5. InHand'
  BY <1>1, <1>2 DEF IInv, InHand
<1>6. QueueInv'
  <2>1. (\A i \in 1..Len(queue) : queue[i] <= pos /\ log[queue[i]] \in Tasks)'
    BY <1>1, <1>3 DEF IInv, QueueInv
  <2>2. (lpc \in Pulled => \A i \in 1..Len(queue) : queue[i] < lmsg)'
    BY <1>1 DEF IInv, QueueInv
  <2>3. (lpc = "append" => log[lmsg] \notin map)'
    BY <1>1, <1>2 DEF IInv, InHand, QueueInv, Pulled
  <2>4. (cpc \in Working => queue # <<>> /\ cmsg = queue[1])'
    BY <1>1 DEF IInv, QueueInv
  <2> QED
    BY <2>1, <2>2, <2>3, <2>4 DEF QueueInv
<1>7. QueueIsMap'
  <2>1. {log'[queue[i]] : i \in 1..Len(queue)} = {log[queue[i]] : i \in 1..Len(queue)}
    BY <1>3
  <2>2. map' = {log'[queue'[i]] : i \in 1..Len(queue')}
    <3>1. map = {log[queue[i]] : i \in 1..Len(queue)}
      BY DEF IInv, QueueIsMap
    <3> QED
      BY <1>1, <2>1, <3>1
  <2>3. \A i, j \in 1..Len(queue) : i < j => /\ queue[i] < queue[j]
                                            /\ log'[queue[i]] # log'[queue[j]]
    BY <1>3 DEF IInv, QueueIsMap
  <2> QED
    BY <1>1, <2>2, <2>3 DEF QueueIsMap
<1> QED
  BY <1>4, <1>5, <1>6, <1>7 DEF IInv

\* PullTask takes the next message; it is past everything in the queue.
LEMMA PullKeeps ==
  ASSUME IInv, PullTask
  PROVE  IInv'
<1> USE DEF kafkaVars, dbVars, posVars, sharedVars, listenVars, checkVars, initVars
<1>1. /\ pos \in 0..Len(log) /\ Len(log) \in Nat /\ pos < Len(log)
      /\ pos' = pos + 1 /\ lpc = "pull"
      /\ log' = log /\ queue' = queue /\ map' = map /\ cmsg' = cmsg /\ cpc' = cpc
  BY QueueFacts DEF PullTask, IInv, TypeOK
<1>2. \/ log[pos + 1] = Junk /\ lpc' = lpc /\ lmsg' = lmsg
      \/ log[pos + 1] # Junk /\ lpc' = "lookup" /\ lmsg' = pos + 1
  BY DEF PullTask
<1>3. log[pos + 1] \in Tasks \cup {Junk}
  BY <1>1 DEF IInv, TypeOK
<1>4. TypeOK'
  <2>1. pos' \in 0..Len(log) /\ lmsg' \in 0..Len(log)
    BY <1>1, <1>2 DEF IInv, TypeOK
  <2> QED
    BY <1>1, <1>2, <2>1 DEF IInv, TypeOK, PullTask
<1>5. InHand'
  BY <1>1, <1>2, <1>3 DEF InHand, Pulled
<1>6. QueueInv'
  <2>1. \A i \in 1..Len(queue) : queue[i] <= pos /\ queue[i] \in Nat
    BY <1>1, QueueFacts DEF IInv, QueueInv
  <2> QED
    BY <1>1, <1>2, <2>1 DEF IInv, QueueInv, Pulled
<1>7. QueueIsMap'
  BY <1>1 DEF IInv, QueueIsMap
<1> QED
  BY <1>4, <1>5, <1>6, <1>7 DEF IInv

\* Looking up a task and testing the map keep the message in hand.
LEMMA LookKeeps ==
  ASSUME IInv, Lookup \/ AcceptTask
  PROVE  IInv'
<1> USE DEF kafkaVars, dbVars, posVars, sharedVars, listenVars, checkVars, initVars
<1>1. /\ log' = log /\ pos' = pos /\ queue' = queue /\ map' = map /\ lmsg' = lmsg
      /\ cmsg' = cmsg /\ cpc' = cpc /\ lpc \in Pulled
      /\ lpc' = "append" => log[lmsg] \notin map
  BY DEF Lookup, AcceptTask, Pulled
<1>2. TypeOK'
  <2>1. CASE Lookup
    BY <2>1 DEF IInv, TypeOK, Lookup
  <2>2. CASE AcceptTask
    BY <2>2 DEF IInv, TypeOK, AcceptTask
  <2> QED
    BY <2>1, <2>2
<1>3. InHand'
  BY <1>1 DEF IInv, InHand
<1>4. QueueInv'
  BY <1>1 DEF IInv, QueueInv
<1>5. QueueIsMap'
  BY <1>1 DEF IInv, QueueIsMap
<1> QED
  BY <1>2, <1>3, <1>4, <1>5 DEF IInv

\* The task in hand goes to the end of the queue: it is past the others and none of
\* them.
LEMMA AppendKeeps ==
  ASSUME IInv, AppendTask
  PROVE  IInv'
<1> USE DEF kafkaVars, dbVars, posVars, sharedVars, listenVars, checkVars, initVars
<1>1. /\ lpc = "append" /\ queue' = Append(queue, lmsg) /\ map' = map \cup {log[lmsg]}
      /\ lpc' = "pull" /\ log' = log /\ pos' = pos /\ lmsg' = lmsg
      /\ cmsg' = cmsg /\ cpc' = cpc
  BY DEF AppendTask
<1>2. /\ lmsg = pos /\ lmsg \in 1..Len(log) /\ log[lmsg] \in Tasks
      /\ log[lmsg] \notin map
      /\ \A i \in 1..Len(queue) : queue[i] < lmsg
  BY <1>1 DEF IInv, InHand, QueueInv, Pulled
<1>3. /\ Len(queue) \in Nat /\ Len(queue') = Len(queue) + 1
      /\ queue' \in Seq(1..Len(log))
      /\ \A i \in 1..Len(queue) : queue'[i] = queue[i]
      /\ queue'[Len(queue) + 1] = lmsg
  <2>1. queue \in Seq(1..Len(log))
    BY DEF IInv, TypeOK
  <2> QED
    BY <1>1, <1>2, <2>1, AppendProperties, LenProperties
<1>4. \A i \in 1..Len(queue') : i \in 1..Len(queue) \/ i = Len(queue) + 1
  BY <1>3
<1>5. TypeOK'
  BY <1>1, <1>2, <1>3 DEF IInv, TypeOK, AppendTask
<1>6. QueueInv'
  <2>1. \A i \in 1..Len(queue') : queue'[i] <= pos /\ log[queue'[i]] \in Tasks
    BY <1>2, <1>3, <1>4 DEF IInv, QueueInv
  <2>2. cpc \in Working => queue' # <<>> /\ cmsg = queue'[1]
    <3>1. SUFFICES ASSUME cpc \in Working PROVE queue' # <<>> /\ cmsg = queue'[1]
      OBVIOUS
    <3>2. queue # <<>> /\ cmsg = queue[1]
      BY <3>1 DEF IInv, QueueInv
    <3>3. Len(queue) > 0
      BY <3>2, QueueFacts DEF IInv
    <3>4. Len(queue') # Len(<<>>)
      BY <1>3, <3>3
    <3> QED
      BY <1>3, <3>2, <3>3, <3>4
  <2> QED
    BY <1>1, <2>1, <2>2 DEF QueueInv, Pulled
<1>7. QueueIsMap'
  <2>1. map = {log[queue[i]] : i \in 1..Len(queue)}
    BY DEF IInv, QueueIsMap
  <2>2. {log[queue'[i]] : i \in 1..Len(queue')} = map \cup {log[lmsg]}
    BY <1>3, <1>4, <2>1
  <2>3. \A i, j \in 1..Len(queue') : i < j => /\ queue'[i] < queue'[j]
                                             /\ log[queue'[i]] # log[queue'[j]]
    <3>1. SUFFICES ASSUME NEW i \in 1..Len(queue'), NEW j \in 1..Len(queue'), i < j
                   PROVE  queue'[i] < queue'[j] /\ log[queue'[i]] # log[queue'[j]]
      OBVIOUS
    <3>2. i \in 1..Len(queue)
      BY <1>3, <3>1
    <3>3. CASE j \in 1..Len(queue)
      BY <1>3, <3>1, <3>2, <3>3 DEF IInv, QueueIsMap
    <3>4. CASE j = Len(queue) + 1
      <4>1. queue'[i] < lmsg /\ log[queue'[i]] \in map
        BY <1>2, <1>3, <2>1, <3>2
      <4> QED
        BY <1>2, <1>3, <3>4, <4>1
    <3> QED
      BY <1>4, <3>3, <3>4
  <2> QED
    BY <1>1, <2>2, <2>3 DEF QueueIsMap
<1> QED
  BY <1>1, <1>5, <1>6, <1>7 DEF IInv, InHand, Pulled

\* CheckInference starts to work on the head.
LEMMA BeginKeeps ==
  ASSUME IInv, Begin
  PROVE  IInv'
<1> USE DEF kafkaVars, dbVars, posVars, sharedVars, listenVars, checkVars, initVars
<1>1. /\ queue # <<>> /\ Head(queue) = queue[1] /\ queue[1] \in 1..Len(log)
      /\ log[queue[1]] \in Tasks
  BY QueueFacts DEF Begin, IInv, QueueInv
<1>2. /\ log' = log /\ pos' = pos /\ queue' = queue /\ map' = map /\ lmsg' = lmsg
      /\ lpc' = lpc /\ cmsg' = queue[1] /\ cpc' = "annotate"
      /\ row' = [row EXCEPT ![log[queue[1]]] = "RUNNING"]
      /\ outcome' = outcome /\ results' = results
  <2>1. outcome' = [outcome EXCEPT ![log[queue[1]]] = outcome[log[queue[1]]]]
    BY <1>1 DEF Begin, SetStatus
  <2>2. outcome' = outcome
    BY <1>1, <2>1 DEF IInv, TypeOK
  <2> QED
    BY <1>1, <2>2 DEF Begin, SetStatus
<1>3. TypeOK'
  BY <1>1, <1>2 DEF IInv, TypeOK, Begin
<1>4. InHand' /\ QueueIsMap'
  BY <1>2 DEF IInv, InHand, QueueIsMap
<1>5. QueueInv'
  BY <1>1, <1>2 DEF IInv, QueueInv
<1> QED
  BY <1>3, <1>4, <1>5 DEF IInv

\* RemoveFirstTask takes the task in work out of queue and map: it is the head, and
\* no other entry is of the same task.
LEMMA RemoveKeeps ==
  ASSUME IInv, RemoveFirstTask
  PROVE  IInv'
<1> USE DEF kafkaVars, dbVars, posVars, sharedVars, listenVars, checkVars, initVars
<1>1. /\ cpc = "remove" /\ queue' = Tail(queue) /\ map' = map \ {log[cmsg]}
      /\ cpc' = "poll" /\ log' = log /\ pos' = pos /\ lmsg' = lmsg /\ lpc' = lpc
      /\ cmsg' = cmsg
  BY DEF RemoveFirstTask, Current
<1>2. queue # <<>> /\ cmsg = queue[1]
  BY <1>1 DEF IInv, QueueInv, Working
<1>3. /\ Len(queue) \in Nat /\ Len(queue) > 0 /\ Len(queue') = Len(queue) - 1
      /\ queue' \in Seq(1..Len(log))
      /\ \A i \in 1..Len(queue') : queue'[i] = queue[i + 1]
  BY <1>1, <1>2, QueueFacts DEF IInv
<1>4. \A i \in 1..Len(queue') : i + 1 \in 2..Len(queue)
  BY <1>3
<1>5. TypeOK'
  BY <1>1, <1>3 DEF IInv, TypeOK, RemoveFirstTask
<1>6. QueueInv'
  <2>1. \A i \in 1..Len(queue') : queue'[i] <= pos /\ log[queue'[i]] \in Tasks
    BY <1>3, <1>4 DEF IInv, QueueInv
  <2>2. lpc \in Pulled => \A i \in 1..Len(queue') : queue'[i] < lmsg
    BY <1>3, <1>4 DEF IInv, QueueInv
  <2> QED
    BY <1>1, <2>1, <2>2 DEF IInv, QueueInv, Working
<1>7. QueueIsMap'
  <2>1. /\ map = {log[queue[i]] : i \in 1..Len(queue)}
        /\ \A i, j \in 1..Len(queue) : i < j => /\ queue[i] < queue[j]
                                                /\ log[queue[i]] # log[queue[j]]
    BY DEF IInv, QueueIsMap
  <2>2. \A j \in 1..Len(queue) : j = 1 \/ j \in 2..Len(queue)
    BY <1>3
  <2>3. \A j \in 2..Len(queue) : j \in 1..Len(queue) /\ log[queue[j]] # log[queue[1]]
    <3>1. SUFFICES ASSUME NEW j \in 2..Len(queue)
                   PROVE  j \in 1..Len(queue) /\ log[queue[j]] # log[queue[1]]
      OBVIOUS
    <3>2. 1 \in 1..Len(queue) /\ j \in 1..Len(queue) /\ 1 < j
      BY <1>3, <3>1
    <3> QED
      BY <2>1, <3>2
  <2>4. map \ {log[queue[1]]} = {log[queue[j]] : j \in 2..Len(queue)}
    <3>1. \A x \in map : x = log[queue[1]] \/ \E j \in 2..Len(queue) : x = log[queue[j]]
      BY <2>1, <2>2
    <3>2. \A j \in 2..Len(queue) : log[queue[j]] \in map
      BY <2>1, <2>3
    <3> QED
      BY <2>3, <3>1, <3>2
  <2>5. {log[queue'[i]] : i \in 1..Len(queue')} = {log[queue[j]] : j \in 2..Len(queue)}
    <3>1. \A j \in 2..Len(queue) : j - 1 \in 1..Len(queue') /\ queue'[j - 1] = queue[j]
      BY <1>3
    <3>2. \A i \in 1..Len(queue') : i + 1 \in 2..Len(queue) /\ queue'[i] = queue[i + 1]
      BY <1>3, <1>4
    <3>3. {log[queue'[i]] : i \in 1..Len(queue')} \subseteq {log[queue[j]] : j \in 2..Len(queue)}
      BY <3>2
    <3>4. {log[queue[j]] : j \in 2..Len(queue)} \subseteq {log[queue'[i]] : i \in 1..Len(queue')}
      BY <3>1
    <3> QED
      BY <3>3, <3>4
  <2>6. \A i, j \in 1..Len(queue') : i < j => /\ queue'[i] < queue'[j]
                                             /\ log[queue'[i]] # log[queue'[j]]
    <3>1. SUFFICES ASSUME NEW i \in 1..Len(queue'), NEW j \in 1..Len(queue'), i < j
                   PROVE  queue'[i] < queue'[j] /\ log[queue'[i]] # log[queue'[j]]
      OBVIOUS
    <3>2. i + 1 \in 1..Len(queue) /\ j + 1 \in 1..Len(queue) /\ i + 1 < j + 1
      BY <1>3, <3>1
    <3>3. queue[i + 1] < queue[j + 1] /\ log[queue[i + 1]] # log[queue[j + 1]]
      BY <2>1, <3>2
    <3>4. queue'[i] = queue[i + 1] /\ queue'[j] = queue[j + 1]
      BY <1>3
    <3> QED
      BY <3>3, <3>4
  <2>7. map' = {log'[queue'[i]] : i \in 1..Len(queue')}
    BY <1>1, <1>2, <2>4, <2>5
  <2> QED
    BY <1>1, <2>6, <2>7 DEF QueueIsMap
<1> QED
  BY <1>1, <1>5, <1>6, <1>7 DEF IInv, InHand

-----------------------------------------------------------------------------
\* The invariant is inductive.
LEMMA InvInit == Init => IInv
<1> SUFFICES ASSUME Init PROVE IInv
  OBVIOUS
<1>1. /\ log \in Seq(Tasks \cup {Junk}) /\ Len(log) = 0
      /\ queue \in Seq(1..Len(log)) /\ Len(queue) = 0
  BY EmptySeq DEF Init
<1>2. /\ row \in [Tasks -> {"ABSENT", "PENDING", "RUNNING", "SUCCESS", "FAILED"}]
      /\ results \in [Tasks -> Nat]
      /\ outcome \in [Tasks -> SUBSET {"SUCCESS", "FAILED", "UNWRITTEN"}]
  BY DEF Init
<1>3. /\ starts \in 0..MaxStarts /\ stops \in 0..MaxStops /\ boots \in 0..MaxBoots
      /\ shown \in 0..DisplayNum /\ fronts \in Nat
  BY BoundsAssumption DEF Init
<1>4. /\ committed \in 0..Len(log) /\ pos \in 0..Len(log)
      /\ lmsg \in 0..Len(log) /\ cmsg \in 0..Len(log)
      /\ startsCommitted \in 0..starts /\ startPos \in 0..starts
      /\ stopsCommitted \in 0..stops /\ stopPos \in 0..stops
  BY <1>1 DEF Init
<1>5. /\ front \subseteq Tasks /\ map \subseteq Tasks
      /\ restart \in BOOLEAN /\ startChan \in {0, 1}
  BY DEF Init
<1>6. TypeOK
  BY <1>1, <1>2, <1>3, <1>4, <1>5 DEF Init, TypeOK
<1> QED
  BY <1>1, <1>6 DEF IInv, Init, InHand, QueueInv, QueueIsMap, Pulled, Working

\* No step leaves it: the steps with lemmas of their own, the restarts, the rest.
LEMMA InvNext == IInv /\ [Next]_vars => IInv'
<1> SUFFICES ASSUME IInv, [Next]_vars PROVE IInv'
  OBVIOUS
<1>1. ASSUME NEW m \in Tasks \cup {Junk}, Publish(m) PROVE IInv'
  BY <1>1, PublishKeeps
<1>2. CASE Crash \/ LookupPanic \/ InitPanic \/ SnapshotPanic
  <2>1. Reboot
    BY <1>2 DEF Crash, LookupPanic, InitPanic, SnapshotPanic
  <2> QED
    BY <2>1, FreshWorker DEF IInv
<1>3. CASE PullTask
  BY <1>3, PullKeeps
<1>4. CASE Lookup \/ AcceptTask
  BY <1>4, LookKeeps
<1>5. CASE AppendTask
  BY <1>5, AppendKeeps
<1>6. CASE Begin
  BY <1>6, BeginKeeps
<1>7. CASE RemoveFirstTask
  BY <1>7, RemoveKeeps
<1>8. CASE Quiet
  BY <1>8, QuietTypes, QuietKeeps, KeepQueue DEF IInv
<1>9. CASE UNCHANGED vars
  <2>1. /\ UNCHANGED <<log, committed, starts, startsCommitted, stops, stopsCommitted>>
        /\ UNCHANGED <<row, results, outcome, front, pos, startPos, stopPos>>
        /\ UNCHANGED <<queue, map, restart, startChan, lpc, lmsg, cpc, cmsg, ret>>
        /\ UNCHANGED <<ipc, shown, fronts, boots>>
    BY <1>9 DEF vars, kafkaVars, dbVars, posVars, sharedVars, listenVars, checkVars,
                initVars
  <2>2. TypeOK'
    BY <2>1 DEF IInv, TypeOK
  <2> QED
    BY <2>1, <2>2, KeepQueue DEF IInv
<1> QED
  BY <1>1, <1>2, <1>3, <1>4, <1>5, <1>6, <1>7, <1>8, <1>9
     DEF Next, Environment, ListenKafka, SendInitTasksToFront, CheckInference, Quiet

\* In every state every variable has its type.
THEOREM TypesHold == Spec => []TypeOK
<1>1. IInv => TypeOK
  BY DEF IInv
<1> QED
  BY <1>1, InvInit, InvNext, PTL DEF Spec

-----------------------------------------------------------------------------
\* A start is committed after it was read, and a worker that comes up reads the others.
StartsRead == startsCommitted <= startPos

LEMMA StartsReadStep ==
  ASSUME TypeOK, StartsRead, [Next]_vars
  PROVE  StartsRead'
<1> USE DEF kafkaVars, posVars, StartsRead
<1>0. startsCommitted \in Nat /\ startPos \in Nat
  BY DEF TypeOK
<1>1. ASSUME UNCHANGED <<startsCommitted, startPos>> PROVE StartsRead'
  BY <1>1
<1>2. CASE Reboot
  BY <1>0, <1>2 DEF Reboot
<1>3. CASE PullStart \/ AckStart
  BY <1>0, <1>3 DEF PullStart, AckStart, AckTo
<1>4. ASSUME NEW m \in Tasks \cup {Junk}, Publish(m) PROVE StartsRead'
  BY <1>1, <1>4 DEF Publish
<1>5. ASSUME NEW t \in Tasks, InsertRow(t) PROVE StartsRead'
  BY <1>1, <1>5 DEF InsertRow
<1>6. CASE PublishStart \/ PublishStop \/ SendStart \/ PullStop \/ AckStop
  BY <1>1, <1>6 DEF PublishStart, PublishStop, SendStart, PullStop, AckStop
<1>7. CASE PullTask \/ Lookup \/ SkipDuplicate \/ AcceptTask \/ AppendTask
  BY <1>1, <1>7 DEF PullTask, Lookup, SkipDuplicate, AcceptTask, AppendTask
<1>8. CASE InitReady \/ InitSend \/ SendTaskToFront
  BY <1>1, <1>8 DEF InitReady, InitSend, SendTaskToFront
<1>9. CASE TakeStart \/ Begin \/ AnnotateStopped \/ AnnotateStream \/ AnnotateError
           \/ StreamEnd \/ UpdateSuccess \/ UpdateSuccessFails \/ InsertResults \/ After
           \/ UpdateFailed \/ UpdateFailedFails \/ AckTask \/ RemoveFirstTask
  BY <1>1, <1>9 DEF TakeStart, Begin, AnnotateStopped, AnnotateStream, AnnotateError,
                    StreamEnd, UpdateSuccess, UpdateSuccessFails, InsertResults, After,
                    UpdateFailed, UpdateFailedFails, AckTask, RemoveFirstTask
<1>10. CASE UNCHANGED vars
  BY <1>1, <1>10 DEF vars
<1> QED
  BY <1>2, <1>3, <1>4, <1>5, <1>6, <1>7, <1>8, <1>9, <1>10
     DEF Next, Environment, ListenKafka, SendInitTasksToFront, CheckInference,
         Crash, LookupPanic, InitPanic, SnapshotPanic

LEMMA HaltedStep ==
  ASSUME TypeOK, StartsRead, Halted, startsCommitted = starts, [Next]_vars
  PROVE  Halted'
<1> USE DEF sharedVars, listenVars, checkVars, Halted
<1>0. startPos = starts /\ starts \in Nat
  BY DEF TypeOK, StartsRead
<1>1. ASSUME UNCHANGED <<restart, startChan, lpc, cpc>> PROVE Halted'
  BY <1>1
<1>2. CASE Reboot
  BY <1>2 DEF Reboot
<1>3. ~PullStart
  BY <1>0 DEF PullStart
<1>4. ASSUME NEW m \in Tasks \cup {Junk}, Publish(m) PROVE Halted'
  BY <1>1, <1>4 DEF Publish
<1>5. ASSUME NEW t \in Tasks, InsertRow(t) PROVE Halted'
  BY <1>1, <1>5 DEF InsertRow
<1>6. CASE PublishStart \/ PublishStop \/ InitReady \/ InitSend \/ SendTaskToFront
  BY <1>1, <1>6 DEF PublishStart, PublishStop, InitReady, InitSend, SendTaskToFront
<1>7. CASE SendStart \/ AckStart \/ PullStop \/ AckStop
  BY <1>7 DEF SendStart, AckStart, PullStop, AckStop
<1>8. CASE PullTask \/ Lookup \/ SkipDuplicate \/ AcceptTask \/ AppendTask
  BY <1>8 DEF PullTask, Lookup, SkipDuplicate, AcceptTask, AppendTask
<1>9. CASE TakeStart \/ Begin \/ AnnotateStopped \/ AnnotateStream \/ AnnotateError
           \/ StreamEnd \/ UpdateSuccess
  BY <1>9 DEF TakeStart, Begin, AnnotateStopped, AnnotateStream, AnnotateError, StreamEnd,
              UpdateSuccess
<1>10. CASE UpdateSuccessFails \/ InsertResults \/ After \/ UpdateFailed
            \/ UpdateFailedFails \/ AckTask \/ RemoveFirstTask
  BY <1>10 DEF UpdateSuccessFails, InsertResults, After, UpdateFailed, UpdateFailedFails,
               AckTask, RemoveFirstTask
<1>11. CASE UNCHANGED vars
  BY <1>1, <1>11 DEF vars
<1> QED
  BY <1>2, <1>3, <1>4, <1>5, <1>6, <1>7, <1>8, <1>9, <1>10, <1>11
     DEF Next, Environment, ListenKafka, SendInitTasksToFront, CheckInference,
         Crash, LookupPanic, InitPanic, SnapshotPanic

\* Once every published start is committed, a halted worker stays halted until another is
\* published and read, through any number of crashes, redeliveries and failed commits.
THEOREM StaysHalted == Spec => OnlyAStartResumes
<1>1. Init => StartsRead
  BY DEF Init, StartsRead
<1>2. TypeOK /\ StartsRead /\ [Next]_vars => [Halted /\ startsCommitted = starts => Halted']_vars
  BY HaltedStep
<1>3. TypeOK /\ StartsRead /\ [Next]_vars => StartsRead'
  BY StartsReadStep
<1> QED
  BY <1>1, <1>2, <1>3, TypesHold, PTL DEF Spec, OnlyAStartResumes

-----------------------------------------------------------------------------
\* Each of these took a start of its own in the life of this worker: the listener that
\* wants to hand one over, StartChan, and CheckInference once it has left its wait.
StartInv == (IF lpc = "send" THEN 1 ELSE 0) + startChan + (IF cpc = "start" THEN 0 ELSE 1)
              <= startPos

\* And a stop, in the life of one that is stopped.
StopInv == restart => stopPos > 0

\* Starts do not clear stops: there is one start at most, or there are no stops.  With a
\* stop and two starts tasks get lost: see the run worker_stop_start.
Unmixed == MaxStarts <= 1 \/ MaxStops = 0

\* The task was brought to an end, and if it always succeeded, its results are there.
Settled(t) ==
  /\ outcome[t] # {}
  /\ t \notin EmptyVideos /\ outcome[t] = {"SUCCESS"} => results[t] > 0

\* A task whose message is about to be committed is settled.
DoneInv ==
  /\ cpc = "results" => outcome[Current] # {}
  /\ cpc \in {"ack", "remove"} => Settled(Current)
  /\ cpc = "after" /\ ret = "nil" /\ ~restart => Settled(Current)

\* The tasks up to the committed offset are settled.
CommittedSettled == \A k \in 1..committed : log[k] \in Tasks => Settled(log[k])

\* A pulled task is done, in the queue at its first message not yet done, or in hand.
Covered ==
  \A k \in 1..pos : log[k] \in Tasks =>
    \/ Settled(log[k])
    \/ \E i \in 1..Len(queue) : queue[i] <= k /\ log[queue[i]] = log[k]
    \/ lpc \in Pulled /\ k = lmsg

\* What has ended has ended, and what is settled stays settled.
DoneStays == \A t \in Tasks : /\ outcome[t] # {} => outcome'[t] # {}
                              /\ Settled(t) => Settled(t)'

\* The steps that change neither log nor queue and let go of no message.
Holding ==
  \/ \E t \in Tasks : InsertRow(t)
  \/ PublishStart \/ PublishStop
  \/ PullStart \/ SendStart \/ AckStart \/ PullStop \/ AckStop
  \/ Lookup \/ AcceptTask
  \/ InitReady \/ InitSend \/ SendTaskToFront \/ TakeStart \/ Begin
  \/ AnnotateStopped \/ AnnotateStream \/ AnnotateError \/ StreamEnd
  \/ UpdateSuccess \/ UpdateSuccessFails \/ InsertResults
  \/ After \/ UpdateFailed \/ UpdateFailedFails

\* SetStatus only adds to the statuses a task has had.
LEMMA StatusStays ==
  ASSUME IInv, NEW t \in Tasks, NEW s, SetStatus(t, s)
  PROVE  DoneStays
<1>1. outcome \in [Tasks -> SUBSET {"SUCCESS", "FAILED", "UNWRITTEN"}]
  BY DEF IInv, TypeOK
<1>2. \A u \in Tasks : outcome'[u] = IF u # t \/ s = "RUNNING" THEN outcome[u]
                                     ELSE outcome[u] \cup {s}
  BY <1>1 DEF SetStatus
<1>3. results' = results
  BY DEF SetStatus
<1>4. ASSUME NEW u \in Tasks, Settled(u) PROVE Settled(u)'
  <2>1. outcome[u] # {} /\ (outcome'[u] = outcome[u] \/ outcome'[u] = outcome[u] \cup {s})
    BY <1>2, <1>4 DEF Settled
  <2>2. outcome'[u] = {"SUCCESS"} => outcome[u] = {"SUCCESS"}
    BY <2>1
  <2> QED
    BY <1>3, <1>4, <2>1, <2>2 DEF Settled
<1> QED
  BY <1>2, <1>4 DEF DoneStays

\* The task in work is one of Tasks.
LEMMA CurrentIsTask ==
  ASSUME IInv, cpc \in Working
  PROVE  Current \in Tasks /\ cmsg = queue[1] /\ cmsg \in 1..Len(log) /\ cmsg <= pos
         /\ 1 \in 1..Len(queue)
<1>1. queue # <<>> /\ cmsg = queue[1]
  BY DEF IInv, QueueInv
<1>2. 1 \in 1..Len(queue)
  BY <1>1, QueueFacts DEF IInv
<1> QED
  BY <1>1, <1>2, QueueFacts DEF IInv, QueueInv, Current

\* Every step of Holding keeps what is done, and what is in hand.
LEMMA HoldingSteps ==
  ASSUME IInv, Holding
  PROVE  /\ UNCHANGED <<log, pos, queue, committed>>
         /\ lpc \in Pulled => lpc' \in Pulled /\ lmsg' = lmsg
         /\ DoneStays
<1> DEFINE Held == /\ UNCHANGED <<log, pos, queue, committed>>
                   /\ lpc \in Pulled => lpc' \in Pulled /\ lmsg' = lmsg
                   /\ DoneStays
<1> USE DEF kafkaVars, dbVars, posVars, sharedVars, listenVars, checkVars, initVars,
            Pulled
<1>1. outcome' = outcome /\ results' = results => DoneStays
  BY DEF DoneStays, Settled
<1>2. ASSUME NEW t \in Tasks, InsertRow(t) PROVE Held
  BY <1>1, <1>2 DEF InsertRow
<1>3. CASE PublishStart \/ PublishStop
  BY <1>1, <1>3 DEF PublishStart, PublishStop
<1>4. CASE PullStart \/ SendStart \/ AckStart \/ PullStop \/ AckStop \/ Lookup \/ AcceptTask
  BY <1>1, <1>4 DEF PullStart, SendStart, AckStart, PullStop, AckStop, Lookup, AcceptTask
<1>5. CASE InitReady \/ InitSend \/ SendTaskToFront
  BY <1>1, <1>5 DEF InitReady, InitSend, SendTaskToFront
<1>6. CASE TakeStart \/ AnnotateStopped \/ AnnotateStream \/ AnnotateError \/ StreamEnd
  BY <1>1, <1>6 DEF TakeStart, AnnotateStopped, AnnotateStream, AnnotateError, StreamEnd
<1>7. CASE UpdateSuccessFails \/ After \/ UpdateFailedFails
  BY <1>1, <1>7 DEF UpdateSuccessFails, After, UpdateFailedFails
<1>8. CASE UpdateSuccess \/ UpdateFailed
  <2>1. Current \in Tasks
    BY <1>8, CurrentIsTask DEF UpdateSuccess, UpdateFailed, Working
  <2>2. DoneStays
    BY <1>8, <2>1, StatusStays DEF UpdateSuccess, UpdateFailed
  <2> QED
    BY <1>8, <2>2 DEF UpdateSuccess, UpdateFailed
<1>9. CASE Begin
  <2>1. log[Head(queue)] \in Tasks
    BY <1>9, QueueFacts DEF IInv, QueueInv, Begin
  <2>2. DoneStays
    BY <1>9, <2>1, StatusStays DEF Begin
  <2> QED
    BY <1>9, <2>2 DEF Begin
<1>10. CASE InsertResults
  <2>1. /\ outcome \in [Tasks -> SUBSET {"SUCCESS", "FAILED", "UNWRITTEN"}]
        /\ results \in [Tasks -> Nat]
    BY DEF IInv, TypeOK
  <2>2. \/ outcome' = outcome /\ results' = results
        \/ outcome' = outcome /\ results' = [results EXCEPT ![Current] = @ + 1]
        \/ /\ outcome' = [outcome EXCEPT ![Current] = @ \cup {"UNWRITTEN"}]
           /\ results' = results
    BY <1>10 DEF InsertResults
  <2>3. \A t \in Tasks :
          /\ outcome[t] # {} => outcome'[t] # {}
          /\ outcome'[t] = {"SUCCESS"} /\ outcome[t] # {} => outcome[t] = {"SUCCESS"}
          /\ results[t] > 0 => results'[t] > 0
    BY <2>1, <2>2
  <2>4. DoneStays
    BY <2>3 DEF DoneStays, Settled
  <2> QED
    BY <1>10, <2>4 DEF InsertResults
<1> QED
  BY <1>2, <1>3, <1>4, <1>5, <1>6, <1>7, <1>8, <1>9, <1>10 DEF Holding

-----------------------------------------------------------------------------
\* No worker works before it has read a start.
LEMMA StartStep ==
  ASSUME IInv, StartInv, StopInv, [Next]_vars
  PROVE  StartInv' /\ StopInv'
<1> USE DEF kafkaVars, dbVars, posVars, sharedVars, listenVars, checkVars, initVars,
            StartInv, StopInv
<1>1. startPos \in Nat /\ startsCommitted \in Nat /\ startChan \in {0, 1}
  BY DEF IInv, TypeOK
<1>2. stopPos \in Nat /\ stopPos + 1 > 0
  BY DEF IInv, TypeOK
<1>3. ASSUME UNCHANGED <<startPos, startChan>>, lpc' = "send" => lpc = "send",
             cpc' # "start" => cpc # "start"
      PROVE  StartInv'
  BY <1>1, <1>3
<1>4. ASSUME NEW m \in Tasks \cup {Junk}, Publish(m) PROVE StartInv' /\ StopInv'
  BY <1>4 DEF Publish
<1>5. ASSUME NEW t \in Tasks, InsertRow(t) PROVE StartInv' /\ StopInv'
  BY <1>5 DEF InsertRow
<1>6. CASE Reboot
  BY <1>1, <1>6 DEF Reboot
<1>7. CASE PullStart
  BY <1>1, <1>2, <1>7 DEF PullStart
<1>8. CASE SendStart
  BY <1>1, <1>8 DEF SendStart
<1>9. CASE TakeStart
  BY <1>1, <1>9 DEF TakeStart
<1>10. CASE PullStop
  BY <1>2, <1>3, <1>10 DEF PullStop
<1>11. CASE PublishStart \/ PublishStop \/ AckStart \/ AckStop
  BY <1>3, <1>11 DEF PublishStart, PublishStop, AckStart, AckStop
<1>12. CASE PullTask \/ Lookup \/ SkipDuplicate \/ AcceptTask \/ AppendTask
  BY <1>3, <1>12 DEF PullTask, Lookup, SkipDuplicate, AcceptTask, AppendTask
<1>13. CASE InitReady \/ InitSend \/ SendTaskToFront
  BY <1>3, <1>13 DEF InitReady, InitSend, SendTaskToFront
<1>14. CASE Begin \/ AnnotateStopped \/ AnnotateStream \/ AnnotateError
  BY <1>3, <1>14 DEF Begin, AnnotateStopped, AnnotateStream, AnnotateError
<1>15. CASE StreamEnd \/ UpdateSuccess \/ UpdateSuccessFails \/ InsertResults
  BY <1>3, <1>15 DEF StreamEnd, UpdateSuccess, UpdateSuccessFails, InsertResults
<1>16. CASE After \/ UpdateFailed \/ UpdateFailedFails \/ AckTask \/ RemoveFirstTask
  BY <1>3, <1>16 DEF After, UpdateFailed, UpdateFailedFails, AckTask, RemoveFirstTask
<1>17. CASE UNCHANGED vars
  BY <1>17 DEF vars
<1> QED
  BY <1>4, <1>5, <1>6, <1>7, <1>8, <1>9, <1>10, <1>11, <1>12, <1>13, <1>14, <1>15, <1>16,
     <1>17
     DEF Next, Environment, ListenKafka, SendInitTasksToFront, CheckInference,
         Crash, LookupPanic, InitPanic, SnapshotPanic

\* ListenKafka blocks in StartChan <- start with CheckInference past the one receive, to
\* which no step but a crash leads back.
ListenerStuck == lpc = "send" /\ startChan = 1 /\ cpc # "start"

\* It takes three starts to block the listener of a worker for good: the first is
\* received, the second fills StartChan, the third waits.  The run worker_third_start
\* shows that three are enough; fewer never are, whatever else happens.
THEOREM TwoStartsNeverBlock == Spec => [](ListenerStuck => startPos >= 3)
<1>1. Init => IInv /\ StartInv /\ StopInv
  BY InvInit DEF Init, StartInv, StopInv
<1>2. IInv /\ StartInv /\ StopInv /\ [Next]_vars => IInv' /\ StartInv' /\ StopInv'
  BY InvNext, StartStep
<1>3. IInv /\ StartInv => (ListenerStuck => startPos >= 3)
  BY DEF IInv, TypeOK, StartInv, ListenerStuck
<1> QED
  BY <1>1, <1>2, <1>3, PTL DEF Spec

\* Nothing clears Restart while a task is in work, so what AnnotateVideo returns on a stop
\* is not taken for a success.
LEMMA ClearedEarly ==
  ASSUME Unmixed, IInv, StartInv, StopInv, PullStart
  PROVE  cpc = "start" \/ ~restart
<1>1. /\ startPos \in 0..starts /\ stopPos \in 0..stops /\ startPos < starts
      /\ starts \in 0..MaxStarts /\ stops \in 0..MaxStops
  BY DEF IInv, TypeOK, PullStart
<1>2. CASE MaxStarts <= 1
  <2>1. startPos = 0
    BY <1>1, <1>2, BoundsAssumption
  <2> QED
    BY <2>1 DEF StartInv, IInv, TypeOK
<1>3. CASE MaxStops = 0
  <2>1. stopPos = 0
    BY <1>1, <1>3
  <2> QED
    BY <2>1 DEF StopInv
<1> QED
  BY <1>2, <1>3 DEF Unmixed

LEMMA DoneStep ==
  ASSUME Unmixed, IInv, StartInv, StopInv, DoneInv, [Next]_vars
  PROVE  DoneInv'
<1> DEFINE Same == UNCHANGED <<log, outcome, results, cpc, cmsg, ret, restart>>
<1> USE DEF kafkaVars, dbVars, posVars, sharedVars, listenVars, checkVars, initVars
<1>1. Same => DoneInv'
  BY DEF DoneInv, Current, Settled
<1>2. ASSUME NEW m \in Tasks \cup {Junk}, Publish(m) PROVE DoneInv'
  <2>1. cpc \in Working => Current' = Current
    BY <1>2, CurrentIsTask, LongerLog DEF IInv, Publish, Current
  <2> QED
    BY <1>2, <2>1 DEF Publish, DoneInv, Working, Settled
<1>3. CASE Reboot
  BY <1>3 DEF Reboot, DoneInv
<1>4. CASE PullStart
  <2>1. cpc = "start" \/ ~restart
    BY <1>4, ClearedEarly
  <2> QED
    BY <1>4, <2>1 DEF PullStart, DoneInv, Current, Settled
<1>5. CASE PullStop
  BY <1>5 DEF PullStop, DoneInv, Current, Settled
<1>6. CASE AckTask \/ RemoveFirstTask
  BY <1>6 DEF AckTask, RemoveFirstTask, DoneInv, Current, Settled
<1>7. CASE TakeStart \/ Begin \/ AnnotateStopped \/ AnnotateStream \/ AnnotateError
           \/ StreamEnd \/ UpdateSuccessFails \/ UpdateFailedFails
  BY <1>7 DEF TakeStart, Begin, AnnotateStopped, AnnotateStream, AnnotateError, StreamEnd,
              UpdateSuccessFails, UpdateFailedFails, DoneInv
<1>8. CASE UpdateSuccess \/ UpdateFailed
  <2>1. Current \in Tasks
    BY <1>8, CurrentIsTask DEF UpdateSuccess, UpdateFailed, Working
  <2>2. outcome \in [Tasks -> SUBSET {"SUCCESS", "FAILED", "UNWRITTEN"}]
    BY DEF IInv, TypeOK
  <2>3. \A x : SetStatus(Current, x) /\ x # "RUNNING" => x \in outcome'[Current]
    BY <2>1, <2>2 DEF SetStatus
  <2>4. Current' = Current
    BY <1>8 DEF UpdateSuccess, UpdateFailed, Current
  <2>5. CASE UpdateSuccess
    BY <2>3, <2>4, <2>5 DEF UpdateSuccess, DoneInv
  <2>6. CASE UpdateFailed
    BY <2>3, <2>4, <2>6 DEF UpdateFailed, DoneInv, Settled
  <2> QED
    BY <1>8, <2>5, <2>6
<1>9. CASE InsertResults
  <2>1. Current \in Tasks /\ outcome[Current] # {}
    BY <1>9, CurrentIsTask DEF InsertResults, Working, DoneInv
  <2>2. outcome'[Current] # {}
    BY <1>9, <2>1, HoldingSteps DEF Holding, DoneStays
  <2>3. Current' = Current /\ cpc' = "after"
    BY <1>9 DEF InsertResults, Current
  <2>4. /\ outcome \in [Tasks -> SUBSET {"SUCCESS", "FAILED", "UNWRITTEN"}]
        /\ results \in [Tasks -> Nat]
    BY DEF IInv, TypeOK
  <2>5. \/ Current \in EmptyVideos
        \/ results'[Current] > 0
        \/ "UNWRITTEN" \in outcome'[Current]
    BY <1>9, <2>1, <2>4 DEF InsertResults
  <2> QED
    BY <2>2, <2>3, <2>5 DEF DoneInv, Settled
<1>10. CASE After
  <2>1. cpc' = "ack" => ret = "nil" /\ ~restart
    BY <1>10 DEF After, IInv, TypeOK
  <2>2. /\ cpc' \in {"poll", "fail", "ack"} /\ Current' = Current
        /\ outcome' = outcome /\ results' = results
    BY <1>10 DEF After, Current
  <2> QED
    BY <1>10, <2>1, <2>2 DEF After, DoneInv, Settled
<1>11. ASSUME NEW t \in Tasks, InsertRow(t) PROVE Same
  BY <1>11 DEF InsertRow
<1>12. CASE PublishStart \/ PublishStop \/ SendStart \/ AckStart \/ AckStop
  BY <1>1, <1>12 DEF PublishStart, PublishStop, SendStart, AckStart, AckStop
<1>13. CASE PullTask \/ Lookup \/ SkipDuplicate \/ AcceptTask \/ AppendTask
  BY <1>1, <1>13 DEF PullTask, Lookup, SkipDuplicate, AcceptTask, AppendTask
<1>14. CASE InitReady \/ InitSend \/ SendTaskToFront
  BY <1>1, <1>14 DEF InitReady, InitSend, SendTaskToFront
<1>15. CASE UNCHANGED vars
  BY <1>1, <1>15 DEF vars
<1> HIDE DEF Same
<1> QED
  BY <1>1, <1>2, <1>3, <1>4, <1>5, <1>6, <1>7, <1>8, <1>9, <1>10, <1>11, <1>12, <1>13,
     <1>14, <1>15
     DEF Next, Environment, ListenKafka, SendInitTasksToFront, CheckInference,
         Crash, LookupPanic, InitPanic, SnapshotPanic

\* Pulled messages stay covered: a skipped duplicate has its task in the queue, at an
\* earlier message; a task leaves the queue when it is done.
LEMMA CoveredStep ==
  ASSUME IInv, DoneInv, Covered, CommittedSettled, [Next]_vars
  PROVE  Covered'
<1> DEFINE Cover(k) == \/ Settled(log[k])
                       \/ \E i \in 1..Len(queue) : queue[i] <= k /\ log[queue[i]] = log[k]
                       \/ lpc \in Pulled /\ k = lmsg
<1> USE DEF kafkaVars, dbVars, posVars, sharedVars, listenVars, checkVars, initVars
<1>0. pos \in Nat /\ pos <= Len(log) /\ Len(log) \in Nat
  BY QueueFacts DEF IInv, TypeOK
<1>1. ASSUME UNCHANGED <<log, pos, queue>>, DoneStays,
             lpc \in Pulled => lpc' \in Pulled /\ lmsg' = lmsg
      PROVE  Covered'
  BY <1>1 DEF Covered, DoneStays
<1>2. CASE Holding
  BY <1>1, <1>2, HoldingSteps
<1>3. CASE AckTask \/ UNCHANGED vars
  BY <1>1, <1>3 DEF AckTask, vars, DoneStays, Settled
<1>4. ASSUME NEW m \in Tasks \cup {Junk}, Publish(m) PROVE Covered'
  <2>1. /\ pos' = pos /\ queue' = queue /\ UNCHANGED dbVars /\ lpc' = lpc
        /\ lmsg' = lmsg /\ log' = Append(log, m)
    BY <1>4 DEF Publish
  <2>2. \A k \in 1..Len(log) : log'[k] = log[k]
    BY <2>1, LongerLog DEF IInv
  <2>3. \A k \in 1..pos : log'[k] = log[k]
    BY <1>0, <2>2
  <2>4. \A i \in 1..Len(queue) : log'[queue[i]] = log[queue[i]]
    BY <2>2, QueueFacts DEF IInv
  <2>5. ASSUME NEW k \in 1..pos, log[k] \in Tasks PROVE Cover(k)'
    <3>1. Cover(k)
      BY <2>5 DEF Covered
    <3>2. log'[k] = log[k]
      BY <2>3
    <3> QED
      BY <2>1, <2>4, <3>1, <3>2 DEF Settled
  <2> QED
    BY <2>1, <2>3, <2>5 DEF Covered
<1>5. CASE Reboot
  <2>1. pos' = committed /\ log' = log /\ UNCHANGED dbVars
    BY <1>5 DEF Reboot
  <2> QED
    BY <2>1 DEF Covered, CommittedSettled, Settled
<1>6. CASE PullTask
  <2>1. /\ pos' = pos + 1 /\ log' = log /\ queue' = queue /\ UNCHANGED dbVars
        /\ lpc = "pull"
    BY <1>6 DEF PullTask
  <2>2. ASSUME NEW k \in 1..pos, log[k] \in Tasks PROVE Cover(k)'
    BY <2>1, <2>2 DEF Covered, Pulled, Settled
  <2>3. log[pos + 1] \in Tasks => lpc' \in Pulled /\ lmsg' = pos + 1
    BY <1>6, TasksAssumption DEF PullTask, Pulled
  <2>4. \A k \in 1..pos' : k \in 1..pos \/ k = pos + 1
    BY <1>0, <2>1
  <2> QED
    BY <2>1, <2>2, <2>3, <2>4 DEF Covered
<1>7. CASE SkipDuplicate
  <2>1. /\ pos' = pos /\ log' = log /\ queue' = queue /\ UNCHANGED dbVars
        /\ lpc \in Pulled /\ log[lmsg] \in map
    BY <1>7 DEF SkipDuplicate, Pulled
  <2>2. PICK i \in 1..Len(queue) : log[queue[i]] = log[lmsg]
    BY <2>1 DEF IInv, QueueIsMap
  <2>3. queue[i] <= lmsg
    BY <2>1, QueueFacts DEF IInv, QueueInv, TypeOK
  <2> QED
    BY <2>1, <2>2, <2>3 DEF Covered, Settled
<1>8. CASE AppendTask
  <2>1. /\ pos' = pos /\ log' = log /\ UNCHANGED dbVars
        /\ lpc \in Pulled /\ queue' = Append(queue, lmsg)
    BY <1>8 DEF AppendTask, Pulled
  <2>2. /\ Len(queue) \in Nat /\ lmsg \in 1..Len(log)
        /\ queue \in Seq(1..Len(log))
    BY <2>1, QueueFacts DEF IInv, InHand, TypeOK
  <2>3. /\ Len(queue') = Len(queue) + 1
        /\ \A i \in 1..Len(queue) : queue'[i] = queue[i]
        /\ queue'[Len(queue) + 1] = lmsg
    BY <2>1, <2>2, AppendProperties
  <2>4. /\ Len(queue) + 1 \in 1..Len(queue')
        /\ \A i \in 1..Len(queue) : i \in 1..Len(queue')
    BY <2>2, <2>3
  <2>5. \E i \in 1..Len(queue') : queue'[i] <= lmsg /\ log[queue'[i]] = log[lmsg]
    BY <2>2, <2>3, <2>4
  <2>6. \A k : (\E i \in 1..Len(queue) : queue[i] <= k /\ log[queue[i]] = log[k])
             => \E i \in 1..Len(queue') : queue'[i] <= k /\ log[queue'[i]] = log[k]
    BY <2>3, <2>4
  <2> QED
    BY <2>1, <2>5, <2>6 DEF Covered, Settled
<1>9. CASE RemoveFirstTask
  <2>1. /\ pos' = pos /\ log' = log /\ UNCHANGED dbVars /\ lpc' = lpc /\ lmsg' = lmsg
        /\ cpc = "remove" /\ queue' = Tail(queue)
    BY <1>9 DEF RemoveFirstTask
  <2>2. Settled(log[queue[1]])
    BY <2>1, CurrentIsTask DEF DoneInv, Working, Current
  <2>3. queue # <<>>
    BY <2>1 DEF IInv, QueueInv, Working
  <2>4. /\ Len(queue) \in Nat /\ Len(queue') = Len(queue) - 1
        /\ \A i \in 1..Len(queue) - 1 : queue'[i] = queue[i + 1]
    BY <2>1, <2>3, QueueFacts DEF IInv
  <2>5. \A i \in 1..Len(queue) :
          i = 1 \/ (i - 1 \in 1..Len(queue') /\ queue'[i - 1] = queue[i])
    BY <2>4
  <2>6. ASSUME NEW k \in 1..pos, log[k] \in Tasks PROVE Cover(k)'
    <3>1. CASE Settled(log[k]) \/ (lpc \in Pulled /\ k = lmsg)
      BY <2>1, <3>1 DEF Settled
    <3>2. ASSUME NEW i \in 1..Len(queue), queue[i] <= k, log[queue[i]] = log[k]
          PROVE  Cover(k)'
      BY <2>1, <2>2, <2>5, <3>2 DEF Settled
    <3> QED
      BY <2>6, <3>1, <3>2 DEF Covered
  <2> QED
    BY <2>1, <2>6 DEF Covered
<1> HIDE DEF Cover
<1> QED
  BY <1>2, <1>3, <1>4, <1>5, <1>6, <1>7, <1>8, <1>9
     DEF Next, Environment, ListenKafka, SendInitTasksToFront, CheckInference, Holding,
         Crash, LookupPanic, InitPanic, SnapshotPanic

\* The committed offset passes a message when its task is at the head of the queue
\* and done; what is before it in the log is covered by no later entry.
LEMMA CommitStep ==
  ASSUME IInv, DoneInv, Covered, CommittedSettled, [Next]_vars
  PROVE  CommittedSettled'
<1> USE DEF kafkaVars, dbVars, posVars, sharedVars, listenVars, checkVars, initVars
<1>1. ASSUME UNCHANGED <<log, committed>>, DoneStays
      PROVE  CommittedSettled'
  BY <1>1 DEF CommittedSettled, DoneStays
<1>2. CASE Holding
  BY <1>1, <1>2, HoldingSteps
<1>3. ASSUME NEW m \in Tasks \cup {Junk}, Publish(m) PROVE CommittedSettled'
  <2>1. /\ committed' = committed /\ UNCHANGED dbVars /\ log' = Append(log, m)
    BY <1>3 DEF Publish
  <2>2. \A k \in 1..Len(log) : log'[k] = log[k]
    BY <2>1, LongerLog DEF IInv
  <2>3. \A k \in 1..committed : k \in 1..Len(log)
    BY QueueFacts DEF IInv, TypeOK
  <2> QED
    BY <2>1, <2>2, <2>3 DEF CommittedSettled, Settled
<1>4. CASE AckTask
  <2>1. /\ log' = log /\ UNCHANGED dbVars /\ cpc = "ack"
        /\ committed' = cmsg \/ committed' = committed
    BY <1>4 DEF AckTask, AckTo
  <2>2. /\ Settled(log[cmsg]) /\ cmsg = queue[1] /\ cmsg \in Nat /\ cmsg <= pos
        /\ 1 \in 1..Len(queue)
    BY <2>1, CurrentIsTask DEF DoneInv, Working, Current
  <2>3. \A i \in 1..Len(queue) : queue[i] \in Nat /\ cmsg <= queue[i]
    BY <2>2, QueueFacts DEF IInv, QueueIsMap
  <2>4. lpc \in Pulled => cmsg < lmsg
    BY <2>2 DEF IInv, QueueInv
  <2>5. ASSUME NEW k \in 1..cmsg, log[k] \in Tasks PROVE Settled(log[k])
    <3>1. k \in 1..pos
      BY <2>2 DEF IInv, TypeOK
    <3>2. CASE lpc \in Pulled /\ k = lmsg
      BY <2>2, <2>4, <3>2 DEF IInv, TypeOK
    <3>3. ASSUME NEW i \in 1..Len(queue), queue[i] <= k, log[queue[i]] = log[k]
          PROVE  Settled(log[k])
      <4>1. queue[i] = cmsg
        BY <2>2, <2>3, <3>3
      <4> QED
        BY <2>2, <3>3, <4>1
    <3> QED
      BY <2>5, <3>1, <3>2, <3>3 DEF Covered
  <2> QED
    BY <2>1, <2>5 DEF CommittedSettled, Settled
<1>5. CASE Reboot
  BY <1>1, <1>5 DEF Reboot, DoneStays, Settled
<1>6. CASE PullTask \/ SkipDuplicate \/ AppendTask \/ RemoveFirstTask
  BY <1>1, <1>6 DEF PullTask, SkipDuplicate, AppendTask, RemoveFirstTask, DoneStays,
                   Settled
<1>7. CASE UNCHANGED vars
  BY <1>1, <1>7 DEF vars, DoneStays, Settled
<1> QED
  BY <1>2, <1>3, <1>4, <1>5, <1>6, <1>7
     DEF Next, Environment, ListenKafka, SendInitTasksToFront, CheckInference, Holding,
         Crash, LookupPanic, InitPanic, SnapshotPanic

\* What delivery rests on.
DeliveryInv == IInv /\ StartInv /\ StopInv /\ DoneInv /\ Covered /\ CommittedSettled

LEMMA DeliveryInit == Init => DeliveryInv
<1>1. Init => StartInv /\ StopInv /\ DoneInv /\ Covered /\ CommittedSettled
  BY DEF Init, StartInv, StopInv, DoneInv, Covered, CommittedSettled
<1> QED
  BY <1>1, InvInit DEF DeliveryInv

LEMMA DeliveryNext ==
  ASSUME Unmixed
  PROVE  DeliveryInv /\ [Next]_vars => DeliveryInv'
<1>1. DeliveryInv /\ [Next]_vars => IInv' /\ StartInv' /\ StopInv'
  BY InvNext, StartStep DEF DeliveryInv
<1>2. DeliveryInv /\ [Next]_vars => DoneInv'
  BY DoneStep DEF DeliveryInv
<1>3. DeliveryInv /\ [Next]_vars => Covered'
  BY CoveredStep DEF DeliveryInv
<1>4. DeliveryInv /\ [Next]_vars => CommittedSettled'
  BY CommitStep DEF DeliveryInv
<1> QED
  BY <1>1, <1>2, <1>3, <1>4 DEF DeliveryInv

\* At least once: as long as no second start or no stop is published, the committed offset
\* never passes a task that was not brought to SUCCESS or FAILED (worker_manager.go:126-197).
THEOREM NothingLost ==
  ASSUME Unmixed
  PROVE  Spec => []NoTaskLost
<1>1. DeliveryInv => NoTaskLost
  BY DEF DeliveryInv, CommittedSettled, Settled, NoTaskLost
<1> QED
  BY <1>1, DeliveryInit, DeliveryNext, PTL DEF Spec

\* A committed task that succeeded has its results in the database, unless an insert
\* of them failed: the status is written before the results, and no crash between the
\* two is followed by a commit of that attempt.
THEOREM ResultsBeforeCommit ==
  ASSUME Unmixed
  PROVE  Spec => []CommittedHasResults
<1>1. DeliveryInv => CommittedHasResults
  BY DEF DeliveryInv, CommittedSettled, Settled, CommittedHasResults
<1> QED
  BY <1>1, DeliveryInit, DeliveryNext, PTL DEF Spec

-----------------------------------------------------------------------------
\* The row of the task in work: RUNNING until its end is written, final from then on.
RowInv ==
  /\ cpc \in {"annotate", "stream", "success", "fail"} => row[Current] = "RUNNING"
  /\ cpc = "after" /\ ret = "error" => row[Current] = "RUNNING"
  /\ cpc \in {"results", "ack", "remove"} => row[Current] \in {"SUCCESS", "FAILED"}
  /\ cpc = "after" /\ ret = "nil" /\ ~restart => row[Current] \in {"SUCCESS", "FAILED"}

\* The committed offset is behind the consumer, the message in hand and the queue; it
\* reaches the head when the head is about to be removed.
Ahead ==
  /\ committed <= pos
  /\ lpc \in Pulled => committed < lmsg
  /\ QueueNotCommitted

\* A RUNNING task is still to be pulled, in hand, or in the queue.
Retried ==
  \A t \in Tasks : row[t] = "RUNNING" =>
    \/ \E k \in pos + 1 .. Len(log) : log[k] = t
    \/ \E i \in 1..Len(queue) : log[queue[i]] = t
    \/ lpc \in Pulled /\ log[lmsg] = t

\* As for DoneStep: nil from AnnotateVideo means what it should.
LEMMA RowStep ==
  ASSUME Unmixed, IInv, StartInv, StopInv, RowInv, [Next]_vars
  PROVE  RowInv'
<1> DEFINE Same == UNCHANGED <<log, row, cpc, cmsg, ret, restart>>
<1> USE DEF kafkaVars, dbVars, posVars, sharedVars, listenVars, checkVars, initVars
<1>1. Same => RowInv'
  BY DEF RowInv, Current
<1>2. ASSUME NEW m \in Tasks \cup {Junk}, Publish(m) PROVE RowInv'
  <2>1. cpc \in Working => Current' = Current
    BY <1>2, CurrentIsTask, LongerLog DEF IInv, Publish, Current
  <2> QED
    BY <1>2, <2>1 DEF Publish, RowInv, Working
<1>3. CASE Reboot
  BY <1>3 DEF Reboot, RowInv
<1>4. CASE PullStart
  <2>1. cpc = "start" \/ ~restart
    BY <1>4, ClearedEarly
  <2> QED
    BY <1>4, <2>1 DEF PullStart, RowInv, Current
<1>5. CASE PullStop
  BY <1>5 DEF PullStop, RowInv, Current
<1>6. CASE AckTask \/ RemoveFirstTask \/ StreamEnd \/ UpdateSuccessFails \/ InsertResults
           \/ UpdateFailedFails
  BY <1>6 DEF AckTask, RemoveFirstTask, StreamEnd, UpdateSuccessFails, InsertResults,
              UpdateFailedFails, RowInv, Current
<1>7. CASE TakeStart \/ AnnotateStopped \/ AnnotateStream \/ AnnotateError
  BY <1>7 DEF TakeStart, AnnotateStopped, AnnotateStream, AnnotateError, RowInv, Current
<1>8. CASE Begin
  <2>1. log[Head(queue)] \in Tasks /\ log' = log
    BY <1>8, QueueFacts DEF IInv, QueueInv, Begin
  <2>2. row'[log[Head(queue)]] = "RUNNING"
    BY <1>8, <2>1 DEF IInv, TypeOK, Begin, SetStatus
  <2> QED
    BY <1>8, <2>1, <2>2 DEF Begin, RowInv, Current
<1>9. CASE UpdateSuccess \/ UpdateFailed
  <2>1. Current \in Tasks
    BY <1>9, CurrentIsTask DEF UpdateSuccess, UpdateFailed, Working
  <2>2. Current' = Current /\ row'[Current] \in {"SUCCESS", "FAILED"}
    BY <1>9, <2>1 DEF IInv, TypeOK, UpdateSuccess, UpdateFailed, SetStatus, Current
  <2> QED
    BY <1>9, <2>2 DEF UpdateSuccess, UpdateFailed, RowInv
<1>10. CASE After
  BY <1>10 DEF After, RowInv, Current, IInv, TypeOK
<1>11. ASSUME NEW t \in Tasks, InsertRow(t) PROVE RowInv'
  <2>1. \A u \in Tasks : row[u] # "ABSENT" => row'[u] = row[u]
    BY <1>11 DEF InsertRow, IInv, TypeOK
  <2>2. cpc \in Working => Current \in Tasks
    BY CurrentIsTask
  <2> QED
    BY <1>11, <2>1, <2>2 DEF InsertRow, RowInv, Current, Working
<1>12. CASE PublishStart \/ PublishStop \/ SendStart \/ AckStart \/ AckStop
  BY <1>1, <1>12 DEF PublishStart, PublishStop, SendStart, AckStart, AckStop
<1>13. CASE PullTask \/ Lookup \/ SkipDuplicate \/ AcceptTask \/ AppendTask
  BY <1>1, <1>13 DEF PullTask, Lookup, SkipDuplicate, AcceptTask, AppendTask
<1>14. CASE InitReady \/ InitSend \/ SendTaskToFront
  BY <1>1, <1>14 DEF InitReady, InitSend, SendTaskToFront
<1>15. CASE UNCHANGED vars
  BY <1>1, <1>15 DEF vars
<1> HIDE DEF Same
<1> QED
  BY <1>2, <1>3, <1>4, <1>5, <1>6, <1>7, <1>8, <1>9, <1>10, <1>11, <1>12, <1>13,
     <1>14, <1>15
     DEF Next, Environment, ListenKafka, SendInitTasksToFront, CheckInference,
         Crash, LookupPanic, InitPanic, SnapshotPanic

\* Commits go forward: the head of the queue lies beyond the committed offset.
LEMMA AheadStep ==
  ASSUME IInv, Ahead, [Next]_vars
  PROVE  Ahead'
<1> USE DEF QueueNotCommitted, kafkaVars, dbVars, posVars, sharedVars, listenVars,
            checkVars, initVars
<1>0. /\ pos \in Nat /\ committed \in Nat /\ Len(queue) \in Nat /\ lmsg \in Nat
      /\ \A i \in 1..Len(queue) : queue[i] \in Nat
  BY QueueFacts DEF IInv, TypeOK
<1>1. ASSUME UNCHANGED <<committed, pos, queue>>, cpc # "remove",
             lpc' \in Pulled => lpc \in Pulled /\ lmsg' = lmsg
      PROVE  Ahead'
  BY <1>1 DEF Ahead
<1>2. ASSUME UNCHANGED <<committed, pos, queue, cpc>>,
             lpc' \in Pulled => lpc \in Pulled /\ lmsg' = lmsg
      PROVE  Ahead'
  BY <1>2 DEF Ahead
<1>3. CASE Reboot
  <2>1. pos' = committed /\ committed' = committed /\ Len(queue') = 0 /\ lpc' = "pull"
    BY <1>3, EmptySeq DEF Reboot
  <2> QED
    BY <1>0, <2>1 DEF Ahead, Pulled
<1>4. CASE PullTask
  BY <1>0, <1>4 DEF PullTask, Ahead, Pulled
<1>5. CASE AppendTask
  <2>1. /\ committed' = committed /\ pos' = pos /\ cpc' = cpc /\ lpc' = "pull"
        /\ lpc \in Pulled /\ queue' = Append(queue, lmsg)
    BY <1>5 DEF AppendTask, Pulled
  <2>2. lmsg \in 1..Len(log) /\ queue \in Seq(1..Len(log))
    BY <2>1 DEF IInv, InHand, TypeOK
  <2>3. /\ Len(queue') = Len(queue) + 1
        /\ \A i \in 1..Len(queue) : queue'[i] = queue[i]
        /\ queue'[Len(queue) + 1] = lmsg
    BY <2>1, <2>2, AppendProperties
  <2>4. \A i \in 1..Len(queue') : i \in 1..Len(queue) \/ i = Len(queue) + 1
    BY <1>0, <2>3
  <2> QED
    BY <2>1, <2>3, <2>4 DEF Ahead, Pulled
<1>6. CASE AckTask
  <2>1. /\ pos' = pos /\ queue' = queue /\ lpc' = lpc /\ lmsg' = lmsg /\ cpc' = "remove"
        /\ cpc = "ack" /\ committed' \in {committed, cmsg}
    BY <1>6 DEF AckTask, AckTo
  <2>2. cmsg = queue[1] /\ cmsg <= pos /\ 1 \in 1..Len(queue)
    BY <2>1, CurrentIsTask DEF Working
  <2>3. \A i \in 1..Len(queue) : i = 1 \/ cmsg < queue[i]
    BY <2>2 DEF IInv, QueueIsMap
  <2>4. lpc \in Pulled => cmsg < lmsg
    BY <2>2 DEF IInv, QueueInv
  <2> QED
    BY <2>1, <2>2, <2>3, <2>4 DEF Ahead
<1>7. CASE RemoveFirstTask
  <2>1. /\ pos' = pos /\ committed' = committed /\ lpc' = lpc /\ lmsg' = lmsg
        /\ cpc = "remove" /\ queue' = Tail(queue)
    BY <1>7 DEF RemoveFirstTask
  <2>2. queue # <<>>
    BY <2>1 DEF IInv, QueueInv, Working
  <2>3. /\ Len(queue') = Len(queue) - 1
        /\ \A i \in 1..Len(queue) - 1 : queue'[i] = queue[i + 1]
    BY <2>1, <2>2, QueueFacts DEF IInv
  <2>4. \A i \in 1..Len(queue') : i + 1 \in 1..Len(queue) /\ i + 1 # 1
    BY <1>0, <2>3
  <2> QED
    BY <2>1, <2>3, <2>4 DEF Ahead
<1>8. ASSUME NEW m \in Tasks \cup {Junk}, Publish(m) PROVE Ahead'
  BY <1>2, <1>8 DEF Publish
<1>9. ASSUME NEW t \in Tasks, InsertRow(t) PROVE Ahead'
  BY <1>2, <1>9 DEF InsertRow
<1>10. CASE PublishStart \/ PublishStop \/ PullStart \/ SendStart \/ AckStart \/ PullStop
            \/ AckStop
  BY <1>2, <1>10 DEF PublishStart, PublishStop, PullStart, SendStart, AckStart, PullStop,
                     AckStop, Pulled
<1>11. CASE Lookup \/ SkipDuplicate \/ AcceptTask
  BY <1>2, <1>11 DEF Lookup, SkipDuplicate, AcceptTask, Pulled
<1>12. CASE InitReady \/ InitSend \/ SendTaskToFront
  BY <1>2, <1>12 DEF InitReady, InitSend, SendTaskToFront
<1>13. CASE TakeStart \/ Begin \/ AnnotateStopped \/ AnnotateStream \/ AnnotateError
            \/ StreamEnd
  BY <1>1, <1>13 DEF TakeStart, Begin, AnnotateStopped, AnnotateStream, AnnotateError,
                     StreamEnd
<1>14. CASE UpdateSuccess \/ UpdateSuccessFails \/ InsertResults \/ After \/ UpdateFailed
            \/ UpdateFailedFails
  BY <1>1, <1>14 DEF UpdateSuccess, UpdateSuccessFails, InsertResults, After, UpdateFailed,
                     UpdateFailedFails
<1>15. CASE UNCHANGED vars
  BY <1>2, <1>15 DEF vars
<1> QED
  BY <1>3, <1>4, <1>5, <1>6, <1>7, <1>8, <1>9, <1>10, <1>11, <1>12, <1>13, <1>14, <1>15
     DEF Next, Environment, ListenKafka, SendInitTasksToFront, CheckInference,
         Crash, LookupPanic, InitPanic, SnapshotPanic

\* Queue and map hold the same tasks, each once and in the order of the log, and none that
\* is committed but the head between its commit and its removal, however often the worker
\* crashes, messages are redelivered and tasks published again.
THEOREM QueueAgrees == Spec => []QueueMatchesMap
<1>1. Init => Ahead
  BY EmptySeq DEF Init, Ahead, Pulled, QueueNotCommitted
<1>2. IInv /\ Ahead => QueueMatchesMap
  BY DEF IInv, Ahead, QueueMatchesMap
<1> QED
  BY <1>1, <1>2, InvInit, InvNext, AheadStep, PTL DEF Spec

\* A RUNNING task is not forgotten: not by a crash, for its message is not committed;
\* not by a removal, for then it is RUNNING no more.
LEMMA RetriedStep ==
  ASSUME IInv, RowInv, Ahead, Retried, [Next]_vars
  PROVE  Retried'
<1> USE DEF kafkaVars, dbVars, posVars, sharedVars, listenVars, checkVars, initVars
<1> DEFINE Found(t) == \/ \E k \in pos + 1 .. Len(log) : log[k] = t
                       \/ \E i \in 1..Len(queue) : log[queue[i]] = t
                       \/ lpc \in Pulled /\ log[lmsg] = t
<1>0. pos \in Nat /\ committed \in Nat /\ Len(log) \in Nat /\ Len(queue) \in Nat
  BY QueueFacts DEF IInv, TypeOK
<1>1. ASSUME UNCHANGED <<log, pos, queue>>,
             \A t \in Tasks : row'[t] = "RUNNING" => row[t] = "RUNNING",
             lpc \in Pulled => lpc' \in Pulled /\ lmsg' = lmsg
      PROVE  Retried'
  BY <1>1 DEF Retried
<1>2. ASSUME NEW m \in Tasks \cup {Junk}, Publish(m) PROVE Retried'
  <2>1. /\ pos' = pos /\ queue' = queue /\ row' = row /\ lpc' = lpc /\ lmsg' = lmsg
        /\ log' = Append(log, m)
    BY <1>2 DEF Publish
  <2>2. /\ \A k \in 1..Len(log) : log'[k] = log[k]
        /\ Len(log') = Len(log) + 1
    BY <2>1, LongerLog DEF IInv
  <2>3. ASSUME NEW t \in Tasks, Found(t) PROVE Found(t)'
    <3>1. ASSUME NEW k \in pos + 1 .. Len(log), log[k] = t PROVE Found(t)'
      BY <1>0, <2>1, <2>2, <3>1
    <3>2. ASSUME NEW j \in 1..Len(queue), log[queue[j]] = t PROVE Found(t)'
      BY <2>1, <2>2, <3>2, QueueFacts DEF IInv
    <3>3. CASE lpc \in Pulled /\ log[lmsg] = t
      BY <2>1, <2>2, <3>3 DEF IInv, InHand
    <3> QED
      BY <2>3, <3>1, <3>2, <3>3
  <2> QED
    BY <2>1, <2>3 DEF Retried
<1>3. CASE Reboot
  <2>1. /\ pos' = committed /\ log' = log /\ row' = row
    BY <1>3 DEF Reboot
  <2>2. ASSUME NEW t \in Tasks, row[t] = "RUNNING"
        PROVE  \E k \in committed + 1 .. Len(log) : log[k] = t
    <3>1. ASSUME NEW k \in pos + 1 .. Len(log), log[k] = t
          PROVE  \E j \in committed + 1 .. Len(log) : log[j] = t
      BY <1>0, <3>1 DEF Ahead
    <3>2. ASSUME NEW j \in 1..Len(queue), log[queue[j]] = t
          PROVE  \E k \in committed + 1 .. Len(log) : log[k] = t
      <4>1. cpc = "remove" => log[queue[1]] # t
        BY <2>2, CurrentIsTask DEF RowInv, Current, Working
      <4>2. queue[j] \in 1..Len(log) /\ committed < queue[j]
        BY <3>2, <4>1, QueueFacts DEF Ahead, QueueNotCommitted, IInv
      <4> QED
        BY <1>0, <3>2, <4>2
    <3>3. CASE lpc \in Pulled /\ log[lmsg] = t
      BY <1>0, <3>3 DEF Ahead, IInv, InHand
    <3> QED
      BY <2>2, <3>1, <3>2, <3>3 DEF Retried
  <2> QED
    BY <2>1, <2>2 DEF Retried
<1>4. CASE PullTask
  <2>1. /\ pos' = pos + 1 /\ log' = log /\ queue' = queue /\ row' = row /\ lpc = "pull"
        /\ pos < Len(log)
    BY <1>4 DEF PullTask
  <2>2. log[pos + 1] \in Tasks => lpc' \in Pulled /\ lmsg' = pos + 1
    BY <1>4, TasksAssumption DEF PullTask, Pulled
  <2>3. \A k \in pos + 1 .. Len(log) : k = pos + 1 \/ k \in pos' + 1 .. Len(log)
    BY <1>0, <2>1
  <2> QED
    BY <2>1, <2>2, <2>3 DEF Retried, Pulled
<1>5. CASE SkipDuplicate
  <2>1. /\ pos' = pos /\ log' = log /\ queue' = queue /\ row' = row
        /\ log[lmsg] \in map
    BY <1>5 DEF SkipDuplicate
  <2> QED
    BY <2>1 DEF Retried, IInv, QueueIsMap
<1>6. CASE AppendTask
  <2>1. /\ pos' = pos /\ log' = log /\ row' = row /\ queue' = Append(queue, lmsg)
        /\ lpc \in Pulled
    BY <1>6 DEF AppendTask, Pulled
  <2>2. lmsg \in 1..Len(log) /\ queue \in Seq(1..Len(log))
    BY <2>1 DEF IInv, InHand, TypeOK
  <2>3. /\ Len(queue') = Len(queue) + 1
        /\ \A i \in 1..Len(queue) : queue'[i] = queue[i]
        /\ queue'[Len(queue) + 1] = lmsg
    BY <2>1, <2>2, AppendProperties
  <2>4. /\ Len(queue) + 1 \in 1..Len(queue')
        /\ \A i \in 1..Len(queue) : i \in 1..Len(queue')
    BY <1>0, <2>3
  <2>5. \A t : (\E i \in 1..Len(queue) : log[queue[i]] = t) \/ log[lmsg] = t
             => \E i \in 1..Len(queue') : log[queue'[i]] = t
    BY <2>3, <2>4
  <2> QED
    BY <2>1, <2>5 DEF Retried
<1>7. CASE RemoveFirstTask
  <2>1. /\ pos' = pos /\ log' = log /\ row' = row /\ lpc' = lpc /\ lmsg' = lmsg
        /\ cpc = "remove" /\ queue' = Tail(queue)
    BY <1>7 DEF RemoveFirstTask
  <2>2. row[log[queue[1]]] # "RUNNING" /\ queue # <<>>
    BY <2>1, CurrentIsTask, QueueFacts DEF RowInv, Current, Working, IInv, QueueInv
  <2>3. /\ Len(queue') = Len(queue) - 1
        /\ \A i \in 1..Len(queue) - 1 : queue'[i] = queue[i + 1]
    BY <2>1, <2>2, QueueFacts DEF IInv
  <2>4. \A i \in 1..Len(queue) :
          i = 1 \/ (i - 1 \in 1..Len(queue') /\ queue'[i - 1] = queue[i])
    BY <1>0, <2>3
  <2>5. ASSUME NEW t \in Tasks, row[t] = "RUNNING", NEW i \in 1..Len(queue),
               log[queue[i]] = t
        PROVE  \E j \in 1..Len(queue') : log[queue'[j]] = t
    BY <2>2, <2>4, <2>5
  <2> QED
    BY <2>1, <2>5 DEF Retried
<1>8. CASE Begin
  <2>1. /\ log' = log /\ pos' = pos /\ queue' = queue /\ lpc' = lpc /\ lmsg' = lmsg
        /\ queue # <<>> /\ SetStatus(log[Head(queue)], "RUNNING")
    BY <1>8 DEF Begin
  <2>2. 1 \in 1..Len(queue) /\ Head(queue) = queue[1]
    BY <2>1, QueueFacts DEF IInv
  <2>3. \A t \in Tasks : row'[t] = "RUNNING" => row[t] = "RUNNING" \/ t = log[queue[1]]
    BY <2>1, <2>2 DEF SetStatus, IInv, TypeOK
  <2> QED
    BY <2>1, <2>2, <2>3 DEF Retried
<1>9. ASSUME NEW u \in Tasks, InsertRow(u) PROVE Retried'
  <2>1. \A t \in Tasks : row'[t] = "RUNNING" => row[t] = "RUNNING"
    BY <1>9 DEF InsertRow, IInv, TypeOK
  <2> QED
    BY <1>1, <1>9, <2>1 DEF InsertRow
<1>10. CASE UpdateSuccess \/ UpdateFailed
  <2>1. \A t \in Tasks : row'[t] = "RUNNING" => row[t] = "RUNNING"
    BY <1>10 DEF UpdateSuccess, UpdateFailed, SetStatus, IInv, TypeOK
  <2> QED
    BY <1>1, <1>10, <2>1 DEF UpdateSuccess, UpdateFailed
<1>11. CASE PublishStart \/ PublishStop \/ PullStart \/ SendStart \/ AckStart \/ PullStop
            \/ AckStop
  BY <1>1, <1>11 DEF PublishStart, PublishStop, PullStart, SendStart, AckStart, PullStop,
                     AckStop, Pulled
<1>12. CASE Lookup \/ AcceptTask \/ InitReady \/ InitSend \/ SendTaskToFront
  BY <1>1, <1>12 DEF Lookup, AcceptTask, InitReady, InitSend, SendTaskToFront, Pulled
<1>13. CASE TakeStart \/ AnnotateStopped \/ AnnotateStream \/ AnnotateError \/ StreamEnd
  BY <1>1, <1>13 DEF TakeStart, AnnotateStopped, AnnotateStream, AnnotateError, StreamEnd
<1>14. CASE UpdateSuccessFails \/ InsertResults \/ After \/ UpdateFailedFails \/ AckTask
  BY <1>1, <1>14 DEF UpdateSuccessFails, InsertResults, After, UpdateFailedFails, AckTask
<1>15. CASE UNCHANGED vars
  BY <1>1, <1>15 DEF vars
<1> HIDE DEF Found
<1> QED
  BY <1>2, <1>3, <1>4, <1>5, <1>6, <1>7, <1>8, <1>9, <1>10, <1>11, <1>12, <1>13, <1>14,
     <1>15
     DEF Next, Environment, ListenKafka, SendInitTasksToFront, CheckInference,
         Crash, LookupPanic, InitPanic, SnapshotPanic

-----------------------------------------------------------------------------
\* All that is known of a worker that has one start at most, or no stops.
WorkerInv == DeliveryInv /\ RowInv /\ Ahead /\ Retried

LEMMA WorkerInit == Init => WorkerInv
<1>1. Init => RowInv /\ Ahead /\ Retried
  BY EmptySeq DEF Init, RowInv, Ahead, Retried, Pulled, QueueNotCommitted
<1> QED
  BY <1>1, DeliveryInit DEF WorkerInv

LEMMA WorkerNext ==
  ASSUME Unmixed
  PROVE  WorkerInv /\ [Next]_vars => WorkerInv'
<1>1. WorkerInv /\ [Next]_vars => DeliveryInv' /\ RowInv'
  BY DeliveryNext, RowStep DEF WorkerInv, DeliveryInv
<1>2. WorkerInv /\ [Next]_vars => Ahead' /\ Retried'
  BY AheadStep, RetriedStep DEF WorkerInv, DeliveryInv
<1> QED
  BY <1>1, <1>2 DEF WorkerInv

\* A task that is RUNNING in the database has a message beyond the committed offset, so
\* it comes again after a crash.
THEOREM RunningComesAgain ==
  ASSUME Unmixed
  PROVE  Spec => []RunningIsRetried
<1>1. WorkerInv => RunningIsRetried
  <2> SUFFICES ASSUME WorkerInv, NEW t \in Tasks, row[t] = "RUNNING"
               PROVE  \E k \in committed + 1 .. Len(log) : log[k] = t
    BY DEF RunningIsRetried
  <2>0. /\ IInv /\ RowInv /\ Ahead /\ Retried
        /\ pos \in Nat /\ committed \in Nat /\ Len(log) \in Nat
    BY QueueFacts DEF WorkerInv, DeliveryInv, IInv, TypeOK
  <2>1. ASSUME NEW k \in pos + 1 .. Len(log), log[k] = t
        PROVE  \E j \in committed + 1 .. Len(log) : log[j] = t
    BY <2>0, <2>1 DEF Ahead
  <2>2. ASSUME NEW j \in 1..Len(queue), log[queue[j]] = t
        PROVE  \E k \in committed + 1 .. Len(log) : log[k] = t
    <3>1. cpc = "remove" => log[queue[1]] # t
      BY <2>0, CurrentIsTask DEF RowInv, Current, Working
    <3>2. queue[j] \in 1..Len(log) /\ committed < queue[j]
      BY <2>0, <2>2, <3>1, QueueFacts DEF Ahead, QueueNotCommitted, IInv
    <3> QED
      BY <2>0, <2>2, <3>2
  <2>3. CASE lpc \in Pulled /\ log[lmsg] = t
    BY <2>0, <2>3 DEF Ahead, IInv, InHand
  <2> QED
    BY <2>0, <2>1, <2>2, <2>3 DEF Retried
<1> QED
  BY <1>1, WorkerInit, WorkerNext, PTL DEF Spec

-----------------------------------------------------------------------------
\* A published task has never been brought to SUCCESS or FAILED.
Owed == \E k \in 1..Len(log) : log[k] \in Tasks /\ outcome[log[k]] = {}

\* The worker was started, is not stopped and finds the rows of its tasks, and its
\* listener is not blocked in StartChan <- start.
Able == /\ cpc # "start" /\ ~restart
        /\ ~ListenerStuck
        /\ \A t \in Tasks : row[t] # "ABSENT"

\* ListenKafka has a task to pull, one in hand or a start or stop to finish, or
\* CheckInference a task in work or one to begin: a step of theirs is enabled.
WorkerMoves == \/ lpc = "pull" /\ pos < Len(log)
               \/ lpc \in {"ackStart", "ackStop"}
               \/ lpc = "send" /\ startChan = 0
               \/ lpc \in Pulled /\ row[log[lmsg]] # "ABSENT"
               \/ cpc \in Working
               \/ cpc = "poll" /\ ~restart /\ queue # <<>> /\ row[log[Head(queue)]] # "ABSENT"

\* A worker that is able has something to do as long as a task is owed: no duplicate that
\* was skipped, no failed write or commit and no crash leaves a task that nobody will take
\* up.  The safety half of TasksFinish.
THEOREM NoTaskForgotten ==
  ASSUME Unmixed
  PROVE  Spec => [](Owed /\ Able => WorkerMoves)
<1>1. WorkerInv => (Owed /\ Able => WorkerMoves)
  <2> SUFFICES ASSUME WorkerInv, Able,
                      NEW k \in 1..Len(log), log[k] \in Tasks, outcome[log[k]] = {}
               PROVE  WorkerMoves
    BY DEF Owed
  <2>0. /\ IInv /\ Covered /\ pos \in 0..Len(log) /\ Len(log) \in Nat
        /\ lpc \in {"pull", "send", "ackStart", "ackStop"} \cup Pulled
        /\ cpc \in {"start", "poll"} \cup Working
        /\ startChan \in {0, 1}
    BY QueueFacts DEF WorkerInv, DeliveryInv, IInv, TypeOK, Pulled, Working
  <2>1. CASE lpc \in Pulled
    <3>1. log[lmsg] \in Tasks
      BY <2>0, <2>1 DEF IInv, InHand
    <3> QED
      BY <2>1, <3>1 DEF WorkerMoves, Able
  <2>2. CASE lpc \notin Pulled /\ pos < k
    <3>1. pos < Len(log)
      BY <2>0, <2>2
    <3> QED
      BY <2>0, <2>2, <3>1 DEF WorkerMoves, Able, ListenerStuck
  <2>3. CASE lpc \notin Pulled /\ k <= pos
    <3>1. ~Settled(log[k]) /\ k \in 1..pos
      BY <2>0, <2>3 DEF Settled
    <3>2. \E i \in 1..Len(queue) : log[queue[i]] = log[k]
      BY <2>0, <2>3, <3>1 DEF Covered
    <3>3. queue # <<>>
      BY <2>0, <3>2, QueueFacts DEF IInv
    <3>4. log[Head(queue)] \in Tasks
      BY <2>0, <3>3, QueueFacts DEF IInv, QueueInv
    <3> QED
      BY <2>0, <3>3, <3>4 DEF WorkerMoves, Able
  <2> QED
    BY <2>0, <2>1, <2>2, <2>3
<1> QED
  BY <1>1, WorkerInit, WorkerNext, PTL DEF Spec

-----------------------------------------------------------------------------
\* The state of TaskLife that the worker shows.
Ended == {t \in Tasks : outcome[t] # {}}

LEMMA LifeInitial == Init => Life!LifeInit
BY DEF Init, Life!LifeInit

\* Every step of the worker is one of TaskLife, or invisible there.
LEMMA LifeStep ==
  ASSUME WorkerInv, WorkerInv', [Next]_vars
  PROVE  [Life!LifeNext]_(Life!lifeVars)
<1> USE DEF kafkaVars, dbVars, posVars, sharedVars, listenVars, checkVars, initVars
<1> DEFINE Shown == [Life!LifeNext]_(Life!lifeVars)
<1> SUFFICES Shown
  OBVIOUS
<1>0. /\ IInv /\ Covered /\ CommittedSettled /\ CommittedSettled' /\ RowInv /\ Ahead
      /\ pos \in Nat /\ committed \in Nat /\ Len(log) \in Nat
  <2>1. /\ IInv /\ Covered /\ CommittedSettled /\ CommittedSettled' /\ RowInv /\ Ahead
    BY DEF WorkerInv, DeliveryInv
  <2>2. TypeOK
    BY <2>1 DEF IInv
  <2> QED
    BY <2>1, <2>2, QueueFacts DEF TypeOK
<1>1. ASSUME UNCHANGED <<log, committed, row, outcome>> PROVE Shown
  BY <1>1 DEF Life!lifeVars
<1>2. ASSUME NEW m \in Tasks \cup {Junk}, Publish(m) PROVE Shown
  BY <1>2 DEF Publish, Life!Publish, Life!LifeNext
<1>3. ASSUME NEW t \in Tasks, InsertRow(t) PROVE Shown
  BY <1>3 DEF InsertRow, Life!Insert, Life!LifeNext
<1>4. CASE Begin
  <2> DEFINE t == log[queue[1]]
  <2>1. /\ log' = log /\ committed' = committed /\ cpc = "poll" /\ queue # <<>>
        /\ Head(queue) = queue[1] /\ 1 \in 1..Len(queue)
    BY <1>0, <1>4, QueueFacts DEF Begin, IInv
  <2>2. t \in Tasks /\ queue[1] \in 1..Len(log) /\ queue[1] <= pos /\ committed < queue[1]
    BY <1>0, <2>1, QueueFacts DEF IInv, QueueInv, Ahead, QueueNotCommitted
  <2>3. /\ row[t] # "ABSENT" /\ row' = [row EXCEPT ![t] = "RUNNING"]
    BY <1>4, <2>1 DEF Begin, SetStatus
  <2>4. outcome' = outcome
    BY <1>0, <1>4, <2>1, <2>2 DEF Begin, SetStatus, IInv, TypeOK
  <2>5. ASSUME NEW k \in 1..queue[1] - 1, log[k] \in Tasks PROVE log[k] \in Ended
    <3>1. k \in 1..pos /\ k < queue[1] /\ k \in Nat
      BY <1>0, <2>2
    <3>2. \A i \in 1..Len(queue) : k < queue[i]
      BY <1>0, <2>1, <2>2, <3>1, QueueFacts DEF IInv, QueueIsMap
    <3>3. lpc \in Pulled => k < lmsg
      BY <1>0, <2>1, <2>2, <3>1 DEF IInv, QueueInv, InHand
    <3>4. ~(lpc \in Pulled /\ k = lmsg)
      BY <3>1, <3>3
    <3>5. \A i \in 1..Len(queue) : ~(queue[i] <= k)
      BY <1>0, <3>1, <3>2, QueueFacts DEF IInv
    <3>6. Settled(log[k])
      BY <1>0, <2>5, <3>1, <3>4, <3>5 DEF Covered
    <3> QED
      BY <2>5, <3>6 DEF Settled, Ended
  <2>6. Life!DoneUpTo(queue[1] - 1)
    BY <2>5 DEF Life!DoneUpTo, Ended
  <2>7. queue[1] \in committed + 1 .. Len(log)
    BY <1>0, <2>2
  <2>8. Life!Attempt(t)
    BY <2>1, <2>3, <2>4, <2>6, <2>7 DEF Life!Attempt
  <2> QED
    BY <2>2, <2>8 DEF Life!LifeNext
<1>5. CASE UpdateSuccess \/ UpdateFailed
  <2> DEFINE t == log[cmsg]
  <2>1. t \in Tasks /\ row[t] = "RUNNING"
    BY <1>0, <1>5, CurrentIsTask DEF UpdateSuccess, UpdateFailed, Working, RowInv, Current
  <2>2. PICK s \in {"SUCCESS", "FAILED"} :
          /\ log' = log /\ committed' = committed
          /\ row' = [row EXCEPT ![t] = s]
          /\ outcome' = [outcome EXCEPT ![t] = @ \cup {s}]
    BY <1>5 DEF UpdateSuccess, UpdateFailed, SetStatus, Current
  <2>3. \A u \in Tasks : outcome'[u] # {} <=> (outcome[u] # {} \/ u = t)
    BY <1>0, <2>1, <2>2 DEF IInv, TypeOK
  <2>4. {u \in Tasks : outcome'[u] # {}} = {u \in Tasks : outcome[u] # {}} \cup {t}
    BY <2>1, <2>3, Zenon
  <2>5. \E u \in Tasks : Life!End(u)
    <3> HIDE DEF t
    <3>1. \E r \in {"SUCCESS", "FAILED"} : row' = [row EXCEPT ![t] = r]
      BY <2>2
    <3> QED
      BY <2>1, <2>2, <2>4, <3>1 DEF Life!End
  <2> QED
    BY <2>5 DEF Life!LifeNext
<1>6. CASE InsertResults
  <2>1. Current \in Tasks /\ outcome[Current] # {}
    BY <1>0, <1>6, CurrentIsTask
       DEF InsertResults, Working, WorkerInv, DeliveryInv, DoneInv
  <2>2. \/ outcome' = outcome
        \/ outcome' = [outcome EXCEPT ![Current] = @ \cup {"UNWRITTEN"}]
    BY <1>6 DEF InsertResults
  <2>3. \A u \in Tasks : outcome'[u] # {} <=> outcome[u] # {}
    BY <1>0, <2>1, <2>2 DEF IInv, TypeOK
  <2>4. {u \in Tasks : outcome'[u] # {}} = {u \in Tasks : outcome[u] # {}}
    BY <2>3, Zenon
  <2>5. log' = log /\ committed' = committed /\ row' = row
    BY <1>6 DEF InsertResults
  <2> QED
    BY <2>4, <2>5 DEF Life!lifeVars
<1>7. CASE AckTask
  <2>1. /\ log' = log /\ row' = row /\ outcome' = outcome /\ cpc = "ack"
        /\ committed' = cmsg \/ committed' = committed
    BY <1>7 DEF AckTask, AckTo
  <2>2. cmsg = queue[1] /\ cmsg \in 1..Len(log) /\ 1 \in 1..Len(queue)
    BY <1>0, <2>1, CurrentIsTask DEF Working
  <2>3. cmsg \in committed + 1 .. Len(log)
    BY <1>0, <2>1, <2>2 DEF Ahead, QueueNotCommitted
  <2>4. CASE committed' = cmsg
    <3>1. Life!DoneUpTo(cmsg)
      BY <1>0, <2>1, <2>4 DEF CommittedSettled, Settled, Life!DoneUpTo
    <3> QED
      BY <2>1, <2>3, <2>4, <3>1 DEF Life!Retire, Life!LifeNext
  <2>5. CASE committed' = committed
    BY <1>1, <2>1, <2>5
  <2> QED
    BY <2>1, <2>4, <2>5
<1>8. CASE Reboot
  BY <1>1, <1>8 DEF Reboot
<1>9. CASE PublishStart \/ PublishStop \/ PullStart \/ SendStart \/ AckStart \/ PullStop
           \/ AckStop
  BY <1>1, <1>9 DEF PublishStart, PublishStop, PullStart, SendStart, AckStart, PullStop,
                    AckStop
<1>10. CASE PullTask \/ Lookup \/ SkipDuplicate \/ AcceptTask \/ AppendTask
  BY <1>1, <1>10 DEF PullTask, Lookup, SkipDuplicate, AcceptTask, AppendTask
<1>11. CASE InitReady \/ InitSend \/ SendTaskToFront
  BY <1>1, <1>11 DEF InitReady, InitSend, SendTaskToFront
<1>12. CASE TakeStart \/ AnnotateStopped \/ AnnotateStream \/ AnnotateError \/ StreamEnd
  BY <1>1, <1>12 DEF TakeStart, AnnotateStopped, AnnotateStream, AnnotateError, StreamEnd
<1>13. CASE UpdateSuccessFails \/ After \/ UpdateFailedFails \/ RemoveFirstTask
  BY <1>1, <1>13 DEF UpdateSuccessFails, After, UpdateFailedFails, RemoveFirstTask
<1>14. CASE UNCHANGED vars
  BY <1>1, <1>14 DEF vars
<1> HIDE DEF Shown
<1> QED
  BY <1>2, <1>3, <1>4, <1>5, <1>6, <1>7, <1>8, <1>9, <1>10, <1>11, <1>12, <1>13, <1>14
     DEF Next, Environment, ListenKafka, SendInitTasksToFront, CheckInference,
         Crash, LookupPanic, InitPanic, SnapshotPanic

\* The worker implements TaskLife: for any number of tasks, messages and crashes, of starts
\* or of stops, with failing writes and commits, first attempts follow the order of the topic, an
\* attempt ends with SUCCESS or FAILED, and the offset moves forward over tasks that
\* have ended.
THEOREM ImplementsTaskLife ==
  ASSUME Unmixed
  PROVE  Spec => InOrderAtLeastOnce
<1>1. WorkerInv /\ WorkerInv' /\ [Next]_vars => [Life!LifeNext]_(Life!lifeVars)
  BY LifeStep
<1> QED
  BY <1>1, WorkerInit, WorkerNext, LifeInitial, PTL
     DEF Spec, InOrderAtLeastOnce, Life!InOrderAtLeastOnce
=============================================================================
