---------------------------- MODULE WorkerManager ----------------------------
(***************************************************************************)
(* The worker process of go/workers_demo: three goroutines that share a    *)
(* task queue, the map of the tasks in it, the Restart flag and StartChan. *)
(*   ListenKafka     polls the task, "start" and "stop" topics;            *)
(*   SendInitTasksToFront  shows the first displayNum tasks;               *)
(*   CheckInference  takes the head of the queue, has the inference core   *)
(*                   annotate it, writes status and results to MySQL and   *)
(*                   commits the Kafka offset.                             *)
(* Offsets are committed by hand, so a worker that comes back after a crash*)
(* starts again from the last committed one.  Kafka, MySQL, the inference  *)
(* core and whoever publishes are the environment.                         *)
(***************************************************************************)
EXTENDS Integers, Sequences

CONSTANTS Tasks,        \* task ids
          EmptyVideos,  \* tasks for whose video the core returns no metadata
          Junk,         \* a message that proto.Unmarshal refuses
          DisplayNum,   \* -display_num
          MaxMessages,  \* bound: messages published on the task topic
          MaxStarts,    \* bound: messages published on "start" ...
          MaxStops,     \* ... and on "stop"
          MaxBoots,     \* bound: crashes and panics
          DbFails,      \* may UpdateTask and InsertTaskResult return an error?
          AckFails      \* may AckMsg return an error?

ASSUME BoundsAssumption == /\ DisplayNum \in Nat \ {0}
                           /\ MaxMessages \in Nat /\ MaxStarts \in Nat
                           /\ MaxStops \in Nat /\ MaxBoots \in Nat
ASSUME FailuresAssumption == DbFails \in BOOLEAN /\ AckFails \in BOOLEAN
ASSUME TasksAssumption == Junk \notin Tasks /\ EmptyVideos \subseteq Tasks

VARIABLES
  \* Kafka: the task topic, the offset the group has committed in it, the number
  \* of messages on "start" and "stop" and how many of them are committed.
  log, committed, starts, startsCommitted, stops, stopsCommitted,
  \* MySQL: the status column of task; results inserted for it; the final
  \* statuses it ever had, and "UNWRITTEN" if an insert of its results failed
  \* (history).
  row, results, outcome,
  \* The "queue" topic: tasks shown on the front end.
  front,
  \* Memory of the worker, lost in a crash.  Positions of the consumer:
  pos, startPos, stopPos,
  \* TaskQueue (offsets in log, oldest first), TaskMap, Restart, StartChan:
  queue, map, restart, startChan,
  \* where ListenKafka is, with the offset of its message; CheckInference, with
  \* its message and what AnnotateVideo returned; SendInitTasksToFront, with its
  \* index; the number of SendTaskToFront goroutines.
  lpc, lmsg, cpc, cmsg, ret, ipc, shown, fronts,
  boots

kafkaVars == <<log, committed, starts, startsCommitted, stops, stopsCommitted>>
dbVars == <<row, results, outcome>>
posVars == <<pos, startPos, stopPos>>
sharedVars == <<queue, map, restart, startChan>>
listenVars == <<lpc, lmsg>>
checkVars == <<cpc, cmsg, ret>>
initVars == <<ipc, shown>>
vars == <<kafkaVars, dbVars, front, posVars, sharedVars, listenVars, checkVars,
          initVars, fronts, boots>>

Init == /\ log = <<>> /\ committed = 0
        /\ starts = 0 /\ startsCommitted = 0
        /\ stops = 0 /\ stopsCommitted = 0
        /\ row = [t \in Tasks |-> "ABSENT"]
        /\ results = [t \in Tasks |-> 0]
        /\ outcome = [t \in Tasks |-> {}]
        /\ front = {}
        /\ pos = 0 /\ startPos = 0 /\ stopPos = 0
        /\ queue = <<>> /\ map = {} /\ restart = FALSE /\ startChan = 0
        /\ lpc = "pull" /\ lmsg = 0
        /\ cpc = "start" /\ cmsg = 0 /\ ret = "nil"
        /\ ipc = "wait" /\ shown = 0
        /\ fronts = 0
        /\ boots = 0

\* Fault: the consumer reads the start topic from its beginning again.
RebootFromFirstStart ==
  /\ boots < MaxBoots
  /\ boots' = boots + 1
  /\ pos' = committed /\ startPos' = 0 /\ stopPos' = stopsCommitted
  /\ queue' = <<>> /\ map' = {} /\ restart' = FALSE /\ startChan' = 0
  /\ lpc' = "pull" /\ lmsg' = 0
  /\ cpc' = "start" /\ cmsg' = 0 /\ ret' = "nil"
  /\ ipc' = "wait" /\ shown' = 0
  /\ fronts' = 0
  /\ UNCHANGED <<kafkaVars, dbVars, front>>

\* Fault: the consumer resumes one message too far.
RebootPastCommitted ==
  /\ boots < MaxBoots
  /\ boots' = boots + 1
  /\ pos' = committed + 1 /\ startPos' = startsCommitted /\ stopPos' = stopsCommitted
  /\ queue' = <<>> /\ map' = {} /\ restart' = FALSE /\ startChan' = 0
  /\ lpc' = "pull" /\ lmsg' = 0
  /\ cpc' = "start" /\ cmsg' = 0 /\ ret' = "nil"
  /\ ipc' = "wait" /\ shown' = 0
  /\ fronts' = 0
  /\ UNCHANGED <<kafkaVars, dbVars, front>>

\* The process dies, and a supervisor starts it again: memory is as new, the
\* consumer resumes at the committed offsets.
Reboot == /\ boots < MaxBoots
          /\ boots' = boots + 1
          /\ pos' = committed /\ startPos' = startsCommitted /\ stopPos' = stopsCommitted
          /\ queue' = <<>> /\ map' = {} /\ restart' = FALSE /\ startChan' = 0
          /\ lpc' = "pull" /\ lmsg' = 0
          /\ cpc' = "start" /\ cmsg' = 0 /\ ret' = "nil"
          /\ ipc' = "wait" /\ shown' = 0
          /\ fronts' = 0
          /\ UNCHANGED <<kafkaVars, dbVars, front>>

\* AckMsg commits the offset after message k, or fails and is only logged.
AckTo(c, k) == c' = k \/ (AckFails /\ UNCHANGED c)

\* UpdateTask writes the whole row.
SetStatus(t, s) == /\ row' = [row EXCEPT ![t] = s]
                   /\ outcome' = [outcome EXCEPT ![t] =
                                    IF s = "RUNNING" THEN @ ELSE @ \cup {s}]
                   /\ UNCHANGED results

\* The task CheckInference is working on.
Current == log[cmsg]

-----------------------------------------------------------------------------
\* Plausible faults, one for each property.

\* RemoveFirstTask forgets the map entry.
RemoveFirstTaskOnly ==
  /\ cpc = "remove"
  /\ queue' = Tail(queue)
  /\ cpc' = "poll"
  /\ fronts' = fronts + 1
  /\ UNCHANGED <<kafkaVars, dbVars, front, posVars, map, restart, startChan, listenVars,
                 cmsg, ret, initVars, boots>>

\* CheckInference does not look at Restart after AnnotateVideo.
AfterIgnoringStop ==
  /\ cpc = "after"
  /\ cpc' = IF ret = "error" THEN "fail" ELSE "ack"
  /\ UNCHANGED <<kafkaVars, dbVars, front, posVars, sharedVars, listenVars, cmsg, ret,
                 initVars, fronts, boots>>

\* CheckInference does not look at Restart before it takes a task.
BeginIgnoringStop ==
  /\ cpc = "poll" /\ queue # <<>>
  /\ cmsg' = Head(queue)
  /\ row[log[Head(queue)]] # "ABSENT"
  /\ SetStatus(log[Head(queue)], "RUNNING")
  /\ cpc' = "annotate"
  /\ UNCHANGED <<kafkaVars, front, posVars, sharedVars, listenVars, ret, initVars, fronts,
                 boots>>

\* CheckInference takes the newest task instead of the oldest.
BeginNewest ==
  /\ cpc = "poll" /\ ~restart /\ queue # <<>>
  /\ cmsg' = queue[Len(queue)]
  /\ row[log[queue[Len(queue)]]] # "ABSENT"
  /\ SetStatus(log[queue[Len(queue)]], "RUNNING")
  /\ cpc' = "annotate"
  /\ UNCHANGED <<kafkaVars, front, posVars, sharedVars, listenVars, ret, initVars, fronts,
                 boots>>

\* The status is written and the results are left out.
UpdateSuccessOnly ==
  /\ cpc = "success"
  /\ SetStatus(Current, "SUCCESS")
  /\ cpc' = "after" /\ ret' = "nil"
  /\ UNCHANGED <<kafkaVars, front, posVars, sharedVars, listenVars, cmsg, initVars,
                 fronts, boots>>

\* ListenKafka commits a task message as soon as it is queued.
AppendAndAck ==
  /\ lpc = "append"
  /\ queue' = Append(queue, lmsg)
  /\ map' = map \cup {log[lmsg]}
  /\ committed' = lmsg
  /\ lpc' = "pull"
  /\ UNCHANGED <<log, starts, startsCommitted, stops, stopsCommitted, dbVars, front,
                 posVars, restart, startChan, lmsg, checkVars, initVars, fronts, boots>>

-----------------------------------------------------------------------------
\* The environment: an API server publishes a task and inserts its row in either
\* order; the web page publishes starts and stops.
Publish(m) == /\ Len(log) < MaxMessages
              /\ log' = Append(log, m)
              /\ UNCHANGED <<committed, starts, startsCommitted, stops, stopsCommitted,
                             dbVars, front, posVars, sharedVars, listenVars, checkVars,
                             initVars, fronts, boots>>

InsertRow(t) == /\ row[t] = "ABSENT"
                /\ row' = [row EXCEPT ![t] = "PENDING"]
                /\ UNCHANGED <<kafkaVars, results, outcome, front, posVars, sharedVars,
                               listenVars, checkVars, initVars, fronts, boots>>

PublishStart == /\ starts < MaxStarts
                /\ starts' = starts + 1
                /\ UNCHANGED <<log, committed, startsCommitted, stops, stopsCommitted,
                               dbVars, front, posVars, sharedVars, listenVars, checkVars,
                               initVars, fronts, boots>>

PublishStop == /\ stops < MaxStops
               /\ stops' = stops + 1
               /\ UNCHANGED <<log, committed, starts, startsCommitted, stopsCommitted,
                              dbVars, front, posVars, sharedVars, listenVars, checkVars,
                              initVars, fronts, boots>>

Crash == Reboot

-----------------------------------------------------------------------------
\* ListenKafka.  A start clears Restart, then blocks until StartChan has room.
PullStart == /\ lpc = "pull" /\ startPos < starts
             /\ startPos' = startPos + 1
             /\ restart' = FALSE
             /\ lpc' = "send"
             /\ UNCHANGED <<kafkaVars, dbVars, front, pos, stopPos, queue, map, startChan,
                            lmsg, checkVars, initVars, fronts, boots>>

SendStart == /\ lpc = "send" /\ startChan = 0
             /\ startChan' = 1
             /\ lpc' = "ackStart"
             /\ UNCHANGED <<kafkaVars, dbVars, front, posVars, queue, map, restart, lmsg,
                            checkVars, initVars, fronts, boots>>

AckStart == /\ lpc = "ackStart"
            /\ AckTo(startsCommitted, startPos)
            /\ lpc' = "pull"
            /\ UNCHANGED <<log, committed, starts, stops, stopsCommitted, dbVars, front,
                           posVars, sharedVars, lmsg, checkVars, initVars, fronts, boots>>

PullStop == /\ lpc = "pull" /\ stopPos < stops
            /\ stopPos' = stopPos + 1
            /\ restart' = TRUE
            /\ lpc' = "ackStop"
            /\ UNCHANGED <<kafkaVars, dbVars, front, pos, startPos, queue, map, startChan,
                           lmsg, checkVars, initVars, fronts, boots>>

AckStop == /\ lpc = "ackStop"
           /\ AckTo(stopsCommitted, stopPos)
           /\ lpc' = "pull"
           /\ UNCHANGED <<log, committed, starts, startsCommitted, stops, dbVars, front,
                          posVars, sharedVars, lmsg, checkVars, initVars, fronts, boots>>

\* A message that does not parse is passed over.
PullTask == /\ lpc = "pull" /\ pos < Len(log)
            /\ pos' = pos + 1
            /\ IF log[pos + 1] = Junk THEN UNCHANGED listenVars
               ELSE lpc' = "lookup" /\ lmsg' = pos + 1
            /\ UNCHANGED <<kafkaVars, dbVars, front, startPos, stopPos, sharedVars,
                           checkVars, initVars, fronts, boots>>

\* GetTask finds the row ...
Lookup == /\ lpc = "lookup"
          /\ row[log[lmsg]] # "ABSENT"
          /\ lpc' = "check"
          /\ UNCHANGED <<kafkaVars, dbVars, front, posVars, sharedVars, lmsg, checkVars,
                         initVars, fronts, boots>>

\* ... or returns nil and an error, and the log call dereferences the nil task.
LookupPanic == /\ lpc = "lookup"
               /\ row[log[lmsg]] = "ABSENT" \/ DbFails
               /\ Reboot

\* The look into TaskMap, without the mutex, and the append under it.
SkipDuplicate == /\ lpc = "check" /\ log[lmsg] \in map
                 /\ lpc' = "pull"
                 /\ UNCHANGED <<kafkaVars, dbVars, front, posVars, sharedVars, lmsg,
                                checkVars, initVars, fronts, boots>>

AcceptTask == /\ lpc = "check" /\ log[lmsg] \notin map
              /\ lpc' = "append"
              /\ UNCHANGED <<kafkaVars, dbVars, front, posVars, sharedVars, lmsg,
                             checkVars, initVars, fronts, boots>>

AppendTask == /\ lpc = "append"
              /\ queue' = Append(queue, lmsg)
              /\ map' = map \cup {log[lmsg]}
              /\ lpc' = "pull"
              /\ UNCHANGED <<kafkaVars, dbVars, front, posVars, restart, startChan, lmsg,
                             checkVars, initVars, fronts, boots>>

-----------------------------------------------------------------------------
\* SendInitTasksToFront: the length is read once, without the mutex.
InitReady == /\ ipc = "wait" /\ Len(queue) >= DisplayNum
             /\ ipc' = "send"
             /\ UNCHANGED <<kafkaVars, dbVars, front, posVars, sharedVars, listenVars,
                            checkVars, shown, fronts, boots>>

InitSend == /\ ipc = "send" /\ shown < DisplayNum /\ shown < Len(queue)
            /\ front' = front \cup {log[queue[shown + 1]]}
            /\ shown' = shown + 1
            /\ ipc' = IF shown + 1 = DisplayNum THEN "end" ELSE "send"
            /\ UNCHANGED <<kafkaVars, dbVars, posVars, sharedVars, listenVars, checkVars,
                           fronts, boots>>

\* TaskQueue[i] is out of range: the queue has shrunk since.
InitPanic == /\ ipc = "send" /\ shown >= Len(queue)
             /\ Reboot

\* SendTaskToFront shows the task that has just come into view, or the last one.
SendTaskToFront ==
  /\ fronts > 0
  /\ fronts' = fronts - 1
  /\ front' = IF queue = <<>> THEN front
              ELSE front \cup {log[queue[IF Len(queue) > DisplayNum THEN DisplayNum
                                         ELSE Len(queue)]]}
  /\ UNCHANGED <<kafkaVars, dbVars, posVars, sharedVars, listenVars, checkVars, initVars,
                 boots>>

-----------------------------------------------------------------------------
\* CheckInference takes one start from StartChan, once.
TakeStart == /\ cpc = "start" /\ startChan = 1
             /\ startChan' = 0
             /\ cpc' = "poll"
             /\ UNCHANGED <<kafkaVars, dbVars, front, posVars, queue, map, restart,
                            listenVars, cmsg, ret, initVars, fronts, boots>>

\* The core says it is able, the worker is not stopped: the row of the first task
\* becomes RUNNING.  While the core is not able, GetTask or UpdateTask fail, the
\* loop only sleeps.
Begin == /\ cpc = "poll" /\ ~restart /\ queue # <<>>
         /\ cmsg' = Head(queue)
         /\ row[log[Head(queue)]] # "ABSENT"
         /\ SetStatus(log[Head(queue)], "RUNNING")
         /\ cpc' = "annotate"
         /\ UNCHANGED <<kafkaVars, front, posVars, sharedVars, listenVars, ret, initVars,
                        fronts, boots>>

\* AnnotateVideo returns nil as soon as it sees a stop, before the stream opens.
AnnotateStopped == /\ cpc = "annotate" /\ restart
                   /\ cpc' = "after" /\ ret' = "nil"
                   /\ UNCHANGED <<kafkaVars, dbVars, front, posVars, sharedVars,
                                  listenVars, cmsg, initVars, fronts, boots>>

AnnotateStream == /\ cpc = "annotate" /\ ~restart
                  /\ cpc' = "stream"
                  /\ UNCHANGED <<kafkaVars, dbVars, front, posVars, sharedVars, listenVars,
                                 cmsg, ret, initVars, fronts, boots>>

\* No frame rate, or the stream ends with an error of the core.
AnnotateError == /\ cpc \in {"annotate", "stream"}
                 /\ cpc' = "after" /\ ret' = "error"
                 /\ UNCHANGED <<kafkaVars, dbVars, front, posVars, sharedVars, listenVars,
                                cmsg, initVars, fronts, boots>>

\* The stream ends with EOF: everything has been received.
StreamEnd == /\ cpc = "stream"
             /\ cpc' = "success"
             /\ UNCHANGED <<kafkaVars, dbVars, front, posVars, sharedVars, listenVars, cmsg,
                            ret, initVars, fronts, boots>>

UpdateSuccess == /\ cpc = "success"
                 /\ SetStatus(Current, "SUCCESS")
                 /\ cpc' = "results"
                 /\ UNCHANGED <<kafkaVars, front, posVars, sharedVars, listenVars, cmsg,
                                ret, initVars, fronts, boots>>

UpdateSuccessFails == /\ DbFails /\ cpc = "success"
                      /\ cpc' = "after" /\ ret' = "error"
                      /\ UNCHANGED <<kafkaVars, dbVars, front, posVars, sharedVars,
                                     listenVars, cmsg, initVars, fronts, boots>>

\* InsertTaskResult for each model that returned something; an error is logged and
\* forgotten.
InsertResults == /\ cpc = "results"
                 /\ \/ /\ Current \notin EmptyVideos
                       /\ results' = [results EXCEPT ![Current] = @ + 1]
                       /\ UNCHANGED outcome
                    \/ /\ Current \notin EmptyVideos /\ DbFails
                       /\ outcome' = [outcome EXCEPT ![Current] = @ \cup {"UNWRITTEN"}]
                       /\ UNCHANGED results
                    \/ /\ Current \in EmptyVideos
                       /\ UNCHANGED <<results, outcome>>
                 /\ cpc' = "after" /\ ret' = "nil"
                 /\ UNCHANGED <<kafkaVars, row, front, posVars, sharedVars,
                                listenVars, cmsg, initVars, fronts, boots>>

\* SnapShotVideo fails and its nil result is used before err is looked at.
SnapshotPanic == cpc = "results" /\ Current \notin EmptyVideos /\ Reboot

\* After AnnotateVideo: a stop leaves the task at the head of the queue.
After == /\ cpc = "after"
         /\ cpc' = IF restart THEN "poll" ELSE IF ret = "error" THEN "fail" ELSE "ack"
         /\ UNCHANGED <<kafkaVars, dbVars, front, posVars, sharedVars, listenVars, cmsg,
                        ret, initVars, fronts, boots>>

UpdateFailed == /\ cpc = "fail"
                /\ SetStatus(Current, "FAILED")
                /\ cpc' = "ack"
                /\ UNCHANGED <<kafkaVars, front, posVars, sharedVars, listenVars, cmsg, ret,
                               initVars, fronts, boots>>

UpdateFailedFails == /\ DbFails /\ cpc = "fail"
                     /\ cpc' = "poll"
                     /\ UNCHANGED <<kafkaVars, dbVars, front, posVars, sharedVars,
                                    listenVars, cmsg, ret, initVars, fronts, boots>>

AckTask == /\ cpc = "ack"
           /\ AckTo(committed, cmsg)
           /\ cpc' = "remove"
           /\ UNCHANGED <<log, starts, startsCommitted, stops, stopsCommitted, dbVars,
                          front, posVars, sharedVars, listenVars, cmsg, ret, initVars,
                          fronts, boots>>

\* RemoveFirstTask, then go SendTaskToFront().
RemoveFirstTask == /\ cpc = "remove"
                   /\ queue' = Tail(queue)
                   /\ map' = map \ {Current}
                   /\ cpc' = "poll"
                   /\ fronts' = fronts + 1
                   /\ UNCHANGED <<kafkaVars, dbVars, front, posVars, restart, startChan,
                                  listenVars, cmsg, ret, initVars, boots>>

-----------------------------------------------------------------------------
Environment == \/ \E m \in Tasks \cup {Junk} : Publish(m)
               \/ \E t \in Tasks : InsertRow(t)
               \/ PublishStart \/ PublishStop \/ Crash

ListenKafka == \/ PullStart \/ SendStart \/ AckStart \/ PullStop \/ AckStop
               \/ PullTask \/ Lookup \/ LookupPanic
               \/ SkipDuplicate \/ AcceptTask \/ AppendTask

SendInitTasksToFront == InitReady \/ InitSend \/ InitPanic

CheckInference == \/ TakeStart \/ Begin
                  \/ AnnotateStopped \/ AnnotateStream \/ AnnotateError \/ StreamEnd
                  \/ UpdateSuccess \/ UpdateSuccessFails \/ InsertResults \/ SnapshotPanic
                  \/ After \/ UpdateFailed \/ UpdateFailedFails
                  \/ AckTask \/ RemoveFirstTask

Next == Environment \/ ListenKafka \/ SendInitTasksToFront \/ SendTaskToFront
        \/ CheckInference

Spec == Init /\ [][Next]_vars

\* Goroutines that can run do run; Kafka delivers what was published; the core is
\* able and the database works sooner or later; rows get inserted and a start is
\* sent.  No stop, no crash and no further message has to happen.  The listener
\* polls several topics and none of them is starved.
Fairness == /\ WF_vars(ListenKafka) /\ SF_vars(PullStart) /\ SF_vars(PullStop)
            /\ SF_vars(PullTask)
            /\ WF_vars(SendInitTasksToFront) /\ WF_vars(SendTaskToFront)
            /\ WF_vars(CheckInference)
            /\ \A t \in Tasks : WF_vars(InsertRow(t))
            /\ WF_vars(PublishStart)

FairSpec == Spec /\ Fairness

-----------------------------------------------------------------------------
\* Type invariant.
TypeOK ==
  /\ log \in Seq(Tasks \cup {Junk})
  /\ committed \in 0..Len(log)
  /\ starts \in 0..MaxStarts /\ startsCommitted \in 0..starts
  /\ stops \in 0..MaxStops /\ stopsCommitted \in 0..stops
  /\ row \in [Tasks -> {"ABSENT", "PENDING", "RUNNING", "SUCCESS", "FAILED"}]
  /\ results \in [Tasks -> Nat]
  /\ outcome \in [Tasks -> SUBSET {"SUCCESS", "FAILED", "UNWRITTEN"}]
  /\ front \subseteq Tasks
  /\ pos \in 0..Len(log) /\ startPos \in 0..starts /\ stopPos \in 0..stops
  /\ queue \in Seq(1..Len(log)) /\ map \subseteq Tasks
  /\ restart \in BOOLEAN /\ startChan \in {0, 1}
  /\ lpc \in {"pull", "send", "ackStart", "ackStop", "lookup", "check", "append"}
  /\ lmsg \in 0..Len(log)
  /\ cpc \in {"start", "poll", "annotate", "stream", "success", "results", "after",
              "fail", "ack", "remove"}
  /\ cmsg \in 0..Len(log) /\ ret \in {"nil", "error"}
  /\ ipc \in {"wait", "send", "end"} /\ shown \in 0..DisplayNum
  /\ fronts \in Nat /\ boots \in 0..MaxBoots

\* The queue holds each task once and in the order of the log, and TaskMap is exactly the
\* set of its tasks.
QueueIsMap ==
  /\ map = {log[queue[i]] : i \in 1..Len(queue)}
  /\ \A i, j \in 1..Len(queue) : i < j => /\ queue[i] < queue[j]
                                          /\ log[queue[i]] # log[queue[j]]

\* What is queued is not committed, but for the head from its commit to its removal.
QueueNotCommitted ==
  \A i \in 1..Len(queue) :
    committed < queue[i] \/ (i = 1 /\ cpc = "remove" /\ queue[1] = committed)

\* Queue and map agree, and hold nothing that is done with, although one goroutine adds
\* to both and another takes away, and the test of the map is made without the mutex
\* (worker_manager.go:76-83, 186-190, 340-348).
QueueMatchesMap == QueueIsMap /\ QueueNotCommitted

\* At least once: the committed offset never passes a task that was not brought
\* to SUCCESS or FAILED, so no crash between pulling and finishing, no skipped
\* duplicate and no failed commit loses a task (worker_manager.go:168-190).
NoTaskLost == \A k \in 1..committed : log[k] \in Tasks => outcome[log[k]] # {}

\* A task that is RUNNING in the database will be pulled again after a crash: its
\* message is not committed (worker_manager.go:159, 186).
RunningIsRetried ==
  \A t \in Tasks : row[t] = "RUNNING" => \E k \in committed + 1 .. Len(log) : log[k] = t

\* When the offset of a task that succeeded and whose video gave metadata is
\* committed, its results are in the database, if no insert of them failed: no crash
\* between the two writes can cost them (worker_manager.go:250-276).
CommittedHasResults ==
  \A k \in 1..committed :
    log[k] \in Tasks \ EmptyVideos /\ outcome[log[k]] = {"SUCCESS"}
      => results[log[k]] > 0

\* What the worker promises: TaskLife, where a message is retired when its offset is
\* committed and a task has ended when it ever had a final status.  Queue, map, crash,
\* redelivery and failed commits are steps of it or stutter: first attempts follow the
\* order of the topic, and the committed offset never goes back
\* (worker_manager.go:126-197).
Life == INSTANCE TaskLife WITH topic <- log, retired <- committed, status <- row,
                               ended <- {t \in Tasks : outcome[t] # {}}

InOrderAtLeastOnce == Life!InOrderAtLeastOnce

\* A published task is brought to SUCCESS or FAILED, crashes, redelivery and failed
\* commits notwithstanding, as long as the worker is not stopped and does not sit
\* waiting for a start: the start that was committed before a crash does not come
\* again (worker_manager.go:38-86, 126-197).
TasksFinish ==
  <>[](cpc # "start" /\ ~restart) =>
    \A t \in Tasks : (\E k \in 1..Len(log) : log[k] = t) ~> (outcome[t] # {})

\* CheckInference is stopped, or waits in vain for a start: none is on its way to it.
Halted == restart \/ (cpc = "start" /\ startChan = 0 /\ lpc # "send")

\* Once every start that was published is committed, only a new one sets a halted worker
\* to work again: no crash, whatever it makes Kafka deliver again, takes the place of one
\* (worker_manager.go:44-54, 127, 138).
OnlyAStartResumes == [][Halted /\ startsCommitted = starts => Halted']_vars

\* A worker that is halted when it has read the last start that is ever published
\* finishes the task in hand and takes no other.  Not so when that start is not committed
\* and the worker crashes afterwards: then the start comes again and ends the stop, also
\* a committed one (worker_manager.go:44-63, 138, 169, 216).
StopSticks ==
  \A n \in 0..MaxStarts, b \in 0..MaxBoots :
    (/\ <>(Halted /\ startPos = n /\ (startsCommitted = n \/ boots = b))
     /\ <>[](starts = n /\ boots = b)) => <>[](cpc \in {"start", "poll"})

-----------------------------------------------------------------------------
\* What a comment says and the code does not do.

\* worker_manager.go:38: the listener reads the "start" topic and the task topic "at
\* the same time": a stop that was published is seen, no start blocks the listener
\* for ever.
StopIsSeen == (stopPos < stops) ~> (stopPos = stops)
=============================================================================
