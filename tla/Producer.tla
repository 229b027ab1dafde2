------------------------------- MODULE Producer -------------------------------
(***************************************************************************)
(* The Kafka producer of a process (go/common/kafka/producer.go) and the   *)
(* goroutines that push through it.  In the worker (main.go:48) Push is    *)
(* synchronous: it gives librdkafka the message and then takes the next    *)
(* event of the one channel Events(), whosever report that is.  In the API *)
(* server (api/main.go:77) it is asynchronous: nobody reads the channel.   *)
(* The goroutines of the worker, with what they hold while they wait:      *)
(*   Starter   SendInitTasksToFront: DisplayNum messages one after the     *)
(*             other, each until Push succeeds;                            *)
(*   Fronts    SendTaskToFront: one message, holding the manager's Mutex;  *)
(*   Singles   SendTaskProgressToFront, or a call of the API server: one   *)
(*             message;                                                    *)
(*   Listener  ListenKafka, which needs the Mutex for each task.           *)
(***************************************************************************)
EXTENDS Naturals, Sequences, FiniteSets

CONSTANTS Starter, Fronts, Singles,
          DisplayNum,  \* flag display_num
          QueueCap,    \* messages librdkafka keeps
          EventsCap,   \* capacity of the channel Events()
          Modes,       \* values of Sync
          Error,       \* a kafka.Error on the channel
          Nothing,     \* no report yet
          Free,        \* nobody holds the Mutex
          MaxFails,    \* bound: failed deliveries
          MaxErrors    \* bound: kafka.Error events

Pushers == {Starter} \cup Fronts \cup Singles

ASSUME ProducerAssumption ==
  /\ IsFiniteSet(Fronts) /\ IsFiniteSet(Singles)
  /\ Starter \notin Fronts \cup Singles /\ Fronts \cap Singles = {}
  /\ Free \notin Pushers
  /\ DisplayNum \in Nat \ {0} /\ QueueCap \in Nat \ {0} /\ EventsCap \in Nat \ {0}
  /\ Modes \subseteq BOOLEAN
  /\ MaxFails \in Nat /\ MaxErrors \in Nat

\* A message is named by who pushes it and, of the Starter's, by its number.
Messages == Pushers \X (1..DisplayNum)

\* Delivery reports.
Reports == [msg : Messages, ok : BOOLEAN]

ASSUME EventAssumption == /\ Error \notin Reports \cup Messages
                          /\ Nothing \notin Messages \cup {Error}

VARIABLES
  sync,       \* Producer.Sync
  pc,         \* of the pushers: "start", "push", "wait" for an event, "done"
  sent,       \* the loop counter i of SendInitTasksToFront
  report,     \* whose message, or what error, a pusher was told of last
  mutex,      \* holder of WorkerManager.Mutex
  wanting,    \* does ListenKafka have a task to append?
  queue,      \* messages that wait for the broker's answer
  events,     \* the channel Events()
  fails, errors,
  \* History: how many messages an asynchronous producer took, those reported as
  \* delivered, and whether two goroutines ever waited at once, or an error came in
  \* between.
  pushed, delivered, crossed

envVars == <<fails, errors, delivered>>
vars == <<sync, pc, sent, report, mutex, wanting, queue, events, pushed, crossed, envVars>>

Init == /\ sync \in Modes
        /\ pc = [g \in Pushers |-> IF g \in Singles THEN "push"
                                   ELSE IF sync THEN "start" ELSE "done"]
        /\ sent = 0
        /\ report = [g \in Pushers |-> Nothing]
        /\ mutex = Free /\ wanting = FALSE
        /\ queue = <<>> /\ events = <<>>
        /\ fails = 0 /\ errors = 0
        /\ pushed = 0 /\ delivered = {} /\ crossed = FALSE

\* The message g pushes now.
Message(g) == <<g, IF g = Starter THEN sent + 1 ELSE 1>>

Subject(event) == IF event = Error THEN Error ELSE event.msg

Waiting == {g \in Pushers : pc[g] = "wait"}

Goto(g, place) == pc' = [pc EXCEPT ![g] = place]

\* s without its i-th element.
Without(s, i) == [j \in 1..(Len(s) - 1) |-> IF j < i THEN s[j] ELSE s[j + 1]]

-----------------------------------------------------------------------------
\* Plausible faults.

\* The loop of SendInitTasksToFront runs once too often.
ReturnOnceMore(g, ok) ==
  /\ sent' = IF g = Starter /\ ok THEN sent + 1 ELSE sent
  /\ Goto(g, IF g = Starter /\ ~(ok /\ sent + 1 > DisplayNum) THEN "start" ELSE "done")
  /\ mutex' = IF mutex = g THEN Free ELSE mutex

\* The loop goes on after an error: no i--.
ReturnWithoutRetry(g, ok) ==
  /\ sent' = IF g = Starter THEN sent + 1 ELSE sent
  /\ Goto(g, IF g = Starter /\ sent + 1 < DisplayNum THEN "start" ELSE "done")
  /\ mutex' = IF mutex = g THEN Free ELSE mutex

\* SendTaskToFront returns on an error without the Unlock.
ReturnLocked(g, ok) ==
  /\ sent' = IF g = Starter /\ ok THEN sent + 1 ELSE sent
  /\ Goto(g, IF g = Starter /\ ~(ok /\ sent + 1 = DisplayNum) THEN "start" ELSE "done")
  /\ mutex' = IF mutex = g /\ ok THEN Free ELSE mutex

-----------------------------------------------------------------------------
\* What a goroutine does when Push is back.
Return(g, ok) ==
  /\ sent' = IF g = Starter /\ ok THEN sent + 1 ELSE sent
  /\ Goto(g, IF g = Starter /\ ~(ok /\ sent + 1 = DisplayNum) THEN "start" ELSE "done")
  /\ mutex' = IF mutex = g THEN Free ELSE mutex

\* A Push of a progress message does not wait for a report.
ProduceSilently(g) ==
  /\ pc[g] = "push" /\ Len(queue) < QueueCap
  /\ queue' = Append(queue, Message(g))
  /\ pushed' = IF sync THEN pushed ELSE pushed + 1
  /\ IF sync /\ g \notin Singles
     THEN /\ Goto(g, "wait") /\ UNCHANGED <<sent, mutex>>
          /\ crossed' = (crossed \/ Waiting # {})
     ELSE Return(g, TRUE) /\ UNCHANGED crossed
  /\ report' = [report EXCEPT ![g] = Nothing]
  /\ UNCHANGED <<sync, wanting, events, envVars>>

\* GetDeliveryReports goes on with its loop when the report is a failure.
TakeSuccess(g) ==
  /\ pc[g] = "wait" /\ events # <<>>
  /\ LET event == Head(events) IN
       IF event = Error \/ event.ok THEN Return(g, TRUE) ELSE UNCHANGED <<sent, pc, mutex>>
  /\ report' = [report EXCEPT ![g] = Subject(Head(events))]
  /\ events' = Tail(events)
  /\ UNCHANGED <<sync, wanting, queue, pushed, crossed, envVars>>

-----------------------------------------------------------------------------
\* SendInitTasksToFront locks, reads TaskQueue[i] and unlocks.
ReadTask == /\ pc[Starter] = "start" /\ mutex = Free
            /\ Goto(Starter, "push")
            /\ UNCHANGED <<sync, sent, report, mutex, wanting, queue, events, pushed,
                           crossed, envVars>>

\* SendTaskToFront locks, and keeps the Mutex unless there is no task to show.
LockFront(g) ==
  /\ g \in Fronts /\ pc[g] = "start" /\ mutex = Free
  /\ \/ mutex' = g /\ Goto(g, "push")
     \/ UNCHANGED mutex /\ Goto(g, "done")
  /\ UNCHANGED <<sync, sent, report, wanting, queue, events, pushed, crossed, envVars>>

\* Produce takes the message.
Produce(g) ==
  /\ pc[g] = "push" /\ Len(queue) < QueueCap
  /\ queue' = Append(queue, Message(g))
  /\ pushed' = IF sync THEN pushed ELSE pushed + 1
  /\ IF sync THEN /\ Goto(g, "wait") /\ UNCHANGED <<sent, mutex>>
                  /\ crossed' = (crossed \/ Waiting # {})
             ELSE Return(g, TRUE) /\ UNCHANGED crossed
  /\ report' = [report EXCEPT ![g] = Nothing]
  /\ UNCHANGED <<sync, wanting, events, envVars>>

\* Produce returns an error: the queue is full, or another one.
ProduceFails(g) ==
  /\ pc[g] = "push"
  /\ Return(g, FALSE)
  /\ UNCHANGED <<sync, report, wanting, queue, events, pushed, crossed, envVars>>

\* GetDeliveryReports: the next event, whosever it is; a kafka.Error is no error.
Take(g) ==
  /\ pc[g] = "wait" /\ events # <<>>
  /\ LET event == Head(events) IN Return(g, event = Error \/ event.ok)
  /\ report' = [report EXCEPT ![g] = Subject(Head(events))]
  /\ events' = Tail(events)
  /\ UNCHANGED <<sync, wanting, queue, pushed, crossed, envVars>>

-----------------------------------------------------------------------------
\* The broker answers, or the message times out; topics and partitions answer in any
\* order.  The report waits while the channel is full.
Deliver(i, ok) ==
  /\ Len(events) < EventsCap
  /\ ok \/ fails < MaxFails
  /\ events' = Append(events, [msg |-> queue[i], ok |-> ok])
  /\ queue' = Without(queue, i)
  /\ fails' = IF ok THEN fails ELSE fails + 1
  /\ delivered' = IF ok THEN delivered \cup {queue[i]} ELSE delivered
  /\ UNCHANGED <<sync, pc, sent, report, mutex, wanting, pushed, crossed, errors>>

\* librdkafka tells of an error of its own, such as all brokers being down.
BrokerError ==
  /\ errors < MaxErrors /\ Len(events) < EventsCap
  /\ errors' = errors + 1
  /\ events' = Append(events, Error)
  /\ crossed' = TRUE
  /\ UNCHANGED <<sync, pc, sent, report, mutex, wanting, queue, pushed, fails, delivered>>

\* ListenKafka has read a task ...
PullTask == /\ sync /\ ~wanting /\ wanting' = TRUE
            /\ UNCHANGED <<sync, pc, sent, report, mutex, queue, events, pushed, crossed,
                           envVars>>

\* ... and locks the Mutex, appends and unlocks.
AppendTask == /\ wanting /\ mutex = Free
              /\ wanting' = FALSE
              /\ UNCHANGED <<sync, pc, sent, report, mutex, queue, events, pushed, crossed,
                             envVars>>

Broker == \E i \in 1..Len(queue), ok \in BOOLEAN : Deliver(i, ok)

Push(g) == LockFront(g) \/ Produce(g) \/ ProduceFails(g) \/ Take(g)

Next == \/ ReadTask
        \/ \E g \in Pushers : Push(g)
        \/ Broker \/ BrokerError
        \/ PullTask \/ AppendTask

Spec == Init /\ [][Next]_vars

\* Goroutines run when they can, and every message is answered or times out; the mutex is
\* handed on.
FairSpec == /\ Spec
            /\ WF_vars(ReadTask) /\ WF_vars(AppendTask) /\ WF_vars(Broker)
            /\ \A g \in Pushers : WF_vars(Push(g))

-----------------------------------------------------------------------------
\* Type invariant.
TypeOK == /\ sync \in BOOLEAN
          /\ pc \in [Pushers -> {"start", "push", "wait", "done"}]
          /\ sent \in 0..DisplayNum
          /\ pc[Starter] # "done" => sent < DisplayNum
          /\ report \in [Pushers -> Messages \cup {Error, Nothing}]
          /\ mutex \in Fronts \cup {Free} /\ wanting \in BOOLEAN
          /\ queue \in Seq(Messages) /\ Len(queue) <= QueueCap
          /\ events \in Seq(Reports \cup {Error}) /\ Len(events) <= EventsCap
          /\ fails \in 0..MaxFails /\ errors \in 0..MaxErrors
          /\ pushed \in Nat /\ delivered \subseteq Messages /\ crossed \in BOOLEAN

\* However the reports get mixed up, there is one to come for each goroutine that waits,
\* and one too many for each kafka.Error that was taken for a report
\* (producer.go:44-53).  Where nobody waits, all reports pile up: after
\* QueueCap + EventsCap messages the API server's Push returns errors for ever.
Balance ==
  Len(queue) + Len(events) = errors + (IF sync THEN Cardinality(Waiting) ELSE pushed)

\* As long as goroutines push one at a time and no kafka.Error comes, the report each of
\* them takes from the shared channel is that of its own message (producer.go:38, 44).
OwnReport ==
  ~crossed => \A g \in Pushers :
    report[g] # Nothing => report[g] # Error /\ report[g][1] = g

\* When SendInitTasksToFront is over, all its messages were delivered, whatever failed
\* before, as long as reports were not mixed up (worker_manager.go:99-121).
InitTasksDelivered ==
  ~crossed /\ sync /\ pc[Starter] = "done" =>
    \A i \in 1..DisplayNum : <<Starter, i>> \in delivered

\* No goroutine waits for ever for a report, although another may take its own, and
\* although kafka.Error events come in between (producer.go:43-59).
PushReturns == \A g \in Pushers : pc[g] = "wait" ~> pc[g] # "wait"

\* ListenKafka gets the Mutex, although SendTaskToFront keeps it while it waits for Kafka
\* (worker_manager.go:311-337).
ListenerGetsMutex == wanting ~> ~wanting
=============================================================================
