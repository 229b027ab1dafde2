# A TLA+ development for goku

goku annotates videos. A web page and an API server create *tasks*; a task is a
message on a Kafka topic and a row in MySQL. A *worker manager* (Go) consumes the
tasks of one topic, one after the other, and has a local *inference core* (C++, gRPC)
annotate each video. The core decodes the video in a thread of its own, hands the
frames over through a bounded channel, runs them through a neural network in batches
and streams the results back; the worker writes them to MySQL, commits the Kafka
offset and tells the web page about the progress. A demo page can also ask the cores
directly for summaries of a list of videos.

The modules follow the source files; every comment gives the lines it is about.

## Inventory

| component | state it keeps | operations | correct when |
|---|---|---|---|
| frame channel, `cpp/common/channel.h` | queue, `closed_`, two condition variables | `Put`, `PutWithTimeout`, `Get`, `GetWithTimeout`, `Close` | it behaves as an atomic bounded queue; no thread sleeps beside what it waits for; `Close` ends every `Get` |
| inference core, `cpp/app/infer_core/src/main.cpp` | `available_`, `decoder_`, `handler_`, shared by all RPC threads | `AnnotateVideo`, `AnnotateVideoSummary`, `CheckInferenceCore` | one video at a time; nothing freed in use; the flag tells the truth; calls end |
| handler, `handler.{h,cpp}` | total and processed frames, batch sizes, the channel | `SetVideoMeta`, `GetOutput`, `GetOutputSummary`, `CloseInput` | each frame answered once, in order |
| decoder, `decode.h` | the video, the decode thread, `aborted_flag_` | `Open`, `Run`, `Join` | an exception is reported, and as nothing else |
| pipelines, classifier, detector, `pipeline.cpp`, `classifier.cpp`, `yolo_detector.cpp`, `math_util.h` | weights, GPU buffers, a batch size | `Forward`, `Classify`, `Detect` (`ApplyNMS`), `Argmax` | results belong to their frame; boxes that are left are apart, and cover those dropped; the summary names the best of each label |
| worker manager, `go/workers_demo` | `TaskQueue`, `TaskMap`, `Restart`, `StartChan`; three goroutines and more | `ListenKafka`, `SendInitTasksToFront`, `CheckInference` (`AnnotateVideo`, `RemoveFirstTask`, `SendTaskToFront`) | no task lost over crashes; queue and map agree; stop stops |
| Kafka wrappers, `go/common/kafka` | consumer offsets; the producer's event channel | `Pull`, `AckMsg`; `Push` | a report belongs to the message pushed, or at least there is one; `Push` returns |
| MySQL layer, `go/common/db` | tables task, task_result, model, model_group | insert, update, paged reads, transactions | rows and their groups agree |
| API server, `go/api` | none of its own, open transactions | `CreateTask`, `CreateClassifyTask`, `AddModel`, `UpdateModelTypes`, reads | a task has a row and its messages; models and groups agree; a failed call leaves nothing |
| demo server and pages, `demo/` | web sockets, forked workers; task list and progress map | start, stop, relay of messages, live summaries | every task shown and counted once |
| `init_demo`, web console, proto, test, vendored headers and data | - | - | not modelled, see `PROJECT.json` |

Who talks to whom: the API server publishes to the task topic and inserts the row; the
demo server publishes `start` and `stop`; the worker reads all three topics, calls the
core over gRPC, writes MySQL and publishes `queue` and `progress`, which the demo server
relays to the page. In the core, an RPC thread and a decode thread share a channel, and
all RPC threads share the flag and the two `unique_ptr`s.

What is hard: wakeups of the channel (several waiters of two kinds, timeouts,
`notify_one`); the flag of the core, tested and set in different critical sections; the
lifetime of decoder and handler; loops that count announced frames while the channel
delivers decoded ones; crashes of a worker between pulling, writing and committing;
`Restart` read at three places without regard to changes in between; data read without
the mutex; goroutines that share one channel of delivery reports, one of them with the
mutex held; calls of the API server that read outside the transaction they write in. The
list with lines is `hazards` in `PROJECT.json`.

## Modules

### ChannelSpec, Channel: the frame channel

`ChannelSpec` is what users of a channel may rely on: `Push`, `Pop`, `EndOfInput`,
`RejectPut`, `GiveUp` and `SetClosed` happen at one instant between call (`Begin`) and
return. A `GetWithTimeout` on an empty closed channel may say either that it is over or
that it got nothing. A `Put` on a closed channel has an action of its own, `PushLate`: the
comment at `Close` says that there is no such thing, the code does it, and
`channel_closed` shows it. `Atomic` therefore says that operations are atomic, and nothing
of what `Close` stops.

`Channel` is the code: a call is a sequence of critical sections under `mutex_`, with
`phase[t]` telling whether thread `t` is outside, about to enter, in the wait set of a
condition variable, woken, or expired. One action is one critical section.

| code | action |
|---|---|
| `Put`, `PutWithTimeout` 21-53: pushes and notifies / gives up / waits | `PutItem` / `PutNothing` / `PutWait` |
| `Get`, `GetWithTimeout` 55-92 | `GetItem` / `GetNothing` / `GetWait` |
| `Close` 95-99 | `Close` |
| the standard library | `SpuriousWakeup`, `Timeout` |

`wait_for` with a predicate re-tests it on every wakeup and once more on expiry; the
predicate of `GetWithTimeout` ignores `closed_`, so `Close` wakes a timed getter in
vain, and the model keeps that.

### InferCore: the core, handler and decoder

State: the flag, what `decoder_` and `handler_` point to, and for every call its
program counter, loop counters and frames collected; for every video object its decode
thread, aborted flag and channel. A decoder and a handler are named by the call and the
number of the video that made them, so that "freed while in use" is a state predicate
(`DecoderInUse`, `HandlerInUse`) evaluated when a `reset` replaces one; it sets `ub`,
after which nothing happens, as nothing is known. The same variable catches `Run` on a
decoder that has a thread and `Join` of no thread. The channel is the atomic one, which
`Channel` implements. A video is a record of what the code can notice: whether it
opens, what its metadata announces, whether it opens again, how many frames it yields
and whether decoding throws at the end. What `Forward` computes is left out: a frame
annotated is the frame.

`Overlap` says whether a second call may test the flag while another is between its
test and its assignment. `Overlap = FALSE` is how the worker uses the core (one client,
one call at a time); `core_overlap` has it TRUE and shows what the flag does not prevent.

### WorkerManager: the worker process

Kafka is the log of the task topic with its committed offset, and counters for `start`
and `stop`; MySQL is the status column, a count of result rows and, as history, the
final statuses a task ever had. `lpc`, `cpc` and `ipc` are the program counters of
`ListenKafka`, `CheckInference` with `AnnotateVideo`, and `SendInitTasksToFront`;
`fronts` counts the `SendTaskToFront` goroutines. Every access to shared state is an
action of its own: the look into `TaskMap` without the mutex (`SkipDuplicate`,
`AcceptTask`) and the append (`AppendTask`), the three reads of `Restart` (`Begin`,
`AnnotateStopped`/`AnnotateStream`, `After`), the write of SUCCESS and the inserts after
it. A crash (`Crash`) may come at any moment; the panics of the code (`LookupPanic`,
`InitPanic`, `SnapshotPanic`) are the same step under their own guard. After either,
memory is new and the consumer resumes at the committed offset. The data races of the
code (lengths, `TaskMap` and `Restart` read without the mutex) can give a stale value,
which the interleavings cover, or abort the process ("concurrent map read and map
write"), which `Crash` covers.

The environment publishes tasks, duplicates and junk, and inserts the row before or
after, as `CreateTask` publishes first; rows may be missing, MySQL and commits may fail
where the constants say so.

### TaskLife: what the worker promises

The abstract specification: a topic, a number of retired messages, a status per task and
the tasks that were ever brought to an end. First attempts follow the order of the topic
(`Attempt` needs all messages before its own to be done or junk), an attempt ends with
SUCCESS or FAILED, and a message is retired, for good, when its task and all before it
have ended. `WorkerManager` implements it with `retired <- committed`, `status <- row` and
`ended <- {t : outcome[t] # {}}` (`InOrderAtLeastOnce`): goroutines, queue, map, crashes,
redelivery and failed commits are steps of it or stutter.

### Producer: everybody who pushes to Kafka

`go/common/kafka/producer.go` with the goroutines that call it: `SendInitTasksToFront`
(the starter, with its loop that repeats a failed push), `SendTaskToFront` (which keeps
the manager's mutex until the report is there), single pushes (`SendTaskProgressToFront`,
calls of the API server) and `ListenKafka`, which needs the mutex. librdkafka is a
queue of messages and the channel `Events()`; `Deliver` answers any queued message, well
or not, and `BrokerError` puts a `kafka.Error` on the channel. `Take` takes whatever
event is next, and takes an error for a success, as `GetDeliveryReports` does. `sync =
FALSE` is the API server, where nobody reads the channel.

| code | action |
|---|---|
| producer.go:26-41 `Push` | `Produce`, `ProduceFails` |
| producer.go:43-59 `GetDeliveryReports` | `Take` |
| worker_manager.go:99-123 the loop and its `i--` | `ReadTask`, `Return` |
| worker_manager.go:309-338 | `LockFront`, then the push, then `Return` |
| worker_manager.go:80-83 | `PullTask`, `AppendTask` |

### ApiServer: models, groups and tasks

Calls run at the same time, a statement a step. Reads go to `mc.DB` and see what is
committed (the tests of names, the groups to extend); writes belong to the transaction
(`pend`) and lock their row or name, and a second writer waits, times out or is the
victim of a deadlock (`WriteFails`). `seen` is a group as the call read it, which is what
it writes back. `UpdateModelTypes` gets its groups from the console's dialog
(`OpenDialog`), so they may be old; a group that was deselected there is not sent, and
goes on listing the model, which is why `TagsAreListed` (half of `GroupsMatchModels`) is
stated in one direction. When
`Commit` reports an error the transaction may have been committed all the same (`unsure`).
`Die` is the end of the process, also by the nil dereference after a failed read
(`GroupPanic`). `sent` is what the producer accepted; delivery is the matter of
`Producer`, and a crash or a failed delivery afterwards loses the message. A classify
task's row and messages carry different ids (apiserver.go:63-80).

### Catalogue: what the calls on models promise

The abstract specification of `AddModel` and `UpdateModelTypes`: groups, the models they
list, names, tags, and the topics that two calls had in hand at once. `Register` gives a
model a free name and `Assign` finds it there; both `Enter` it into a non-empty set of
groups and make these its tags, in one step. A group outside `raced` gets exactly the
model added; one inside may have lost others, but lists the new one and only models that
have a row. `ApiServer` implements it (`CallsAreAtomic`) under the identity mapping: reads
outside the transaction, statements, locks, rollbacks, dialogs, errors and crashes stutter,
a commit is the step.

### Pipeline: from frames to a summary

`GetOutputSummary` with the `Forward` of the pipelines. What networks put out is
arbitrary, and kept as history (`net`) for the properties to compare with. `Classify`
with `Argmax` (equal values in any order) or thresholds, `Sorted` and `MergeStep` for
`ApplyNMS` step by step, `LabelStep` for the table. `Overlap` is the formula of
math_util.h:36-40, which takes the larger right end, so boxes far apart overlap.
`YoloPipe` never sets its batch size: every size is tried, and zero ends the process.
Scores and coordinates are small integers, since the code only adds, multiplies and
compares them here; the arithmetic of `RegionLayer` and the scaling of the boxes are not
there.

## Runs

| run | checks |
|---|---|
| `channel` | 3 threads, 2 slots, 2 items, weak fairness for each thread and its timer. Three threads put two waiters of one kind, or one of each kind, beside one that is awake, which may act twice before the one it woke has run; two slots allow an item and a free slot at once; two items make the order visible. That more threads bring nothing new is not taken for granted: all of these properties but `CallsReturn` are proved for any number. `Atomic` is the refinement of `ChannelSpec`. |
| `channel_closed` | finding, below: 2 threads, 1 slot |
| `core` | 2 calls of any kind, up to 2 videos in a summary stream; videos of up to 3 frames over a channel of 1, batches of 2, responses of 2 batches: full and partial batches, a response that ends inside a batch, frames missing, surplus ones that fit and ones that do not, none at all, exceptions early and late, videos that do not open at first or again, clients that go away |
| `core_overlap`, `core_abort` | findings, below |
| `worker_safety` | 2 messages out of two tasks and junk, one start, one stop, one crash, failing MySQL and commits; `OnlyAStartResumes` says what may end a stop; `InOrderAtLeastOnce` is the refinement of `TaskLife` |
| `worker_live` | 2 messages of one task or junk, one start, one stop, one crash, failing commits: a stop may come before or after the commit of the start, and before or after the last crash |
| `worker_third_start`, `worker_stop_start` | findings |
| `api` | 2 calls of any kind, two groups and one that may be created, two new names and an old one; lists of one or two groups in both orders, a new group alone, first or twice; tasks for one or more groups, `asked` keeping which; errors of MySQL and Kafka anywhere, one crash; `CallsAreAtomic` is the refinement of `Catalogue`. Two calls are the least that lose an update, wait for each other, or meet at a name |
| `producer` | the starter with 2 messages, one `SendTaskToFront`, two single pushes; both modes, one failed delivery, one `kafka.Error`, room for 2 messages and 1 event, so that in the worker queue and channel are full at times and three goroutines can wait at once; the two pushes of the API server do not fill both |
| `pipeline` | up to 3 frames in batches of 2 (a full and a partial batch), the three pipelines, both ways to choose classes, equal values, equal scores, chains of boxes that drop each other, boxes below the threshold |

Deadlock checking is off everywhere: clients may stop calling, all threads of a channel
may be blocked in `Put`, the environment need not publish, and calls, goroutines and
videos come to an end.

Some conditions in the properties name what the code gives up. `NoClientGone`: when
`Write` fails, `AnnotateVideoSummary` returns without joining the decode thread
(main.cpp:145-148), so `NoUseAfterFree` and the last part of `FlagTellsTruth` are
claimed for runs without that. `NoBadSummary`: a summary with an empty or unreadable address returns
with the flag down (main.cpp:127-133). `Healthy` in `HealthyVideoEnds`: `AnnotateVideo`
spins for ever when frames are missing, waits for ever when the video does not open
again, and `Join` hangs when more frames are left than the channel holds.
That this list is complete is proved (`CoreJoins`): no other call gets past `Join`.
`worker_safety` has a single start, because `NoTaskLost` fails with two
(`worker_stop_start`); `NothingLost` proves it with one, and with any number when there
is no stop. `crossed` in `OwnReport` and
`InitTasksDelivered`: two goroutines that wait at once, or a `kafka.Error`, and the
reports no longer belong to those who take them. `raced` in `TagsAreListed` and `Catalogue`: a group that
two calls worked on at once, where one writes back what it read before the other's
commit. The exception in `LocksReleased`: a failed `UpdateModelTypes` keeps its locks.

Bounds (all named constants): `MaxVideos`, `MaxMessages`, `MaxStarts`, `MaxStops`,
`MaxBoots`, `MaxFails`, `MaxErrors`, `MaxCrashes`, `MaxFrames`. A duplicate needs two messages, a race on `Restart` one start and one stop,
recovery one crash.

### Fairness

Threads and goroutines that can run do run (weak fairness); a timer fires; the client
of a summary stream sends its videos and ends the stream. The listener polls three
topics through one consumer, whose queue serves none of them at the cost of another:
strong fairness for each of the three kinds of message. Rows get inserted and a start
is sent sooner or later. Publishing, stopping, crashing and failing are not fair: they
need not happen. `TasksFinish` holds for behaviours in which the worker is not stopped
and not left waiting for a start: the start that was committed before a crash does not
come again. `StopSticks` is about a worker that has read the last start and is halted, by
a stop or for want of a start: it attempts nothing more, if that start is committed or no
crash follows. Otherwise the start is delivered again after the crash and ends the stop,
even a committed one; a stop alone promises no more than that. In `Producer` goroutines run when they can, a message is answered or times
out (librdkafka's `message.timeout.ms`), and a mutex that is free is given to someone who
waits: Go's mutex hands over to a waiter that starves, and the pushers, which come and go
a bounded number of times, cannot keep it for ever. Failed deliveries and errors are
bounded, so the starter's loop ends; with failures for ever it does not
(the comment at worker_manager.go:112 says as much).

### Findings

* `channel_closed` - "no more element will be added into channel" (channel.h:94): a thread
  has called `Put`, another closes the channel, and the `Put` then takes the lock and adds
  its element (channel.h:29; "TODO CHECK closed_", 22 and 36).
* `core_overlap` - `available_` is tested at main.cpp:69 and set at 90, with the opening
  of the video in between. Two calls of `AnnotateVideo` pass the test, each makes its
  decoder and opens its video, each sets the flag: both have the core, with one `decoder_`
  for the two, that of the second to make it.
* `core_abort` - the test for an exception (main.cpp:104) comes after a loop that ends
  only when all announced frames are out (handler.cpp:28).
* `worker_third_start` - `StartChan` has room for one and is received from once: the
  third start blocks the listener for ever (worker_manager.go:52, 127).
* `worker_stop_start` - a stop seen at worker_manager.go:216 and a start before 169: the
  nil of `AnnotateVideo` counts as success, and a task that was never annotated is
  committed and stays RUNNING.

### Mutants

Each property has a fault of the code, written beside the definition it replaces
(section "Plausible faults" of each module), that breaks it.

## Proofs

`ChannelProofs` proves for every set of threads, items and capacity:

* `TypeCorrect` - `Spec => []TypeOK`.
* `SlotWakeups` - `Spec => []NoLostSlot`. The invariant counts: while a putter sleeps,
  the free slots are no more than the awake putters. It is inductive with the types:
  taking an item frees a slot and notifies one sleeping putter, which becomes awake; a
  putter that passes uses up one slot and one awake putter, or none was owed to it; a
  putter goes to sleep only when the queue is full (`PutWaitFull`).
* `ItemWakeups` - `Spec => []NoLostItem`, the mirror image for items and getters.
* `CloseReachesEveryGet` - `Spec => []NoGetSleepsOnClosed`.
* `Linearizable` - `Spec => Atomic`: each step is one operation of `ChannelSpec` or a
  stutter, under the identity mapping on queue, flag and calls.

* `NoStandstill` - where nobody is awake to act, who sleeps for a slot faces a full queue
  and who sleeps for an item an empty one (`SleepForAReason`), so the two kinds never
  sleep with everybody else asleep. It follows from the two counts, since the capacity is
  positive: the reason why one `notify_one` for each item is enough.

The counting rests on lemmas about cardinalities of the sets of awake threads
(`AwakeFinite`, `MoreAwake`, `OneLess`, `OneMore`, `NotifyOne`). Assumed: the capacity is
a positive number, `NoItem` is not an item, the threads are finitely many.

`WorkerProofs` proves for any number of tasks, messages, stops and crashes, with failing
writes and commits:

* `TypesHold` and `QueueAgrees` - `Spec => []TypeOK` and `Spec => []QueueMatchesMap`. Queue
  and map agree because (`QueueInv`) the message in hand is the last one pulled, every
  queued message came before it, its task is still not in the map when it is appended, and
  the head of the queue is the message in work, so `RemoveFirstTask` takes the same task
  from both. That nothing in the queue is committed, but for the head between `AckTask` and
  `RemoveFirstTask`, is `Ahead`: the committed offset is behind the consumer, the message
  in hand and the queue, and only its commit takes it to the head.
  `AppendKeeps` and `RemoveKeeps` are the two steps that matter. That the map is
  tested without the mutex costs nothing here, because only one goroutine adds to it; where
  the Go runtime notices the race it ends the process, which is `Crash`.
* `NothingLost` - if at most one start is ever published, or no stop (`Unmixed`),
  `Spec => []NoTaskLost`. `NoTaskLost` alone is not inductive; it needs `Covered` (each
  pulled message is of a task that is done, or in the queue no later than this message, or
  in hand), `DoneInv` (a task about to be committed was brought to SUCCESS or FAILED) and
  `StartInv` and `StopInv` (a worker past its start has read one, and one that is stopped
  has read a stop, so no start can clear `Restart` while a task is in work:
  `ClearedEarly`). `CommitStep` is the heart: the committed message is the head,
  so whatever comes before it is covered only by being done. Offsets may be committed
  anew after a crash, and even go back; the argument does not need them to grow. The
  hypothesis is needed: with a stop and a second start the run `worker_stop_start` loses a
  task.
* `NoTaskForgotten` - under the same hypothesis: while a published task has never had a
  final status, and the worker is started, not stopped, not blocked in `StartChan` and
  finds the rows, a step of the listener or of `CheckInference` can be taken. `Covered`
  does it: the task is still to be pulled, in hand, or behind the head of the queue.
  This is the safety half of `TasksFinish`.
* `TwoStartsNeverBlock` - without a hypothesis: the listener is blocked for good only when
  three starts were read. `StartInv` counts the starts that a worker can hold at once, in
  the listener's hand, in the channel and past the one receive; `worker_third_start` shows
  that three do block it, so the finding is exact.

* `ResultsBeforeCommit` and `RunningComesAgain` - `CommittedHasResults` and
  `RunningIsRetried`, again under `Unmixed`. `Settled` says of a task about to be
  committed that its last status is final and, after a success, that its results are in;
  `CommittedSettled` keeps that for all committed messages; `DeliveryInv` and `RowInv` tie
  the status column to the history, `Ahead` (above) keeps the task in work out of the
  committed ones, and `Retried` is the property over the task in work and those to come.
* `StaysHalted` - `Spec => OnlyAStartResumes`, without a hypothesis. A worker that is
  stopped, or waits for a start, goes on only by reading one; a crash makes Kafka deliver
  again what is not committed, and starts are committed in the order they are read, never
  before (`StartsRead`), so with all of them committed there is none to deliver.
* `ImplementsTaskLife` - `Spec => InOrderAtLeastOnce` under `Unmixed`. The steps
  that do not stutter are `Publish`, `InsertRow`, `Begin` (an `Attempt`, since `Covered`
  makes everything before the head of the queue done), the two status updates (`End`)
  and the commit (`Retire`).

Assumed: at least one task is displayed, the bounds are naturals, a message that does not
parse is not a task.

`ProducerProofs` proves for any finite set of goroutines, any `display_num` and
capacities, and any number of failures:

* `ProducerTypes` - the types; a starter that is not over has messages left to push.
* `ReportsBalance` - `Balance`: a synchronous push adds a message and a waiter, `Deliver`
  turns a message into an event, `Take` removes an event and a waiter; only `kafka.Error`
  events come from nowhere. So a waiter always has a report to come, which is what
  `PushReturns` rests on.
* `ReportsMatch` and `FirstTasksDelivered` - `OwnReport` and `InitTasksDelivered`. The
  invariant adds: as long as nothing was crossed, at most one goroutine waits and what is
  in queue and channel is its own message (`Mine`); what was reported as delivered was
  (`Reported`), and so were the starter's messages up to its loop counter (`Counted`).
* `PushersNeverStuck` - while a goroutine has not returned, or the listener wants the
  mutex, one of the goroutines has a step or the broker can answer. `Balance` gives a
  waiter a message or a report, and `Held` says that the holder of the mutex is in its
  push or waits, never at a lock. It is what `PushReturns` and `ListenerGetsMutex` rest
  on, for any number of goroutines, whichever took the other's report.

`ApiProofs` proves for any calls, topics, names and lists, with errors of MySQL and Kafka
and a crash anywhere:

* `ApiTypes`, `GroupsAndModelsAgree`, `AddIsAtomic`, `OnlyFailedUpdatesLeak` and
  `RowsHaveMessages` - the invariants of the run `api`, as parts of one invariant
  (`ApiInv`). Its heart is `Locking`: a call that has written a group, or found it missing
  and inserted it, holds its lock. So what it has read or found missing stays as it is
  until its own commit, unless another call committed between the read and the lock, and
  then the group is in `raced` (`Fresh`, `Written`). A model gets its row, its groups and
  its tags in the same step (`Late`), and only `Commit` changes groups and models
  (`OnlyCommit`); a rollback therefore leaves nothing. Of the calls that create tasks it
  says (`RowAndMessages`) that each group that was asked for (`asked`, history) has its
  message or is still in the loop's list, that `CreateTask` inserts its row when the list
  is empty, and `CreateClassifyTask` before the first message.
* `ImplementsCatalogue` - `Spec => CallsAreAtomic`. Every step but `Commit` stutters; a
  `Commit` is a `Register` or an `Assign` (`CommitIsOneStep`). That a group outside
  `raced` gets exactly the model added (`CommitEnters`) needs `Fresh` for a group that was
  read and, for one that was inserted, that it was absent and so empty. That the name is
  still free at the commit is in `Locking`: `InsertModel` holds it.

`InferProofs` proves for any calls, videos, capacity and batch sizes:

* `CoreOneVideo`, `CoreMemory`, `CoreFlag`, `CoreAborts` and `CoreTypes` -
  `~Overlap => (Spec => []P)` for `OneVideoAtATime`, `NoUseAfterFree`, `FlagTellsTruth`,
  `AbortReported` and `TypeOK`. The hypothesis is that no call tests
  the flag while another is between its test and its assignment; without it the run
  `core_overlap` refutes `FlagKeepsOthersOut`, the first half of the first of them. The invariant (`CoreInv`): at most one call is
  past the test (`Alone`), and the flag is down once it has set it (`Flag`); so `decoder_`
  and `handler_` are those this call made (`Own`), each decoder is run once (`Unused`),
  and a decode thread that runs is one its call will join (`Joined`), unless a client has
  gone away. A thread that has ended has noted its exception, and a call past `Join` goes
  where that note sends it (`Noted`, `Verdict`). `Counting` bounds channel and handler: a
  batch asks for no more frames than are missing.

`AnswerProofs` goes on from there:

* `CoreAnswers` - `~Overlap => (Spec => []ResponsesComplete)`. The invariant (`AnswerInv`)
  adds, of every decode thread, that the frames taken and those in the channel are what it
  has put, in order (`Fed`); of every call, that what it has written and is about to write
  is what was taken (`Answered`); and of a summary, that a batch falls short of its frames
  only when the thread has ended and the channel is empty (`OnTrack`, `Drained`). That the
  batches counted by `SetVideoMeta` are enough for all announced frames is a lemma about
  division (`EnoughBatches`).

`ProgressProofs` is about calls that come to an end, under the same hypothesis and for any
calls, videos, capacity and batch sizes. `HealthyVideoEnds` itself is a leads-to under
fairness and stays with TLC; proved is all it rests on that is not about fairness:

* `CoreJoins` - `JoinMeansHealthy`: a call past `Join` is on a healthy video, so `Healthy`
  in the liveness property could not be wider. The invariant (`ProgressInv`) says when the
  channel is closed and by whom (`Ends`): a thread that could not open its video again
  leaves it open, and the call then sits in its first `Get` (`Silent`).
* `CoreNeverStuck` - `NeverStuck`: while a call is at work, it or its decode thread has a
  step, if the video opens again and leaves no more frames than the channel holds. The
  frames taken and those in the channel are the frames put (`Fed`), so when the call has
  taken the announced ones the rest fits (`JoinServed`), and a call that waits for a frame
  has an open channel whose thread still decodes (`GetServed`).
* `CoreProgresses` - `HealthyProgresses`, an action property: each step of the call or of
  its thread makes `Work` less in the lexicographic order of five numbers, and no step of
  other calls changes it. `Looping` is what the nested loops of `GetOutput` need: batches
  are counted up to their number, and a response takes at least one frame, so the outer
  loop does not turn for nothing. On a video with missing frames it does, for ever, which
  is why the hypothesis `Healthy` is there.
* `NoEndlessWork` - this order is well-founded. With the two theorems above, a call on a
  healthy video can go on, and cannot go on for ever; that it does go on is fairness, the
  part that needs `ENABLED` and is left to TLC.

`PipelineProofs` proves for any networks, labels, thresholds and boxes, any batch size and
any length of a video:

* `BoxesMerged` - `Spec => []MergedWell`: boxes that are left are apart, and those dropped
  are over the threshold of one that is left and no worse. The loop
  of `ApplyNMS` has the invariants `Apart` (the boxes before `i` that are left are apart
  from all that are left) and `Covered` (a dropped box is over the threshold of an earlier
  one before `i` that is left). A box cannot be dropped once the loop has passed it, which
  is why `Covered` is kept; `Descending` makes the earlier one the better.
* `FramesKeepResults` - `Spec => []ResultsOfOwnFrame`. `Written` counts the metadata off
  against the frames that are through (one or two for each), `Sources` says that what is
  merged and what is being merged are good boxes of the frames of the batch in turn, and
  `Flow` which frames these are. What is said of a frame depends only on its own entry of
  `net`, which later batches leave alone (`OwnStays`).
* `BestOfEachLabel` - `Spec => []SummaryIsBest`. While the loops run, each entry of the
  table is that of a detail they have seen (`EntriesSeen`) and none of those is better
  (`Bests`); that the first frame wins among equals needs that frames only ascend
  (`FramesAscend`).
* `PipelineTypes` - `Spec => []TypeOK`.

Only model-checked: everything under fairness (`CallsReturn`, `HealthyVideoEnds`,
`TasksFinish`, `StopSticks`, `PushReturns`, `ListenerGetsMutex`),
and the findings, which are counterexamples.

## Not modelled, and why

* What the networks compute, image preparation, the arithmetic of `RegionLayer`, GPU
  buffers and floating point: nothing that states and steps say something about.
* Several workers of one consumer group: the wrapper neither handles nor notices a
  rebalance, and `librdkafka`'s protocol is not part of this code.
* The paged queries and other reads of the API server and the MySQL layer: they change
  nothing.
* The demo pages (`TaskList.vue`, `TaskMap.vue`): the server's `/ws` handler uses a
  consumer that is commented out (index.js:26, 135), so no message reaches them; the
  processes forked for live summaries are clients of the core, which `InferCore` has.
* `init_demo`: one thread, and calls of the MySQL layer with signatures it no longer has.
* Protocol definitions, forms of the web console, scripts: no state that actors share.
* Vendored and generated headers (`cuda.h`, `cuda_runtime_api.h`, two copies of
  `NvInfer.h`, `*.pb.h`): about 58,000 of the 61,000 lines of the repository's C, C++ and
  Go. They declare types and functions, and the share of the code that the modules
  stand for is to be read against the remaining 3,000.

## Plan

1. Channel, WorkerManager, InferCore (done).
2. TaskLife and its refinement; Producer, ApiServer and Pipeline (done).
3. Proofs for Channel, WorkerManager and Producer (done).
4. Proofs for ApiServer and for InferCore without overlapping tests (done).
5. Proofs for Pipeline (done).
6. What liveness rests on, for the core, the worker, the producer and the channel; the
   API server as an implementation of Catalogue (done).
7. Left: the demo pages, should their server relay messages again; the loops of Pipeline
   as a descent, as ProgressProofs does for the core.
