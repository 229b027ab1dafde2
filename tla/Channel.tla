------------------------------- MODULE Channel -------------------------------
(***************************************************************************)
(* Channel<T> of src/cpp/common/channel.h: a mutex, two condition          *)
(* variables and a std::queue.  An action is one critical section: from    *)
(* the lock (or from the wakeup that takes it again) to the wait or the    *)
(* return that releases it.  A condition variable is the set of threads    *)
(* blocked on it; notify_one wakes any one of them, a waiter may also wake *)
(* spuriously, and the deadline of a timed wait may pass at any moment.    *)
(***************************************************************************)
EXTENDS Naturals, Sequences, FiniteSets

CONSTANTS Threads,    \* the client threads
          Items,      \* the values of the element type T
          NoItem,     \* "no element": what a failed Get leaves in *item
          Capacity    \* constructor argument

ASSUME CapacityAssumption == Capacity \in Nat \ {0}
ASSUME NoItemAssumption == NoItem \notin Items
ASSUME ThreadsAssumption == IsFiniteSet(Threads)

VARIABLES queue,      \* queue_, oldest element first
          closed,     \* closed_
          op,         \* the call a thread is in, or "none"
          arg,        \* the element a thread is putting, or NoItem
          result,     \* what the last completed call of a thread returned
          phase       \* where a thread is inside its call

callVars == <<queue, closed, op, arg, result>>
vars == <<queue, closed, op, arg, result, phase>>

PutOps == {"Put", "PutWithTimeout"}
GetOps == {"Get", "GetWithTimeout"}
TimedOps == {"PutWithTimeout", "GetWithTimeout"}
Ops == PutOps \cup GetOps \cup {"none"}

\* "ret" is the C++ return value (TRUE for the void Put); an "item" other than
\* NoItem is the element handed out, i.e. got_item of GetWithTimeout.
Results == [ret : BOOLEAN, item : Items \cup {NoItem}]
NoResult == [ret |-> TRUE, item |-> NoItem]

\* Fault: one element too many.
FullOffByOne == Len(queue) > Capacity

Full == Len(queue) >= Capacity
Empty == queue = <<>>

\* outside: no call.  entering: called, has not taken the lock yet.
\* waiting: blocked on a condition variable.  woken: notified (or spurious),
\* has to take the lock and look again.  expired: its wait_for timed out.
Phases == {"outside", "entering", "waiting", "woken", "expired"}
Awake == {"woken", "expired"}

SlotWaiters == {t \in Threads : op[t] \in PutOps /\ phase[t] = "waiting"}
ItemWaiters == {t \in Threads : op[t] \in GetOps /\ phase[t] = "waiting"}
AwakePutters == {t \in Threads : op[t] \in PutOps /\ phase[t] \in Awake}
AwakeGetters == {t \in Threads : op[t] \in GetOps /\ phase[t] \in Awake}

Init == /\ queue = <<>>
        /\ closed = FALSE
        /\ op = [t \in Threads |-> "none"]
        /\ arg = [t \in Threads |-> NoItem]
        /\ result = [t \in Threads |-> NoResult]
        /\ phase = [t \in Threads |-> "outside"]

\* A client calls an operation; it still has to take the mutex.
Call(t) == /\ op[t] = "none"
           /\ \/ \E o \in PutOps, x \in Items : /\ op' = [op EXCEPT ![t] = o]
                                                /\ arg' = [arg EXCEPT ![t] = x]
              \/ \E o \in GetOps : op' = [op EXCEPT ![t] = o] /\ UNCHANGED arg
           /\ result' = [result EXCEPT ![t] = NoResult]
           /\ phase' = [phase EXCEPT ![t] = "entering"]
           /\ UNCHANGED <<queue, closed>>

\* t blocks on the condition variable of its operation and frees the mutex.
Wait(t) == /\ phase' = [phase EXCEPT ![t] = "waiting"]
           /\ UNCHANGED callVars

\* The call of t returns r, with element x.
Return(t, r, x) == /\ op' = [op EXCEPT ![t] = "none"]
                   /\ arg' = [arg EXCEPT ![t] = NoItem]
                   /\ result' = [result EXCEPT ![t] = [ret |-> r, item |-> x]]

Leave(t) == phase' = [phase EXCEPT ![t] = "outside"]

\* t leaves and notify_one wakes one thread of W, if there is any.
LeaveNotifyingOne(t, W) ==
  IF W = {} THEN Leave(t)
  ELSE \E w \in W : phase' = [phase EXCEPT ![t] = "outside", ![w] = "woken"]

\* Faults of the wait loops; the others follow below.

\* The wait loop of Get tests the queue only.
GetPassesIgnoringClose(t) == \/ phase[t] = "entering" /\ ~Empty
                             \/ phase[t] = "woken" /\ ~Empty
                             \/ phase[t] = "expired"

\* Get waits with an if instead of a while.
GetPassesOnce(t) == \/ phase[t] = "entering" /\ (~Empty \/ closed)
                    \/ phase[t] \in {"woken", "expired"}

\* The wait of a putter is over: there is a slot, or its deadline has passed.
\* closed is never looked at.
PutPasses(t) == \/ phase[t] \in {"entering", "woken"} /\ ~Full
                \/ phase[t] = "expired"

\* The wait of a getter is over.  GetWithTimeout looks at closed once, on entry:
\* the predicate of its wait_for is "not empty" alone, so a wakeup by Close
\* sends it back to wait for its deadline.
GetPasses(t) == \/ phase[t] = "entering" /\ (~Empty \/ closed)
                \/ phase[t] = "woken" /\ (~Empty \/ (closed /\ op[t] = "Get"))
                \/ phase[t] = "expired"

-----------------------------------------------------------------------------
\* Plausible faults of the critical sections.

\* Get forgets to notify a waiting producer.
GetItemSilent(t) == /\ op[t] \in GetOps /\ GetPasses(t) /\ ~Empty
                    /\ queue' = Tail(queue)
                    /\ Return(t, TRUE, Head(queue))
                    /\ Leave(t)
                    /\ UNCHANGED closed

\* Put notifies only when the queue was empty, a well-known wrong optimisation.
PutItemNotifyFirst(t) == /\ op[t] \in PutOps /\ PutPasses(t) /\ ~Full
                         /\ queue' = Append(queue, arg[t])
                         /\ Return(t, TRUE, NoItem)
                         /\ IF Empty THEN LeaveNotifyingOne(t, ItemWaiters)
                            ELSE Leave(t)
                         /\ UNCHANGED closed

\* Close sets the flag and notifies nobody.
CloseSilent(t) == /\ op[t] = "none"
                  /\ closed' = TRUE
                  /\ UNCHANGED <<queue, op, arg, result, phase>>

-----------------------------------------------------------------------------
PutItem(t) == /\ op[t] \in PutOps
              /\ PutPasses(t)
              /\ ~Full
              /\ queue' = Append(queue, arg[t])
              /\ Return(t, TRUE, NoItem)
              /\ LeaveNotifyingOne(t, ItemWaiters)
              /\ UNCHANGED closed

PutNothing(t) == /\ op[t] \in PutOps
                 /\ PutPasses(t)
                 /\ Full
                 /\ Return(t, FALSE, NoItem)
                 /\ Leave(t)
                 /\ UNCHANGED <<queue, closed>>

PutWait(t) == /\ op[t] \in PutOps
              /\ phase[t] \in {"entering", "woken", "expired"}
              /\ ~PutPasses(t)
              /\ Wait(t)

GetItem(t) == /\ op[t] \in GetOps
              /\ GetPasses(t)
              /\ ~Empty
              /\ queue' = Tail(queue)
              /\ Return(t, TRUE, Head(queue))
              /\ LeaveNotifyingOne(t, SlotWaiters)
              /\ UNCHANGED closed

GetNothing(t) == /\ op[t] \in GetOps
                 /\ GetPasses(t)
                 /\ Empty
                 /\ Return(t, op[t] = "GetWithTimeout" /\ ~closed, NoItem)
                 /\ Leave(t)
                 /\ UNCHANGED <<queue, closed>>

GetWait(t) == /\ op[t] \in GetOps
              /\ phase[t] \in {"entering", "woken", "expired"}
              /\ ~GetPasses(t)
              /\ Wait(t)

\* Close wakes every thread that waits for an element, none that waits for a
\* slot.  It returns at once, so it is not a call a thread can be in.
Close(t) == /\ op[t] = "none"
            /\ closed' = TRUE
            /\ phase' = [w \in Threads |->
                           IF w \in ItemWaiters THEN "woken" ELSE phase[w]]
            /\ UNCHANGED <<queue, op, arg, result>>

SpuriousWakeup(t) == /\ phase[t] = "waiting"
                     /\ phase' = [phase EXCEPT ![t] = "woken"]
                     /\ UNCHANGED callVars

Timeout(t) == /\ op[t] \in TimedOps
              /\ phase[t] \in {"waiting", "woken"}
              /\ phase' = [phase EXCEPT ![t] = "expired"]
              /\ UNCHANGED callVars

\* What t does on its own once it is scheduled and gets the mutex.
Step(t) == \/ PutItem(t) \/ PutNothing(t) \/ PutWait(t)
           \/ GetItem(t) \/ GetNothing(t) \/ GetWait(t)

Next == \E t \in Threads :
          Call(t) \/ Step(t) \/ Close(t) \/ SpuriousWakeup(t) \/ Timeout(t)

Spec == Init /\ [][Next]_vars

\* A runnable thread gets the mutex and runs; a timer fires.  No thread has to
\* call anything, and no wakeup is spurious for a reason.
Fairness == \A t \in Threads : WF_vars(Step(t)) /\ WF_vars(Timeout(t))

FairSpec == Spec /\ Fairness

-----------------------------------------------------------------------------
\* Type invariant: the channel never holds more than its capacity and a thread
\* is inside a wait only for a call that waits.
TypeOK == /\ queue \in Seq(Items) /\ Len(queue) <= Capacity
          /\ closed \in BOOLEAN
          /\ op \in [Threads -> Ops]
          /\ arg \in [Threads -> Items \cup {NoItem}]
          /\ \A t \in Threads : (arg[t] \in Items) <=> (op[t] \in PutOps)
          /\ result \in [Threads -> Results]
          /\ phase \in [Threads -> Phases]
          /\ \A t \in Threads : /\ (phase[t] = "outside") <=> (op[t] = "none")
                                /\ phase[t] = "expired" => op[t] \in TimedOps

\* No wakeup for a slot is lost: while a thread sleeps for a slot, every free
\* slot has a thread already awake that will take it or find it taken.  This is
\* what the single notify_one of Get (channel.h:65) has to guarantee although
\* newcomers may overtake the thread it wakes.
NoLostSlot == SlotWaiters # {} =>
                Len(queue) + Cardinality(AwakePutters) >= Capacity

\* No wakeup for an element is lost: while a thread sleeps for an element, every
\* element in the queue has a getter already awake for it (notify_one of Put,
\* channel.h:31), timed and untimed getters mixed.
NoLostItem == ItemWaiters # {} => Len(queue) <= Cardinality(AwakeGetters)

\* Close reaches every plain Get: once the channel is closed no Get sleeps, nor
\* will one go to sleep, so that a consumer cannot miss the end of the input
\* however Close interleaves with its test of closed_ (channel.h:57, 97).
NoGetSleepsOnClosed ==
  closed => \A t \in ItemWaiters : op[t] = "GetWithTimeout"

\* The locks and condition variables implement the atomic channel: elements come
\* out once, in the order they went in; a Get fails only on a closed channel that is
\* drained at that instant; a timed call gives up only when it could not have succeeded.
\* A Put is not stopped by Close: see NothingAddedOnceClosed.
Abstract == INSTANCE ChannelSpec
Atomic == Abstract!AtomicChannel

\* A Get that is in progress when the channel is closed, or starts later, returns, with an
\* element or with the end of the input; a timed call returns whatever the other threads
\* do (channel.h:35-99).
CallsReturn ==
  \A t \in Threads : (op[t] \in TimedOps \/ (closed /\ op[t] = "Get")) ~> (op[t] = "none")

-----------------------------------------------------------------------------
\* What a comment says and the code does not do.  "Close this channel, no more element
\* will be added into channel." (channel.h:94): a Put that waits for a slot, or comes
\* later, adds its element to the closed channel (the test is left as "TODO CHECK
\* closed_", channel.h:22, 36), after a Get may have reported the end of the input.
NothingAddedOnceClosed == [][closed => Len(queue') <= Len(queue)]_vars

=============================================================================
