----------------------------- MODULE ChannelSpec -----------------------------
(***************************************************************************)
(* What Channel<T> (src/cpp/common/channel.h) promises its clients: a      *)
(* bounded FIFO that can be closed, every operation of which takes effect  *)
(* atomically at one instant between its call and its return.  Nothing is  *)
(* said of locks, condition variables or timers: Channel implements this.  *)
(* One step, PushLate, is no promise: the code is shown to need it.        *)
(***************************************************************************)
EXTENDS Naturals, Sequences

CONSTANTS Threads,    \* the client threads
          Items,      \* the values of the element type T
          NoItem,     \* "no element": what a failed Get leaves in *item
          Capacity    \* constructor argument

VARIABLES queue,      \* the elements, oldest first
          closed,
          op,         \* [Threads -> Ops]: the call a thread is in, or "none"
          arg,        \* the element a thread is putting, or NoItem
          result      \* what the last completed call of a thread returned

specVars == <<queue, closed, op, arg, result>>

PutOps == {"Put", "PutWithTimeout"}
GetOps == {"Get", "GetWithTimeout"}
TimedOps == {"PutWithTimeout", "GetWithTimeout"}
Ops == PutOps \cup GetOps \cup {"none"}

\* "ret" is the C++ return value (TRUE for the void Put); an "item" other than
\* NoItem is the element handed out, i.e. got_item of GetWithTimeout.
Results == [ret : BOOLEAN, item : Items \cup {NoItem}]

NoResult == [ret |-> TRUE, item |-> NoItem]

Full == Len(queue) >= Capacity
Empty == queue = <<>>

SpecInit == /\ queue = <<>>
            /\ closed = FALSE
            /\ op = [t \in Threads |-> "none"]
            /\ arg = [t \in Threads |-> NoItem]
            /\ result = [t \in Threads |-> NoResult]

\* The call begins; nothing has happened to the channel yet.
Begin(t, o, x) == /\ op[t] = "none"
                  /\ op' = [op EXCEPT ![t] = o]
                  /\ arg' = [arg EXCEPT ![t] = x]
                  /\ result' = [result EXCEPT ![t] = NoResult]
                  /\ UNCHANGED <<queue, closed>>

\* The call of t ends and returns r, with element x.
Finish(t, r, x) == /\ op' = [op EXCEPT ![t] = "none"]
                   /\ arg' = [arg EXCEPT ![t] = NoItem]
                   /\ result' = [result EXCEPT ![t] = [ret |-> r, item |-> x]]

Add(t) == /\ op[t] \in PutOps
          /\ ~Full
          /\ queue' = Append(queue, arg[t])
          /\ Finish(t, TRUE, NoItem)
          /\ UNCHANGED closed

Push(t) == ~closed /\ Add(t)

\* Not a promise but what the code does against one: channel.h:94 says that no element
\* is added to a closed channel, and Put never looks at closed_ (channel.h:22, 36).
\* Channel.NothingAddedOnceClosed states the comment and is refuted.
PushLate(t) == closed /\ Add(t)

RejectPut(t) == /\ op[t] = "PutWithTimeout"
                /\ Full
                /\ Finish(t, FALSE, NoItem)
                /\ UNCHANGED <<queue, closed>>

Pop(t) == /\ op[t] \in GetOps
          /\ ~Empty
          /\ queue' = Tail(queue)
          /\ Finish(t, TRUE, Head(queue))
          /\ UNCHANGED closed

\* A Get may report the end of the input only when the channel is closed AND
\* drained: closing loses no element.
EndOfInput(t) == /\ op[t] \in GetOps
                 /\ Empty
                 /\ closed
                 /\ Finish(t, FALSE, NoItem)
                 /\ UNCHANGED <<queue, closed>>

GiveUp(t) == /\ op[t] = "GetWithTimeout"
             /\ Empty
             /\ ~closed
             /\ Finish(t, TRUE, NoItem)
             /\ UNCHANGED <<queue, closed>>

SetClosed(t) == /\ op[t] = "none"
                /\ closed' = TRUE
                /\ UNCHANGED <<queue, op, arg, result>>

SpecNext == \E t \in Threads :
               \/ \E o \in PutOps, x \in Items : Begin(t, o, x)
               \/ \E o \in GetOps : Begin(t, o, NoItem)
               \/ Push(t) \/ PushLate(t) \/ RejectPut(t)
               \/ Pop(t) \/ EndOfInput(t) \/ GiveUp(t)
               \/ SetClosed(t)

AtomicChannel == SpecInit /\ [][SpecNext]_specVars
=============================================================================
