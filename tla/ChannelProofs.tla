---------------------------- MODULE ChannelProofs ----------------------------
(***************************************************************************)
(* Theorems about Channel for any number of threads, any element type and  *)
(* any capacity: the type invariant, no wakeup of a condition variable is  *)
(* lost, and the lock-based channel implements the atomic one.             *)
(***************************************************************************)
EXTENDS Channel, FiniteSetTheorems, SequenceTheorems, TLAPS

-----------------------------------------------------------------------------
\* The critical section of a call that completes, with whom it notifies: a thread
\* of W at most, which moves from waiting to woken.
LEMMA NotifyOne ==
  ASSUME NEW t \in Threads, NEW W \in SUBSET Threads, t \notin W,
         phase \in [Threads -> Phases], LeaveNotifyingOne(t, W)
  PROVE  \/ W = {} /\ phase' = [phase EXCEPT ![t] = "outside"]
         \/ \E w \in W : /\ w # t
                         /\ phase' = [phase EXCEPT ![t] = "outside", ![w] = "woken"]
BY DEF LeaveNotifyingOne, Leave

\* Channel.TypeOK is preserved by every step of the class.
THEOREM TypeCorrect == Spec => []TypeOK
<1>1. Init => TypeOK
  <2> SUFFICES ASSUME Init PROVE TypeOK
    OBVIOUS
  <2>1. /\ op \in [Threads -> Ops]
        /\ arg \in [Threads -> Items \cup {NoItem}]
        /\ result \in [Threads -> Results]
        /\ phase \in [Threads -> Phases]
    BY DEF Init, Ops, Results, NoResult, Phases
  <2>2. \A t \in Threads : op[t] = "none" /\ arg[t] = NoItem /\ phase[t] = "outside"
    BY DEF Init
  <2>3. /\ queue \in Seq(Items) /\ Len(queue) <= Capacity
        /\ closed \in BOOLEAN
    <3>1. queue = <<>> /\ closed = FALSE
      BY DEF Init
    <3>2. queue \in Seq(Items) /\ Len(queue) = 0
      BY <3>1, EmptySeq
    <3>3. 0 <= Capacity
      BY CapacityAssumption
    <3> QED
      BY <3>1, <3>2, <3>3
  <2> QED
    BY <2>1, <2>2, <2>3, NoItemAssumption DEF TypeOK, PutOps
<1>2. TypeOK /\ [Next]_vars => TypeOK'
  <2> SUFFICES ASSUME TypeOK, [Next]_vars PROVE TypeOK'
    OBVIOUS
  <2> USE CapacityAssumption, NoItemAssumption
  <2>1. CASE UNCHANGED vars
    BY <2>1 DEF TypeOK, vars
  <2>2. ASSUME NEW t \in Threads, Call(t) PROVE TypeOK'
    <3>1. \/ \E o \in PutOps, x \in Items : /\ op' = [op EXCEPT ![t] = o]
                                          /\ arg' = [arg EXCEPT ![t] = x]
          \/ \E o \in GetOps : op' = [op EXCEPT ![t] = o] /\ arg' = arg
      BY <2>2 DEF Call
    <3>4. op[t] = "none"
      BY <2>2 DEF Call
    <3>2. /\ UNCHANGED <<queue, closed>>
          /\ result' = [result EXCEPT ![t] = NoResult]
          /\ phase' = [phase EXCEPT ![t] = "entering"]
      BY <2>2 DEF Call
    <3>3. NoResult \in Results
      BY DEF NoResult, Results
    <3> QED
      BY <3>1, <3>2, <3>3, <3>4 DEF TypeOK, Ops, PutOps, GetOps, TimedOps, Phases
  <2>3. ASSUME NEW t \in Threads, PutItem(t) PROVE TypeOK'
    <3>1. t \notin ItemWaiters /\ ItemWaiters \subseteq Threads
      BY <2>3 DEF PutItem, ItemWaiters, PutOps, GetOps
    <3>2. \/ phase' = [phase EXCEPT ![t] = "outside"]
          \/ \E w \in ItemWaiters :
               w # t /\ phase' = [phase EXCEPT ![t] = "outside", ![w] = "woken"]
      BY <2>3, <3>1, NotifyOne DEF PutItem, TypeOK
    <3>3. queue' \in Seq(Items) /\ Len(queue') <= Capacity
      BY <2>3 DEF TypeOK, PutItem, Full, PutOps
    <3>4. /\ closed' = closed
          /\ op' = [op EXCEPT ![t] = "none"] /\ arg' = [arg EXCEPT ![t] = NoItem]
          /\ result' = [result EXCEPT ![t] = [ret |-> TRUE, item |-> NoItem]]
      BY <2>3 DEF PutItem, Return
    <3> QED
      BY <3>2, <3>3, <3>4
      DEF TypeOK, ItemWaiters, Ops, PutOps, GetOps, TimedOps, Results, Phases
  <2>4. ASSUME NEW t \in Threads, GetItem(t) PROVE TypeOK'
    <3>1. t \notin SlotWaiters /\ SlotWaiters \subseteq Threads
      BY <2>4 DEF GetItem, SlotWaiters, PutOps, GetOps
    <3>2. \/ phase' = [phase EXCEPT ![t] = "outside"]
          \/ \E w \in SlotWaiters :
               w # t /\ phase' = [phase EXCEPT ![t] = "outside", ![w] = "woken"]
      BY <2>4, <3>1, NotifyOne DEF GetItem, TypeOK
    <3>3. /\ queue' \in Seq(Items) /\ Len(queue') <= Capacity
          /\ Head(queue) \in Items
      BY <2>4 DEF TypeOK, GetItem, Empty
    <3>4. /\ closed' = closed
          /\ op' = [op EXCEPT ![t] = "none"] /\ arg' = [arg EXCEPT ![t] = NoItem]
          /\ result' = [result EXCEPT ![t] = [ret |-> TRUE, item |-> Head(queue)]]
      BY <2>4 DEF GetItem, Return
    <3> QED
      BY <3>2, <3>3, <3>4
      DEF TypeOK, SlotWaiters, Ops, PutOps, GetOps, TimedOps, Results, Phases
  <2>5. ASSUME NEW t \in Threads, PutWait(t) \/ GetWait(t) PROVE TypeOK'
    BY <2>5 DEF TypeOK, PutWait, GetWait, Wait, callVars, Ops, PutOps, GetOps, Phases
  <2>6. ASSUME NEW t \in Threads, PutNothing(t) \/ GetNothing(t)
        PROVE TypeOK'
    <3>1. /\ UNCHANGED <<queue, closed>>
          /\ op' = [op EXCEPT ![t] = "none"] /\ arg' = [arg EXCEPT ![t] = NoItem]
          /\ \E r \in BOOLEAN :
               result' = [result EXCEPT ![t] = [ret |-> r, item |-> NoItem]]
          /\ phase' = [phase EXCEPT ![t] = "outside"]
      BY <2>6 DEF PutNothing, GetNothing, Return, Leave
    <3> QED
      BY <3>1 DEF TypeOK, Ops, PutOps, GetOps, TimedOps, Results, Phases
  <2>7. ASSUME NEW t \in Threads, Close(t) PROVE TypeOK'
    BY <2>7 DEF TypeOK, Close, ItemWaiters, Ops, PutOps, GetOps, Phases
  <2>8. ASSUME NEW t \in Threads, SpuriousWakeup(t) \/ Timeout(t) PROVE TypeOK'
    BY <2>8 DEF TypeOK, SpuriousWakeup, Timeout, callVars, Ops, PutOps, GetOps,
                TimedOps, Phases
  <2> QED
    BY <2>1, <2>2, <2>3, <2>4, <2>5, <2>6, <2>7, <2>8 DEF Next, Step
<1> QED
  BY <1>1, <1>2, PTL DEF Spec

-----------------------------------------------------------------------------
\* The sets that the wakeup invariants count are finite, so have a cardinality.
LEMMA AwakeFinite ==
  /\ IsFiniteSet(AwakePutters) /\ Cardinality(AwakePutters) \in Nat
  /\ IsFiniteSet(AwakeGetters) /\ Cardinality(AwakeGetters) \in Nat
<1>1. AwakePutters \subseteq Threads /\ AwakeGetters \subseteq Threads
  BY DEF AwakePutters, AwakeGetters
<1>2. IsFiniteSet(AwakePutters) /\ IsFiniteSet(AwakeGetters)
  BY <1>1, ThreadsAssumption, FS_Subset
<1> QED
  BY <1>2, FS_CardinalityType

\* A larger set of awake threads only helps.
LEMMA MoreAwake ==
  ASSUME NEW S, NEW T, IsFiniteSet(T), S \subseteq T
  PROVE  /\ Cardinality(S) \in Nat /\ Cardinality(T) \in Nat
         /\ Cardinality(S) <= Cardinality(T)
BY FS_Subset, FS_CardinalityType

\* A thread that goes to sleep, or leaves, is one awake thread less.
LEMMA OneLess ==
  ASSUME NEW S, NEW x, IsFiniteSet(S)
  PROVE  /\ Cardinality(S \ {x}) \in Nat /\ Cardinality(S) \in Nat
         /\ Cardinality(S \ {x}) + 1 >= Cardinality(S)
         /\ x \in S => Cardinality(S \ {x}) + 1 = Cardinality(S)
<1>1. Cardinality(S) \in Nat
  BY FS_CardinalityType
<1>2. IsFiniteSet(S \ {x})
      /\ Cardinality(S \ {x}) = IF x \in S THEN Cardinality(S)-1 ELSE Cardinality(S)
  BY FS_RemoveElement
<1>3. Cardinality(S \ {x}) \in Nat
  BY <1>2, FS_CardinalityType
<1> QED
  BY <1>1, <1>2, <1>3

\* A sleeper that is notified is one awake thread more.
LEMMA OneMore ==
  ASSUME NEW S, NEW x, IsFiniteSet(S), x \notin S
  PROVE  Cardinality(S \cup {x}) = Cardinality(S) + 1 /\ Cardinality(S) \in Nat
BY FS_AddElement, FS_CardinalityType

\* Whoever goes to sleep for a slot saw the queue full.
LEMMA PutWaitFull == ASSUME NEW t \in Threads, PutWait(t) PROVE Full
BY DEF PutWait, PutPasses

\* A getter goes to sleep only when the queue is empty, and Get only on an open channel.
LEMMA GetWaitEmpty ==
  ASSUME NEW t \in Threads, GetWait(t)
  PROVE  Empty /\ phase[t] # "expired" /\ (op[t] = "Get" => ~closed)
BY DEF GetWait, GetPasses

\* Channel.NoLostSlot is inductive given the types.
THEOREM SlotWakeups == Spec => []NoLostSlot
<1>1. Init => NoLostSlot
  BY DEF Init, NoLostSlot, SlotWaiters, PutOps
<1>2. TypeOK /\ TypeOK' /\ NoLostSlot /\ [Next]_vars => NoLostSlot'
  <2> SUFFICES ASSUME TypeOK, TypeOK', NoLostSlot, [Next]_vars,
                      SlotWaiters' # {}
               PROVE  Len(queue)' + Cardinality(AwakePutters)' >= Capacity
    BY DEF NoLostSlot
  <2> USE AwakeFinite, CapacityAssumption
  <2>0. /\ Len(queue) \in Nat /\ Len(queue') \in Nat
        /\ IsFiniteSet(AwakePutters') /\ Cardinality(AwakePutters') \in Nat
    <3>1. AwakePutters' \subseteq Threads
      BY DEF AwakePutters
    <3> QED
      BY <3>1, ThreadsAssumption, FS_Subset, FS_CardinalityType DEF TypeOK
  \* Steps that leave the queue alone and put nobody who sleeps for a slot
  \* to sleep, nor take an awake putter away.
  <2>1. ASSUME queue' = queue, AwakePutters \subseteq AwakePutters',
               SlotWaiters' \subseteq SlotWaiters
        PROVE  Len(queue)' + Cardinality(AwakePutters)' >= Capacity
    BY <2>0, <2>1, MoreAwake DEF NoLostSlot
  \* Steps after which the queue is full.
  <2>2. ASSUME queue' = queue, Full
        PROVE  Len(queue)' + Cardinality(AwakePutters)' >= Capacity
    BY <2>0, <2>2 DEF Full
  <2>3. CASE UNCHANGED vars
    BY <2>1, <2>3 DEF vars, AwakePutters, SlotWaiters
  <2>4. ASSUME NEW t \in Threads, Call(t)
        PROVE  Len(queue)' + Cardinality(AwakePutters)' >= Capacity
    <3>1. /\ queue' = queue /\ op[t] = "none"
          /\ \A u \in Threads \ {t} : op'[u] = op[u] /\ phase'[u] = phase[u]
          /\ phase'[t] = "entering"
      BY <2>4 DEF Call, TypeOK
    <3>2. phase[t] = "outside"
      BY <3>1, <2>4 DEF TypeOK
    <3>3. AwakePutters \subseteq AwakePutters'
      BY <3>1, <3>2 DEF AwakePutters, Awake
    <3>4. SlotWaiters' \subseteq SlotWaiters
      BY <3>1, <3>2 DEF SlotWaiters
    <3> QED
      BY <2>1, <3>1, <3>3, <3>4
  <2>5. ASSUME NEW t \in Threads, PutItem(t)
        PROVE  Len(queue)' + Cardinality(AwakePutters)' >= Capacity
    <3>1. t \notin ItemWaiters /\ ItemWaiters \subseteq Threads
      BY <2>5 DEF PutItem, ItemWaiters, PutOps, GetOps
    <3>2. /\ \A u \in Threads : u # t => op'[u] = op[u]
          /\ op'[t] = "none"
          /\ \A u \in Threads : u # t /\ u \notin ItemWaiters => phase'[u] = phase[u]
      <4>1. op' = [op EXCEPT ![t] = "none"] /\ LeaveNotifyingOne(t, ItemWaiters)
        BY <2>5 DEF PutItem, Return
      <4>2. \A u \in Threads : u # t /\ u \notin ItemWaiters => phase'[u] = phase[u]
        BY <3>1, <4>1, NotifyOne DEF TypeOK
      <4> QED
        BY <4>1, <4>2 DEF TypeOK
    <3>3. AwakePutters' = AwakePutters \ {t} /\ SlotWaiters' \subseteq SlotWaiters
      BY <3>2 DEF AwakePutters, SlotWaiters, ItemWaiters, Awake, PutOps, GetOps
    <3>4. Len(queue)' = Len(queue) + 1
      BY <2>5 DEF PutItem, TypeOK
    <3>5. Len(queue) + Cardinality(AwakePutters) >= Capacity
      BY <3>3 DEF NoLostSlot
    <3>6. /\ Cardinality(AwakePutters \ {t}) + 1 >= Cardinality(AwakePutters)
          /\ Cardinality(AwakePutters \ {t}) \in Nat
      BY OneLess
    <3> QED
      BY <2>0, <3>3, <3>4, <3>5, <3>6
  <2>6. ASSUME NEW t \in Threads, GetItem(t)
        PROVE  Len(queue)' + Cardinality(AwakePutters)' >= Capacity
    <3>1. t \notin SlotWaiters /\ SlotWaiters \subseteq Threads
      BY <2>6 DEF GetItem, SlotWaiters, PutOps, GetOps
    <3>2. Len(queue)' + 1 = Len(queue)
      BY <2>6 DEF GetItem, Empty, TypeOK
    <3>3. /\ \A u \in Threads : u # t => op'[u] = op[u]
          /\ op'[t] = "none" /\ op[t] \notin PutOps
      BY <2>6 DEF GetItem, Return, TypeOK, PutOps, GetOps
    <3>4. SlotWaiters # {}
      BY <2>6, <3>1, <3>3, NotifyOne
      DEF GetItem, LeaveNotifyingOne, Leave, SlotWaiters, TypeOK, PutOps
    <3>5. PICK w \in SlotWaiters :
            w # t /\ phase' = [phase EXCEPT ![t] = "outside", ![w] = "woken"]
      BY <2>6, <3>1, <3>4, NotifyOne DEF GetItem, TypeOK
    <3>6. w \notin AwakePutters /\ AwakePutters' = AwakePutters \cup {w}
      BY <3>1, <3>3, <3>5 DEF AwakePutters, SlotWaiters, Awake, TypeOK, PutOps
    <3>7. Cardinality(AwakePutters') = Cardinality(AwakePutters) + 1
      BY <3>6, OneMore
    <3> QED
      BY <2>0, <3>2, <3>4, <3>7 DEF NoLostSlot
  <2>7. ASSUME NEW t \in Threads, PutWait(t) \/ PutNothing(t)
        PROVE  Len(queue)' + Cardinality(AwakePutters)' >= Capacity
    BY <2>7, <2>2, PutWaitFull DEF PutWait, Wait, PutNothing, callVars
  <2>8. ASSUME NEW t \in Threads, GetWait(t) \/ GetNothing(t)
        PROVE  Len(queue)' + Cardinality(AwakePutters)' >= Capacity
    <3>1. /\ queue' = queue /\ op[t] \in GetOps /\ op'[t] \in GetOps \cup {"none"}
          /\ \A u \in Threads \ {t} : op'[u] = op[u] /\ phase'[u] = phase[u]
      BY <2>8 DEF GetWait, Wait, GetNothing, Return, Leave, callVars, TypeOK, GetOps
    <3> QED
      BY <2>1, <3>1 DEF AwakePutters, SlotWaiters, PutOps, GetOps
  <2>9. ASSUME NEW t \in Threads, Close(t)
        PROVE  Len(queue)' + Cardinality(AwakePutters)' >= Capacity
    <3>1. /\ queue' = queue /\ op' = op
          /\ \A u \in Threads : op[u] \in PutOps => phase'[u] = phase[u]
      BY <2>9 DEF Close, ItemWaiters, PutOps, GetOps
    <3> QED
      BY <2>1, <3>1 DEF AwakePutters, SlotWaiters
  <2>10. ASSUME NEW t \in Threads, SpuriousWakeup(t) \/ Timeout(t)
         PROVE  Len(queue)' + Cardinality(AwakePutters)' >= Capacity
    <3>1. /\ queue' = queue /\ op' = op /\ phase'[t] \in Awake
          /\ \A u \in Threads \ {t} : phase'[u] = phase[u]
      BY <2>10 DEF SpuriousWakeup, Timeout, callVars, TypeOK, Awake
    <3> QED
      BY <2>1, <3>1 DEF AwakePutters, SlotWaiters, Awake
  <2> QED
    BY <2>3, <2>4, <2>5, <2>6, <2>7, <2>8, <2>9, <2>10 DEF Next, Step
<1> QED
  BY <1>1, <1>2, TypeCorrect, PTL DEF Spec

-----------------------------------------------------------------------------
\* Channel.NoLostItem is inductive given the types: the same counting for the
\* other condition variable, with Close as the step that empties the wait set.
THEOREM ItemWakeups == Spec => []NoLostItem
<1>1. Init => NoLostItem
  BY DEF Init, NoLostItem, ItemWaiters, GetOps
<1>2. TypeOK /\ TypeOK' /\ NoLostItem /\ [Next]_vars => NoLostItem'
  <2> SUFFICES ASSUME TypeOK, TypeOK', NoLostItem, [Next]_vars,
                      ItemWaiters' # {}
               PROVE  Len(queue)' <= Cardinality(AwakeGetters)'
    BY DEF NoLostItem
  <2> USE AwakeFinite
  <2>0. /\ Len(queue) \in Nat /\ Len(queue') \in Nat
        /\ IsFiniteSet(AwakeGetters') /\ Cardinality(AwakeGetters') \in Nat
    <3>1. AwakeGetters' \subseteq Threads
      BY DEF AwakeGetters
    <3> QED
      BY <3>1, ThreadsAssumption, FS_Subset, FS_CardinalityType DEF TypeOK
  \* Steps that leave the queue alone and neither put a getter to sleep nor take
  \* an awake one away.
  <2>1. ASSUME queue' = queue, AwakeGetters \subseteq AwakeGetters',
               ItemWaiters' \subseteq ItemWaiters
        PROVE  Len(queue)' <= Cardinality(AwakeGetters)'
    BY <2>0, <2>1, MoreAwake DEF NoLostItem
  \* Steps after which the queue is empty.
  <2>2. ASSUME queue' = queue, Empty
        PROVE  Len(queue)' <= Cardinality(AwakeGetters)'
    <3>1. Len(queue') = 0
      BY <2>2, EmptySeq DEF Empty
    <3> QED
      BY <2>0, <3>1
  <2>3. CASE UNCHANGED vars
    BY <2>1, <2>3 DEF vars, AwakeGetters, ItemWaiters
  <2>4. ASSUME NEW t \in Threads, Call(t)
        PROVE  Len(queue)' <= Cardinality(AwakeGetters)'
    <3>1. /\ queue' = queue /\ op[t] = "none"
          /\ \A u \in Threads \ {t} : op'[u] = op[u] /\ phase'[u] = phase[u]
          /\ phase'[t] = "entering"
      BY <2>4 DEF Call, TypeOK
    <3>2. phase[t] = "outside"
      BY <3>1 DEF TypeOK
    <3>3. AwakeGetters \subseteq AwakeGetters'
      BY <3>1, <3>2 DEF AwakeGetters, Awake
    <3>4. ItemWaiters' \subseteq ItemWaiters
      BY <3>1, <3>2 DEF ItemWaiters
    <3> QED
      BY <2>1, <3>1, <3>3, <3>4
  <2>5. ASSUME NEW t \in Threads, GetItem(t)
        PROVE  Len(queue)' <= Cardinality(AwakeGetters)'
    <3>1. t \notin SlotWaiters /\ SlotWaiters \subseteq Threads
      BY <2>5 DEF GetItem, SlotWaiters, PutOps, GetOps
    <3>2. /\ \A u \in Threads : u # t => op'[u] = op[u]
          /\ op'[t] = "none"
          /\ \A u \in Threads : u # t /\ u \notin SlotWaiters => phase'[u] = phase[u]
      BY <2>5, <3>1, NotifyOne DEF GetItem, Return, TypeOK
    <3>3. /\ AwakeGetters' = AwakeGetters \ {t}
          /\ ItemWaiters' \subseteq ItemWaiters
      BY <3>2 DEF AwakeGetters, SlotWaiters, ItemWaiters, Awake, PutOps, GetOps
    <3>4. Len(queue)' + 1 = Len(queue)
      BY <2>5 DEF GetItem, Empty, TypeOK
    <3>5. Len(queue) <= Cardinality(AwakeGetters)
      BY <3>3 DEF NoLostItem
    <3>6. /\ Cardinality(AwakeGetters \ {t}) + 1 >= Cardinality(AwakeGetters)
          /\ Cardinality(AwakeGetters \ {t}) \in Nat
      BY OneLess
    <3> QED
      BY <2>0, <3>3, <3>4, <3>5, <3>6
  <2>6. ASSUME NEW t \in Threads, PutItem(t)
        PROVE  Len(queue)' <= Cardinality(AwakeGetters)'
    <3>1. t \notin ItemWaiters /\ ItemWaiters \subseteq Threads
      BY <2>6 DEF PutItem, ItemWaiters, PutOps, GetOps
    <3>2. Len(queue)' = Len(queue) + 1
      BY <2>6 DEF PutItem, TypeOK
    <3>3. /\ \A u \in Threads : u # t => op'[u] = op[u]
          /\ op'[t] = "none" /\ op[t] \notin GetOps
      BY <2>6 DEF PutItem, Return, TypeOK, PutOps, GetOps
    <3>4. ItemWaiters # {}
      BY <2>6, <3>1, <3>3, NotifyOne
      DEF PutItem, LeaveNotifyingOne, Leave, ItemWaiters, TypeOK, GetOps
    <3>5. PICK w \in ItemWaiters :
            w # t /\ phase' = [phase EXCEPT ![t] = "outside", ![w] = "woken"]
      BY <2>6, <3>1, <3>4, NotifyOne DEF PutItem, TypeOK
    <3>6. w \notin AwakeGetters /\ AwakeGetters' = AwakeGetters \cup {w}
      BY <3>1, <3>3, <3>5 DEF AwakeGetters, ItemWaiters, Awake, TypeOK, GetOps
    <3>7. Cardinality(AwakeGetters') = Cardinality(AwakeGetters) + 1
      BY <3>6, OneMore
    <3> QED
      BY <2>0, <3>2, <3>4, <3>7 DEF NoLostItem
  <2>7. ASSUME NEW t \in Threads, GetWait(t) \/ GetNothing(t)
        PROVE  Len(queue)' <= Cardinality(AwakeGetters)'
    BY <2>7, <2>2, GetWaitEmpty DEF GetWait, Wait, GetNothing, callVars
  <2>8. ASSUME NEW t \in Threads, PutWait(t) \/ PutNothing(t)
        PROVE  Len(queue)' <= Cardinality(AwakeGetters)'
    <3>1. /\ queue' = queue /\ op[t] \in PutOps /\ op'[t] \in PutOps \cup {"none"}
          /\ \A u \in Threads \ {t} : op'[u] = op[u] /\ phase'[u] = phase[u]
      BY <2>8 DEF PutWait, Wait, PutNothing, Return, Leave, callVars, TypeOK, PutOps
    <3> QED
      BY <2>1, <3>1 DEF AwakeGetters, ItemWaiters, PutOps, GetOps
  <2>9. ASSUME NEW t \in Threads, Close(t)
        PROVE  Len(queue)' <= Cardinality(AwakeGetters)'
    <3>1. ItemWaiters' = {}
      BY <2>9 DEF Close, ItemWaiters
    <3> QED
      BY <3>1
  <2>10. ASSUME NEW t \in Threads, SpuriousWakeup(t) \/ Timeout(t)
         PROVE  Len(queue)' <= Cardinality(AwakeGetters)'
    <3>1. /\ queue' = queue /\ op' = op /\ phase'[t] \in Awake
          /\ \A u \in Threads \ {t} : phase'[u] = phase[u]
      BY <2>10 DEF SpuriousWakeup, Timeout, callVars, TypeOK, Awake
    <3> QED
      BY <2>1, <3>1 DEF AwakeGetters, ItemWaiters, Awake
  <2> QED
    BY <2>3, <2>4, <2>5, <2>6, <2>7, <2>8, <2>9, <2>10 DEF Next, Step
<1> QED
  BY <1>1, <1>2, TypeCorrect, PTL DEF Spec

\* Channel.NoGetSleepsOnClosed: Close empties the wait set and a plain Get that
\* comes later passes its test.
THEOREM CloseReachesEveryGet == Spec => []NoGetSleepsOnClosed
<1>1. Init => NoGetSleepsOnClosed
  BY DEF Init, NoGetSleepsOnClosed
<1>2. TypeOK /\ NoGetSleepsOnClosed /\ [Next]_vars => NoGetSleepsOnClosed'
  <2> SUFFICES ASSUME TypeOK, NoGetSleepsOnClosed, [Next]_vars, closed',
                      NEW u \in Threads, op'[u] \in GetOps, phase'[u] = "waiting"
               PROVE  op'[u] = "GetWithTimeout"
    BY DEF NoGetSleepsOnClosed, ItemWaiters
  \* A getter that was already asleep on a closed channel.
  <2>1. ASSUME closed, op'[u] = op[u], phase[u] = "waiting"
        PROVE  op'[u] = "GetWithTimeout"
    BY <2>1 DEF NoGetSleepsOnClosed, ItemWaiters
  <2>2. CASE UNCHANGED vars
    BY <2>1, <2>2 DEF vars
  <2>3. ASSUME NEW t \in Threads, Call(t) PROVE op'[u] = "GetWithTimeout"
    BY <2>1, <2>3 DEF Call, TypeOK
  <2>4. ASSUME NEW t \in Threads, PutItem(t) \/ GetItem(t)
        PROVE  op'[u] = "GetWithTimeout"
    <3>1. /\ closed' = closed /\ op' = [op EXCEPT ![t] = "none"]
          /\ \/ phase' = [phase EXCEPT ![t] = "outside"]
             \/ \E w \in Threads :
                  phase' = [phase EXCEPT ![t] = "outside", ![w] = "woken"]
      BY <2>4 DEF PutItem, GetItem, Return, Leave, LeaveNotifyingOne, ItemWaiters,
                  SlotWaiters
    <3>2. op'[u] = op[u] /\ phase[u] = "waiting"
      BY <3>1 DEF TypeOK, GetOps
    <3> QED
      BY <2>1, <3>1, <3>2
  <2>5. ASSUME NEW t \in Threads, PutNothing(t) \/ GetNothing(t)
        PROVE  op'[u] = "GetWithTimeout"
    <3>1. /\ op' = [op EXCEPT ![t] = "none"] /\ phase' = [phase EXCEPT ![t] = "outside"]
          /\ closed' = closed
      BY <2>5 DEF PutNothing, GetNothing, Return, Leave
    <3> QED
      BY <2>1, <3>1 DEF TypeOK, GetOps
  <2>6. ASSUME NEW t \in Threads, PutWait(t) PROVE op'[u] = "GetWithTimeout"
    BY <2>1, <2>6 DEF PutWait, Wait, callVars, TypeOK, GetOps, PutOps
  <2>7. ASSUME NEW t \in Threads, GetWait(t) PROVE op'[u] = "GetWithTimeout"
    <3>1. op' = op /\ closed' = closed /\ phase' = [phase EXCEPT ![t] = "waiting"]
      BY <2>7 DEF GetWait, Wait, callVars
    <3>2. CASE u = t
      BY <2>7, <3>1, <3>2, GetWaitEmpty DEF GetOps
    <3>3. CASE u # t
      BY <2>1, <3>1, <3>3 DEF TypeOK
    <3> QED
      BY <3>2, <3>3
  <2>8. ASSUME NEW t \in Threads, Close(t) PROVE op'[u] = "GetWithTimeout"
    BY <2>8 DEF Close, ItemWaiters
  <2>9. ASSUME NEW t \in Threads, SpuriousWakeup(t) \/ Timeout(t)
        PROVE  op'[u] = "GetWithTimeout"
    BY <2>1, <2>9 DEF SpuriousWakeup, Timeout, callVars, TypeOK
  <2> QED
    BY <2>2, <2>3, <2>4, <2>5, <2>6, <2>7, <2>8, <2>9 DEF Next, Step
<1> QED
  BY <1>1, <1>2, TypeCorrect, PTL DEF Spec

-----------------------------------------------------------------------------
\* Where nobody is awake who could act, sleeping for a slot means that the queue is full
\* and sleeping for an element that it is empty.
SleepForAReason == /\ SlotWaiters # {} /\ AwakePutters = {} => Full
                   /\ ItemWaiters # {} /\ AwakeGetters = {} => Empty

\* Everybody asleep on both conditions.
Standstill == /\ SlotWaiters # {} /\ ItemWaiters # {}
              /\ AwakePutters = {} /\ AwakeGetters = {}

\* Threads that sleep have a reason to, and so those that wait for a slot and those that
\* wait for an element never wait for each other: with one notify_one for each element
\* (channel.h:31, 65), however many threads share the channel, of either kind.
THEOREM NoStandstill == Spec => [](SleepForAReason /\ ~Standstill)
<1>1. TypeOK /\ NoLostSlot /\ NoLostItem => SleepForAReason /\ ~Standstill
  <2> SUFFICES ASSUME TypeOK, NoLostSlot, NoLostItem
               PROVE  SleepForAReason /\ ~Standstill
    OBVIOUS
  <2>1. Len(queue) \in Nat /\ (Len(queue) = 0 <=> Empty)
    BY DEF TypeOK, Empty
  <2>2. SlotWaiters # {} /\ AwakePutters = {} => Full
    BY <2>1, FS_EmptySet, CapacityAssumption DEF NoLostSlot, Full
  <2>3. ItemWaiters # {} /\ AwakeGetters = {} => Empty
    BY <2>1, FS_EmptySet DEF NoLostItem
  <2>4. ~(Full /\ Empty)
    BY <2>1, CapacityAssumption DEF Full
  <2> QED
    BY <2>2, <2>3, <2>4 DEF SleepForAReason, Standstill
<1> QED
  BY <1>1, TypeCorrect, SlotWakeups, ItemWakeups, PTL

-----------------------------------------------------------------------------
\* Channel.Atomic: every critical section is one operation of the atomic channel
\* or a stutter.
THEOREM Linearizable == Spec => Atomic
<1>1. Init => Abstract!SpecInit
  BY DEF Init, Abstract!SpecInit, NoResult, Abstract!NoResult
<1>2. TypeOK /\ [Next]_vars => [Abstract!SpecNext]_(Abstract!specVars)
  <2> SUFFICES ASSUME TypeOK, [Next]_vars
               PROVE  Abstract!SpecNext \/ UNCHANGED callVars
    BY DEF callVars, Abstract!specVars
  <2> USE DEF PutOps, GetOps, Abstract!PutOps, Abstract!GetOps, Full, Empty,
              Abstract!Full, Abstract!Empty, Return, Abstract!Finish
  <2>1. CASE UNCHANGED vars
    BY <2>1 DEF vars, callVars
  <2>2. ASSUME NEW t \in Threads, Call(t) PROVE Abstract!SpecNext
    <3>1. arg[t] = NoItem
      BY <2>2 DEF Call, TypeOK
    <3>2. arg = [arg EXCEPT ![t] = NoItem]
      BY <3>1 DEF TypeOK
    <3>3. \/ \E o \in PutOps, x \in Items : Abstract!Begin(t, o, x)
          \/ \E o \in GetOps : Abstract!Begin(t, o, NoItem)
      BY <2>2, <3>2 DEF Call, Abstract!Begin, NoResult, Abstract!NoResult
    <3> QED
      BY <3>3 DEF Abstract!SpecNext
  <2>3. ASSUME NEW t \in Threads, PutItem(t) PROVE Abstract!SpecNext
    <3>1. Abstract!Add(t)
      BY <2>3 DEF PutItem, Abstract!Add
    <3>2. Abstract!Push(t) \/ Abstract!PushLate(t)
      BY <3>1 DEF Abstract!Push, Abstract!PushLate
    <3> QED
      BY <3>2 DEF Abstract!SpecNext
  <2>4. ASSUME NEW t \in Threads, PutNothing(t) PROVE Abstract!SpecNext
    <3>1. op[t] = "PutWithTimeout"
      BY <2>4 DEF PutNothing, PutPasses, TypeOK, TimedOps
    <3>2. Abstract!RejectPut(t)
      BY <2>4, <3>1 DEF PutNothing, Abstract!RejectPut
    <3> QED
      BY <3>2 DEF Abstract!SpecNext
  <2>5. ASSUME NEW t \in Threads, GetItem(t) PROVE Abstract!SpecNext
    <3>1. Abstract!Pop(t)
      BY <2>5 DEF GetItem, Abstract!Pop
    <3> QED
      BY <3>1 DEF Abstract!SpecNext
  <2>6. ASSUME NEW t \in Threads, GetNothing(t) PROVE Abstract!SpecNext
    <3>1. CASE closed
      <4>1. (op[t] = "GetWithTimeout" /\ ~closed) = FALSE
        BY <3>1
      <4>2. Abstract!EndOfInput(t)
        BY <2>6, <3>1, <4>1 DEF GetNothing, Abstract!EndOfInput
      <4> QED
        BY <4>2 DEF Abstract!SpecNext
    <3>2. CASE ~closed
      <4>1. op[t] = "GetWithTimeout"
        BY <2>6, <3>2 DEF GetNothing, GetPasses, TypeOK, TimedOps
      <4>2. (op[t] = "GetWithTimeout" /\ ~closed) = TRUE
        BY <3>2, <4>1
      <4>3. Abstract!GiveUp(t)
        BY <2>6, <3>2, <4>1, <4>2 DEF GetNothing, Abstract!GiveUp
      <4> QED
        BY <4>3 DEF Abstract!SpecNext
    <3> QED
      BY <3>1, <3>2
  <2>7. ASSUME NEW t \in Threads, Close(t) PROVE Abstract!SpecNext
    <3>1. Abstract!SetClosed(t)
      BY <2>7 DEF Close, Abstract!SetClosed
    <3> QED
      BY <3>1 DEF Abstract!SpecNext
  <2>8. ASSUME NEW t \in Threads,
               PutWait(t) \/ GetWait(t) \/ SpuriousWakeup(t) \/ Timeout(t)
        PROVE  UNCHANGED callVars
    BY <2>8 DEF PutWait, GetWait, Wait, SpuriousWakeup, Timeout
  <2> QED
    BY <2>1, <2>2, <2>3, <2>4, <2>5, <2>6, <2>7, <2>8 DEF Next, Step
<1> QED
  BY <1>1, <1>2, TypeCorrect, PTL DEF Spec, Atomic, Abstract!AtomicChannel
=============================================================================
