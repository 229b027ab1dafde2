------------------------------ MODULE ApiProofs ------------------------------
(***************************************************************************)
(* Proofs about ApiServer, for any calls, topics, names and lists, with    *)
(* and without failures.  The argument: a call that has written a group    *)
(* holds its lock (Locking), so what it read or found missing stays as it  *)
(* is until it commits, unless the call had read it before it got the lock *)
(* and another one committed meanwhile, which "raced" records (Written).   *)
(***************************************************************************)
EXTENDS ApiServer, SequenceTheorems, TLAPS

TypeList == [topic : Topics, new : BOOLEAN]

-----------------------------------------------------------------------------
\* Parts of the invariant.

\* The types of TypeOK, and what it leaves open of the per-call state.
Plain ==
  /\ groups \subseteq Topics /\ members \in [Topics -> SUBSET Models]
  /\ nameOf \in [Models -> Names \cup {NoName, OldName}]
  /\ tags \in [Models -> SUBSET Topics]
  /\ taskRows \subseteq TaskIds /\ sent \subseteq TaskIds \X Topics
  /\ lock \in [Topics \cup Names \cup {OldName} -> Requests \cup {Free}]
  /\ kind \in [Requests -> {"none", "add", "update", "create", "classify"}]
  /\ pc \in [Requests -> {"idle", "name", "type", "insert", "update", "model", "dialog",
                          "group", "tags", "commit", "push", "row", "done"}]
  /\ model \in [Requests -> Models] /\ name \in [Requests -> Names \cup {NoName, OldName}]
  /\ answer \in [Requests -> {"none", "ok", "error", "unsure"}]
  /\ crashes \in 0..MaxCrashes
  /\ raced \subseteq Topics /\ asked \in [Requests -> SUBSET Topics]

Lists == todo \in [Requests -> Seq(Topics \cup TypeList)]

\* Some groups, with models for each.
Grouping(g) == DOMAIN g \subseteq Topics /\ \A t \in DOMAIN g : g[t] \subseteq Models

Groupings == /\ seen = [r \in Requests |-> seen[r]]
             /\ pend = [r \in Requests |-> pend[r]]
             /\ \A r \in Requests : Grouping(seen[r]) /\ Grouping(pend[r])

Typed == Plain /\ Lists /\ Groupings

\* Each place in the code belongs to a kind of call, and its list is as the loop there
\* leaves it.
Flow(r) ==
  /\ pc[r] = "idle" => kind[r] = "none" /\ DOMAIN seen[r] = {}
  /\ pc[r] \in {"name", "type", "insert", "update", "model"} =>
       kind[r] = "add" /\ todo[r] \in Seq(TypeList)
  /\ pc[r] \in {"dialog", "group", "tags"} => kind[r] = "update" /\ todo[r] \in Seq(Topics)
  /\ pc[r] \in {"push", "row"} => kind[r] \in {"create", "classify"} /\ todo[r] \in Seq(Topics)
  /\ pc[r] = "commit" => kind[r] \in {"add", "update"}
  /\ pc[r] \in {"name", "type", "insert", "update", "dialog", "group", "push"} => todo[r] # <<>>
  /\ pc[r] = "row" => (kind[r] = "create" <=> todo[r] = <<>>)
  /\ pc[r] # "done" => answer[r] = "none"
  /\ kind[r] = "add" => model[r] = r /\ name[r] \in Names \cup {OldName}
  /\ pc[r] = "update" => Head(todo[r]).topic \in DOMAIN seen[r]
  /\ pc[r] \in {"dialog", "group"} => \A i \in 1..Len(todo[r]) : todo[r][i] \in DOMAIN seen[r]

\* Who holds a lock is in a transaction, and who has written a group holds its lock.  The
\* name that is about to be committed is locked and free.
Locking(r) ==
  /\ \A x \in DOMAIN lock : lock[x] = r =>
       \/ pc[r] \in {"type", "insert", "update", "model", "commit", "group", "tags"}
       \/ pc[r] = "done" /\ kind[r] = "update" /\ answer[r] = "error"
  /\ \A t \in DOMAIN pend[r] : lock[t] = r
  /\ pc[r] = "commit" /\ kind[r] = "add" => lock[name[r]] = r /\ ~Exists(name[r])
  /\ pc[r] \in {"model", "tags", "commit"} => DOMAIN pend[r] # {}

\* What a call has read or writes are models with a row, or its own.
Named(r) ==
  /\ \A t \in DOMAIN seen[r] : \A m \in seen[r][t] : nameOf[m] # NoName
  /\ \A t \in DOMAIN pend[r] : \A m \in pend[r][t] :
       nameOf[m] # NoName \/ (m = r /\ kind[r] = "add")
  /\ kind[r] = "update" => nameOf[model[r]] # NoName

\* A model gets its row at the end of its call.
Late(r) == nameOf[r] # NoName => pc[r] = "done" /\ answer[r] # "error"

\* What a call reads is what is there, until another call commits the group.
Fresh(r) ==
  Active(r) => \A t \in DOMAIN seen[r] : t \in raced \/ seen[r][t] = members[t]

\* What a call writes is what it read, with its model; or a group that is not there yet;
\* or it is about to be written again.
Written(r) ==
  \A t \in DOMAIN pend[r] :
    /\ model[r] \in pend[r][t]
    /\ \/ t \in DOMAIN seen[r] /\ pend[r][t] = seen[r][t] \cup {model[r]}
       \/ t \notin groups /\ pend[r][t] = {model[r]}
       \/ pc[r] = "update" /\ t = Head(todo[r]).topic

\* The groups that a task still has to be sent to.
Left(r) == {todo[r][i] : i \in 1..Len(todo[r])}

\* A message goes to every group that was asked for: while the loop runs it is out or the
\* group is left.  CreateTask inserts its row at the end, CreateClassifyTask at the
\* beginning.
RowAndMessages(r) ==
  /\ pc[r] \in {"push", "row"} =>
       asked[r] \subseteq Left(r) \cup Reached(r, IF kind[r] = "create" THEN "task" ELSE "reply")
  /\ <<r, "task">> \in taskRows => /\ kind[r] = "create" /\ pc[r] = "done"
                                   /\ asked[r] \subseteq Reached(r, "task")
  /\ (kind[r] = "classify" /\ pc[r] = "push") \/ Reached(r, "reply") # {} =>
       kind[r] = "classify" /\ <<r, "row">> \in taskRows
  /\ answer[r] = "ok" =>
       /\ kind[r] = "create" => <<r, "task">> \in taskRows
       /\ kind[r] = "classify" => asked[r] \subseteq Reached(r, "reply")

ForAll == \A r \in Requests : Flow(r) /\ Locking(r) /\ Named(r) /\ Late(r) /\ Fresh(r)
                              /\ Written(r) /\ RowAndMessages(r)
ApiInv == Typed /\ ForAll /\ ListedModelsExist /\ AllOrNothing /\ TagsAreListed

-----------------------------------------------------------------------------
LEMMA TypedIsTypeOK == Typed => TypeOK
  BY DEF Typed, Plain, Lists, Groupings, Grouping, TypeOK, TypeList

\* With and NoWrites make groupings of groupings.
LEMMA WithGrouping ==
  ASSUME NEW g, Grouping(g), NEW t \in Topics, NEW s, s \subseteq Models
  PROVE  Grouping(With(g, t, s))
  BY DEF Grouping, With

LEMMA NoWritesGrouping == Grouping(NoWrites)
  BY DEF Grouping, NoWrites

\* First and rest of a list that is not empty.
LEMMA HeadTail ==
  ASSUME NEW S, NEW s \in Seq(S), s # <<>>
  PROVE  /\ Head(s) = s[1] /\ Head(s) \in S /\ Tail(s) \in Seq(S) /\ 1 \in 1..Len(s)
         /\ \A i \in 1..Len(Tail(s)) : i + 1 \in 1..Len(s) /\ Tail(s)[i] = s[i + 1]
         /\ Tail(s) # <<>> <=> Len(s) > 1
<1>1. Len(s) \in Nat /\ Len(s) >= 1
  OBVIOUS
<1>2. Head(s) = s[1] /\ Head(s) \in S /\ Tail(s) \in Seq(S) /\ 1 \in 1..Len(s)
  BY <1>1
<1>3. Len(Tail(s)) = Len(s) - 1
  OBVIOUS
<1>4. \A i \in 1..Len(Tail(s)) : i + 1 \in 1..Len(s) /\ Tail(s)[i] = s[i + 1]
  <2>1. \A i \in 1..Len(Tail(s)) : i + 1 \in 1..Len(s)
    BY <1>1, <1>3
  <2>2. \A i \in 1..Len(Tail(s)) : Tail(s)[i] = s[i + 1]
    BY <1>1, <1>3, HeadTailProperties
  <2> QED
    BY <2>1, <2>2
<1>5. Tail(s) # <<>> <=> Len(Tail(s)) # 0
  BY <1>2, EmptySeq
<1> QED
  BY <1>1, <1>2, <1>3, <1>4, <1>5

LEMMA SeqMonotone ==
  ASSUME NEW S, NEW T, S \subseteq T, NEW s \in Seq(S)
  PROVE  s \in Seq(T)
  OBVIOUS

\* What the loops take from their lists, and what is left.
LEMMA Heads ==
  ASSUME NEW r \in Requests, Flow(r)
  PROVE  /\ pc[r] \in {"name", "type", "insert", "update"} =>
              Head(todo[r]).topic \in Topics /\ Tail(todo[r]) \in Seq(TypeList)
         /\ pc[r] \in {"dialog", "group", "push"} =>
              Head(todo[r]) \in Topics /\ Tail(todo[r]) \in Seq(Topics)
         /\ pc[r] \in {"dialog", "group"} =>
              /\ Head(todo[r]) \in DOMAIN seen[r]
              /\ \A i \in 1..Len(Tail(todo[r])) : Tail(todo[r])[i] \in DOMAIN seen[r]
         /\ pc[r] \in {"name", "type", "insert", "update", "dialog", "group", "push"} =>
              (Tail(todo[r]) # <<>> <=> Len(todo[r]) > 1)
<1>1. CASE pc[r] \in {"name", "type", "insert", "update"}
  <2>1. todo[r] \in Seq(TypeList) /\ todo[r] # <<>>
    BY <1>1 DEF Flow
  <2>2. /\ Head(todo[r]) \in TypeList /\ Tail(todo[r]) \in Seq(TypeList)
        /\ Tail(todo[r]) # <<>> <=> Len(todo[r]) > 1
    BY <2>1, HeadTail
  <2> QED
    BY <1>1, <2>2 DEF TypeList
<1>2. CASE pc[r] \in {"dialog", "group", "push"}
  <2>1. todo[r] \in Seq(Topics) /\ todo[r] # <<>>
    BY <1>2 DEF Flow
  <2>2. /\ Head(todo[r]) \in Topics /\ Tail(todo[r]) \in Seq(Topics)
        /\ Tail(todo[r]) # <<>> <=> Len(todo[r]) > 1
    BY <2>1, HeadTail
  <2>3. CASE pc[r] = "push"
    BY <2>2, <2>3
  <2>4. CASE pc[r] \in {"dialog", "group"}
    <3>1. \A i \in 1..Len(todo[r]) : todo[r][i] \in DOMAIN seen[r]
      BY <2>4 DEF Flow
    <3>2. /\ Head(todo[r]) \in DOMAIN seen[r]
          /\ \A i \in 1..Len(Tail(todo[r])) : Tail(todo[r])[i] \in DOMAIN seen[r]
      BY <2>1, <3>1, HeadTail
    <3> QED
      BY <2>2, <2>4, <3>2
  <2> QED
    BY <1>2, <2>3, <2>4
<1> QED
  BY <1>1, <1>2

\* A lock is taken by a call.
LEMMA LockTyped ==
  ASSUME Plain, NEW r \in Requests, NEW x, Lock(r, x)
  PROVE  lock' \in [Topics \cup Names \cup {OldName} -> Requests \cup {Free}]
  BY DEF Plain, Lock

\* The types are kept.
LEMMA PlainStep == Typed /\ (\A q \in Requests : Flow(q)) /\ [Next]_vars => Plain'
<1> SUFFICES ASSUME Typed /\ (\A q \in Requests : Flow(q)), [Next]_vars PROVE Plain'
  OBVIOUS
<1>1. ASSUME NEW r \in Requests, AddModel(r) PROVE Plain'
  BY <1>1, Heads, InputAssumption DEF AddModel, Goto, Typed, Plain, dbVars, callVars,
     Models, TaskIds
<1>2. ASSUME NEW r \in Requests, NameTaken(r) PROVE Plain'
  BY <1>2, Heads, InputAssumption DEF NameTaken, Answer, Goto, Typed, Plain, dbVars,
     callVars, Models, TaskIds
<1>3. ASSUME NEW r \in Requests, NameFree(r) PROVE Plain'
  BY <1>3, Heads, InputAssumption DEF NameFree, Goto, Typed, Plain, dbVars, callVars,
     Models, TaskIds
<1>4. ASSUME NEW r \in Requests, TopicTaken(r) PROVE Plain'
  BY <1>4, Heads, InputAssumption DEF TopicTaken, Answer, Goto, Rollback, Unlocked,
     Typed, Plain, dbVars, callVars, Models, TaskIds
<1>5. ASSUME NEW r \in Requests, TopicFree(r) PROVE Plain'
  BY <1>5, Heads, InputAssumption DEF TopicFree, Goto, Typed, Plain, dbVars, callVars,
     Models, TaskIds
<1>6. ASSUME NEW r \in Requests, InsertGroup(r) PROVE Plain'
  BY <1>6, Heads, InputAssumption DEF InsertGroup, Goto, Lock, Typed, Plain, dbVars,
     callVars, Models, TaskIds
<1>7. ASSUME NEW r \in Requests, ReadGroup(r) PROVE Plain'
  BY <1>7, Heads, InputAssumption DEF ReadGroup, Goto, Typed, Plain, dbVars, callVars,
     Models, TaskIds
<1>8. ASSUME NEW r \in Requests, UpdateGroup(r) PROVE Plain'
  BY <1>8, Heads, InputAssumption DEF UpdateGroup, Goto, Lock, Typed, Plain, dbVars,
     callVars, Models, TaskIds
<1>9. ASSUME NEW r \in Requests, InsertModel(r) PROVE Plain'
  <2>1. lock' \in [Topics \cup Names \cup {OldName} -> Requests \cup {Free}]
    BY <1>9, LockTyped DEF InsertModel, Typed
  <2> QED
    BY <1>9, <2>1 DEF InsertModel, Goto, Typed, Plain, dbVars, callVars
<1>10. ASSUME NEW r \in Requests, FailAdd(r) PROVE Plain'
  BY <1>10, Heads, InputAssumption DEF FailAdd, Answer, Goto, Rollback, Unlocked, Typed,
     Plain, dbVars, callVars, Models, TaskIds
<1>11. ASSUME NEW r \in Requests, GroupPanic(r) PROVE Plain'
  BY <1>11, Heads, InputAssumption DEF GroupPanic, Die, Active, Typed, Plain, dbVars,
     callVars, Models, TaskIds
<1>12. ASSUME NEW r \in Requests, OpenDialog(r) PROVE Plain'
  BY <1>12, Heads, InputAssumption DEF OpenDialog, Goto, Typed, Plain, dbVars, callVars,
     Models, TaskIds
<1>13. ASSUME NEW r \in Requests, UpdateModelTypes(r) PROVE Plain'
  BY <1>13, Heads, InputAssumption DEF UpdateModelTypes, Goto, Typed, Plain, dbVars,
     callVars, Models, TaskIds
<1>14. ASSUME NEW r \in Requests, WriteGroup(r) PROVE Plain'
  BY <1>14, Heads, InputAssumption DEF WriteGroup, Goto, Lock, Typed, Plain, dbVars,
     callVars, Models, TaskIds
<1>15. ASSUME NEW r \in Requests, WriteTags(r) PROVE Plain'
  <2>1. lock' \in [Topics \cup Names \cup {OldName} -> Requests \cup {Free}]
    BY <1>15, LockTyped DEF WriteTags, Typed
  <2> QED
    BY <1>15, <2>1 DEF WriteTags, Goto, Typed, Plain, dbVars, callVars
<1>16. ASSUME NEW r \in Requests, FailUpdate(r) PROVE Plain'
  BY <1>16, Heads, InputAssumption DEF FailUpdate, Answer, Goto, Rollback, Unlocked,
     Typed, Plain, dbVars, callVars, Models, TaskIds
<1>17. ASSUME NEW r \in Requests, Commit(r) PROVE Plain'
  <2>1. DOMAIN pend[r] \subseteq Topics /\ \A t \in DOMAIN pend[r] : pend[r][t] \subseteq Models
    BY DEF Typed, Groupings, Grouping
  <2>2. groups' \subseteq Topics /\ members' \in [Topics -> SUBSET Models]
    BY <1>17, <2>1 DEF Commit, Typed, Plain
  <2>3. nameOf' \in [Models -> Names \cup {NoName, OldName}]
    BY <1>17 DEF Commit, Typed, Plain
  <2>4. tags' \in [Models -> SUBSET Topics] /\ raced' \subseteq Topics
    BY <1>17, <2>1 DEF Commit, Typed, Plain
  <2> QED
    BY <1>17, <2>2, <2>3, <2>4 DEF Commit, Answer, Goto, Rollback, Unlocked, Typed, Plain
<1>18. ASSUME NEW r \in Requests, CommitFails(r) PROVE Plain'
  BY <1>18, Heads, InputAssumption DEF CommitFails, Answer, Goto, Rollback, Unlocked,
     Typed, Plain, dbVars, callVars, Models, TaskIds
<1>19. ASSUME NEW r \in Requests, CreateTask(r) PROVE Plain'
  BY <1>19, Heads, InputAssumption DEF CreateTask, Goto, Typed, Plain, dbVars, callVars,
     Models, TaskIds
<1>20. ASSUME NEW r \in Requests, PushMessage(r) PROVE Plain'
  <2>1. \E id \in TaskIds : sent' = sent \cup {<<id, Head(todo[r])>>}
    <3>1. CASE kind[r] = "create"
      <4>1. <<r, "task">> \in TaskIds /\ sent' = sent \cup {<<<<r, "task">>, Head(todo[r])>>}
        BY <1>20, <3>1 DEF PushMessage, TaskIds
      <4> QED
        BY <4>1
    <3>2. CASE kind[r] # "create"
      <4>1. <<r, "reply">> \in TaskIds /\ sent' = sent \cup {<<<<r, "reply">>, Head(todo[r])>>}
        BY <1>20, <3>2 DEF PushMessage, TaskIds
      <4> QED
        BY <4>1
    <3> QED
      BY <3>1, <3>2
  <2>2. sent' \subseteq TaskIds \X Topics
    BY <1>20, <2>1, Heads DEF PushMessage, Typed, Plain
  <2> QED
    BY <1>20, <2>2 DEF PushMessage, Answer, Goto, Typed, Plain, dbVars
<1>21. ASSUME NEW r \in Requests, InsertTask(r) PROVE Plain'
  <2>1. taskRows' \subseteq TaskIds
    <3>1. <<r, "task">> \in TaskIds /\ <<r, "row">> \in TaskIds
      BY DEF TaskIds
    <3> QED
      BY <1>21, <3>1 DEF InsertTask, Typed, Plain
  <2>2. pc' \in [Requests -> {"idle", "name", "type", "insert", "update", "model", "dialog",
                              "group", "tags", "commit", "push", "row", "done"}]
    BY <1>21 DEF InsertTask, Answer, Goto, Typed, Plain
  <2>3. answer' \in [Requests -> {"none", "ok", "error", "unsure"}]
    BY <1>21 DEF InsertTask, Answer, Typed, Plain
  <2> QED
    BY <1>21, <2>1, <2>2, <2>3 DEF InsertTask, Typed, Plain
<1>22. ASSUME NEW r \in Requests, FailTask(r) PROVE Plain'
  BY <1>22, Heads, InputAssumption DEF FailTask, Answer, Goto, Typed, Plain, dbVars,
     callVars, Models, TaskIds
<1>23. CASE Crash
  BY <1>23, Heads, InputAssumption DEF Crash, Die, Active, Typed, Plain, dbVars,
     callVars, Models, TaskIds
<1>24. CASE UNCHANGED vars
  BY <1>24, Heads, InputAssumption DEF vars, dbVars, callVars, Typed, Plain, dbVars,
     callVars, Models, TaskIds
<1> QED
  BY <1>1, <1>2, <1>3, <1>4, <1>5, <1>6, <1>7, <1>8, <1>9, <1>10, <1>11, <1>12, <1>13,
     <1>14, <1>15, <1>16, <1>17, <1>18, <1>19, <1>20, <1>21, <1>22, <1>23, <1>24 DEF
     Next

LEMMA ListsStep == Typed /\ (\A q \in Requests : Flow(q)) /\ [Next]_vars => Lists'
<1> SUFFICES ASSUME Typed /\ (\A q \in Requests : Flow(q)), [Next]_vars PROVE Lists'
  OBVIOUS
<1>1. ASSUME NEW r \in Requests, AddModel(r) PROVE Lists'
  <2>1. PICK list \in AddLists : todo' = [todo EXCEPT ![r] = list]
    BY <1>1 DEF AddModel
  <2>2. list \in Seq(TypeList)
    BY InputAssumption DEF TypeList
  <2>3. list \in Seq(Topics \cup TypeList)
    BY <2>2, SeqMonotone
  <2> QED
    BY <2>1, <2>3 DEF Typed, Lists
<1>2. ASSUME NEW r \in Requests, NameTaken(r) PROVE Lists'
  BY <1>2, Heads, SeqMonotone, InputAssumption DEF NameTaken, Typed, Lists, TypeList,
     dbVars, callVars
<1>3. ASSUME NEW r \in Requests, NameFree(r) PROVE Lists'
  BY <1>3, Heads, SeqMonotone, InputAssumption DEF NameFree, Typed, Lists, TypeList,
     dbVars, callVars
<1>4. ASSUME NEW r \in Requests, TopicTaken(r) PROVE Lists'
  BY <1>4, Heads, SeqMonotone, InputAssumption DEF TopicTaken, Typed, Lists, TypeList,
     dbVars, callVars
<1>5. ASSUME NEW r \in Requests, TopicFree(r) PROVE Lists'
  BY <1>5, Heads, SeqMonotone, InputAssumption DEF TopicFree, Typed, Lists, TypeList,
     dbVars, callVars
<1>6. ASSUME NEW r \in Requests, InsertGroup(r) PROVE Lists'
  BY <1>6, Heads, SeqMonotone, InputAssumption DEF InsertGroup, Typed, Lists, TypeList,
     dbVars, callVars
<1>7. ASSUME NEW r \in Requests, ReadGroup(r) PROVE Lists'
  BY <1>7, Heads, SeqMonotone, InputAssumption DEF ReadGroup, Typed, Lists, TypeList,
     dbVars, callVars
<1>8. ASSUME NEW r \in Requests, UpdateGroup(r) PROVE Lists'
  BY <1>8, Heads, SeqMonotone, InputAssumption DEF UpdateGroup, Typed, Lists, TypeList,
     dbVars, callVars
<1>9. ASSUME NEW r \in Requests, InsertModel(r) PROVE Lists'
  BY <1>9, Heads, SeqMonotone, InputAssumption DEF InsertModel, Typed, Lists, TypeList,
     dbVars, callVars
<1>10. ASSUME NEW r \in Requests, FailAdd(r) PROVE Lists'
  BY <1>10, Heads, SeqMonotone, InputAssumption DEF FailAdd, Typed, Lists, TypeList,
     dbVars, callVars
<1>11. ASSUME NEW r \in Requests, GroupPanic(r) PROVE Lists'
  BY <1>11, Heads, SeqMonotone, InputAssumption DEF GroupPanic, Die, Active, Typed,
     Lists, TypeList, dbVars, callVars
<1>12. ASSUME NEW r \in Requests, OpenDialog(r) PROVE Lists'
  BY <1>12, Heads, SeqMonotone, InputAssumption DEF OpenDialog, Typed, Lists, TypeList,
     dbVars, callVars
<1>13. ASSUME NEW r \in Requests, UpdateModelTypes(r) PROVE Lists'
  BY <1>13, Heads, SeqMonotone, InputAssumption DEF UpdateModelTypes, Typed, Lists,
     TypeList, dbVars, callVars
<1>14. ASSUME NEW r \in Requests, WriteGroup(r) PROVE Lists'
  BY <1>14, Heads, SeqMonotone, InputAssumption DEF WriteGroup, Typed, Lists, TypeList,
     dbVars, callVars
<1>15. ASSUME NEW r \in Requests, WriteTags(r) PROVE Lists'
  BY <1>15, Heads, SeqMonotone, InputAssumption DEF WriteTags, Typed, Lists, TypeList,
     dbVars, callVars
<1>16. ASSUME NEW r \in Requests, FailUpdate(r) PROVE Lists'
  BY <1>16, Heads, SeqMonotone, InputAssumption DEF FailUpdate, Typed, Lists, TypeList,
     dbVars, callVars
<1>17. ASSUME NEW r \in Requests, Commit(r) PROVE Lists'
  BY <1>17, Heads, SeqMonotone, InputAssumption DEF Commit, Typed, Lists, TypeList,
     dbVars, callVars
<1>18. ASSUME NEW r \in Requests, CommitFails(r) PROVE Lists'
  BY <1>18, Heads, SeqMonotone, InputAssumption DEF CommitFails, Typed, Lists, TypeList,
     dbVars, callVars
<1>19. ASSUME NEW r \in Requests, CreateTask(r) PROVE Lists'
  BY <1>19, Heads, SeqMonotone, InputAssumption DEF CreateTask, Typed, Lists, TypeList,
     dbVars, callVars
<1>20. ASSUME NEW r \in Requests, PushMessage(r) PROVE Lists'
  BY <1>20, Heads, SeqMonotone, InputAssumption DEF PushMessage, Typed, Lists, TypeList,
     dbVars, callVars
<1>21. ASSUME NEW r \in Requests, InsertTask(r) PROVE Lists'
  BY <1>21, Heads, SeqMonotone, InputAssumption DEF InsertTask, Typed, Lists, TypeList,
     dbVars, callVars
<1>22. ASSUME NEW r \in Requests, FailTask(r) PROVE Lists'
  BY <1>22, Heads, SeqMonotone, InputAssumption DEF FailTask, Typed, Lists, TypeList,
     dbVars, callVars
<1>23. CASE Crash
  BY <1>23, Heads, SeqMonotone, InputAssumption DEF Crash, Die, Active, Typed, Lists,
     TypeList, dbVars, callVars
<1>24. CASE UNCHANGED vars
  BY <1>24, Heads, SeqMonotone, InputAssumption DEF vars, dbVars, callVars, Typed,
     Lists, TypeList, dbVars, callVars
<1> QED
  BY <1>1, <1>2, <1>3, <1>4, <1>5, <1>6, <1>7, <1>8, <1>9, <1>10, <1>11, <1>12, <1>13,
     <1>14, <1>15, <1>16, <1>17, <1>18, <1>19, <1>20, <1>21, <1>22, <1>23, <1>24 DEF
     Next

\* A call changes one grouping at a time.
LEMMA WriteKeeps ==
  ASSUME Groupings, NEW r \in Requests, NEW g, Grouping(g),
         \/ UNCHANGED seen /\ pend' = [pend EXCEPT ![r] = g]
         \/ UNCHANGED pend /\ seen' = [seen EXCEPT ![r] = g]
  PROVE  Groupings'
  BY DEF Groupings

LEMMA GroupingsStep == Typed /\ (\A q \in Requests : Flow(q)) /\ [Next]_vars => Groupings'
<1> SUFFICES ASSUME Typed /\ (\A q \in Requests : Flow(q)), [Next]_vars PROVE Groupings'
  OBVIOUS
<1>1. ASSUME NEW r \in Requests, AddModel(r) PROVE Groupings'
  BY <1>1, NoWritesGrouping, WriteKeeps DEF AddModel, Typed, Groupings, dbVars, callVars
<1>2. ASSUME NEW r \in Requests, NameTaken(r) PROVE Groupings'
  BY <1>2, NoWritesGrouping, WriteKeeps DEF NameTaken, Typed, Groupings, dbVars,
     callVars
<1>3. ASSUME NEW r \in Requests, NameFree(r) PROVE Groupings'
  BY <1>3, NoWritesGrouping, WriteKeeps DEF NameFree, Typed, Groupings, dbVars, callVars
<1>4. ASSUME NEW r \in Requests, TopicTaken(r) PROVE Groupings'
  BY <1>4, NoWritesGrouping, WriteKeeps DEF TopicTaken, Rollback, Typed, Groupings,
     dbVars, callVars
<1>5. ASSUME NEW r \in Requests, TopicFree(r) PROVE Groupings'
  BY <1>5, NoWritesGrouping, WriteKeeps DEF TopicFree, Typed, Groupings, dbVars,
     callVars
<1>6. ASSUME NEW r \in Requests, InsertGroup(r) PROVE Groupings'
  <2>1. Head(todo[r]).topic \in Topics /\ {r} \subseteq Models
    BY <1>6, Heads DEF InsertGroup, Typed, Plain, Groupings, Grouping, Flow, Models
  <2> QED
    BY <1>6, <2>1, WithGrouping, WriteKeeps DEF InsertGroup, Typed, Groupings, dbVars
<1>7. ASSUME NEW r \in Requests, ReadGroup(r) PROVE Groupings'
  <2>1. Head(todo[r]).topic \in Topics /\ members[Head(todo[r]).topic] \subseteq Models
    BY <1>7, Heads DEF ReadGroup, Typed, Plain, Groupings, Grouping, Flow, Models
  <2> QED
    BY <1>7, <2>1, WithGrouping, WriteKeeps DEF ReadGroup, Typed, Groupings, dbVars
<1>8. ASSUME NEW r \in Requests, UpdateGroup(r) PROVE Groupings'
  <2>1. /\ Head(todo[r]).topic \in Topics
        /\ (seen[r][Head(todo[r]).topic] \cup {r}) \subseteq Models
    BY <1>8, Heads DEF UpdateGroup, Typed, Plain, Groupings, Grouping, Flow, Models
  <2> QED
    BY <1>8, <2>1, WithGrouping, WriteKeeps DEF UpdateGroup, Typed, Groupings, dbVars
<1>9. ASSUME NEW r \in Requests, InsertModel(r) PROVE Groupings'
  BY <1>9, NoWritesGrouping, WriteKeeps DEF InsertModel, Typed, Groupings, dbVars,
     callVars
<1>10. ASSUME NEW r \in Requests, FailAdd(r) PROVE Groupings'
  BY <1>10, NoWritesGrouping, WriteKeeps DEF FailAdd, Rollback, Typed, Groupings,
     dbVars, callVars
<1>11. ASSUME NEW r \in Requests, GroupPanic(r) PROVE Groupings'
  BY <1>11, NoWritesGrouping, WriteKeeps DEF GroupPanic, Die, Active, Typed, Groupings,
     dbVars, callVars
<1>12. ASSUME NEW r \in Requests, OpenDialog(r) PROVE Groupings'
  <2>1. PICK list \in Selections :
          seen' = [seen EXCEPT ![r] = [t \in {list[i] : i \in 1..Len(list)} |-> members[t]]]
    BY <1>12 DEF OpenDialog
  <2>2. {list[i] : i \in 1..Len(list)} \subseteq Topics
    BY <2>1, InputAssumption
  <2>3. Grouping([t \in {list[i] : i \in 1..Len(list)} |-> members[t]])
    BY <2>2 DEF Grouping, Typed, Plain
  <2> QED
    BY <1>12, <2>1, <2>3, WriteKeeps DEF OpenDialog, Typed
<1>13. ASSUME NEW r \in Requests, UpdateModelTypes(r) PROVE Groupings'
  BY <1>13, NoWritesGrouping, WriteKeeps DEF UpdateModelTypes, Typed, Groupings, dbVars,
     callVars
<1>14. ASSUME NEW r \in Requests, WriteGroup(r) PROVE Groupings'
  <2>1. /\ Head(todo[r]) \in Topics
        /\ seen[r][Head(todo[r])] \subseteq Models /\ model[r] \in Models
    BY <1>14, Heads DEF WriteGroup, Typed, Plain, Groupings, Grouping
  <2> QED
    BY <1>14, <2>1, WithGrouping, WriteKeeps DEF WriteGroup, Typed, Groupings, dbVars
<1>15. ASSUME NEW r \in Requests, WriteTags(r) PROVE Groupings'
  BY <1>15, NoWritesGrouping, WriteKeeps DEF WriteTags, Typed, Groupings, dbVars,
     callVars
<1>16. ASSUME NEW r \in Requests, FailUpdate(r) PROVE Groupings'
  BY <1>16, NoWritesGrouping, WriteKeeps DEF FailUpdate, Rollback, Typed, Groupings,
     dbVars, callVars
<1>17. ASSUME NEW r \in Requests, Commit(r) PROVE Groupings'
  BY <1>17, NoWritesGrouping, WriteKeeps DEF Commit, Rollback, Typed, Groupings, dbVars,
     callVars
<1>18. ASSUME NEW r \in Requests, CommitFails(r) PROVE Groupings'
  BY <1>18, NoWritesGrouping, WriteKeeps DEF CommitFails, Rollback, Typed, Groupings,
     dbVars, callVars
<1>19. ASSUME NEW r \in Requests, CreateTask(r) PROVE Groupings'
  BY <1>19, NoWritesGrouping, WriteKeeps DEF CreateTask, Typed, Groupings, dbVars,
     callVars
<1>20. ASSUME NEW r \in Requests, PushMessage(r) PROVE Groupings'
  BY <1>20, NoWritesGrouping, WriteKeeps DEF PushMessage, Typed, Groupings, dbVars,
     callVars
<1>21. ASSUME NEW r \in Requests, InsertTask(r) PROVE Groupings'
  BY <1>21, NoWritesGrouping, WriteKeeps DEF InsertTask, Typed, Groupings, dbVars,
     callVars
<1>22. ASSUME NEW r \in Requests, FailTask(r) PROVE Groupings'
  BY <1>22, NoWritesGrouping, WriteKeeps DEF FailTask, Typed, Groupings, dbVars,
     callVars
<1>23. CASE Crash
  BY <1>23, NoWritesGrouping, WriteKeeps DEF Crash, Die, Active, Typed, Groupings,
     dbVars, callVars
<1>24. CASE UNCHANGED vars
  BY <1>24, NoWritesGrouping, WriteKeeps DEF vars, dbVars, callVars, Typed, Groupings,
     dbVars, callVars
<1> QED
  BY <1>1, <1>2, <1>3, <1>4, <1>5, <1>6, <1>7, <1>8, <1>9, <1>10, <1>11, <1>12, <1>13,
     <1>14, <1>15, <1>16, <1>17, <1>18, <1>19, <1>20, <1>21, <1>22, <1>23, <1>24 DEF
     Next

\* What a call does to others: nothing.
Same(q) == /\ kind'[q] = kind[q] /\ pc'[q] = pc[q] /\ todo'[q] = todo[q]
           /\ model'[q] = model[q] /\ name'[q] = name[q] /\ seen'[q] = seen[q]
           /\ pend'[q] = pend[q] /\ answer'[q] = answer[q] /\ asked'[q] = asked[q]

Call(r) ==
  \/ AddModel(r) \/ NameTaken(r) \/ NameFree(r) \/ TopicTaken(r) \/ TopicFree(r)
  \/ InsertGroup(r) \/ ReadGroup(r) \/ UpdateGroup(r) \/ InsertModel(r) \/ FailAdd(r)
  \/ OpenDialog(r) \/ UpdateModelTypes(r) \/ WriteGroup(r) \/ WriteTags(r) \/ FailUpdate(r)
  \/ Commit(r) \/ CommitFails(r)
  \/ CreateTask(r) \/ PushMessage(r) \/ InsertTask(r) \/ FailTask(r)

LEMMA NextCases ==
  Next => (\E r \in Requests : Call(r)) \/ Die
  BY DEF Next, Call, Crash, GroupPanic

\* The calls share the database and the locks, and nothing else.
LEMMA Frame ==
  ASSUME NEW r \in Requests, Call(r), Typed
  PROVE  \A q \in Requests \ {r} : Same(q)
<1>1. CASE AddModel(r)
  BY <1>1 DEF AddModel, Goto, Same, Typed, Plain, Lists, Groupings, dbVars, callVars
<1>2. CASE NameTaken(r)
  BY <1>2 DEF NameTaken, Answer, Goto, Same, Typed, Plain, Lists, Groupings, dbVars,
     callVars
<1>3. CASE NameFree(r)
  BY <1>3 DEF NameFree, Goto, Same, Typed, Plain, Lists, Groupings, dbVars, callVars
<1>4. CASE TopicTaken(r)
  BY <1>4 DEF TopicTaken, Answer, Goto, Rollback, Same, Typed, Plain, Lists, Groupings,
     dbVars, callVars
<1>5. CASE TopicFree(r)
  BY <1>5 DEF TopicFree, Goto, Same, Typed, Plain, Lists, Groupings, dbVars, callVars
<1>6. CASE InsertGroup(r)
  BY <1>6 DEF InsertGroup, Goto, Same, Typed, Plain, Lists, Groupings, dbVars, callVars
<1>7. CASE ReadGroup(r)
  BY <1>7 DEF ReadGroup, Goto, Same, Typed, Plain, Lists, Groupings, dbVars, callVars
<1>8. CASE UpdateGroup(r)
  BY <1>8 DEF UpdateGroup, Goto, Same, Typed, Plain, Lists, Groupings, dbVars, callVars
<1>9. CASE InsertModel(r)
  BY <1>9 DEF InsertModel, Goto, Same, Typed, Plain, Lists, Groupings, dbVars, callVars
<1>10. CASE FailAdd(r)
  BY <1>10 DEF FailAdd, Answer, Goto, Rollback, Same, Typed, Plain, Lists, Groupings,
     dbVars, callVars
<1>11. CASE OpenDialog(r)
  BY <1>11 DEF OpenDialog, Goto, Same, Typed, Plain, Lists, Groupings, dbVars, callVars
<1>12. CASE UpdateModelTypes(r)
  BY <1>12 DEF UpdateModelTypes, Goto, Same, Typed, Plain, Lists, Groupings, dbVars,
     callVars
<1>13. CASE WriteGroup(r)
  BY <1>13 DEF WriteGroup, Goto, Same, Typed, Plain, Lists, Groupings, dbVars, callVars
<1>14. CASE WriteTags(r)
  BY <1>14 DEF WriteTags, Goto, Same, Typed, Plain, Lists, Groupings, dbVars, callVars
<1>15. CASE FailUpdate(r)
  BY <1>15 DEF FailUpdate, Answer, Goto, Rollback, Same, Typed, Plain, Lists, Groupings,
     dbVars, callVars
<1>16. CASE Commit(r)
  BY <1>16 DEF Commit, Answer, Goto, Rollback, Same, Typed, Plain, Lists, Groupings,
     dbVars, callVars
<1>17. CASE CommitFails(r)
  BY <1>17 DEF CommitFails, Answer, Goto, Rollback, Same, Typed, Plain, Lists,
     Groupings, dbVars, callVars
<1>18. CASE CreateTask(r)
  BY <1>18 DEF CreateTask, Goto, Same, Typed, Plain, Lists, Groupings, dbVars, callVars
<1>19. CASE PushMessage(r)
  BY <1>19 DEF PushMessage, Answer, Goto, Same, Typed, Plain, Lists, Groupings, dbVars,
     callVars
<1>20. CASE InsertTask(r)
  BY <1>20 DEF InsertTask, Answer, Goto, Same, Typed, Plain, Lists, Groupings, dbVars,
     callVars
<1>21. CASE FailTask(r)
  BY <1>21 DEF FailTask, Answer, Goto, Same, Typed, Plain, Lists, Groupings, dbVars,
     callVars
<1> QED
  BY <1>1, <1>2, <1>3, <1>4, <1>5, <1>6, <1>7, <1>8, <1>9, <1>10, <1>11, <1>12, <1>13,
     <1>14, <1>15, <1>16, <1>17, <1>18, <1>19, <1>20, <1>21 DEF Call

LEMMA FlowFrame ==
  ASSUME NEW q \in Requests, Flow(q), Same(q)
  PROVE  Flow(q)'
  BY DEF Flow, Same

\* A call goes through its loops as Flow says.
LEMMA FlowOwn ==
  ASSUME NEW r \in Requests, Call(r), Typed, \A q \in Requests : Flow(q)
  PROVE  Flow(r)'
<1>1. CASE AddModel(r)
  <2>1. /\ pc[r] = "idle" /\ pc'[r] = "name" /\ kind'[r] = "add" /\ model'[r] = r
        /\ name'[r] \in Names \cup {OldName} /\ todo'[r] \in AddLists
        /\ UNCHANGED <<seen, answer>>
    BY <1>1 DEF AddModel, Goto, Typed, Plain, Lists
  <2>2. todo'[r] \in Seq(TypeList) /\ todo'[r] # <<>>
    BY <2>1, InputAssumption DEF TypeList
  <2> QED
    BY <2>1, <2>2 DEF Flow
<1>2. CASE NameTaken(r)
  BY <1>2, Heads DEF NameTaken, Answer, Goto, Flow, Typed, Plain, Lists, dbVars,
     callVars
<1>3. CASE NameFree(r)
  BY <1>3, Heads DEF NameFree, Goto, Flow, Typed, Plain, Lists, dbVars, callVars
<1>4. CASE TopicTaken(r)
  BY <1>4, Heads DEF TopicTaken, Answer, Goto, Rollback, Flow, Typed, Plain, Lists,
     dbVars, callVars
<1>5. CASE TopicFree(r)
  BY <1>5, Heads DEF TopicFree, Goto, Flow, Typed, Plain, Lists, dbVars, callVars
<1>6. CASE InsertGroup(r)
  <2>1. /\ pc[r] = "insert" /\ todo'[r] = Tail(todo[r])
        /\ pc'[r] = IF Len(todo[r]) > 1 THEN "type" ELSE "model"
        /\ UNCHANGED <<kind, model, name, seen, answer>>
    BY <1>6 DEF InsertGroup, Goto, Typed, Plain, Lists
  <2> QED
    BY <2>1, Heads DEF Flow
<1>7. CASE ReadGroup(r)
  BY <1>7, Heads DEF ReadGroup, Goto, With, Flow, Typed, Plain, Lists, dbVars, callVars,
     Groupings
<1>8. CASE UpdateGroup(r)
  <2>1. /\ pc[r] = "update" /\ todo'[r] = Tail(todo[r])
        /\ pc'[r] = IF Len(todo[r]) > 1 THEN "type" ELSE "model"
        /\ UNCHANGED <<kind, model, name, seen, answer>>
    BY <1>8 DEF UpdateGroup, Goto, Typed, Plain, Lists
  <2> QED
    BY <2>1, Heads DEF Flow
<1>9. CASE InsertModel(r)
  BY <1>9, Heads DEF InsertModel, Goto, Flow, Typed, Plain, Lists, dbVars, callVars
<1>10. CASE FailAdd(r)
  BY <1>10, Heads DEF FailAdd, Answer, Goto, Rollback, Flow, Typed, Plain, Lists,
     dbVars, callVars
<1>11. CASE OpenDialog(r)
  <2>1. PICK list \in Selections :
          /\ todo' = [todo EXCEPT ![r] = list]
          /\ seen' = [seen EXCEPT ![r] = [t \in {list[i] : i \in 1..Len(list)} |-> members[t]]]
    BY <1>11 DEF OpenDialog
  <2>2. list \in Seq(Topics) /\ list # <<>>
    BY InputAssumption, SeqMonotone
  <2>3. /\ pc[r] = "idle" /\ pc'[r] = "dialog" /\ kind'[r] = "update" /\ todo'[r] = list
        /\ DOMAIN seen'[r] = {list[i] : i \in 1..Len(list)} /\ UNCHANGED answer
    BY <1>11, <2>1 DEF OpenDialog, Goto, Typed, Plain, Lists, Groupings
  <2> QED
    BY <2>2, <2>3 DEF Flow
<1>12. CASE UpdateModelTypes(r)
  BY <1>12, Heads DEF UpdateModelTypes, Goto, Flow, Typed, Plain, Lists, dbVars,
     callVars
<1>13. CASE WriteGroup(r)
  <2>1. /\ pc[r] = "group" /\ todo'[r] = Tail(todo[r])
        /\ pc'[r] = IF Len(todo[r]) > 1 THEN "group" ELSE "tags"
        /\ UNCHANGED <<kind, model, name, seen, answer>>
    BY <1>13 DEF WriteGroup, Goto, Typed, Plain, Lists
  <2> QED
    BY <2>1, Heads DEF Flow
<1>14. CASE WriteTags(r)
  BY <1>14, Heads DEF WriteTags, Goto, Flow, Typed, Plain, Lists, dbVars, callVars
<1>15. CASE FailUpdate(r)
  BY <1>15, Heads DEF FailUpdate, Answer, Goto, Rollback, Flow, Typed, Plain, Lists,
     dbVars, callVars
<1>16. CASE Commit(r)
  BY <1>16, Heads DEF Commit, Answer, Goto, Rollback, Flow, Typed, Plain, Lists, dbVars,
     callVars
<1>17. CASE CommitFails(r)
  BY <1>17, Heads DEF CommitFails, Answer, Goto, Rollback, Flow, Typed, Plain, Lists,
     dbVars, callVars
<1>18. CASE CreateTask(r)
  <2>1. /\ pc[r] = "idle" /\ kind'[r] \in {"create", "classify"} /\ todo'[r] \in Selections
        /\ pc'[r] = IF kind'[r] = "create" THEN "push" ELSE "row"
        /\ UNCHANGED <<model, name, seen, answer>>
    BY <1>18 DEF CreateTask, Goto, Typed, Plain, Lists
  <2>2. todo'[r] \in Seq(Topics) /\ todo'[r] # <<>>
    BY <2>1, InputAssumption, SeqMonotone
  <2> QED
    BY <2>1, <2>2 DEF Flow
<1>19. CASE PushMessage(r)
  BY <1>19, Heads DEF PushMessage, Answer, Goto, Flow, Typed, Plain, Lists, dbVars,
     callVars
<1>20. CASE InsertTask(r)
  BY <1>20, Heads DEF InsertTask, Answer, Goto, Flow, Typed, Plain, Lists, dbVars,
     callVars
<1>21. CASE FailTask(r)
  BY <1>21, Heads DEF FailTask, Answer, Goto, Flow, Typed, Plain, Lists, dbVars,
     callVars
<1> QED
  BY <1>1, <1>2, <1>3, <1>4, <1>5, <1>6, <1>7, <1>8, <1>9, <1>10, <1>11, <1>12, <1>13,
     <1>14, <1>15, <1>16, <1>17, <1>18, <1>19, <1>20, <1>21 DEF Call

LEMMA FlowStep ==
  ASSUME Typed, \A q \in Requests : Flow(q), [Next]_vars
  PROVE  \A q \in Requests : Flow(q)'
<1>1. CASE \E r \in Requests : Call(r)
  BY <1>1, Frame, FlowFrame, FlowOwn
<1>2. CASE Die
  BY <1>2 DEF Die, Active, Flow, dbVars, Typed, Plain
<1>3. CASE UNCHANGED vars
  BY <1>3 DEF vars, callVars, Flow
<1> QED
  BY <1>1, <1>2, <1>3, NextCases

\* A call takes no lock that another holds, and frees none of another.
LEMMA LockFrame ==
  ASSUME NEW r \in Requests, Call(r), Typed
  PROVE  /\ DOMAIN lock' = DOMAIN lock
         /\ \A q \in Requests \ {r} : \A x \in DOMAIN lock : lock'[x] = q <=> lock[x] = q
<1>1. CASE AddModel(r)
  BY <1>1, InputAssumption DEF AddModel, Typed, Plain, dbVars, callVars
<1>2. CASE NameTaken(r)
  BY <1>2, InputAssumption DEF NameTaken, Typed, Plain, dbVars, callVars
<1>3. CASE NameFree(r)
  BY <1>3, InputAssumption DEF NameFree, Typed, Plain, dbVars, callVars
<1>4. CASE TopicTaken(r)
  BY <1>4, InputAssumption DEF TopicTaken, Rollback, Unlocked, Typed, Plain, dbVars,
     callVars
<1>5. CASE TopicFree(r)
  BY <1>5, InputAssumption DEF TopicFree, Typed, Plain, dbVars, callVars
<1>6. CASE InsertGroup(r)
  BY <1>6, InputAssumption DEF InsertGroup, CanLock, Lock, Typed, Plain, dbVars,
     callVars
<1>7. CASE ReadGroup(r)
  BY <1>7, InputAssumption DEF ReadGroup, Typed, Plain, dbVars, callVars
<1>8. CASE UpdateGroup(r)
  BY <1>8, InputAssumption DEF UpdateGroup, CanLock, Lock, Typed, Plain, dbVars,
     callVars
<1>9. CASE InsertModel(r)
  BY <1>9, InputAssumption DEF InsertModel, CanLock, Lock, Typed, Plain, dbVars,
     callVars
<1>10. CASE FailAdd(r)
  BY <1>10, InputAssumption DEF FailAdd, Rollback, Unlocked, Typed, Plain, dbVars,
     callVars
<1>11. CASE OpenDialog(r)
  BY <1>11, InputAssumption DEF OpenDialog, Typed, Plain, dbVars, callVars
<1>12. CASE UpdateModelTypes(r)
  BY <1>12, InputAssumption DEF UpdateModelTypes, Typed, Plain, dbVars, callVars
<1>13. CASE WriteGroup(r)
  BY <1>13, InputAssumption DEF WriteGroup, CanLock, Lock, Typed, Plain, dbVars,
     callVars
<1>14. CASE WriteTags(r)
  BY <1>14, InputAssumption DEF WriteTags, CanLock, Lock, Typed, Plain, dbVars, callVars
<1>15. CASE FailUpdate(r)
  BY <1>15, InputAssumption DEF FailUpdate, Rollback, Unlocked, Typed, Plain, dbVars,
     callVars
<1>16. CASE Commit(r)
  BY <1>16, InputAssumption DEF Commit, Rollback, Unlocked, Typed, Plain, dbVars,
     callVars
<1>17. CASE CommitFails(r)
  BY <1>17, InputAssumption DEF CommitFails, Rollback, Unlocked, Typed, Plain, dbVars,
     callVars
<1>18. CASE CreateTask(r)
  BY <1>18, InputAssumption DEF CreateTask, Typed, Plain, dbVars, callVars
<1>19. CASE PushMessage(r)
  BY <1>19, InputAssumption DEF PushMessage, Typed, Plain, dbVars, callVars
<1>20. CASE InsertTask(r)
  BY <1>20, InputAssumption DEF InsertTask, Typed, Plain, dbVars, callVars
<1>21. CASE FailTask(r)
  BY <1>21, InputAssumption DEF FailTask, Typed, Plain, dbVars, callVars
<1> QED
  BY <1>1, <1>2, <1>3, <1>4, <1>5, <1>6, <1>7, <1>8, <1>9, <1>10, <1>11, <1>12, <1>13,
     <1>14, <1>15, <1>16, <1>17, <1>18, <1>19, <1>20, <1>21 DEF Call

LEMMA NameFrame ==
  ASSUME NEW r \in Requests, Call(r)
  PROVE  \/ UNCHANGED nameOf
         \/ /\ pc[r] = "commit" /\ kind[r] = "add"
            /\ nameOf' = [nameOf EXCEPT ![r] = name[r]]
<1>1. CASE AddModel(r)
  BY <1>1 DEF AddModel, dbVars
<1>2. CASE NameTaken(r)
  BY <1>2 DEF NameTaken, dbVars
<1>3. CASE NameFree(r)
  BY <1>3 DEF NameFree, dbVars
<1>4. CASE TopicTaken(r)
  BY <1>4 DEF TopicTaken, dbVars
<1>5. CASE TopicFree(r)
  BY <1>5 DEF TopicFree, dbVars
<1>6. CASE InsertGroup(r)
  BY <1>6 DEF InsertGroup, dbVars
<1>7. CASE ReadGroup(r)
  BY <1>7 DEF ReadGroup, dbVars
<1>8. CASE UpdateGroup(r)
  BY <1>8 DEF UpdateGroup, dbVars
<1>9. CASE InsertModel(r)
  BY <1>9 DEF InsertModel, dbVars
<1>10. CASE FailAdd(r)
  BY <1>10 DEF FailAdd, dbVars
<1>11. CASE OpenDialog(r)
  BY <1>11 DEF OpenDialog, dbVars
<1>12. CASE UpdateModelTypes(r)
  BY <1>12 DEF UpdateModelTypes, dbVars
<1>13. CASE WriteGroup(r)
  BY <1>13 DEF WriteGroup, dbVars
<1>14. CASE WriteTags(r)
  BY <1>14 DEF WriteTags, dbVars
<1>15. CASE FailUpdate(r)
  BY <1>15 DEF FailUpdate, dbVars
<1>16. CASE Commit(r)
  BY <1>16 DEF Commit, dbVars
<1>17. CASE CommitFails(r)
  BY <1>17 DEF CommitFails, dbVars
<1>18. CASE CreateTask(r)
  BY <1>18 DEF CreateTask, dbVars
<1>19. CASE PushMessage(r)
  BY <1>19 DEF PushMessage, dbVars
<1>20. CASE InsertTask(r)
  BY <1>20 DEF InsertTask, dbVars
<1>21. CASE FailTask(r)
  BY <1>21 DEF FailTask, dbVars
<1> QED
  BY <1>1, <1>2, <1>3, <1>4, <1>5, <1>6, <1>7, <1>8, <1>9, <1>10, <1>11, <1>12, <1>13,
     <1>14, <1>15, <1>16, <1>17, <1>18, <1>19, <1>20, <1>21 DEF Call

\* So what another call has locked stays so, and the name it is about to commit is
\* still free: that would take its lock.
LEMMA LockingFrame ==
  ASSUME Typed, NEW r \in Requests, Call(r), Locking(r), Flow(r),
         NEW q \in Requests \ {r}, Locking(q), Flow(q), Same(q)
  PROVE  Locking(q)'
<1>1. /\ \A x \in DOMAIN lock : lock'[x] = q <=> lock[x] = q
      /\ DOMAIN lock' = DOMAIN lock
  BY LockFrame
<1>2. DOMAIN pend[q] \subseteq DOMAIN lock
  BY DEF Typed, Plain, Groupings, Grouping
<1>3. pc[q] = "commit" /\ kind[q] = "add" => lock[name[q]] = q /\ ~Exists(name[q])'
  <2> SUFFICES ASSUME pc[q] = "commit", kind[q] = "add"
               PROVE  lock[name[q]] = q /\ ~Exists(name[q])'
    OBVIOUS
  <2>1. lock[name[q]] = q /\ ~Exists(name[q]) /\ name'[q] = name[q]
    BY DEF Locking, Same
  <2>2. CASE UNCHANGED nameOf
    BY <2>1, <2>2 DEF Exists
  <2>3. CASE /\ pc[r] = "commit" /\ kind[r] = "add"
             /\ nameOf' = [nameOf EXCEPT ![r] = name[r]]
    <3>1. lock[name[r]] = r /\ name[r] # name[q]
      BY <2>1, <2>3 DEF Locking
    <3> QED
      BY <2>1, <2>3, <3>1 DEF Exists, Typed, Plain, Models
  <2> QED
    BY <2>2, <2>3, NameFrame
<1>4. pc[q] = "commit" /\ kind[q] = "add" => name[q] \in DOMAIN lock
  BY DEF Flow, Typed, Plain
<1> QED
  BY <1>1, <1>2, <1>3, <1>4 DEF Locking, Same

\* The ends of a transaction, and a statement of it that writes x.
LEMMA RollbackEffect ==
  ASSUME Typed, NEW r \in Requests, Rollback(r)
  PROVE  /\ DOMAIN pend'[r] = {} /\ DOMAIN lock' = DOMAIN lock
         /\ \A x \in DOMAIN lock : lock'[x] # r
  BY InputAssumption DEF Typed, Plain, Groupings, Rollback, Unlocked, NoWrites

LEMMA LockEffect ==
  ASSUME Typed, NEW r \in Requests, NEW x \in DOMAIN lock, Lock(r, x)
  PROVE  /\ DOMAIN lock' = DOMAIN lock /\ lock'[x] = r
         /\ \A y \in DOMAIN lock \ {x} : lock'[y] = lock[y]
  BY DEF Typed, Plain, Lock

\* A call that writes a group holds its lock from then on.
LEMMA LockingOwn ==
  ASSUME NEW r \in Requests, Call(r), Typed, \A q \in Requests : Flow(q), Locking(r), Named(r)
  PROVE  Locking(r)'
<1>1. CASE AddModel(r)
  BY <1>1, InputAssumption DEF AddModel, Goto, Locking, Typed, Plain, Groupings, dbVars,
     callVars
<1>2. CASE NameTaken(r)
  BY <1>2, InputAssumption DEF NameTaken, Answer, Goto, Locking, Typed, Plain,
     Groupings, dbVars, callVars
<1>3. CASE NameFree(r)
  BY <1>3, InputAssumption DEF NameFree, Goto, Locking, Typed, Plain, Groupings, dbVars,
     callVars
<1>4. CASE TopicTaken(r)
  <2>1. Rollback(r) /\ pc'[r] = "done"
    BY <1>4 DEF TopicTaken, Answer, Goto, Typed, Plain
  <2> QED
    BY <2>1, RollbackEffect DEF Locking
<1>5. CASE TopicFree(r)
  BY <1>5, InputAssumption DEF TopicFree, Goto, Locking, Typed, Plain, Groupings,
     dbVars, callVars
<1>6. CASE InsertGroup(r)
  <2>1. /\ Head(todo[r]).topic \in DOMAIN lock /\ Lock(r, Head(todo[r]).topic)
        /\ DOMAIN pend'[r] = DOMAIN pend[r] \cup {Head(todo[r]).topic}
        /\ pc'[r] \in {"type", "model"}
    BY <1>6, Heads DEF InsertGroup, Goto, With, Typed, Plain, Groupings
  <2>2. DOMAIN pend[r] \subseteq DOMAIN lock
    BY DEF Typed, Plain, Groupings, Grouping
  <2> QED
    BY <2>1, <2>2, LockEffect DEF Locking
<1>7. CASE ReadGroup(r)
  BY <1>7, InputAssumption DEF ReadGroup, Goto, With, Locking, Typed, Plain, Groupings,
     dbVars, callVars
<1>8. CASE UpdateGroup(r)
  <2>1. /\ Head(todo[r]).topic \in DOMAIN lock /\ Lock(r, Head(todo[r]).topic)
        /\ DOMAIN pend'[r] = DOMAIN pend[r] \cup {Head(todo[r]).topic}
        /\ pc'[r] \in {"type", "model"}
    BY <1>8, Heads DEF UpdateGroup, Goto, With, Typed, Plain, Groupings
  <2>2. DOMAIN pend[r] \subseteq DOMAIN lock
    BY DEF Typed, Plain, Groupings, Grouping
  <2> QED
    BY <2>1, <2>2, LockEffect DEF Locking
<1>9. CASE InsertModel(r)
  <2>1. /\ name[r] \in DOMAIN lock /\ Lock(r, name[r]) /\ ~Exists(name[r])
        /\ pc[r] = "model" /\ pc'[r] = "commit" /\ UNCHANGED <<pend, name, nameOf>>
    BY <1>9 DEF InsertModel, Goto, Flow, Typed, Plain, dbVars
  <2>2. DOMAIN pend[r] \subseteq DOMAIN lock /\ ~Exists(name[r])'
    BY <2>1 DEF Typed, Plain, Groupings, Grouping, Exists
  <2> QED
    BY <2>1, <2>2, LockEffect DEF Locking
<1>10. CASE FailAdd(r)
  <2>1. Rollback(r) /\ pc'[r] = "done"
    BY <1>10 DEF FailAdd, Answer, Goto, Typed, Plain
  <2> QED
    BY <2>1, RollbackEffect DEF Locking
<1>11. CASE OpenDialog(r)
  BY <1>11, InputAssumption DEF OpenDialog, Goto, Locking, Typed, Plain, Groupings,
     dbVars, callVars
<1>12. CASE UpdateModelTypes(r)
  BY <1>12, InputAssumption DEF UpdateModelTypes, Goto, Locking, Typed, Plain,
     Groupings, dbVars, callVars
<1>13. CASE WriteGroup(r)
  <2>1. /\ Head(todo[r]) \in DOMAIN lock /\ Lock(r, Head(todo[r]))
        /\ DOMAIN pend'[r] = DOMAIN pend[r] \cup {Head(todo[r])} /\ pc'[r] \in {"group", "tags"}
    BY <1>13, Heads DEF WriteGroup, Goto, With, Typed, Plain, Groupings
  <2>2. DOMAIN pend[r] \subseteq DOMAIN lock
    BY DEF Typed, Plain, Groupings, Grouping
  <2> QED
    BY <2>1, <2>2, LockEffect DEF Locking
<1>14. CASE WriteTags(r)
  <2>1. /\ nameOf[model[r]] # NoName
        /\ nameOf[model[r]] \in DOMAIN lock /\ Lock(r, nameOf[model[r]])
        /\ kind[r] = "update" /\ pc[r] = "tags" /\ pc'[r] = "commit" /\ UNCHANGED <<pend, kind>>
    BY <1>14 DEF WriteTags, Goto, Flow, Named, Typed, Plain
  <2>2. DOMAIN pend[r] \subseteq DOMAIN lock
    BY DEF Typed, Plain, Groupings, Grouping
  <2> QED
    BY <2>1, <2>2, LockEffect DEF Locking
<1>15. CASE FailUpdate(r)
  <2>1. pc'[r] = "done" /\ kind[r] = "update" /\ answer'[r] = "error" /\ UNCHANGED kind
    BY <1>15 DEF FailUpdate, Answer, Goto, Flow, Typed, Plain
  <2>2. CASE UNCHANGED <<lock, pend>>
    BY <2>1, <2>2 DEF Locking
  <2>3. CASE Rollback(r)
    BY <2>1, <2>3, RollbackEffect DEF Locking
  <2> QED
    BY <1>15, <2>2, <2>3 DEF FailUpdate
<1>16. CASE Commit(r)
  <2>1. Rollback(r) /\ pc'[r] = "done"
    BY <1>16 DEF Commit, Answer, Goto, Typed, Plain
  <2> QED
    BY <2>1, RollbackEffect DEF Locking
<1>17. CASE CommitFails(r)
  <2>1. Rollback(r) /\ pc'[r] = "done"
    BY <1>17 DEF CommitFails, Answer, Goto, Typed, Plain
  <2> QED
    BY <2>1, RollbackEffect DEF Locking
<1>18. CASE CreateTask(r)
  BY <1>18, InputAssumption DEF CreateTask, Goto, Locking, Typed, Plain, Groupings,
     dbVars, callVars
<1>19. CASE PushMessage(r)
  BY <1>19, InputAssumption DEF PushMessage, Answer, Goto, Locking, Typed, Plain,
     Groupings, dbVars, callVars
<1>20. CASE InsertTask(r)
  BY <1>20, InputAssumption DEF InsertTask, Answer, Goto, Locking, Typed, Plain,
     Groupings, dbVars, callVars
<1>21. CASE FailTask(r)
  BY <1>21, InputAssumption DEF FailTask, Answer, Goto, Locking, Typed, Plain,
     Groupings, dbVars, callVars
<1> QED
  BY <1>1, <1>2, <1>3, <1>4, <1>5, <1>6, <1>7, <1>8, <1>9, <1>10, <1>11, <1>12, <1>13,
     <1>14, <1>15, <1>16, <1>17, <1>18, <1>19, <1>20, <1>21 DEF Call

\* Models and groups change at a Commit, and only then.
LEMMA OnlyCommit ==
  ASSUME NEW r \in Requests, Call(r)
  PROVE  UNCHANGED <<groups, members, nameOf, tags, raced>> \/ Commit(r)
<1>1. CASE AddModel(r)
  BY <1>1 DEF AddModel, dbVars
<1>2. CASE NameTaken(r)
  BY <1>2 DEF NameTaken, dbVars
<1>3. CASE NameFree(r)
  BY <1>3 DEF NameFree, dbVars
<1>4. CASE TopicTaken(r)
  BY <1>4 DEF TopicTaken, dbVars
<1>5. CASE TopicFree(r)
  BY <1>5 DEF TopicFree, dbVars
<1>6. CASE InsertGroup(r)
  BY <1>6 DEF InsertGroup, dbVars
<1>7. CASE ReadGroup(r)
  BY <1>7 DEF ReadGroup, dbVars
<1>8. CASE UpdateGroup(r)
  BY <1>8 DEF UpdateGroup, dbVars
<1>9. CASE InsertModel(r)
  BY <1>9 DEF InsertModel, dbVars
<1>10. CASE FailAdd(r)
  BY <1>10 DEF FailAdd, dbVars
<1>11. CASE OpenDialog(r)
  BY <1>11 DEF OpenDialog, dbVars
<1>12. CASE UpdateModelTypes(r)
  BY <1>12 DEF UpdateModelTypes, dbVars
<1>13. CASE WriteGroup(r)
  BY <1>13 DEF WriteGroup, dbVars
<1>14. CASE WriteTags(r)
  BY <1>14 DEF WriteTags, dbVars
<1>15. CASE FailUpdate(r)
  BY <1>15 DEF FailUpdate, dbVars
<1>16. CASE Commit(r)
  BY <1>16 DEF Commit, dbVars
<1>17. CASE CommitFails(r)
  BY <1>17 DEF CommitFails, dbVars
<1>18. CASE CreateTask(r)
  BY <1>18 DEF CreateTask, dbVars
<1>19. CASE PushMessage(r)
  BY <1>19 DEF PushMessage, dbVars
<1>20. CASE InsertTask(r)
  BY <1>20 DEF InsertTask, dbVars
<1>21. CASE FailTask(r)
  BY <1>21 DEF FailTask, dbVars
<1> QED
  BY <1>1, <1>2, <1>3, <1>4, <1>5, <1>6, <1>7, <1>8, <1>9, <1>10, <1>11, <1>12, <1>13,
     <1>14, <1>15, <1>16, <1>17, <1>18, <1>19, <1>20, <1>21 DEF Call

\* Rows of models are never deleted.
LEMMA RowsStay ==
  ASSUME NEW r \in Requests, Call(r), Typed, Flow(r)
  PROVE  \A m \in Models : nameOf[m] # NoName => nameOf'[m] # NoName
<1>1. CASE UNCHANGED <<groups, members, nameOf, tags, raced>>
  BY <1>1
<1>2. CASE Commit(r)
  BY <1>2, InputAssumption DEF Commit, Flow, Typed, Plain, Models
<1> QED
  BY <1>1, <1>2, OnlyCommit

LEMMA NamedFrame ==
  ASSUME NEW r \in Requests, Call(r), Typed, Flow(r), NEW q \in Requests, Named(q), Same(q)
  PROVE  Named(q)'
  BY RowsStay DEF Named, Same, Typed, Plain, Groupings, Grouping

\* A Commit writes groups with models that have a row, or get theirs with it.
LEMMA ListedStep ==
  ASSUME NEW r \in Requests, Call(r), Typed, Flow(r), Locking(r), Named(r), ListedModelsExist
  PROVE  ListedModelsExist'
<1>1. CASE UNCHANGED <<groups, members, nameOf, tags, raced>>
  BY <1>1 DEF ListedModelsExist
<1>2. CASE Commit(r)
  <2>1. ASSUME NEW t \in Topics, NEW m \in members'[t]
        PROVE  t \in groups' /\ nameOf'[m] # NoName
    <3>1. CASE t \in DOMAIN pend[r]
      <4>1. m \in Models /\ m \in pend[r][t] /\ t \in groups'
        BY <1>2, <2>1, <3>1 DEF Commit, Typed, Groupings, Grouping
      <4>2. CASE nameOf[m] # NoName
        BY <4>1, <4>2, RowsStay
      <4>3. CASE m = r /\ kind[r] = "add"
        BY <1>2, <4>1, <4>3, InputAssumption DEF Commit, Flow, Typed, Plain
      <4> QED
        BY <3>1, <4>1, <4>2, <4>3 DEF Named
    <3>2. CASE t \notin DOMAIN pend[r]
      <4>1. m \in members[t] /\ t \in groups'
        BY <1>2, <2>1, <3>2 DEF Commit, ListedModelsExist
      <4>2. m \in Models /\ nameOf[m] # NoName
        BY <4>1 DEF ListedModelsExist, Typed, Plain
      <4> QED
        BY <4>1, <4>2, RowsStay
    <3> QED
      BY <3>1, <3>2
  <2>2. ASSUME NEW m \in Models, NEW n \in Models, m # n, nameOf'[m] = nameOf'[n]
        PROVE  nameOf'[m] = NoName
    <3>1. CASE kind[r] = "add"
      <4>1. /\ \A k \in Models : nameOf[k] # name[r]
            /\ nameOf' = [nameOf EXCEPT ![r] = name[r]]
        BY <1>2, <3>1 DEF Commit, Locking, Exists
      <4> QED
        BY <2>2, <4>1 DEF ListedModelsExist, Typed, Plain
    <3>2. CASE kind[r] # "add"
      BY <1>2, <2>2, <3>2 DEF Commit, ListedModelsExist
    <3> QED
      BY <3>1, <3>2
  <2> QED
    BY <2>1, <2>2 DEF ListedModelsExist
<1> QED
  BY <1>1, <1>2, OnlyCommit

\* What a call reads is committed, so all models there have a row.
LEMMA NamedOwn ==
  ASSUME NEW r \in Requests, Call(r), Typed, \A q \in Requests : Flow(q),
         Named(r), ListedModelsExist
  PROVE  Named(r)'
<1>1. CASE AddModel(r)
  BY <1>1 DEF AddModel, Goto, Named, Flow, Typed, Plain, Groupings, dbVars, callVars
<1>2. CASE NameTaken(r)
  BY <1>2 DEF NameTaken, Answer, Goto, Named, Flow, Typed, Plain, Groupings, dbVars,
     callVars
<1>3. CASE NameFree(r)
  BY <1>3 DEF NameFree, Goto, Named, Flow, Typed, Plain, Groupings, dbVars, callVars
<1>4. CASE TopicTaken(r)
  <2>1. Rollback(r) /\ UNCHANGED <<seen, kind, model>>
    BY <1>4 DEF TopicTaken, dbVars
  <2> QED
    BY <2>1, RowsStay, RollbackEffect DEF Named, Typed, Plain, Groupings, Grouping
<1>5. CASE TopicFree(r)
  BY <1>5 DEF TopicFree, Goto, Named, Flow, Typed, Plain, Groupings, dbVars, callVars
<1>6. CASE InsertGroup(r)
  <2>1. /\ Head(todo[r]).topic \in Topics /\ model[r] \in Models
        /\ pend'[r] = With(pend[r], Head(todo[r]).topic, {r})
        /\ UNCHANGED <<nameOf, seen, kind, model>>
    BY <1>6, Heads DEF InsertGroup, dbVars, Typed, Plain, Groupings
  <2>2. \A m \in {r} : nameOf[m] # NoName \/ (m = r /\ kind[r] = "add")
    BY <1>6, Heads DEF InsertGroup, Named, Flow
  <2> QED
    BY <2>1, <2>2 DEF Named, With
<1>7. CASE ReadGroup(r)
  <2>1. /\ Head(todo[r]).topic \in Topics
        /\ seen'[r] = With(seen[r], Head(todo[r]).topic, members[Head(todo[r]).topic])
        /\ UNCHANGED <<nameOf, pend, kind, model>>
    BY <1>7, Heads DEF ReadGroup, dbVars, Typed, Plain, Groupings
  <2> QED
    BY <2>1 DEF Named, With, ListedModelsExist
<1>8. CASE UpdateGroup(r)
  <2>1. /\ Head(todo[r]).topic \in Topics /\ model[r] \in Models
        /\ pend'[r] = With(pend[r], Head(todo[r]).topic,
                           seen[r][Head(todo[r]).topic] \cup {r})
        /\ UNCHANGED <<nameOf, seen, kind, model>>
    BY <1>8, Heads DEF UpdateGroup, dbVars, Typed, Plain, Groupings
  <2>2. \A m \in seen[r][Head(todo[r]).topic] \cup {r} :
          nameOf[m] # NoName \/ (m = r /\ kind[r] = "add")
    BY <1>8, Heads DEF UpdateGroup, Named, Flow
  <2> QED
    BY <2>1, <2>2 DEF Named, With
<1>9. CASE InsertModel(r)
  BY <1>9 DEF InsertModel, Goto, CanLock, Lock, Exists, Named, Flow, Typed, Plain,
     Groupings, dbVars, callVars
<1>10. CASE FailAdd(r)
  <2>1. Rollback(r) /\ UNCHANGED <<seen, kind, model>>
    BY <1>10 DEF FailAdd, dbVars
  <2> QED
    BY <2>1, RowsStay, RollbackEffect DEF Named, Typed, Plain, Groupings, Grouping
<1>11. CASE OpenDialog(r)
  <2>1. PICK list \in Selections :
          seen' = [seen EXCEPT ![r] = [t \in {list[i] : i \in 1..Len(list)} |-> members[t]]]
    BY <1>11 DEF OpenDialog
  <2>2. {list[i] : i \in 1..Len(list)} \subseteq Topics
    BY <2>1, InputAssumption
  <2>3. /\ kind[r] = "none" /\ kind'[r] = "update" /\ nameOf[model'[r]] # NoName
        /\ UNCHANGED <<nameOf, pend>>
    BY <1>11 DEF OpenDialog, Flow, Typed, Plain, dbVars
  <2>4. seen'[r] = [t \in {list[i] : i \in 1..Len(list)} |-> members[t]]
    BY <2>1 DEF Typed, Groupings
  <2>5. \A t \in DOMAIN seen'[r] : \A m \in seen'[r][t] : nameOf'[m] # NoName
    BY <2>2, <2>3, <2>4 DEF ListedModelsExist
  <2> QED
    BY <2>3, <2>5 DEF Named
<1>12. CASE UpdateModelTypes(r)
  BY <1>12 DEF UpdateModelTypes, Goto, Named, Flow, Typed, Plain, Groupings, dbVars,
     callVars
<1>13. CASE WriteGroup(r)
  <2>1. /\ Head(todo[r]) \in Topics /\ model[r] \in Models
        /\ pend'[r] = With(pend[r], Head(todo[r]), (seen[r][Head(todo[r])] \cup {model[r]}))
        /\ UNCHANGED <<nameOf, seen, kind, model>>
    BY <1>13, Heads DEF WriteGroup, dbVars, Typed, Plain, Groupings
  <2>2. \A m \in seen[r][Head(todo[r])] \cup {model[r]} :
          nameOf[m] # NoName \/ (m = r /\ kind[r] = "add")
    BY <1>13, Heads DEF WriteGroup, Named, Flow
  <2> QED
    BY <2>1, <2>2 DEF Named, With
<1>14. CASE WriteTags(r)
  BY <1>14 DEF WriteTags, Goto, CanLock, Lock, Named, Flow, Typed, Plain, Groupings,
     dbVars, callVars
<1>15. CASE FailUpdate(r)
  <2>1. UNCHANGED <<nameOf, seen, kind, model>>
    BY <1>15 DEF FailUpdate, dbVars
  <2>2. CASE UNCHANGED pend
    BY <2>1, <2>2 DEF Named
  <2>3. CASE Rollback(r)
    BY <2>1, <2>3, RollbackEffect DEF Named
  <2> QED
    BY <1>15, <2>2, <2>3 DEF FailUpdate
<1>16. CASE Commit(r)
  <2>1. Rollback(r) /\ UNCHANGED <<seen, kind, model>>
    BY <1>16 DEF Commit, dbVars
  <2> QED
    BY <2>1, RowsStay, RollbackEffect DEF Named, Typed, Plain, Groupings, Grouping
<1>17. CASE CommitFails(r)
  <2>1. Rollback(r) /\ UNCHANGED <<seen, kind, model>>
    BY <1>17 DEF CommitFails, dbVars
  <2> QED
    BY <2>1, RowsStay, RollbackEffect DEF Named, Typed, Plain, Groupings, Grouping
<1>18. CASE CreateTask(r)
  BY <1>18 DEF CreateTask, Goto, Named, Flow, Typed, Plain, Groupings, dbVars, callVars
<1>19. CASE PushMessage(r)
  BY <1>19 DEF PushMessage, Answer, Goto, Named, Flow, Typed, Plain, Groupings, dbVars,
     callVars
<1>20. CASE InsertTask(r)
  BY <1>20 DEF InsertTask, Answer, Goto, Named, Flow, Typed, Plain, Groupings, dbVars,
     callVars
<1>21. CASE FailTask(r)
  BY <1>21 DEF FailTask, Answer, Goto, Named, Flow, Typed, Plain, Groupings, dbVars,
     callVars
<1> QED
  BY <1>1, <1>2, <1>3, <1>4, <1>5, <1>6, <1>7, <1>8, <1>9, <1>10, <1>11, <1>12, <1>13,
     <1>14, <1>15, <1>16, <1>17, <1>18, <1>19, <1>20, <1>21 DEF Call

\* A call that has come back does nothing more.
LEMMA NotDone ==
  ASSUME NEW r \in Requests, Call(r)
  PROVE  pc[r] # "done"
<1>1. CASE AddModel(r)
  BY <1>1 DEF AddModel
<1>2. CASE NameTaken(r)
  BY <1>2 DEF NameTaken
<1>3. CASE NameFree(r)
  BY <1>3 DEF NameFree
<1>4. CASE TopicTaken(r)
  BY <1>4 DEF TopicTaken
<1>5. CASE TopicFree(r)
  BY <1>5 DEF TopicFree
<1>6. CASE InsertGroup(r)
  BY <1>6 DEF InsertGroup
<1>7. CASE ReadGroup(r)
  BY <1>7 DEF ReadGroup
<1>8. CASE UpdateGroup(r)
  BY <1>8 DEF UpdateGroup
<1>9. CASE InsertModel(r)
  BY <1>9 DEF InsertModel
<1>10. CASE FailAdd(r)
  BY <1>10 DEF FailAdd
<1>11. CASE OpenDialog(r)
  BY <1>11 DEF OpenDialog
<1>12. CASE UpdateModelTypes(r)
  BY <1>12 DEF UpdateModelTypes
<1>13. CASE WriteGroup(r)
  BY <1>13 DEF WriteGroup
<1>14. CASE WriteTags(r)
  BY <1>14 DEF WriteTags
<1>15. CASE FailUpdate(r)
  BY <1>15 DEF FailUpdate
<1>16. CASE Commit(r)
  BY <1>16 DEF Commit
<1>17. CASE CommitFails(r)
  BY <1>17 DEF CommitFails
<1>18. CASE CreateTask(r)
  BY <1>18 DEF CreateTask
<1>19. CASE PushMessage(r)
  BY <1>19 DEF PushMessage
<1>20. CASE InsertTask(r)
  BY <1>20 DEF InsertTask
<1>21. CASE FailTask(r)
  BY <1>21 DEF FailTask
<1> QED
  BY <1>1, <1>2, <1>3, <1>4, <1>5, <1>6, <1>7, <1>8, <1>9, <1>10, <1>11, <1>12, <1>13,
     <1>14, <1>15, <1>16, <1>17, <1>18, <1>19, <1>20, <1>21 DEF Call

\* Only the Commit gives a model its row.
LEMMA LateStep ==
  ASSUME NEW r \in Requests, Call(r), Typed, Late(r), NEW q \in Requests, Late(q),
         q # r => Same(q)
  PROVE  Late(q)'
<1>1. CASE UNCHANGED <<groups, members, nameOf, tags, raced>>
  BY <1>1, NotDone DEF Late, Same
<1>2. CASE Commit(r)
  <2>1. CASE q = r
    BY <1>2, <2>1 DEF Commit, Answer, Goto, Late, Typed, Plain
  <2>2. CASE q # r
    BY <1>2, <2>2 DEF Commit, Late, Same, Typed, Plain, Models
  <2> QED
    BY <2>1, <2>2
<1> QED
  BY <1>1, <1>2, OnlyCommit

\* An AddModel is answered well by its Commit alone.
LEMMA OkAdd ==
  ASSUME NEW r \in Requests, Call(r), Typed, Flow(r)
  PROVE  answer'[r] = "ok" /\ kind'[r] = "add" => Commit(r)
<1>1. CASE AddModel(r)
  BY <1>1 DEF AddModel, Goto, Flow, Typed, Plain, callVars, dbVars
<1>2. CASE NameTaken(r)
  BY <1>2 DEF NameTaken, Answer, Goto, Flow, Typed, Plain, callVars, dbVars
<1>3. CASE NameFree(r)
  BY <1>3 DEF NameFree, Goto, Flow, Typed, Plain, callVars, dbVars
<1>4. CASE TopicTaken(r)
  BY <1>4 DEF TopicTaken, Answer, Goto, Flow, Typed, Plain, callVars, dbVars
<1>5. CASE TopicFree(r)
  BY <1>5 DEF TopicFree, Goto, Flow, Typed, Plain, callVars, dbVars
<1>6. CASE InsertGroup(r)
  BY <1>6 DEF InsertGroup, Goto, Flow, Typed, Plain, callVars, dbVars
<1>7. CASE ReadGroup(r)
  BY <1>7 DEF ReadGroup, Goto, Flow, Typed, Plain, callVars, dbVars
<1>8. CASE UpdateGroup(r)
  BY <1>8 DEF UpdateGroup, Goto, Flow, Typed, Plain, callVars, dbVars
<1>9. CASE InsertModel(r)
  BY <1>9 DEF InsertModel, Goto, Flow, Typed, Plain, callVars, dbVars
<1>10. CASE FailAdd(r)
  BY <1>10 DEF FailAdd, Answer, Goto, Flow, Typed, Plain, callVars, dbVars
<1>11. CASE OpenDialog(r)
  BY <1>11 DEF OpenDialog, Goto, Flow, Typed, Plain, callVars, dbVars
<1>12. CASE UpdateModelTypes(r)
  BY <1>12 DEF UpdateModelTypes, Goto, Flow, Typed, Plain, callVars, dbVars
<1>13. CASE WriteGroup(r)
  BY <1>13 DEF WriteGroup, Goto, Flow, Typed, Plain, callVars, dbVars
<1>14. CASE WriteTags(r)
  BY <1>14 DEF WriteTags, Goto, Flow, Typed, Plain, callVars, dbVars
<1>15. CASE FailUpdate(r)
  BY <1>15 DEF FailUpdate, Answer, Goto, Flow, Typed, Plain, callVars, dbVars
<1>16. CASE Commit(r)
  BY <1>16 DEF Commit, Answer, Goto, Flow, Typed, Plain, callVars, dbVars
<1>17. CASE CommitFails(r)
  BY <1>17 DEF CommitFails, Answer, Goto, Flow, Typed, Plain, callVars, dbVars
<1>18. CASE CreateTask(r)
  BY <1>18 DEF CreateTask, Goto, Flow, Typed, Plain, callVars, dbVars
<1>19. CASE PushMessage(r)
  BY <1>19 DEF PushMessage, Answer, Goto, Flow, Typed, Plain, callVars, dbVars
<1>20. CASE InsertTask(r)
  BY <1>20 DEF InsertTask, Answer, Goto, Flow, Typed, Plain, callVars, dbVars
<1>21. CASE FailTask(r)
  BY <1>21 DEF FailTask, Answer, Goto, Flow, Typed, Plain, callVars, dbVars
<1> QED
  BY <1>1, <1>2, <1>3, <1>4, <1>5, <1>6, <1>7, <1>8, <1>9, <1>10, <1>11, <1>12, <1>13,
     <1>14, <1>15, <1>16, <1>17, <1>18, <1>19, <1>20, <1>21 DEF Call

LEMMA AllOrNothingStep ==
  ASSUME NEW r \in Requests, Call(r), Typed, Flow(r), Locking(r), AllOrNothing,
         \A q \in Requests \ {r} : Same(q),
         ListedModelsExist', \A q \in Requests : Late(q)'
  PROVE  AllOrNothing'
<1> SUFFICES ASSUME NEW q \in Requests, kind'[q] = "add"
             PROVE  /\ answer'[q] = "error" =>
                         nameOf'[q] = NoName /\ \A t \in Topics : q \notin members'[t]
                    /\ answer'[q] = "ok" => nameOf'[q] = name'[q] /\ tags'[q] # {}
  BY DEF AllOrNothing
<1>1. answer'[q] = "error" => nameOf'[q] = NoName
  BY DEF Late
<1>2. answer'[q] = "error" => \A t \in Topics : q \notin members'[t]
  BY <1>1 DEF ListedModelsExist
<1>3. ASSUME answer'[q] = "ok" PROVE nameOf'[q] = name'[q] /\ tags'[q] # {}
  <2>1. CASE q = r
    <3>1. Commit(r) /\ kind[r] = "add"
      BY <1>3, <2>1, OkAdd DEF Commit
    <3>2. model[r] = r /\ name'[r] = name[r] /\ DOMAIN pend[r] # {}
      BY <3>1 DEF Commit, Flow, Locking
    <3> QED
      BY <2>1, <3>1, <3>2 DEF Commit, Typed, Plain, Models
  <2>2. CASE q # r
    <3>1. nameOf[q] = name[q] /\ tags[q] # {} /\ name'[q] = name[q]
      BY <1>3, <2>2 DEF Same, AllOrNothing
    <3>2. CASE UNCHANGED <<groups, members, nameOf, tags, raced>>
      BY <3>1, <3>2
    <3>3. CASE Commit(r)
      <4>1. nameOf'[q] = nameOf[q]
        BY <2>2, <3>3 DEF Commit, Typed, Plain, Models
      <4>2. DOMAIN pend[r] # {}
        BY <3>3 DEF Commit, Locking
      <4>3. tags'[q] # {}
        BY <3>1, <3>3, <4>2 DEF Commit, Typed, Plain, Models
      <4> QED
        BY <3>1, <4>1, <4>3
    <3> QED
      BY <3>2, <3>3, OnlyCommit
  <2> QED
    BY <2>1, <2>2
<1> QED
  BY <1>1, <1>2, <1>3

\* What another call has read stays as it is, or is raced.
LEMMA FreshFrame ==
  ASSUME NEW r \in Requests, Call(r), Typed,
         NEW q \in Requests \ {r}, Fresh(q), Same(q)
  PROVE  Fresh(q)'
<1>1. CASE UNCHANGED <<groups, members, nameOf, tags, raced>>
  BY <1>1 DEF Fresh, Same, Active
<1>2. CASE Commit(r)
  <2> SUFFICES ASSUME Active(q), NEW t \in DOMAIN seen[q], t \notin raced'
               PROVE  seen[q][t] = members'[t]
    BY DEF Fresh, Same, Active
  <2>1. t \notin DOMAIN pend[r] /\ t \notin raced
    BY <1>2 DEF Commit
  <2>2. members'[t] = members[t]
    BY <1>2, <2>1 DEF Commit, Typed, Groupings, Grouping
  <2> QED
    BY <2>1, <2>2 DEF Fresh
<1> QED
  BY <1>1, <1>2, OnlyCommit

\* A call reads what is there.
LEMMA FreshOwn ==
  ASSUME NEW r \in Requests, Call(r), Typed, Flow(r), Fresh(r)
  PROVE  Fresh(r)'
<1>1. CASE AddModel(r)
  BY <1>1 DEF AddModel, Goto, Fresh, Flow, Active, Typed, Plain, Groupings, dbVars,
     callVars
<1>2. CASE NameTaken(r)
  BY <1>2 DEF NameTaken, Answer, Goto, Fresh, Flow, Active, Typed, Plain, Groupings,
     dbVars, callVars
<1>3. CASE NameFree(r)
  BY <1>3 DEF NameFree, Goto, Fresh, Flow, Active, Typed, Plain, Groupings, dbVars,
     callVars
<1>4. CASE TopicTaken(r)
  BY <1>4 DEF TopicTaken, Answer, Goto, Fresh, Flow, Active, Typed, Plain, Groupings,
     dbVars, callVars
<1>5. CASE TopicFree(r)
  BY <1>5 DEF TopicFree, Goto, Fresh, Flow, Active, Typed, Plain, Groupings, dbVars,
     callVars
<1>6. CASE InsertGroup(r)
  BY <1>6 DEF InsertGroup, Goto, Fresh, Flow, Active, Typed, Plain, Groupings, dbVars,
     callVars
<1>7. CASE ReadGroup(r)
  <2>1. /\ seen'[r] = With(seen[r], Head(todo[r]).topic, members[Head(todo[r]).topic])
        /\ Active(r) /\ UNCHANGED <<members, raced>>
    BY <1>7 DEF ReadGroup, Active, Typed, Groupings, dbVars
  <2> QED
    BY <2>1 DEF Fresh, With
<1>8. CASE UpdateGroup(r)
  BY <1>8 DEF UpdateGroup, Goto, Fresh, Flow, Active, Typed, Plain, Groupings, dbVars,
     callVars
<1>9. CASE InsertModel(r)
  BY <1>9 DEF InsertModel, Goto, Fresh, Flow, Active, Typed, Plain, Groupings, dbVars,
     callVars
<1>10. CASE FailAdd(r)
  BY <1>10 DEF FailAdd, Answer, Goto, Fresh, Flow, Active, Typed, Plain, Groupings,
     dbVars, callVars
<1>11. CASE OpenDialog(r)
  <2>1. PICK list \in Selections :
          seen' = [seen EXCEPT ![r] = [t \in {list[i] : i \in 1..Len(list)} |-> members[t]]]
    BY <1>11 DEF OpenDialog
  <2>2. seen'[r] = [t \in {list[i] : i \in 1..Len(list)} |-> members[t]] /\ UNCHANGED members
    BY <1>11, <2>1 DEF OpenDialog, Typed, Groupings, dbVars
  <2> QED
    BY <2>2 DEF Fresh
<1>12. CASE UpdateModelTypes(r)
  BY <1>12 DEF UpdateModelTypes, Goto, Fresh, Flow, Active, Typed, Plain, Groupings,
     dbVars, callVars
<1>13. CASE WriteGroup(r)
  BY <1>13 DEF WriteGroup, Goto, Fresh, Flow, Active, Typed, Plain, Groupings, dbVars,
     callVars
<1>14. CASE WriteTags(r)
  BY <1>14 DEF WriteTags, Goto, Fresh, Flow, Active, Typed, Plain, Groupings, dbVars,
     callVars
<1>15. CASE FailUpdate(r)
  BY <1>15 DEF FailUpdate, Answer, Goto, Fresh, Flow, Active, Typed, Plain, Groupings,
     dbVars, callVars
<1>16. CASE Commit(r)
  BY <1>16 DEF Commit, Answer, Goto, Fresh, Flow, Active, Typed, Plain, Groupings,
     dbVars, callVars
<1>17. CASE CommitFails(r)
  BY <1>17 DEF CommitFails, Answer, Goto, Fresh, Flow, Active, Typed, Plain, Groupings,
     dbVars, callVars
<1>18. CASE CreateTask(r)
  BY <1>18 DEF CreateTask, Goto, Fresh, Flow, Active, Typed, Plain, Groupings, dbVars,
     callVars
<1>19. CASE PushMessage(r)
  BY <1>19 DEF PushMessage, Answer, Goto, Fresh, Flow, Active, Typed, Plain, Groupings,
     dbVars, callVars
<1>20. CASE InsertTask(r)
  BY <1>20 DEF InsertTask, Answer, Goto, Fresh, Flow, Active, Typed, Plain, Groupings,
     dbVars, callVars
<1>21. CASE FailTask(r)
  BY <1>21 DEF FailTask, Answer, Goto, Fresh, Flow, Active, Typed, Plain, Groupings,
     dbVars, callVars
<1> QED
  BY <1>1, <1>2, <1>3, <1>4, <1>5, <1>6, <1>7, <1>8, <1>9, <1>10, <1>11, <1>12, <1>13,
     <1>14, <1>15, <1>16, <1>17, <1>18, <1>19, <1>20, <1>21 DEF Call

\* A group whose lock another call holds is not added under its hands.
LEMMA WrittenFrame ==
  ASSUME NEW r \in Requests, Call(r), Locking(r),
         NEW q \in Requests \ {r}, Locking(q), Written(q), Same(q)
  PROVE  Written(q)'
<1>1. \A t \in DOMAIN pend[q] : t \notin groups => t \notin groups'
  <2>1. CASE UNCHANGED <<groups, members, nameOf, tags, raced>>
    BY <2>1
  <2>2. CASE Commit(r)
    BY <2>2 DEF Commit, Locking
  <2> QED
    BY <2>1, <2>2, OnlyCommit
<1> QED
  BY <1>1 DEF Written, Same

\* A call writes its model to what it has read, or to a new group.
LEMMA WrittenOwn ==
  ASSUME NEW r \in Requests, Call(r), Typed, \A q \in Requests : Flow(q), Locking(r), Written(r)
  PROVE  Written(r)'
<1>1. CASE AddModel(r)
  <2>1. DOMAIN pend[r] = {} /\ UNCHANGED pend
    BY <1>1 DEF AddModel, Locking, Typed, Plain, Groupings, Grouping, callVars
  <2> QED
    BY <2>1 DEF Written
<1>2. CASE NameTaken(r)
  BY <1>2 DEF NameTaken, Answer, Goto, Written, Typed, Plain, dbVars, callVars
<1>3. CASE NameFree(r)
  BY <1>3 DEF NameFree, Goto, Written, Typed, Plain, dbVars, callVars
<1>4. CASE TopicTaken(r)
  <2>1. Rollback(r)
    BY <1>4 DEF TopicTaken
  <2> QED
    BY <2>1, RollbackEffect DEF Written
<1>5. CASE TopicFree(r)
  BY <1>5 DEF TopicFree, Goto, Written, Typed, Plain, dbVars, callVars
<1>6. CASE InsertGroup(r)
  <2>1. /\ pend'[r] = With(pend[r], Head(todo[r]).topic, {r}) /\ model[r] = r
        /\ Head(todo[r]).topic \notin groups /\ pc[r] = "insert"
        /\ UNCHANGED <<groups, seen, model>>
    BY <1>6 DEF InsertGroup, Flow, Typed, Groupings, dbVars
  <2> QED
    BY <2>1 DEF Written, With
<1>7. CASE ReadGroup(r)
  <2>1. /\ seen'[r] = With(seen[r], Head(todo[r]).topic, members[Head(todo[r]).topic])
        /\ pc[r] = "type" /\ pc'[r] = "update"
        /\ UNCHANGED <<groups, pend, model, todo>>
    BY <1>7 DEF ReadGroup, Goto, Typed, Plain, Groupings, dbVars
  <2> QED
    BY <2>1 DEF Written, With
<1>8. CASE UpdateGroup(r)
  <2>1. /\ pend'[r] = With(pend[r], Head(todo[r]).topic, seen[r][Head(todo[r]).topic] \cup {r})
        /\ model[r] = r /\ Head(todo[r]).topic \in DOMAIN seen[r]
        /\ UNCHANGED <<groups, seen, model>>
    BY <1>8 DEF UpdateGroup, Flow, Typed, Groupings, dbVars
  <2> QED
    BY <2>1 DEF Written, With
<1>9. CASE InsertModel(r)
  BY <1>9 DEF InsertModel, Goto, Written, Typed, Plain, dbVars, callVars
<1>10. CASE FailAdd(r)
  <2>1. Rollback(r)
    BY <1>10 DEF FailAdd
  <2> QED
    BY <2>1, RollbackEffect DEF Written
<1>11. CASE OpenDialog(r)
  <2>1. DOMAIN pend[r] = {} /\ UNCHANGED pend
    BY <1>11 DEF OpenDialog, Locking, Typed, Plain, Groupings, Grouping, callVars
  <2> QED
    BY <2>1 DEF Written
<1>12. CASE UpdateModelTypes(r)
  BY <1>12 DEF UpdateModelTypes, Goto, Written, Typed, Plain, dbVars, callVars
<1>13. CASE WriteGroup(r)
  <2>1. /\ pend'[r] = With(pend[r], Head(todo[r]), seen[r][Head(todo[r])] \cup {model[r]})
        /\ Head(todo[r]) \in DOMAIN seen[r] /\ pc[r] = "group"
        /\ UNCHANGED <<groups, seen, model>>
    BY <1>13, Heads DEF WriteGroup, Typed, Groupings, dbVars
  <2> QED
    BY <2>1 DEF Written, With
<1>14. CASE WriteTags(r)
  BY <1>14 DEF WriteTags, Goto, Written, Typed, Plain, dbVars, callVars
<1>15. CASE FailUpdate(r)
  <2>1. pc[r] # "update" /\ UNCHANGED <<groups, seen, model>>
    BY <1>15 DEF FailUpdate, dbVars
  <2>2. CASE UNCHANGED pend
    BY <2>1, <2>2 DEF Written
  <2>3. CASE Rollback(r)
    BY <2>3, RollbackEffect DEF Written
  <2> QED
    BY <1>15, <2>2, <2>3 DEF FailUpdate
<1>16. CASE Commit(r)
  <2>1. Rollback(r)
    BY <1>16 DEF Commit
  <2> QED
    BY <2>1, RollbackEffect DEF Written
<1>17. CASE CommitFails(r)
  <2>1. Rollback(r)
    BY <1>17 DEF CommitFails
  <2> QED
    BY <2>1, RollbackEffect DEF Written
<1>18. CASE CreateTask(r)
  <2>1. DOMAIN pend[r] = {} /\ UNCHANGED pend
    BY <1>18 DEF CreateTask, Locking, Typed, Plain, Groupings, Grouping, callVars
  <2> QED
    BY <2>1 DEF Written
<1>19. CASE PushMessage(r)
  BY <1>19 DEF PushMessage, Answer, Goto, Written, Typed, Plain, dbVars, callVars
<1>20. CASE InsertTask(r)
  BY <1>20 DEF InsertTask, Answer, Goto, Written, Typed, Plain, dbVars, callVars
<1>21. CASE FailTask(r)
  BY <1>21 DEF FailTask, Answer, Goto, Written, Typed, Plain, dbVars, callVars
<1> QED
  BY <1>1, <1>2, <1>3, <1>4, <1>5, <1>6, <1>7, <1>8, <1>9, <1>10, <1>11, <1>12, <1>13,
     <1>14, <1>15, <1>16, <1>17, <1>18, <1>19, <1>20, <1>21 DEF Call

\* A Commit keeps the models of a group that was not read before another's commit.
LEMMA TagsStep ==
  ASSUME NEW r \in Requests, Call(r), Typed, Fresh(r), Written(r), TagsAreListed
  PROVE  TagsAreListed'
<1>1. CASE UNCHANGED <<groups, members, nameOf, tags, raced>>
  BY <1>1 DEF TagsAreListed
<1>2. CASE Commit(r)
  <2> SUFFICES ASSUME NEW m \in Models, NEW t \in tags'[m] \ raced'
               PROVE  t \in groups' /\ m \in members'[t]
    BY DEF TagsAreListed
  <2>1. raced \subseteq raced' /\ Active(r) /\ pc[r] = "commit"
    BY <1>2 DEF Commit, Active
  <2>2. DOMAIN pend[r] \subseteq Topics
    BY DEF Typed, Groupings, Grouping
  <2>3. CASE m = model[r]
    <3>1. t \in DOMAIN pend[r]
      BY <1>2, <2>3 DEF Commit, Typed, Plain
    <3> QED
      BY <1>2, <2>2, <2>3, <3>1 DEF Commit, Written
  <2>4. CASE m # model[r]
    <3>1. t \in tags[m] /\ t \in Topics
      BY <1>2, <2>4 DEF Commit, Typed, Plain
    <3>2. t \in groups /\ m \in members[t] /\ t \notin raced
      BY <2>1, <3>1 DEF TagsAreListed
    <3>3. CASE t \in DOMAIN pend[r]
      <4>1. t \in DOMAIN seen[r] /\ pend[r][t] = seen[r][t] \cup {model[r]}
        BY <2>1, <3>2, <3>3 DEF Written
      <4>2. seen[r][t] = members[t]
        BY <2>1, <3>2, <4>1 DEF Fresh
      <4> QED
        BY <1>2, <3>1, <3>2, <3>3, <4>1, <4>2 DEF Commit
    <3>4. CASE t \notin DOMAIN pend[r]
      BY <1>2, <3>1, <3>2, <3>4 DEF Commit
    <3> QED
      BY <3>3, <3>4
  <2> QED
    BY <2>3, <2>4
<1> QED
  BY <1>1, <1>2, OnlyCommit

\* Calls on models have nothing to do with tasks.
LEMMA TaskCalls ==
  ASSUME NEW r \in Requests, Call(r), Typed, Flow(r)
  PROVE  \/ CreateTask(r) \/ PushMessage(r) \/ InsertTask(r) \/ FailTask(r)
         \/ /\ UNCHANGED <<taskRows, sent, asked>>
            /\ pc[r] # "done" /\ kind[r] # "classify"
            /\ kind'[r] \in {"add", "update"} /\ pc'[r] \notin {"push", "row"}
<1> USE DEF Flow, Goto, Answer, dbVars, Typed, Plain
<1>1. CASE AddModel(r)
  BY <1>1 DEF AddModel
<1>2. CASE NameTaken(r) \/ NameFree(r)
  BY <1>2 DEF NameTaken, NameFree
<1>3. CASE TopicTaken(r) \/ TopicFree(r)
  BY <1>3 DEF TopicTaken, TopicFree
<1>4. CASE InsertGroup(r)
  BY <1>4 DEF InsertGroup
<1>5. CASE ReadGroup(r) \/ UpdateGroup(r)
  BY <1>5 DEF ReadGroup, UpdateGroup
<1>6. CASE InsertModel(r)
  BY <1>6 DEF InsertModel
<1>7. CASE FailAdd(r)
  BY <1>7 DEF FailAdd
<1>8. CASE OpenDialog(r)
  BY <1>8 DEF OpenDialog
<1>9. CASE UpdateModelTypes(r) \/ WriteTags(r)
  BY <1>9 DEF UpdateModelTypes, WriteTags
<1>10. CASE WriteGroup(r)
  BY <1>10 DEF WriteGroup
<1>11. CASE FailUpdate(r)
  BY <1>11 DEF FailUpdate
<1>12. CASE Commit(r)
  BY <1>12 DEF Commit
<1>13. CASE CommitFails(r)
  BY <1>13 DEF CommitFails
<1> QED
  BY <1>1, <1>2, <1>3, <1>4, <1>5, <1>6, <1>7, <1>8, <1>9, <1>10, <1>11, <1>12, <1>13
     DEF Call

\* Rows and messages of other calls stay as they are.
LEMMA RowFrame ==
  ASSUME NEW r \in Requests, Call(r), Typed, Flow(r),
         NEW q \in Requests \ {r}, RowAndMessages(q), Same(q)
  PROVE  RowAndMessages(q)'
<1>1. ASSUME NEW id PROVE /\ Reached(q, id)' = Reached(q, id)
                          /\ <<q, id>> \in taskRows' <=> <<q, id>> \in taskRows
  <2>1. CASE UNCHANGED <<taskRows, sent>>
    BY <2>1 DEF Reached
  <2>2. CASE CreateTask(r) \/ FailTask(r)
    BY <2>2 DEF CreateTask, FailTask, Reached, dbVars
  <2>3. CASE PushMessage(r)
    BY <2>3 DEF PushMessage, Reached, dbVars
  <2>4. CASE InsertTask(r)
    BY <2>4 DEF InsertTask, Reached
  <2> QED
    BY <2>1, <2>2, <2>3, <2>4, TaskCalls
<1>2. /\ pc'[q] = pc[q] /\ kind'[q] = kind[q] /\ answer'[q] = answer[q]
      /\ asked'[q] = asked[q] /\ Left(q)' = Left(q)
  BY DEF Same, Left
<1> QED
  BY <1>1, <1>2 DEF RowAndMessages

\* Each loop sends to the groups that are left until there are none.
LEMMA RowOwn ==
  ASSUME NEW r \in Requests, Call(r), Typed, Flow(r), RowAndMessages(r)
  PROVE  RowAndMessages(r)'
<1>0. Left(r)' = {todo'[r][i] : i \in 1..Len(todo'[r])}
  BY DEF Left
<1>1. CASE /\ UNCHANGED <<taskRows, sent, asked>>
           /\ pc[r] # "done" /\ kind[r] # "classify"
           /\ kind'[r] \in {"add", "update"} /\ pc'[r] \notin {"push", "row"}
  BY <1>1 DEF RowAndMessages, Reached
<1>2. CASE CreateTask(r)
  <2>1. /\ UNCHANGED <<taskRows, sent, answer>>
        /\ pc[r] = "idle" /\ answer[r] = "none" /\ kind[r] = "none"
        /\ kind'[r] \in {"create", "classify"}
        /\ pc'[r] = IF kind'[r] = "create" THEN "push" ELSE "row"
        /\ asked'[r] = Left(r)'
    BY <1>2, <1>0 DEF CreateTask, Goto, Flow, Typed, Plain, Lists, dbVars
  <2> QED
    BY <2>1 DEF RowAndMessages, Reached
<1>3. CASE PushMessage(r)
  <2> DEFINE id == IF kind[r] = "create" THEN "task" ELSE "reply"
  <2>1. /\ sent' = sent \cup {<<<<r, id>>, Head(todo[r])>>}
        /\ pc[r] = "push" /\ UNCHANGED <<taskRows, kind, asked>>
        /\ todo'[r] = Tail(todo[r]) /\ answer[r] = "none"
        /\ kind[r] \in {"create", "classify"}
        /\ todo[r] # <<>> /\ todo[r] \in Seq(Topics)
    BY <1>3 DEF PushMessage, Flow, Typed, Plain, Lists, dbVars
  <2>2. /\ Len(todo[r]) > 1 => pc'[r] = "push" /\ answer'[r] = "none"
        /\ ~(Len(todo[r]) > 1) /\ kind[r] = "create" => pc'[r] = "row" /\ answer'[r] = "none"
        /\ ~(Len(todo[r]) > 1) /\ kind[r] = "classify" => pc'[r] = "done" /\ answer'[r] = "ok"
    BY <1>3, <2>1 DEF PushMessage, Goto, Answer, Typed, Plain
  <2>3. /\ Left(r) = Left(r)' \cup {Head(todo[r])}
        /\ ~(Len(todo[r]) > 1) => Left(r)' = {}
    <3>1. /\ Len(todo[r]) \in Nat /\ Len(todo[r]) > 0 /\ Head(todo[r]) = todo[r][1]
          /\ Len(Tail(todo[r])) = Len(todo[r]) - 1
          /\ \A i \in 1..Len(todo[r]) - 1 : Tail(todo[r])[i] = todo[r][i + 1]
      BY <2>1, HeadTailProperties, EmptySeq, LenProperties
    <3>2. \A x \in Left(r)' : x \in Left(r)
      BY <1>0, <2>1, <3>1 DEF Left
    <3>3. \A x \in Left(r) : x = Head(todo[r]) \/ x \in Left(r)'
      <4> SUFFICES ASSUME NEW i \in 1..Len(todo[r]), i # 1
                   PROVE  todo[r][i] \in Left(r)'
        BY <3>1 DEF Left
      <4>1. i - 1 \in 1..Len(todo[r]) - 1 /\ (i - 1) + 1 = i
        BY <3>1
      <4> QED
        BY <1>0, <2>1, <3>1, <4>1
    <3>4. Head(todo[r]) \in Left(r)
      BY <3>1 DEF Left
    <3>5. ~(Len(todo[r]) > 1) => Left(r)' = {}
      BY <1>0, <2>1, <3>1
    <3> QED
      BY <3>2, <3>3, <3>4, <3>5
  <2>4. Head(todo[r]) \in Topics
    BY <2>1, HeadTailProperties
  <2>5. /\ Reached(r, id)' = Reached(r, id) \cup {Head(todo[r])}
        /\ id # "reply" => Reached(r, "reply")' = Reached(r, "reply")
        /\ <<r, "task">> \notin taskRows
    BY <2>1, <2>4 DEF Reached, RowAndMessages
  <2>6. asked'[r] \subseteq Left(r)' \cup Reached(r, id)'
    BY <2>1, <2>3, <2>5 DEF RowAndMessages
  <2>7. CASE kind[r] = "create"
    BY <2>1, <2>2, <2>5, <2>6, <2>7 DEF RowAndMessages
  <2>8. CASE kind[r] = "classify"
    BY <2>1, <2>2, <2>3, <2>5, <2>6, <2>8 DEF RowAndMessages
  <2> QED
    BY <2>1, <2>7, <2>8
<1>4. CASE InsertTask(r)
  <2>1. /\ pc[r] = "row" /\ UNCHANGED <<sent, kind, todo, asked>>
        /\ kind[r] \in {"create", "classify"} /\ answer[r] = "none"
        /\ kind[r] = "create" => Left(r) = {}
    BY <1>4, EmptySeq DEF InsertTask, Flow, Left
  <2>2. Left(r)' = Left(r) /\ \A id : Reached(r, id)' = Reached(r, id)
    BY <2>1 DEF Left, Reached
  <2>3. CASE kind[r] = "create"
    <3>1. /\ taskRows' = taskRows \cup {<<r, "task">>} /\ pc'[r] = "done"
          /\ answer'[r] = "ok"
      BY <1>4, <2>3 DEF InsertTask, Answer, Goto, Typed, Plain
    <3> QED
      BY <2>1, <2>2, <2>3, <3>1 DEF RowAndMessages
  <2>4. CASE kind[r] = "classify"
    <3>1. /\ taskRows' = taskRows \cup {<<r, "row">>} /\ pc'[r] = "push"
          /\ answer'[r] = "none"
      BY <1>4, <2>1, <2>4 DEF InsertTask, Goto, Typed, Plain
    <3> QED
      BY <2>1, <2>2, <2>4, <3>1 DEF RowAndMessages
  <2> QED
    BY <2>1, <2>3, <2>4
<1>5. CASE FailTask(r)
  <2>1. /\ UNCHANGED <<taskRows, sent, kind, asked>>
        /\ pc[r] # "done" /\ pc'[r] = "done" /\ answer'[r] = "error"
    BY <1>5 DEF FailTask, Answer, Goto, Typed, Plain, dbVars
  <2> QED
    BY <2>1 DEF RowAndMessages, Reached
<1> QED
  BY <1>1, <1>2, <1>3, <1>4, <1>5, TaskCalls

\* A crash ends every transaction and changes nothing that is committed.
LEMMA DieStep ==
  ASSUME Typed, Typed', ForAll, Die, ListedModelsExist, AllOrNothing, TagsAreListed,
         \A q \in Requests : Flow(q)'
  PROVE  ApiInv'
<1>1. /\ UNCHANGED <<groups, members, nameOf, tags, taskRows, sent, kind, todo, model, name,
                     seen, answer, raced, asked>>
      /\ lock' = [x \in DOMAIN lock |-> Free]
      /\ \A q \in Requests : /\ DOMAIN pend'[q] = {} /\ ~Active(q)'
                             /\ pc'[q] = pc[q] \/ pc'[q] = "done"
                             /\ pc[q] \in {"idle", "done"} => pc'[q] = pc[q]
  BY DEF Die, Active, dbVars, NoWrites, Typed, Plain
<1>2. ASSUME NEW q \in Requests PROVE Locking(q)'
  <2>1. \A x \in DOMAIN lock' : lock'[x] # q
    BY <1>1, InputAssumption DEF Typed, Plain
  <2>2. pc'[q] \in {"idle", "done"}
    BY <1>1 DEF Active
  <2> QED
    BY <1>1, <2>1, <2>2 DEF Locking
<1>3. ASSUME NEW q \in Requests PROVE Named(q)' /\ Written(q)' /\ Fresh(q)'
  BY <1>1 DEF ForAll, Named, Written, Fresh
<1>4. ASSUME NEW q \in Requests PROVE Late(q)' /\ RowAndMessages(q)'
  BY <1>1 DEF ForAll, Late, RowAndMessages, Reached, Active
<1>5. ListedModelsExist' /\ AllOrNothing' /\ TagsAreListed'
  BY <1>1 DEF ListedModelsExist, AllOrNothing, TagsAreListed
<1> QED
  BY <1>2, <1>3, <1>4, <1>5 DEF ApiInv, ForAll

\* Every step of a call keeps the invariant ...
LEMMA CallStep ==
  ASSUME Typed, Typed', ForAll, NEW r \in Requests, Call(r),
         ListedModelsExist, AllOrNothing, TagsAreListed, \A q \in Requests : Flow(q)'
  PROVE  ApiInv'
<1>1. /\ \A q \in Requests : Flow(q)
      /\ Locking(r) /\ Named(r) /\ Late(r) /\ Fresh(r) /\ Written(r) /\ RowAndMessages(r)
  BY DEF ForAll
<1>2. \A q \in Requests \ {r} : Same(q)
  BY Frame
<1>3. ASSUME NEW q \in Requests \ {r}
      PROVE  /\ Locking(q)' /\ Named(q)' /\ Late(q)' /\ Fresh(q)' /\ Written(q)'
             /\ RowAndMessages(q)'
  <2>1. /\ Locking(q) /\ Named(q) /\ Late(q) /\ Fresh(q) /\ Written(q)
        /\ RowAndMessages(q) /\ Flow(q) /\ Same(q)
    BY <1>2 DEF ForAll
  <2>2. Locking(q)'
    BY <1>1, <2>1, LockingFrame
  <2>3. Named(q)'
    BY <1>1, <2>1, NamedFrame
  <2>4. Late(q)'
    BY <1>1, <2>1, LateStep
  <2>5. Fresh(q)' /\ Written(q)'
    BY <1>1, <2>1, FreshFrame, WrittenFrame
  <2>6. RowAndMessages(q)'
    BY <1>1, <2>1, RowFrame
  <2> QED
    BY <2>2, <2>3, <2>4, <2>5, <2>6
<1>4. /\ Locking(r)' /\ Named(r)' /\ Late(r)' /\ Fresh(r)' /\ Written(r)'
      /\ RowAndMessages(r)'
  <2>1. Locking(r)' /\ Named(r)'
    BY <1>1, LockingOwn, NamedOwn
  <2>2. Late(r)'
    BY <1>1, LateStep
  <2>3. Fresh(r)' /\ Written(r)' /\ RowAndMessages(r)'
    BY <1>1, FreshOwn, WrittenOwn, RowOwn
  <2> QED
    BY <2>1, <2>2, <2>3
<1>5. ForAll'
  BY <1>3, <1>4 DEF ForAll
<1>6. ListedModelsExist'
  BY <1>1, ListedStep
<1>7. TagsAreListed'
  BY <1>1, TagsStep
<1>8. AllOrNothing'
  <2>1. \A q \in Requests : Late(q)'
    BY <1>3, <1>4
  <2> QED
    BY <1>1, <1>2, <1>6, <2>1, AllOrNothingStep
<1> QED
  BY <1>5, <1>6, <1>7, <1>8 DEF ApiInv

LEMMA InitApi == Init => ApiInv
<1> SUFFICES ASSUME Init PROVE ApiInv
  OBVIOUS
<1>1. Plain
  BY InputAssumption DEF Init, Plain, Models
<1>2. Lists /\ Groupings
  BY NoWritesGrouping DEF Init, Lists, Groupings
<1>3. ASSUME NEW q \in Requests PROVE Flow(q) /\ Locking(q) /\ Fresh(q)
  BY InputAssumption DEF Init, Flow, Locking, Fresh, NoWrites, Active, Models
<1>4. ASSUME NEW q \in Requests PROVE Named(q) /\ Late(q) /\ Written(q) /\ RowAndMessages(q)
  BY InputAssumption DEF Init, Named, Late, Written, RowAndMessages, Reached, NoWrites, Models
<1>5. ListedModelsExist /\ TagsAreListed
  BY InputAssumption DEF Init, ListedModelsExist, TagsAreListed, Models
<1>6. AllOrNothing
  BY DEF Init, AllOrNothing
<1> QED
  BY <1>1, <1>2, <1>3, <1>4, <1>5, <1>6 DEF ApiInv, Typed, ForAll

LEMMA StepApi == ApiInv /\ [Next]_vars => ApiInv'
<1> SUFFICES ASSUME ApiInv, [Next]_vars PROVE ApiInv'
  OBVIOUS
<1>1. /\ Typed /\ ForAll /\ \A q \in Requests : Flow(q)
      /\ ListedModelsExist /\ AllOrNothing /\ TagsAreListed
  BY DEF ApiInv, ForAll
<1>2. Typed'
  BY <1>1, PlainStep, ListsStep, GroupingsStep DEF Typed
<1>3. \A q \in Requests : Flow(q)'
  BY <1>1, FlowStep
<1>4. CASE \E r \in Requests : Call(r)
  BY <1>1, <1>2, <1>3, <1>4, CallStep
<1>5. CASE Die
  BY <1>1, <1>2, <1>3, <1>5, DieStep
<1>6. CASE UNCHANGED vars
  <2>1. UNCHANGED <<groups, members, nameOf, tags, taskRows, sent, lock, kind, pc, todo,
                    model, name, seen, pend, answer, crashes, raced,
                    asked>>
    BY <1>6 DEF vars, dbVars, callVars
  <2>2. ASSUME NEW q \in Requests
        PROVE  /\ Locking(q)' /\ Named(q)' /\ Late(q)' /\ Fresh(q)' /\ Written(q)'
               /\ RowAndMessages(q)'
    <3>1. Locking(q)'
      BY <1>1, <2>1 DEF ForAll, Locking, Exists
    <3>2. Named(q)' /\ Late(q)'
      BY <1>1, <2>1 DEF ForAll, Named, Late
    <3>3. Fresh(q)' /\ Written(q)'
      BY <1>1, <2>1 DEF ForAll, Fresh, Written, Active
    <3>4. RowAndMessages(q)'
      BY <1>1, <2>1 DEF ForAll, RowAndMessages, Left, Reached
    <3> QED
      BY <3>1, <3>2, <3>3, <3>4
  <2>3. ListedModelsExist' /\ AllOrNothing' /\ TagsAreListed'
    BY <1>1, <2>1 DEF ListedModelsExist, AllOrNothing, TagsAreListed
  <2> QED
    BY <1>2, <1>3, <2>2, <2>3 DEF ApiInv, ForAll
<1> QED
  BY <1>4, <1>5, <1>6, NextCases

-----------------------------------------------------------------------------
\* ApiInv holds in every reachable state, whatever the calls do at the same time, which of
\* their statements fail and when the server dies.
THEOREM ApiInvariant == Spec => []ApiInv
  BY InitApi, StepApi, PTL DEF Spec

\* Every variable keeps its type.
THEOREM ApiTypes == Spec => []TypeOK
<1>1. ApiInv => TypeOK
  BY TypedIsTypeOK DEF ApiInv
<1> QED
  BY <1>1, ApiInvariant, PTL

\* A failed AddModel leaves nothing behind, and a successful one has its row
\* (apiserver.go:243-283).
THEOREM AddIsAtomic == Spec => []AllOrNothing
<1>1. ApiInv => AllOrNothing
  BY DEF ApiInv
<1> QED
  BY <1>1, ApiInvariant, PTL

\* The ids in the groups are those of models with a row, no name is given twice, and tags
\* and groups agree wherever no two calls worked on a group at once.  The looks at the
\* name and at the groups are outside the transaction: it is the unique index, the row
\* locks and the order of the statements that keep this (apiserver.go:211-280, 328-339).
THEOREM GroupsAndModelsAgree == Spec => []GroupsMatchModels
<1>1. ApiInv => GroupsMatchModels
  BY DEF ApiInv, GroupsMatchModels
<1> QED
  BY <1>1, ApiInvariant, PTL

\* Only an UpdateModelTypes that failed leaves locks behind (apiserver.go:332-343).
THEOREM OnlyFailedUpdatesLeak == Spec => []LocksReleased
<1>1. ApiInv => LocksReleased
  <2> SUFFICES ASSUME ApiInv, NEW x \in DOMAIN lock, lock[x] # Free
               PROVE  \/ Active(lock[x])
                      \/ kind[lock[x]] = "update" /\ answer[lock[x]] = "error"
    BY DEF LocksReleased
  <2>1. lock[x] \in Requests
    BY DEF ApiInv, Typed, Plain
  <2>2. Locking(lock[x])
    BY <2>1 DEF ApiInv, ForAll
  <2> QED
    BY <2>1, <2>2 DEF Locking, Active
<1> QED
  BY <1>1, ApiInvariant, PTL

\* A task row of CreateTask has a message out for each group that was asked for, a message
\* of CreateClassifyTask has its row, and who is answered well has all of both
\* (apiserver.go:36-55, 72-91).
THEOREM RowsHaveMessages == Spec => []TaskHasMessages
<1>1. ApiInv => TaskHasMessages
  BY DEF ApiInv, ForAll, RowAndMessages, TaskHasMessages
<1> QED
  BY <1>1, ApiInvariant, PTL

-----------------------------------------------------------------------------
\* The refinement of Catalogue: a Commit is one of its steps, all else is invisible there.
LEMMA CommitEnters ==
  ASSUME ApiInv, ApiInv', NEW r \in Requests, Commit(r)
  PROVE  Promise!Enter(model[r], DOMAIN pend[r])
<1>1. /\ Typed /\ Fresh(r) /\ Written(r) /\ ListedModelsExist
      /\ pc[r] = "commit" /\ Active(r)
  BY DEF ApiInv, ForAll, Commit, Active
<1>2. /\ members' = [t \in Topics |-> IF t \in DOMAIN pend[r] THEN pend[r][t] ELSE members[t]]
      /\ groups' = groups \cup DOMAIN pend[r]
      /\ tags' = [tags EXCEPT ![model[r]] = DOMAIN pend[r]]
      /\ raced \subseteq raced' /\ raced' \subseteq raced \cup DOMAIN pend[r]
  BY DEF Commit
<1>3. DOMAIN pend[r] \subseteq Topics
  BY <1>1 DEF Typed, Groupings, Grouping
<1>4. ASSUME NEW t \in DOMAIN pend[r] \ raced
      PROVE  members'[t] = members[t] \cup {model[r]}
  <2>1. members'[t] = pend[r][t] /\ t \in Topics
    BY <1>2, <1>3
  <2>2. CASE t \in DOMAIN seen[r] /\ pend[r][t] = seen[r][t] \cup {model[r]}
    BY <1>1, <2>1, <2>2 DEF Fresh
  <2>3. CASE t \notin groups /\ pend[r][t] = {model[r]}
    <3>1. members[t] = {}
      BY <1>1, <2>1, <2>3 DEF ListedModelsExist, Typed, Plain
    <3> QED
      BY <2>1, <2>3, <3>1
  <2> QED
    BY <1>1, <2>2, <2>3 DEF Written
<1>5. ASSUME NEW t \in DOMAIN pend[r]
      PROVE  model[r] \in members'[t] /\ \A x \in members'[t] : nameOf'[x] # NoName
  <2>1. members'[t] = pend[r][t] /\ t \in Topics
    BY <1>2, <1>3
  <2>2. model[r] \in pend[r][t]
    BY <1>1 DEF Written
  <2>3. ListedModelsExist'
    BY DEF ApiInv
  <2> QED
    BY <2>1, <2>2, <2>3 DEF ListedModelsExist
<1> QED
  BY <1>2, <1>3, <1>4, <1>5 DEF Promise!Enter

LEMMA CommitIsOneStep ==
  ASSUME ApiInv, ApiInv', NEW r \in Requests, Commit(r)
  PROVE  Promise!CatalogueNext
<1>1. /\ Typed /\ Flow(r) /\ Locking(r) /\ Named(r) /\ Late(r)
      /\ pc[r] = "commit" /\ kind[r] \in {"add", "update"}
  BY DEF ApiInv, ForAll, Commit, Flow
<1>2. model[r] \in Models /\ DOMAIN pend[r] \in (SUBSET Topics) \ {{}}
  <2>1. DOMAIN pend[r] \subseteq Topics /\ DOMAIN pend[r] # {}
    BY <1>1 DEF Typed, Groupings, Grouping, Locking
  <2>2. model[r] \in Models
    BY <1>1 DEF Typed, Plain
  <2> QED
    BY <2>1, <2>2
<1>3. Promise!Enter(model[r], DOMAIN pend[r])
  BY CommitEnters
<1>4. CASE kind[r] = "add"
  <2>1. model[r] = r /\ name[r] \in Names \cup {OldName}
    BY <1>1, <1>4 DEF Flow
  <2>2. nameOf[r] = NoName /\ \A x \in Models : nameOf[x] # name[r]
    BY <1>1, <1>4 DEF Late, Locking, Exists
  <2>3. nameOf' = [nameOf EXCEPT ![r] = name[r]]
    BY <1>4 DEF Commit
  <2>4. Promise!Register(model[r], name[r], DOMAIN pend[r])
    BY <1>3, <2>1, <2>2, <2>3 DEF Promise!Register
  <2> QED
    BY <1>2, <2>1, <2>4 DEF Promise!CatalogueNext
<1>5. CASE kind[r] = "update"
  <2>1. nameOf[model[r]] # NoName /\ nameOf' = nameOf
    BY <1>1, <1>5 DEF Named, Commit
  <2>2. Promise!Assign(model[r], DOMAIN pend[r])
    BY <1>3, <2>1 DEF Promise!Assign
  <2> QED
    BY <1>2, <2>2 DEF Promise!CatalogueNext
<1> QED
  BY <1>1, <1>4, <1>5

\* The API server implements Catalogue: for any calls at once, with statements that fail or
\* wait for each other and a server that dies anywhere, an AddModel or UpdateModelTypes is
\* one step of it, or none.
THEOREM ImplementsCatalogue == Spec => CallsAreAtomic
<1>1. Init => Promise!CatalogueInit
  BY InputAssumption DEF Init, Promise!CatalogueInit, Models
<1>2. ApiInv /\ ApiInv' /\ [Next]_vars => [Promise!CatalogueNext]_(Promise!catalogueVars)
  <2> SUFFICES ASSUME ApiInv, ApiInv', [Next]_vars
               PROVE  \/ Promise!CatalogueNext
                      \/ UNCHANGED <<groups, members, nameOf, tags, raced>>
    BY DEF Promise!catalogueVars
  <2>1. ASSUME NEW r \in Requests, Call(r)
        PROVE  \/ Promise!CatalogueNext
               \/ UNCHANGED <<groups, members, nameOf, tags, raced>>
    BY <2>1, OnlyCommit, CommitIsOneStep
  <2>2. CASE Die \/ UNCHANGED vars
    BY <2>2 DEF Die, vars, dbVars
  <2> QED
    BY <2>1, <2>2, NextCases
<1> QED
  BY <1>1, <1>2, ApiInvariant, PTL DEF Spec, CallsAreAtomic, Promise!OneAtATime
=============================================================================
