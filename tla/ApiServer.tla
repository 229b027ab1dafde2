------------------------------ MODULE ApiServer ------------------------------
(***************************************************************************)
(* The calls of the API server (go/api) that change something, as they run *)
(* at the same time over one MySQL database and one Kafka producer:        *)
(*   AddModel, UpdateModelTypes      models, and the groups (topics) that  *)
(*                                   list them;                            *)
(*   CreateTask, CreateClassifyTask  a row, and a message for each group.  *)
(* Reads go to mc.DB, outside the transaction that writes, and see what is *)
(* committed; writes of a transaction hold their row or unique name until  *)
(* it ends.  A group is named by its topic, which never changes and is     *)
(* unique (mysql.sql:47); a model is named by the request that adds it.    *)
(* The web console sends UpdateModelTypes whole groups, as it read them    *)
(* when its dialog opened (web/src/views/model/index.vue:207-217).         *)
(***************************************************************************)
EXTENDS Naturals, Sequences, FiniteSets

CONSTANTS Requests,    \* calls
          Topics,      \* topic names of model groups
          OldTopics,   \* the groups there are at first
          OldModel,    \* a model there is at first,
          OldTags,     \* ... and its groups
          Names,       \* names for new models
          NoName,      \* no row in table model
          OldName,     \* the name of OldModel
          AddLists,    \* model types of an AddModel: sequences of [topic, new]
          Selections,  \* groups of an UpdateModelTypes or a task: sequences; no list
                       \* is empty (apiserver.go:25, 60, 207, 313)
          Free,        \* nobody holds the lock
          Failures,    \* may MySQL and Kafka return errors?
          MaxCrashes   \* bound: the server process dies

ASSUME InputAssumption ==
  /\ OldTopics \subseteq Topics /\ OldTags \subseteq OldTopics
  /\ OldModel \notin Requests /\ Free \notin Requests
  /\ NoName \notin Names /\ OldName \notin Names /\ OldName # NoName
  /\ AddLists \subseteq Seq([topic : Topics, new : BOOLEAN])
  /\ Selections \subseteq Seq(OldTopics)
  /\ <<>> \notin AddLists \cup Selections
  /\ Failures \in BOOLEAN /\ MaxCrashes \in Nat

Models == Requests \cup {OldModel}

\* Ids of tasks: CreateClassifyTask makes one for the row and one for the messages.
TaskIds == {<<r, what>> : r \in Requests, what \in {"task", "row", "reply"}}

VARIABLES
  \* What is committed: the rows of model_group, with their model_ids, of model, with
  \* their name and tags, and of task.
  groups, members, nameOf, tags, taskRows,
  \* What the producer has accepted: pairs of a task id and a topic.
  sent,
  \* Row and name locks of open transactions.
  lock,
  \* Per call: kind, place, what is left of its list, its model and the name it adds,
  \* the groups as it read them, the writes of its transaction to groups and, once
  \* written, that to its model, and what it was answered.
  kind, pc, todo, model, name, seen, pend, answer,
  crashes,
  \* History: topics two calls worked on at once; the groups a task was asked for.
  raced, asked

dbVars == <<groups, members, nameOf, tags, taskRows>>
callVars == <<kind, pc, todo, model, name, seen, pend, answer>>
vars == <<dbVars, sent, lock, callVars, crashes, raced, asked>>

NoWrites == [t \in {} |-> {}]

\* Groups g, with s for the group t.
With(g, t, s) == [x \in DOMAIN g \cup {t} |-> IF x = t THEN s ELSE g[x]]

Init == /\ groups = OldTopics
        /\ members = [t \in Topics |-> IF t \in OldTags THEN {OldModel} ELSE {}]
        /\ nameOf = [m \in Models |-> IF m = OldModel THEN OldName ELSE NoName]
        /\ tags = [m \in Models |-> IF m = OldModel THEN OldTags ELSE {}]
        /\ taskRows = {} /\ sent = {}
        /\ lock = [x \in Topics \cup Names \cup {OldName} |-> Free]
        /\ kind = [r \in Requests |-> "none"]
        /\ pc = [r \in Requests |-> "idle"]
        /\ todo = [r \in Requests |-> <<>>]
        /\ model = [r \in Requests |-> OldModel]
        /\ name = [r \in Requests |-> NoName]
        /\ seen = [r \in Requests |-> NoWrites]
        /\ pend = [r \in Requests |-> NoWrites]
        /\ answer = [r \in Requests |-> "none"]
        /\ crashes = 0
        /\ raced = {}
        /\ asked = [r \in Requests |-> {}]

Exists(n) == \E m \in Models : nameOf[m] = n

\* Calls that have begun and not come back.
Active(r) == pc[r] \notin {"idle", "done"}

Goto(r, place) == pc' = [pc EXCEPT ![r] = place]

Answer(r, what) == /\ Goto(r, "done")
                   /\ answer' = [answer EXCEPT ![r] = what]

Unlocked(r) == [x \in DOMAIN lock |-> IF lock[x] = r THEN Free ELSE lock[x]]

\* tx.Rollback: the writes are gone and the locks free.
Rollback(r) == /\ lock' = Unlocked(r)
               /\ pend' = [pend EXCEPT ![r] = NoWrites]

\* A statement of r that writes x can run: no other transaction holds it.
CanLock(r, x) == lock[x] \in {Free, r}
Lock(r, x) == lock' = [lock EXCEPT ![x] = r]

\* A statement that writes x returns an error: MySQL fails, or another transaction
\* keeps x until the wait times out or makes a deadlock of it.
WriteFails(r, x) == Failures \/ ~CanLock(r, x)

-----------------------------------------------------------------------------
\* Plausible faults, one for each property.

\* The new group is written outside the transaction.
InsertGroupOutside(r) ==
  /\ pc[r] = "insert"
  /\ LET t == Head(todo[r]).topic IN
       /\ t \notin groups /\ CanLock(r, t)
       /\ groups' = groups \cup {t}
       /\ members' = [members EXCEPT ![t] = {r}]
       /\ pend' = [pend EXCEPT ![r] = With(@, t, {r})]
  /\ todo' = [todo EXCEPT ![r] = Tail(@)]
  /\ Goto(r, IF Len(todo[r]) > 1 THEN "type" ELSE "model")
  /\ UNCHANGED <<nameOf, tags, taskRows, sent, lock, kind, model, name, seen, answer,
                 crashes, raced, asked>>

\* A group that is there gets its own name where the model's id belongs.
UpdateGroupWithTopic(r) ==
  /\ pc[r] = "update"
  /\ LET t == Head(todo[r]).topic IN
       /\ CanLock(r, t) /\ Lock(r, t)
       /\ pend' = [pend EXCEPT ![r] = With(@, t, seen[r][t] \cup {t})]
  /\ todo' = [todo EXCEPT ![r] = Tail(@)]
  /\ Goto(r, IF Len(todo[r]) > 1 THEN "type" ELSE "model")
  /\ UNCHANGED <<dbVars, sent, kind, model, name, seen, answer, crashes, raced, asked>>

\* The error of a statement is answered, and the transaction committed.
FailAddCommitting(r) ==
  /\ kind[r] = "add"
  /\ pc[r] = "model"
  /\ Failures \/ ~CanLock(r, name[r]) \/ Exists(name[r])
  /\ groups' = groups \cup DOMAIN pend[r]
  /\ members' = [t \in Topics |-> IF t \in DOMAIN pend[r] THEN pend[r][t] ELSE members[t]]
  /\ Rollback(r)
  /\ Answer(r, "error")
  /\ UNCHANGED <<nameOf, tags, taskRows, sent, kind, todo, model, name, seen, crashes,
                 raced, asked>>

\* The error of a statement is answered without a Rollback.
FailAddLeaking(r) ==
  /\ kind[r] = "add" /\ pc[r] = "model"
  /\ Failures \/ ~CanLock(r, name[r]) \/ Exists(name[r])
  /\ Answer(r, "error")
  /\ UNCHANGED <<dbVars, sent, lock, kind, todo, model, name, seen, pend, crashes, raced,
                 asked>>

\* UpdateModelTypes stores the groups the page sent, and leaves out the model's id.
WriteGroupAsRead(r) ==
  /\ pc[r] = "group"
  /\ LET t == Head(todo[r]) IN
       /\ CanLock(r, t) /\ Lock(r, t)
       /\ pend' = [pend EXCEPT ![r] = With(@, t, seen[r][t])]
  /\ todo' = [todo EXCEPT ![r] = Tail(@)]
  /\ Goto(r, IF Len(todo[r]) > 1 THEN "group" ELSE "tags")
  /\ UNCHANGED <<dbVars, sent, kind, model, name, seen, answer, crashes, raced, asked>>

\* A Push that fails is passed over, and the loop goes on.
PushMessageSkipping(r) ==
  /\ pc[r] = "push"
  /\ LET id == IF kind[r] = "create" THEN <<r, "task">> ELSE <<r, "reply">> IN
       \/ sent' = sent \cup {<<id, Head(todo[r])>>}
       \/ Failures /\ UNCHANGED sent
  /\ todo' = [todo EXCEPT ![r] = Tail(@)]
  /\ IF Len(todo[r]) > 1 THEN Goto(r, "push") /\ UNCHANGED answer
     ELSE IF kind[r] = "create" THEN Goto(r, "row") /\ UNCHANGED answer
     ELSE Answer(r, "ok")
  /\ UNCHANGED <<dbVars, lock, kind, model, name, seen, pend, crashes, raced, asked>>

-----------------------------------------------------------------------------
\* AddModel.  A type without an id is a new group; one with an id comes from the list
\* of groups the console has read, and groups are never deleted.
AddModel(r) ==
  /\ pc[r] = "idle"
  /\ \E n \in Names \cup {OldName}, list \in AddLists :
       /\ \A i \in 1..Len(list) : list[i].new \/ list[i].topic \in groups
       /\ name' = [name EXCEPT ![r] = n]
       /\ todo' = [todo EXCEPT ![r] = list]
  /\ kind' = [kind EXCEPT ![r] = "add"]
  /\ model' = [model EXCEPT ![r] = r]
  /\ Goto(r, "name")
  /\ UNCHANGED <<dbVars, sent, lock, seen, pend, answer, crashes, raced, asked>>

\* GetModelByName; its error is dropped, and the call goes on as if the name were free.
NameTaken(r) ==
  /\ pc[r] = "name" /\ Exists(name[r])
  /\ Answer(r, "error")
  /\ UNCHANGED <<dbVars, sent, lock, kind, todo, model, name, seen, pend, crashes, raced,
                 asked>>

NameFree(r) ==
  /\ pc[r] = "name" /\ (Failures \/ ~Exists(name[r]))
  /\ Goto(r, "type")
  /\ UNCHANGED <<dbVars, sent, lock, kind, todo, model, name, seen, pend, answer, crashes,
                 raced, asked>>

\* A new group: GetModelGroupByName, outside the transaction and with its error dropped.
TopicTaken(r) ==
  /\ pc[r] = "type" /\ Head(todo[r]).new /\ Head(todo[r]).topic \in groups
  /\ Rollback(r)
  /\ Answer(r, "error")
  /\ UNCHANGED <<dbVars, sent, kind, todo, model, name, seen, crashes, raced, asked>>

TopicFree(r) ==
  /\ pc[r] = "type" /\ Head(todo[r]).new
  /\ Failures \/ Head(todo[r]).topic \notin groups
  /\ Goto(r, "insert")
  /\ UNCHANGED <<dbVars, sent, lock, kind, todo, model, name, seen, pend, answer, crashes,
                 raced, asked>>

\* InsertModelGroup; the unique index refuses a topic that is there.
InsertGroup(r) ==
  /\ pc[r] = "insert"
  /\ LET t == Head(todo[r]).topic IN
       /\ t \notin groups \cup DOMAIN pend[r]
       /\ CanLock(r, t) /\ Lock(r, t)
       /\ pend' = [pend EXCEPT ![r] = With(@, t, {r})]
  /\ todo' = [todo EXCEPT ![r] = Tail(@)]
  /\ Goto(r, IF Len(todo[r]) > 1 THEN "type" ELSE "model")
  /\ UNCHANGED <<dbVars, sent, kind, model, name, seen, answer, crashes, raced, asked>>

\* A group that is there: GetModelGroup, outside the transaction ...
ReadGroup(r) ==
  /\ pc[r] = "type" /\ ~Head(todo[r]).new
  /\ LET t == Head(todo[r]).topic IN
       seen' = [seen EXCEPT ![r] = With(@, t, members[t])]
  /\ Goto(r, "update")
  /\ UNCHANGED <<dbVars, sent, lock, kind, todo, model, name, pend, answer, crashes, raced,
                 asked>>

\* ... and UpdateModelGroup, which writes the whole group.
UpdateGroup(r) ==
  /\ pc[r] = "update"
  /\ LET t == Head(todo[r]).topic IN
       /\ CanLock(r, t) /\ Lock(r, t)
       /\ pend' = [pend EXCEPT ![r] = With(@, t, seen[r][t] \cup {r})]
  /\ todo' = [todo EXCEPT ![r] = Tail(@)]
  /\ Goto(r, IF Len(todo[r]) > 1 THEN "type" ELSE "model")
  /\ UNCHANGED <<dbVars, sent, kind, model, name, seen, answer, crashes, raced, asked>>

\* InsertModel, with the topics as tags.
InsertModel(r) ==
  /\ pc[r] = "model"
  /\ ~Exists(name[r]) /\ CanLock(r, name[r]) /\ Lock(r, name[r])
  /\ Goto(r, "commit")
  /\ UNCHANGED <<dbVars, sent, kind, todo, model, name, seen, pend, answer, crashes, raced,
                 asked>>

\* Begin or a statement fails: the transaction is rolled back.
FailAdd(r) ==
  /\ kind[r] = "add"
  /\ \/ pc[r] = "name" /\ Failures
     \/ /\ pc[r] \in {"insert", "update"}
        /\ LET t == Head(todo[r]).topic IN
             WriteFails(r, t) \/ (pc[r] = "insert" /\ t \in groups \cup DOMAIN pend[r])
     \/ pc[r] = "model" /\ (WriteFails(r, name[r]) \/ Exists(name[r]))
  /\ Rollback(r)
  /\ Answer(r, "error")
  /\ UNCHANGED <<dbVars, sent, kind, todo, model, name, seen, crashes, raced, asked>>

-----------------------------------------------------------------------------
\* The console opens its dialog on a model: it reads the groups.
OpenDialog(r) ==
  /\ pc[r] = "idle"
  /\ \E m \in {x \in Models : nameOf[x] # NoName}, list \in Selections :
       /\ model' = [model EXCEPT ![r] = m]
       /\ todo' = [todo EXCEPT ![r] = list]
       /\ seen' = [seen EXCEPT ![r] = [t \in {list[i] : i \in 1..Len(list)} |-> members[t]]]
  /\ kind' = [kind EXCEPT ![r] = "update"]
  /\ Goto(r, "dialog")
  /\ UNCHANGED <<dbVars, sent, lock, name, pend, answer, crashes, raced, asked>>

\* UpdateModelTypes: GetModel finds the model, Begin.
UpdateModelTypes(r) ==
  /\ pc[r] = "dialog"
  /\ Goto(r, "group")
  /\ UNCHANGED <<dbVars, sent, lock, kind, todo, model, name, seen, pend, answer, crashes,
                 raced, asked>>

\* UpdateModelGroup writes the group as the console read it, with the model added.
WriteGroup(r) ==
  /\ pc[r] = "group"
  /\ LET t == Head(todo[r]) IN
       /\ CanLock(r, t) /\ Lock(r, t)
       /\ pend' = [pend EXCEPT ![r] = With(@, t, seen[r][t] \cup {model[r]})]
  /\ todo' = [todo EXCEPT ![r] = Tail(@)]
  /\ Goto(r, IF Len(todo[r]) > 1 THEN "group" ELSE "tags")
  /\ UNCHANGED <<dbVars, sent, kind, model, name, seen, answer, crashes, raced, asked>>

\* UpdateModel.
WriteTags(r) ==
  /\ pc[r] = "tags"
  /\ CanLock(r, nameOf[model[r]]) /\ Lock(r, nameOf[model[r]])
  /\ Goto(r, "commit")
  /\ UNCHANGED <<dbVars, sent, kind, todo, model, name, seen, pend, answer, crashes, raced,
                 asked>>

\* An error is answered without a Rollback: the transaction stays open, unless MySQL
\* chose it as the victim of a deadlock and ended it.
FailUpdate(r) ==
  /\ \/ pc[r] = "dialog" /\ Failures
     \/ pc[r] = "group" /\ WriteFails(r, Head(todo[r]))
     \/ pc[r] = "tags" /\ WriteFails(r, nameOf[model[r]])
  /\ UNCHANGED <<lock, pend>> \/ Rollback(r)
  /\ Answer(r, "error")
  /\ UNCHANGED <<dbVars, sent, kind, todo, model, name, seen, crashes, raced, asked>>

-----------------------------------------------------------------------------
\* tx.Commit of either call: all writes at once, the tags being the topics written.
Commit(r) ==
  /\ pc[r] = "commit"
  /\ groups' = groups \cup DOMAIN pend[r]
  /\ members' = [t \in Topics |-> IF t \in DOMAIN pend[r] THEN pend[r][t] ELSE members[t]]
  /\ tags' = [tags EXCEPT ![model[r]] = DOMAIN pend[r]]
  /\ nameOf' = IF kind[r] = "add" THEN [nameOf EXCEPT ![r] = name[r]] ELSE nameOf
  /\ raced' = raced \cup {t \in DOMAIN pend[r] :
                            \E q \in Requests \ {r} : Active(q) /\ t \in DOMAIN seen[q]}
  /\ Rollback(r)
  /\ \E a \in IF Failures THEN {"ok", "unsure"} ELSE {"ok"} : Answer(r, a)
  /\ UNCHANGED <<taskRows, sent, kind, todo, model, name, seen, crashes, asked>>

\* Commit returns an error and nothing was written.
CommitFails(r) ==
  /\ pc[r] = "commit" /\ Failures
  /\ Rollback(r)
  /\ Answer(r, "unsure")
  /\ UNCHANGED <<dbVars, sent, kind, todo, model, name, seen, crashes, raced, asked>>

-----------------------------------------------------------------------------
\* CreateTask pushes first and inserts then; CreateClassifyTask the other way round,
\* and under another id.
CreateTask(r) ==
  /\ pc[r] = "idle"
  /\ \E k \in {"create", "classify"}, list \in Selections :
       /\ kind' = [kind EXCEPT ![r] = k]
       /\ todo' = [todo EXCEPT ![r] = list]
       /\ asked' = [asked EXCEPT ![r] = {list[i] : i \in 1..Len(list)}]
       /\ Goto(r, IF k = "create" THEN "push" ELSE "row")
  /\ UNCHANGED <<dbVars, sent, lock, model, name, seen, pend, answer, crashes, raced>>

\* Push accepts the message for the first group that is left.
PushMessage(r) ==
  /\ pc[r] = "push"
  /\ LET id == IF kind[r] = "create" THEN <<r, "task">> ELSE <<r, "reply">> IN
       sent' = sent \cup {<<id, Head(todo[r])>>}
  /\ todo' = [todo EXCEPT ![r] = Tail(@)]
  /\ IF Len(todo[r]) > 1 THEN Goto(r, "push") /\ UNCHANGED answer
     ELSE IF kind[r] = "create" THEN Goto(r, "row") /\ UNCHANGED answer
     ELSE Answer(r, "ok")
  /\ UNCHANGED <<dbVars, lock, kind, model, name, seen, pend, crashes, raced, asked>>

InsertTask(r) ==
  /\ pc[r] = "row"
  /\ IF kind[r] = "create"
     THEN taskRows' = taskRows \cup {<<r, "task">>} /\ Answer(r, "ok")
     ELSE taskRows' = taskRows \cup {<<r, "row">>} /\ Goto(r, "push") /\ UNCHANGED answer
  /\ UNCHANGED <<groups, members, nameOf, tags, sent, lock, kind, todo, model, name, seen,
                 pend, crashes, raced, asked>>

\* Push or InsertTask returns an error: what was done is not undone.
FailTask(r) ==
  /\ pc[r] \in {"push", "row"} /\ Failures
  /\ Answer(r, "error")
  /\ UNCHANGED <<dbVars, sent, lock, kind, todo, model, name, seen, pend, crashes, raced,
                 asked>>

-----------------------------------------------------------------------------
\* The process dies: no call comes back, MySQL ends the transactions.
Die == /\ crashes < MaxCrashes
       /\ crashes' = crashes + 1
       /\ pc' = [r \in Requests |-> IF Active(r) THEN "done" ELSE pc[r]]
       /\ lock' = [x \in DOMAIN lock |-> Free]
       /\ pend' = [r \in Requests |-> NoWrites]
       /\ UNCHANGED <<dbVars, sent, kind, todo, model, name, seen, answer, raced, asked>>

Crash == Die

\* GetModelGroup returns nil and an error, and the next line dereferences nil.
GroupPanic(r) == /\ pc[r] = "type" /\ ~Head(todo[r]).new /\ Failures
                 /\ Die

Next == \/ \E r \in Requests :
             \/ AddModel(r) \/ NameTaken(r) \/ NameFree(r) \/ TopicTaken(r) \/ TopicFree(r)
             \/ InsertGroup(r) \/ ReadGroup(r) \/ UpdateGroup(r) \/ InsertModel(r)
             \/ FailAdd(r) \/ GroupPanic(r)
             \/ OpenDialog(r) \/ UpdateModelTypes(r) \/ WriteGroup(r) \/ WriteTags(r)
             \/ FailUpdate(r)
             \/ Commit(r) \/ CommitFails(r)
             \/ CreateTask(r) \/ PushMessage(r) \/ InsertTask(r) \/ FailTask(r)
        \/ Crash

Spec == Init /\ [][Next]_vars

-----------------------------------------------------------------------------
\* Type invariant.
TypeOK ==
  /\ groups \subseteq Topics /\ members \in [Topics -> SUBSET Models]
  /\ nameOf \in [Models -> Names \cup {NoName, OldName}]
  /\ tags \in [Models -> SUBSET Topics]
  /\ taskRows \subseteq TaskIds /\ sent \subseteq TaskIds \X Topics
  /\ lock \in [Topics \cup Names \cup {OldName} -> Requests \cup {Free}]
  /\ kind \in [Requests -> {"none", "add", "update", "create", "classify"}]
  /\ pc \in [Requests -> {"idle", "name", "type", "insert", "update", "model", "dialog",
                          "group", "tags", "commit", "push", "row", "done"}]
  /\ model \in [Requests -> Models] /\ name \in [Requests -> Names \cup {NoName, OldName}]
  /\ answer \in [Requests -> {"none", "ok", "error", "unsure"}]
  /\ \A r \in Requests : /\ DOMAIN seen[r] \subseteq Topics
                         /\ DOMAIN pend[r] \subseteq Topics
                         /\ todo[r] \in Seq(Topics \cup [topic : Topics, new : BOOLEAN])
  /\ crashes \in 0..MaxCrashes
  /\ raced \subseteq Topics /\ asked \in [Requests -> SUBSET Topics]

\* Every id in a group is that of a model with a row, although groups are written before
\* the model, and by calls that read them outside their transaction; and names are not
\* given twice, although the look at the name is outside it too
\* (apiserver.go:211-280, 328-339).
ListedModelsExist ==
  /\ \A t \in Topics : \A m \in members[t] : t \in groups /\ nameOf[m] # NoName
  /\ \A m, n \in Models : m # n /\ nameOf[m] = nameOf[n] => nameOf[m] = NoName

\* A model's tags name groups that list it (storage.proto:59, "the model is used for
\* which model_groups/topics"), except for groups that two calls worked on at once, one
\* of which wrote back what it had read before the other's commit (apiserver.go:251-259,
\* 331): updates are lost there, and nowhere else.
TagsAreListed ==
  \A m \in Models : \A t \in tags[m] \ raced : t \in groups /\ m \in members[t]

\* Groups, models and tags agree.
GroupsMatchModels == ListedModelsExist /\ TagsAreListed

\* However their statements interleave, whichever of them fail and wherever the server
\* dies, AddModel and UpdateModelTypes are calls that happen at once or not at all: they
\* implement Catalogue, and what a group lists is right but where calls raced
\* (apiserver.go:201-346).
Promise == INSTANCE Catalogue WITH AllNames <- Names \cup {OldName}

CallsAreAtomic == Promise!OneAtATime

\* An AddModel answered with an error has left no row and is in no group, whatever
\* statement failed and whatever other calls did meanwhile; one answered well is there
\* under its name (apiserver.go:243-283).
AllOrNothing ==
  \A r \in Requests : kind[r] = "add" =>
    /\ answer[r] = "error" => nameOf[r] = NoName /\ \A t \in Topics : r \notin members[t]
    /\ answer[r] = "ok" => nameOf[r] = name[r] /\ tags[r] # {}

\* A call that has come back holds no lock, except an UpdateModelTypes that failed, which
\* does not roll back (apiserver.go:332-343): its groups can no more be written.
LocksReleased ==
  \A x \in DOMAIN lock : lock[x] # Free =>
    \/ Active(lock[x])
    \/ kind[lock[x]] = "update" /\ answer[lock[x]] = "error"

\* The groups to which the message of r under this id has gone.
Reached(r, id) == {t \in Topics : <<<<r, id>>, t>> \in sent}

\* A task row of CreateTask has its messages out, one for each group that was asked for,
\* and no classify task has a message out before its row is there; who is answered well
\* has both, wherever other calls failed and the server died.  (A failed insert of
\* CreateTask leaves messages without a row, apiserver.go:48-52, and a failed push of
\* CreateClassifyTask a row without some of its messages, 84-87.)
TaskHasMessages ==
  \A r \in Requests :
    /\ <<r, "task">> \in taskRows => asked[r] \subseteq Reached(r, "task")
    /\ Reached(r, "reply") # {} => <<r, "row">> \in taskRows
    /\ answer[r] = "ok" =>
         /\ kind[r] = "create" => <<r, "task">> \in taskRows
         /\ kind[r] = "classify" => asked[r] \subseteq Reached(r, "reply")
=============================================================================
