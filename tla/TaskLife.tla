------------------------------- MODULE TaskLife -------------------------------
(***************************************************************************)
(* What a worker (src/go/workers_demo) promises of the tasks on its topic, *)
(* with nothing said of goroutines, queues, crashes or commits: the first  *)
(* attempts are made in the order of the topic, an attempt ends with       *)
(* SUCCESS or FAILED, and a message is retired, for good, only when its    *)
(* task and all tasks before it were brought to an end.  An attempt at a   *)
(* task whose message is not retired may be made again: at least once.     *)
(***************************************************************************)
EXTENDS Naturals, Sequences

CONSTANTS Tasks,      \* task ids
          Junk        \* a message that is no task

VARIABLES topic,      \* the messages published, oldest first
          retired,    \* how many of them will not be delivered again
          status,     \* [Tasks -> Statuses]: the status column of the row
          ended       \* the tasks that were ever brought to SUCCESS or FAILED

lifeVars == <<topic, retired, status, ended>>

LifeInit == /\ topic = <<>>
            /\ retired = 0
            /\ status = [t \in Tasks |-> "ABSENT"]
            /\ ended = {}

\* All tasks among the first k messages have been brought to an end.
DoneUpTo(k) == \A i \in 1..k : topic[i] \in Tasks => topic[i] \in ended

Publish == \E m \in Tasks \cup {Junk} : /\ topic' = Append(topic, m)
                                        /\ UNCHANGED <<retired, status, ended>>

Insert(t) == /\ status[t] = "ABSENT"
             /\ status' = [status EXCEPT ![t] = "PENDING"]
             /\ UNCHANGED <<topic, retired, ended>>

\* An attempt: the message is still there, and those before it are dealt with.
Attempt(t) == /\ status[t] # "ABSENT"
              /\ \E k \in retired + 1 .. Len(topic) : topic[k] = t /\ DoneUpTo(k - 1)
              /\ status' = [status EXCEPT ![t] = "RUNNING"]
              /\ UNCHANGED <<topic, retired, ended>>

End(t) == /\ status[t] = "RUNNING"
          /\ \E s \in {"SUCCESS", "FAILED"} : status' = [status EXCEPT ![t] = s]
          /\ ended' = ended \cup {t}
          /\ UNCHANGED <<topic, retired>>

Retire == /\ \E k \in retired + 1 .. Len(topic) : DoneUpTo(k) /\ retired' = k
          /\ UNCHANGED <<topic, status, ended>>

LifeNext == \/ Publish \/ Retire
            \/ \E t \in Tasks : Insert(t) \/ Attempt(t) \/ End(t)

InOrderAtLeastOnce == LifeInit /\ [][LifeNext]_lifeVars
=============================================================================
