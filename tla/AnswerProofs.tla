---------------------------- MODULE AnswerProofs ----------------------------
(***************************************************************************)
(* Every video is answered completely (ResponsesComplete of InferCore), on *)
(* top of the invariant of InferProofs and under the same assumption, that *)
(* tests of the availability flag do not overlap.  The argument: what a    *)
(* decode thread has put is what was taken and what is in the channel, in  *)
(* order (Fed); what was taken is what a call has written and is about to  *)
(* write (Answered); a batch falls short only when the decode thread has   *)
(* ended and the channel is empty, and the batches that SetVideoMeta       *)
(* counts are enough for all announced frames (EnoughBatches).             *)
(***************************************************************************)
EXTENDS InferProofs

-----------------------------------------------------------------------------
\* Parts of the invariant.

Texts == out \in [Requests -> Seq(Frames)] /\ resp \in [Requests -> Seq(Frames)]

\* What the decode thread of o has put: the frames taken and those in the channel.
Fed(o) ==
  /\ thread[o] = "none" => sent[o] = 0
  /\ thread[o] # "none" =>
       /\ chan[o].total = video[o].meta
       /\ chan[o].processed + Len(chan[o].queue) = sent[o]
       /\ \A i \in 1..Len(chan[o].queue) :
            chan[o].queue[i] = <<o, chan[o].processed + i - 1>>
       /\ sent[o] <= Decodable(video[o])
       /\ thread[o] # "decoding" => sent[o] = Decodable(video[o])

\* No frame will come any more.
Drained(o) == thread[o] # "decoding" /\ chan[o].queue = <<>>

\* All that was announced, or all there is, was taken.
Complete(r) == \/ chan[Mine(r)].processed = chan[Mine(r)].total
               \/ kind[r] = "summary" /\ Drained(Mine(r))

\* A call takes what its batches ask for, as long as there is something.
OnTrack(r) ==
  LET c == chan[Mine(r)] IN
  \/ Drained(Mine(r))
  \/ c.processed + left[r] = c.total
  \/ c.processed + left[r] = (batch[r] + 1) * BatchSize

TakenBy(r) == FirstFrames(Mine(r), chan[Mine(r)].processed)

Answered(r) ==
  /\ pc[r] \in Before => out[r] = <<>>
  /\ pc[r] = "run" => /\ chan[Mine(r)].queue = <<>> /\ chan[Mine(r)].processed = 0
                      /\ chan[Mine(r)].total = video[Mine(r)].meta /\ ~chan[Mine(r)].closed
  /\ pc[r] \in {"output", "close", "join", "release", "abort"} => out[r] = TakenBy(r)
  /\ pc[r] \in {"get", "full"} => out[r] \o resp[r] = TakenBy(r)
  /\ pc[r] = "send" => resp[r] = TakenBy(r)
  /\ kind[r] = "summary" /\ pc[r] \in {"output", "get", "full"} => out[r] = <<>>
  /\ kind[r] = "summary" /\ pc[r] = "output" => chan[Mine(r)].processed = 0
  /\ kind[r] = "summary" /\ pc[r] = "get" => OnTrack(r)
  /\ kind[r] = "summary" /\ pc[r] = "full" => Complete(r)
  /\ pc[r] \in {"close", "send", "join", "release", "abort"} => Complete(r)
  /\ pc[r] \in {"join", "release", "abort"} => thread[Mine(r)] # "none"
  /\ pc[r] \in {"output", "get", "full", "close"} /\ chan[Mine(r)].closed =>
       thread[Mine(r)] # "decoding"

AnswerInv == CoreInv /\ Texts /\ (\A o \in Objects : Fed(o)) /\ (\A r \in Requests : Answered(r))

-----------------------------------------------------------------------------
\* About sequences of frames, and about batches.

LEMMA OneMoreFrame ==
  ASSUME NEW o, NEW n \in Nat
  PROVE  Append(FirstFrames(o, n), <<o, n>>) = FirstFrames(o, n + 1)
  BY DEF FirstFrames

LEMMA AppendLast ==
  ASSUME NEW S, NEW s \in Seq(S), NEW t \in Seq(S), NEW x \in S
  PROVE  s \o Append(t, x) = Append(s \o t, x)
  OBVIOUS

LEMMA NoFrames ==
  ASSUME NEW o
  PROVE  FirstFrames(o, 0) = <<>>
  BY DEF FirstFrames

LEMMA NothingAppended ==
  ASSUME NEW S, NEW s \in Seq(S)
  PROVE  s \o <<>> = s /\ <<>> \o s = s
  OBVIOUS

\* The batches that SetVideoMeta counts take all announced frames (handler.h:36-39).
LEMMA EnoughBatches ==
  ASSUME NEW t \in Nat
  PROVE  TotalBatches(t) \in Nat /\ TotalBatches(t) * BatchSize >= t
<1> DEFINE q == t \div BatchSize
<1>1. BatchSize \in Int /\ BatchSize > 0
  BY SizeAssumption
<1>2. q \in Nat
  BY <1>1
<1>3. t % BatchSize = t - BatchSize * q /\ t % BatchSize < BatchSize
  <2>1. \A u, b \in Int : b > 0 => u % b = u - b * (u \div b)
    BY Z3T(60)
  <2>2. \A u, b \in Int : b > 0 => u % b < b
    BY Z3T(60)
  <2> QED
    BY <1>1, <2>1, <2>2
<1>4. BatchSize * q \in Int
  BY <1>1, <1>2
<1>5. CASE t % BatchSize = 0
  <2>1. TotalBatches(t) = q
    BY <1>2, <1>5 DEF TotalBatches
  <2>2. t = BatchSize * q
    BY <1>3, <1>4, <1>5
  <2>3. q * BatchSize = BatchSize * q
    BY <1>1, <1>2
  <2> QED
    BY <1>2, <1>4, <2>1, <2>2, <2>3
<1>6. CASE t % BatchSize # 0
  <2>1. TotalBatches(t) = q + 1
    BY <1>2, <1>6 DEF TotalBatches
  <2>2. (q + 1) * BatchSize = BatchSize * q + BatchSize
    BY <1>1, <1>2
  <2>3. t < BatchSize * q + BatchSize
    BY <1>1, <1>3, <1>4
  <2> QED
    BY <1>1, <1>2, <1>4, <2>1, <2>2, <2>3
<1> QED
  BY <1>5, <1>6

LEMMA NextBatchEnd ==
  ASSUME NEW b \in Nat
  PROVE  b * BatchSize \in Nat /\ (b + 1) * BatchSize = b * BatchSize + BatchSize
<1>1. BatchSize \in Nat
  BY SizeAssumption
<1>2. \A m, n \in Nat : m * n \in Nat /\ (m + 1) * n = m * n + n
  OBVIOUS
<1> QED
  BY <1>1, <1>2

\* A batch of a summary that begins on track stays on track, and after the last one nothing
\* is left to take.
LEMMA BatchOnTrack ==
  ASSUME Plain, Counting, NEW r \in Requests, kind[r] = "summary", Mine(r) \in Objects,
         NEW b \in Nat, EnterBatch(r, Mine(r), b), UNCHANGED <<kind, cur, chan, thread>>,
         \/ Drained(Mine(r))
         \/ chan[Mine(r)].processed = chan[Mine(r)].total
         \/ chan[Mine(r)].processed = b * BatchSize
  PROVE  /\ pc'[r] = "get" => OnTrack(r)'
         /\ pc'[r] = "full" => Complete(r)'
<1> DEFINE t == chan[Mine(r)].total
           p == chan[Mine(r)].processed
<1>1. t \in Nat /\ p \in Nat /\ p <= t
  <2>1. chan[Mine(r)] \in Handler
    BY DEF Plain
  <2> QED
    BY <2>1 DEF Handler, Counting
<1>2. Mine(r)' = Mine(r) /\ Drained(Mine(r))' = Drained(Mine(r))
  BY DEF Mine, Drained
<1>3. Batches(r, Mine(r)) = TotalBatches(t)
  BY DEF Batches
<1>4. CASE b = Batches(r, Mine(r))
  <2>1. pc'[r] = "full"
    BY <1>4 DEF EnterBatch, Goto, Plain
  <2>2. b * BatchSize >= t
    BY <1>1, <1>3, <1>4, EnoughBatches
  <2>3. b * BatchSize \in Nat
    BY NextBatchEnd
  <2>4. Drained(Mine(r)) \/ p = t
    BY <1>1, <2>2, <2>3
  <2> QED
    BY <1>2, <2>1, <2>4 DEF Complete
<1>5. CASE b # Batches(r, Mine(r))
  <2>1. /\ pc'[r] = "get" /\ batch'[r] = b
        /\ left'[r] = IF t - p < BatchSize THEN t - p ELSE BatchSize
    BY <1>5 DEF EnterBatch, Goto, Plain
  <2>2. p + left'[r] = t \/ left'[r] = BatchSize
    BY <1>1, <2>1
  <2>3. p = t => p + left'[r] = t
    BY <1>1, <2>1, SizeAssumption
  <2>4. p = b * BatchSize => \/ p + left'[r] = t
                             \/ p + left'[r] = (b + 1) * BatchSize
    BY <2>2, NextBatchEnd
  <2>5. OnTrack(r)'
    BY <1>2, <2>1, <2>3, <2>4 DEF OnTrack
  <2> QED
    BY <2>1, <2>5
<1> QED
  BY <1>4, <1>5

\* What follows for the frames in a channel when one is taken or put.
LEMMA HeadTaken ==
  ASSUME NEW o, NEW p \in Nat, NEW q \in Seq(Frames), q # <<>>,
         \A i \in 1..Len(q) : q[i] = <<o, p + i - 1>>
  PROVE  /\ Head(q) = <<o, p>> /\ Tail(q) \in Seq(Frames) /\ p + 1 + Len(Tail(q)) = p + Len(q)
         /\ \A i \in 1..Len(Tail(q)) : Tail(q)[i] = <<o, p + 1 + i - 1>>
<1>1. Len(q) \in Nat /\ Len(q) > 0
  OBVIOUS
<1>2. Head(q) = <<o, p>>
  <2>1. Head(q) = q[1] /\ q[1] = <<o, p + 1 - 1>>
    BY <1>1
  <2> QED
    BY <2>1
<1>3. Tail(q) \in Seq(Frames) /\ Len(Tail(q)) = Len(q) - 1
  OBVIOUS
<1>4. ASSUME NEW i \in 1..Len(Tail(q)) PROVE Tail(q)[i] = <<o, p + 1 + i - 1>>
  <2>1. i + 1 \in 1..Len(q) /\ Tail(q)[i] = q[i + 1]
    BY <1>1, <1>3
  <2>2. p + (i + 1) - 1 = p + 1 + i - 1
    OBVIOUS
  <2> QED
    BY <2>1, <2>2
<1> QED
  BY <1>1, <1>2, <1>3, <1>4

LEMMA LastPut ==
  ASSUME NEW o, NEW p \in Nat, NEW q \in Seq(Frames), NEW n \in Nat, n = p + Len(q),
         <<o, n>> \in Frames, \A i \in 1..Len(q) : q[i] = <<o, p + i - 1>>
  PROVE  /\ Append(q, <<o, n>>) \in Seq(Frames) /\ p + Len(Append(q, <<o, n>>)) = n + 1
         /\ \A i \in 1..Len(Append(q, <<o, n>>)) : Append(q, <<o, n>>)[i] = <<o, p + i - 1>>
<1>1. /\ Append(q, <<o, n>>) \in Seq(Frames) /\ Len(q) \in Nat
      /\ Len(Append(q, <<o, n>>)) = Len(q) + 1
  OBVIOUS
<1>2. ASSUME NEW i \in 1..Len(Append(q, <<o, n>>))
      PROVE  Append(q, <<o, n>>)[i] = <<o, p + i - 1>>
  <2>1. CASE i = Len(q) + 1
    <3>1. Append(q, <<o, n>>)[i] = <<o, n>> /\ n = p + i - 1
      BY <1>1, <2>1
    <3> QED
      BY <3>1
  <2>2. CASE i # Len(q) + 1
    <3>1. i \in 1..Len(q)
      BY <1>1, <2>2
    <3>2. Append(q, <<o, n>>)[i] = q[i]
      BY <3>1
    <3> QED
      BY <3>1, <3>2
  <2> QED
    BY <2>1, <2>2
<1> QED
  BY <1>1, <1>2

-----------------------------------------------------------------------------
\* The steps of a call.
Told(r) == Texts /\ (\A o \in Objects : Fed(o)) /\ Answered(r)

\* Where a call is, with its decoder and its handler.
LEMMA Placed ==
  ASSUME CoreInv, NEW r \in Requests, pc[r] \in Before \cup Running
  PROVE  /\ Mine(r) \in Objects /\ decoder = Mine(r) /\ video[Mine(r)] \in Video
         /\ chan[Mine(r)] \in Handler /\ chan[Mine(r)].processed <= chan[Mine(r)].total
         /\ kind[r] \in Kinds /\ sent[Mine(r)] \in Nat
         /\ pc[r] \in Running \cup {"run"} => handler = Mine(r)
         /\ pc[r] = "get" => self[r] = Mine(r)
         /\ pc[r] \in Before => thread[Mine(r)] = "none"
         /\ pc[r] \in Running => thread[Mine(r)] \in {"decoding", "ended"}
<1>1. Plain /\ Counting /\ Flow(r) /\ Own(r) /\ Unused(r)
  BY DEF CoreInv
<1>2. cur[r] \in 1..MaxVideos /\ Mine(r) \in Objects
  BY <1>1, ObjectFacts DEF Flow, Mine
<1>3. kind[r] \in Kinds
  BY <1>1 DEF Flow, Before, Running
<1>4. pc[r] \in Before => thread[Mine(r)] = "none"
  BY <1>1, <1>2 DEF Unused, Mine
<1>5. /\ decoder = Mine(r) /\ video[Mine(r)] \in Video
      /\ pc[r] \in Running \cup {"run"} => handler = Mine(r)
      /\ pc[r] = "get" => self[r] = Mine(r)
  BY <1>1 DEF Own
<1>6. /\ chan[Mine(r)] \in Handler /\ chan[Mine(r)].processed <= chan[Mine(r)].total
      /\ sent[Mine(r)] \in Nat
  BY <1>1, <1>2 DEF Plain, Counting
<1> QED
  BY <1>1, <1>2, <1>3, <1>4, <1>5, <1>6 DEF Unused

LEMMA FedKept ==
  ASSUME NEW o, Fed(o), chan'[o] = chan[o], thread'[o] = thread[o], sent'[o] = sent[o],
         video'[o] = video[o]
  PROVE  Fed(o)'
  BY DEF Fed

LEMMA QuietTold ==
  ASSUME CoreInv, NEW r \in Requests, Told(r),
         \/ \E k \in Kinds : Arrive(r, k)
         \/ ReadEmptyAddress(r) \/ EndOfStream(r) \/ Open(r) \/ Claim(r)
         \/ SendFails(r) \/ Release(r)
  PROVE  Told(r)'
<1>1. UNCHANGED <<cur, loopVars, decVars, chan>>
  BY DEF Arrive, ReadEmptyAddress, EndOfStream, Open, Claim, SendFails, Release
<1>2. pc \in [Requests -> Places]
  BY DEF CoreInv, Plain
<1>3. \/ pc'[r] \in {"read", "done"}
      \/ pc[r] \in {"opening", "claim"} /\ pc'[r] \in {"claim", "setup"}
  BY <1>2 DEF Arrive, ReadEmptyAddress, EndOfStream, Open, Claim, SendFails, Release, Goto,
     Finish
<1>4. Texts' /\ \A o \in Objects : Fed(o)'
  BY <1>1, FedKept DEF Told, Texts, loopVars, decVars
<1>5. Answered(r)'
  <2>1. CASE pc'[r] \in {"read", "done"}
    BY <2>1 DEF Answered, Before
  <2>2. CASE pc[r] \in {"opening", "claim"} /\ pc'[r] \in {"claim", "setup"}
    <3>1. out'[r] = <<>>
      BY <1>1, <2>2 DEF Told, Answered, Before, loopVars
    <3> QED
      BY <2>2, <3>1 DEF Answered, Before
  <2> QED
    BY <1>3, <2>1, <2>2
<1> QED
  BY <1>4, <1>5 DEF Told

LEMMA ReadTold ==
  ASSUME CoreInv, NEW r \in Requests, Told(r), ReadVideo(r)
  PROVE  Told(r)'
<1> DEFINE n == <<r, cur[r] + 1>>
<1>1. Plain /\ Flow(r) /\ Unused(r)
  BY DEF CoreInv
<1>2. kind[r] \in Kinds /\ cur[r] + 1 \in 1..MaxVideos
  BY <1>1, SizeAssumption DEF ReadVideo, Flow, Plain
<1>3. n \in Objects /\ thread[n] = "none"
  <2>1. cur[r] + 1 > cur[r]
    BY <1>1 DEF Plain
  <2> QED
    BY <1>1, <1>2, <2>1, ObjectFacts DEF Unused
<1>4. UNCHANGED <<chan, thread, sent>> /\ \A o \in Objects \ {n} : video'[o] = video[o]
  <2>1. \E v : video' = [video EXCEPT ![n] = v]
    BY DEF ReadVideo
  <2> QED
    BY <1>1, <2>1 DEF ReadVideo, Plain
<1>5. pc'[r] = "opening" /\ out' = [out EXCEPT ![r] = <<>>] /\ UNCHANGED resp
  BY <1>1 DEF ReadVideo, Goto, Plain
<1>6. Texts' /\ out'[r] = <<>>
  BY <1>5 DEF Told, Texts
<1>7. \A o \in Objects \ {n} : Fed(o)'
  BY <1>4, FedKept DEF Told
<1>8. ASSUME NEW o \in Objects, o = n PROVE Fed(o)'
  BY <1>3, <1>4, <1>8 DEF Told, Fed
<1>9. Answered(r)'
  BY <1>5, <1>6 DEF Answered
<1> QED
  BY <1>6, <1>7, <1>8, <1>9 DEF Told

LEMMA SetupTold ==
  ASSUME CoreInv, NEW r \in Requests, Told(r), Setup(r)
  PROVE  Told(r)'
<1>1. Plain /\ pc[r] = "setup" /\ UNCHANGED <<cur, loopVars, decVars>>
  BY DEF CoreInv, Setup
<1>2. /\ Mine(r) \in Objects /\ decoder = Mine(r) /\ video[Mine(r)] \in Video
      /\ thread[Mine(r)] = "none" /\ Mine(r)' = Mine(r)
  BY <1>1, Placed DEF Before, Mine
<1>3. video[Mine(r)].meta \in Nat
  BY <1>2 DEF Video
<1>4. chan' = [chan EXCEPT ![Mine(r)] = [NoHandler EXCEPT !.total = video[Mine(r)].meta]]
  BY <1>2 DEF Setup
<1>5. /\ \A o \in Objects \ {Mine(r)} : chan'[o] = chan[o]
      /\ chan'[Mine(r)].queue = <<>> /\ chan'[Mine(r)].processed = 0
      /\ chan'[Mine(r)].total = video[Mine(r)].meta
  BY <1>1, <1>2, <1>3, <1>4, Made
<1>6. ~chan'[Mine(r)].closed
  <2>1. chan'[Mine(r)] = [NoHandler EXCEPT !.total = video[Mine(r)].meta]
    BY <1>1, <1>2, <1>4 DEF Plain
  <2>2. [NoHandler EXCEPT !.total = video[Mine(r)].meta].closed = FALSE
    BY DEF NoHandler
  <2> QED
    BY <2>1, <2>2
<1>7. Texts' /\ UNCHANGED <<video, thread, sent, out>>
  BY <1>1 DEF Told, Texts, loopVars, decVars
<1>8. \A o \in Objects \ {Mine(r)} : Fed(o)'
  BY <1>5, <1>7, FedKept DEF Told
<1>9. ASSUME NEW o \in Objects, o = Mine(r) PROVE Fed(o)'
  BY <1>2, <1>7, <1>9 DEF Told, Fed
<1>10. Answered(r)'
  <2>1. pc'[r] = "run"
    BY <1>1 DEF Setup, Goto, Plain
  <2>2. out'[r] = <<>>
    BY <1>1, <1>7 DEF Told, Answered, Before
  <2> QED
    BY <1>2, <1>5, <1>6, <1>7, <2>1, <2>2 DEF Answered
<1> QED
  BY <1>2, <1>7, <1>8, <1>9, <1>10 DEF Told

LEMMA RunTold ==
  ASSUME CoreInv, NEW r \in Requests, Told(r), Run(r)
  PROVE  Told(r)'
<1>1. Plain /\ pc[r] = "run" /\ UNCHANGED <<kind, cur, loopVars, video, sent, chan>>
  BY DEF CoreInv, Run
<1>2. /\ Mine(r) \in Objects /\ decoder = Mine(r) /\ video[Mine(r)] \in Video
      /\ thread[Mine(r)] = "none" /\ Mine(r)' = Mine(r)
  BY <1>1, Placed DEF Before, Mine
<1>3. thread'[Mine(r)] = "decoding" /\ \A o \in Objects \ {Mine(r)} : thread'[o] = thread[o]
  BY <1>1, <1>2 DEF Run, Plain
<1>4. /\ chan[Mine(r)].queue = <<>> /\ chan[Mine(r)].processed = 0 /\ ~chan[Mine(r)].closed
      /\ chan[Mine(r)].total = video[Mine(r)].meta /\ out[r] = <<>> /\ sent[Mine(r)] = 0
  BY <1>1, <1>2 DEF Told, Answered, Fed, Before
<1>5. Texts' /\ UNCHANGED out
  BY <1>1 DEF Told, Texts, loopVars
<1>6. \A o \in Objects \ {Mine(r)} : Fed(o)'
  BY <1>1, <1>3, FedKept DEF Told
<1>7. ASSUME NEW o \in Objects, o = Mine(r) PROVE Fed(o)'
  <2>1. Decodable(video[Mine(r)]) \in Nat
    BY <1>2 DEF Decodable, Video
  <2>2. Len(<<>>) = 0
    OBVIOUS
  <2> QED
    BY <1>1, <1>3, <1>4, <1>7, <2>1, <2>2 DEF Fed
<1>8. Answered(r)'
  <2>1. pc'[r] = "output"
    BY <1>1 DEF Run, Goto, Plain
  <2>2. TakenBy(r)' = <<>>
    BY <1>1, <1>2, <1>4, NoFrames DEF TakenBy
  <2> QED
    BY <1>1, <1>2, <1>4, <1>5, <2>1, <2>2 DEF Answered, Before
<1> QED
  BY <1>2, <1>5, <1>6, <1>7, <1>8 DEF Told

LEMMA OutputDoneTold ==
  ASSUME CoreInv, NEW r \in Requests, Told(r), OutputDone(r)
  PROVE  Told(r)'
<1>1. Plain /\ pc[r] = "output" /\ UNCHANGED <<kind, cur, loopVars, decVars, chan>>
  BY DEF CoreInv, OutputDone
<1>2. handler = Mine(r) /\ Mine(r)' = Mine(r) /\ pc'[r] = "close"
  BY <1>1, Placed DEF OutputDone, Goto, Plain, Running, Mine
<1>3. UNCHANGED <<out, resp, thread, sent, video>>
  BY <1>1 DEF loopVars, decVars
<1>4. Texts' /\ \A o \in Objects : Fed(o)'
  BY <1>1, <1>3, FedKept DEF Told, Texts
<1>5. Complete(r)'
  BY <1>1, <1>2 DEF OutputDone, Complete
<1>6. out'[r] = TakenBy(r)'
  BY <1>1, <1>2, <1>3 DEF Told, Answered, TakenBy
<1>7. Answered(r)'
  BY <1>1, <1>2, <1>3, <1>5, <1>6 DEF Told, Answered, Before
<1> QED
  BY <1>4, <1>7 DEF Told

LEMMA OutputStartTold ==
  ASSUME CoreInv, NEW r \in Requests, Told(r), OutputStart(r)
  PROVE  Told(r)'
<1>1. /\ Plain /\ Counting /\ pc[r] = "output"
      /\ UNCHANGED <<kind, cur, out, decVars, chan>>
  BY DEF CoreInv, OutputStart
<1>2. /\ handler = Mine(r) /\ Mine(r) \in Objects /\ Mine(r)' = Mine(r)
      /\ EnterBatch(r, Mine(r), 0) /\ pc'[r] \in {"get", "full"}
  BY <1>1, Placed DEF OutputStart, EnterBatch, Goto, Plain, Running, Mine
<1>3. UNCHANGED <<thread, sent, video>> /\ resp' = [resp EXCEPT ![r] = <<>>]
  BY <1>1 DEF decVars, OutputStart
<1>4. Texts' /\ resp'[r] = <<>> /\ \A o \in Objects : Fed(o)'
  BY <1>1, <1>3, FedKept DEF Told, Texts
<1>5. out'[r] \o resp'[r] = TakenBy(r)'
  <2>1. out[r] \in Seq(Frames)
    BY DEF Told, Texts
  <2> QED
    BY <1>1, <1>2, <1>4, <2>1, NothingAppended DEF Told, Answered, TakenBy
<1>6. ASSUME kind[r] = "summary"
      PROVE  /\ pc'[r] = "get" => OnTrack(r)'
             /\ pc'[r] = "full" => Complete(r)'
  <2>1. chan[Mine(r)].processed = 0 /\ 0 * BatchSize = 0
    BY <1>1, <1>6, SizeAssumption DEF Told, Answered
  <2> QED
    BY <1>1, <1>2, <1>3, <1>6, <2>1, BatchOnTrack
<1>7. kind[r] = "summary" => out'[r] = <<>>
  BY <1>1 DEF Told, Answered
<1>8. chan'[Mine(r)'].closed => thread'[Mine(r)'] # "decoding"
  BY <1>1, <1>2, <1>3 DEF Told, Answered
<1>9. Answered(r)'
  BY <1>1, <1>2, <1>5, <1>6, <1>7, <1>8 DEF Answered, Before
<1> QED
  BY <1>4, <1>9 DEF Told

LEMMA GetFrameTold ==
  ASSUME CoreInv, NEW r \in Requests, Told(r), GetFrame(r)
  PROVE  Told(r)'
<1> DEFINE o == Mine(r)
           q == chan[o].queue
           p == chan[o].processed
<1>1. /\ Plain /\ pc[r] = "get" /\ pc'[r] = "get" /\ left[r] > 0
      /\ UNCHANGED <<kind, cur, batch, out, video, thread, sent>>
  BY DEF CoreInv, GetFrame, rpcVars, decVars
<1>2. /\ self[r] = o /\ o \in Objects /\ o' = o /\ kind[r] \in Kinds
      /\ chan[o] \in Handler /\ thread[o] \in {"decoding", "ended"}
  BY <1>1, Placed DEF Running, Mine
<1>3. q \in Seq(Frames) /\ q # <<>> /\ p \in Nat
  BY <1>2 DEF GetFrame, Handler
<1>4. /\ chan' = [chan EXCEPT ![o].queue = Tail(@), ![o].processed = @ + 1]
      /\ resp' = [resp EXCEPT ![r] = Append(@, Head(q))]
      /\ left' = [left EXCEPT ![r] = @ - 1]
  BY <1>2 DEF GetFrame
<1>5. /\ \A d \in Objects \ {o} : chan'[d] = chan[d]
      /\ chan'[o].processed = p + 1 /\ chan'[o].total = chan[o].total
  BY <1>1, <1>2, <1>3, <1>4, Taken
<1>6. chan'[o].queue = Tail(q) /\ chan'[o].closed = chan[o].closed
  <2>1. chan'[o] = [chan[o] EXCEPT !.queue = Tail(@), !.processed = @ + 1]
    BY <1>1, <1>2, <1>4 DEF Plain
  <2> QED
    BY <1>2, <2>1 DEF Handler
<1>7. /\ chan[o].total = video[o].meta /\ p + Len(q) = sent[o]
      /\ \A i \in 1..Len(q) : q[i] = <<o, p + i - 1>>
      /\ sent[o] <= Decodable(video[o])
      /\ thread[o] # "decoding" => sent[o] = Decodable(video[o])
  BY <1>2 DEF Told, Fed
<1>8. /\ Head(q) = <<o, p>> /\ p + 1 + Len(Tail(q)) = p + Len(q)
      /\ \A i \in 1..Len(Tail(q)) : Tail(q)[i] = <<o, p + 1 + i - 1>>
  <2> HIDE DEF o, q, p
  <2> QED
    BY <1>3, <1>7, HeadTaken
<1>9. <<o, p>> \in Frames
  BY <1>2, <1>3 DEF Frames
<1>10. /\ Texts' /\ out[r] \in Seq(Frames) /\ resp[r] \in Seq(Frames)
       /\ resp'[r] = Append(resp[r], <<o, p>>)
  <2>1. resp' = [resp EXCEPT ![r] = Append(@, <<o, p>>)]
    BY <1>4, <1>8
  <2> QED
    BY <1>1, <1>9, <2>1 DEF Told, Texts
<1>11. \A d \in Objects \ {o} : Fed(d)'
  BY <1>1, <1>5, FedKept DEF Told
<1>12. ASSUME NEW d \in Objects, d = o PROVE Fed(d)'
  <2>1. /\ chan'[d].total = video'[d].meta
        /\ chan'[d].processed + Len(chan'[d].queue) = sent'[d]
        /\ \A i \in 1..Len(chan'[d].queue) :
             chan'[d].queue[i] = <<d, chan'[d].processed + i - 1>>
        /\ sent'[d] <= Decodable(video'[d])
        /\ thread'[d] # "decoding" => sent'[d] = Decodable(video'[d])
    BY <1>1, <1>5, <1>6, <1>7, <1>8, <1>12
  <2>2. thread'[d] # "none"
    BY <1>1, <1>2, <1>12
  <2> QED
    BY <2>1, <2>2 DEF Fed
<1>13. out'[r] \o resp'[r] = TakenBy(r)'
  <2>1. out[r] \o resp[r] = FirstFrames(o, p)
    BY <1>1 DEF Told, Answered, TakenBy
  <2>2. out'[r] \o resp'[r] = Append(FirstFrames(o, p), <<o, p>>)
    <3>1. PICK f \in Frames : f = <<o, p>>
      BY <1>9
    <3>2. out[r] \o Append(resp[r], f) = Append(out[r] \o resp[r], f)
      <4>1. \A s, t \in Seq(Frames) : s \o Append(t, f) = Append(s \o t, f)
        BY AppendLast
      <4> QED
        BY <1>10, <4>1
    <3>3. out'[r] = out[r] /\ resp'[r] = Append(resp[r], f)
      BY <1>1, <1>10, <3>1
    <3> QED
      BY <2>1, <3>1, <3>2, <3>3
  <2>3. TakenBy(r)' = FirstFrames(o, p + 1)
    BY <1>2, <1>5 DEF TakenBy
  <2> QED
    BY <1>3, <2>2, <2>3, OneMoreFrame
<1>14. kind[r] = "summary" => OnTrack(r)'
  <2>1. left[r] \in Nat /\ left'[r] = left[r] - 1
    BY <1>1, <1>4, SizeAssumption DEF Plain
  <2>2. (p + 1) + left'[r] = p + left[r]
    BY <1>3, <2>1
  <2>3. ~Drained(o)
    BY <1>3 DEF Drained
  <2>4. kind[r] = "summary" => \/ p + left[r] = chan[o].total
                               \/ p + left[r] = (batch[r] + 1) * BatchSize
    BY <1>1, <2>3 DEF Told, Answered, OnTrack
  <2> QED
    BY <1>1, <1>2, <1>5, <2>2, <2>4 DEF OnTrack
<1>15. Answered(r)'
  <2>1. kind[r] = "summary" => out'[r] = <<>>
    BY <1>1 DEF Told, Answered
  <2>2. chan'[o].closed => thread'[o] # "decoding"
    BY <1>1, <1>6 DEF Told, Answered
  <2> QED
    BY <1>1, <1>2, <1>13, <1>14, <2>1, <2>2 DEF Answered, Before
<1> QED
  BY <1>10, <1>11, <1>12, <1>15 DEF Told

LEMMA GetEndTold ==
  ASSUME CoreInv, NEW r \in Requests, Told(r), GetEnd(r)
  PROVE  Told(r)'
<1>1. /\ pc[r] = "get" /\ UNCHANGED <<kind, pc, cur, batch, out, resp, video, thread, sent, chan>>
  BY DEF GetEnd, rpcVars, decVars
<1>2. self[r] = Mine(r) /\ Mine(r)' = Mine(r)
  BY <1>1, Placed DEF Running, Mine
<1>3. Texts' /\ \A o \in Objects : Fed(o)'
  BY <1>1, FedKept DEF Told, Texts
<1>4. Drained(Mine(r))
  BY <1>1, <1>2 DEF GetEnd, Told, Answered, Drained
<1>5. OnTrack(r)'
  BY <1>1, <1>2, <1>4 DEF OnTrack, Drained
<1>6. TakenBy(r)' = TakenBy(r)
  BY <1>1, <1>2 DEF TakenBy
<1>7. Answered(r)'
  BY <1>1, <1>2, <1>5, <1>6 DEF Told, Answered, Before
<1> QED
  BY <1>3, <1>7 DEF Told

LEMMA ForwardTold ==
  ASSUME CoreInv, NEW r \in Requests, Told(r), Forward(r)
  PROVE  Told(r)'
<1>1. /\ Plain /\ Counting /\ pc[r] = "get" /\ left[r] = 0 /\ batch[r] + 1 \in Nat
      /\ UNCHANGED <<kind, cur, out, resp, decVars, chan>>
  BY DEF CoreInv, Plain, Forward
<1>2. /\ self[r] = Mine(r) /\ Mine(r) \in Objects /\ Mine(r)' = Mine(r)
      /\ EnterBatch(r, Mine(r), batch[r] + 1) /\ pc'[r] \in {"get", "full"}
      /\ chan[Mine(r)] \in Handler
  BY <1>1, Placed DEF Forward, EnterBatch, Goto, Plain, Running, Mine
<1>3. UNCHANGED <<thread, sent, video>>
  BY <1>1 DEF decVars
<1>4. Texts' /\ \A o \in Objects : Fed(o)'
  BY <1>1, <1>3, FedKept DEF Told, Texts
<1>5. out'[r] \o resp'[r] = TakenBy(r)'
  BY <1>1, <1>2 DEF Told, Answered, TakenBy
<1>6. ASSUME kind[r] = "summary"
      PROVE  /\ pc'[r] = "get" => OnTrack(r)'
             /\ pc'[r] = "full" => Complete(r)'
  <2>1. chan[Mine(r)].processed + left[r] = chan[Mine(r)].processed
    BY <1>1, <1>2 DEF Handler
  <2>2. \/ Drained(Mine(r))
        \/ chan[Mine(r)].processed = chan[Mine(r)].total
        \/ chan[Mine(r)].processed = (batch[r] + 1) * BatchSize
    BY <1>1, <1>6, <2>1 DEF Told, Answered, OnTrack
  <2> QED
    BY <1>1, <1>2, <1>3, <1>6, <2>2, BatchOnTrack
<1>7. kind[r] = "summary" => out'[r] = <<>>
  BY <1>1 DEF Told, Answered
<1>8. chan'[Mine(r)'].closed => thread'[Mine(r)'] # "decoding"
  BY <1>1, <1>2, <1>3 DEF Told, Answered
<1>9. Answered(r)'
  BY <1>1, <1>2, <1>5, <1>6, <1>7, <1>8 DEF Answered, Before
<1> QED
  BY <1>4, <1>9 DEF Told

LEMMA WriteTold ==
  ASSUME CoreInv, NEW r \in Requests, Told(r), WriteResponse(r)
  PROVE  Told(r)'
<1>1. /\ Plain /\ pc[r] = "full" /\ kind[r] = "annotate"
      /\ UNCHANGED <<kind, cur, decVars, chan>>
      /\ out' = [out EXCEPT ![r] = out[r] \o resp[r]] /\ resp' = [resp EXCEPT ![r] = <<>>]
  BY DEF CoreInv, WriteResponse
<1>2. Mine(r)' = Mine(r) /\ pc'[r] = "output" /\ UNCHANGED <<thread, sent, video>>
  BY <1>1 DEF WriteResponse, Goto, Plain, Mine, decVars
<1>3. out[r] \o resp[r] \in Seq(Frames)
  <2>1. out[r] \in Seq(Frames) /\ resp[r] \in Seq(Frames)
    BY DEF Told, Texts
  <2> QED
    BY <2>1
<1>4. Texts' /\ out'[r] = out[r] \o resp[r]
  BY <1>1, <1>3 DEF Told, Texts
<1>5. \A o \in Objects : Fed(o)'
  BY <1>1, <1>2, FedKept DEF Told
<1>6. out'[r] = TakenBy(r)'
  BY <1>1, <1>2, <1>4 DEF Told, Answered, TakenBy
<1>7. Answered(r)'
  <2>1. chan'[Mine(r)'].closed => thread'[Mine(r)'] # "decoding"
    BY <1>1, <1>2 DEF Told, Answered
  <2> QED
    BY <1>1, <1>2, <1>6, <2>1 DEF Answered, Before
<1> QED
  BY <1>4, <1>5, <1>7 DEF Told

LEMMA CloseTold ==
  ASSUME CoreInv, NEW r \in Requests, Told(r), CloseChannel(r)
  PROVE  Told(r)'
<1>1. /\ Plain /\ UNCHANGED <<kind, cur, out, resp, thread, sent, video>>
      /\ \/ kind[r] = "annotate" /\ pc[r] = "close" /\ pc'[r] = "join"
         \/ kind[r] = "summary" /\ pc[r] = "full" /\ pc'[r] = "send"
  BY DEF CoreInv, CloseChannel, Goto, Plain, loopVars, decVars
<1>2. /\ handler = Mine(r) /\ Mine(r) \in Objects /\ Mine(r)' = Mine(r)
      /\ thread[Mine(r)] # "none"
  BY <1>1, Placed DEF Running, Mine
<1>3. \A o \in Objects : /\ chan'[o].queue = chan[o].queue
                         /\ chan'[o].processed = chan[o].processed
                         /\ chan'[o].total = chan[o].total
  BY <1>1, <1>2, Closed DEF CloseChannel, CloseInput
<1>4. Texts'
  BY <1>1 DEF Told, Texts
<1>5. ASSUME NEW o \in Objects PROVE Fed(o)'
  <2>1. Fed(o)
    BY DEF Told
  <2> QED
    BY <1>1, <1>3, <2>1 DEF Fed
<1>6. TakenBy(r)' = TakenBy(r) /\ Complete(r)' = Complete(r)
  BY <1>1, <1>2, <1>3 DEF TakenBy, Complete, Drained
<1>7. Answered(r)'
  <2>1. CASE pc[r] = "close"
    BY <1>1, <1>2, <1>6, <2>1 DEF Told, Answered, Before
  <2>2. CASE pc[r] = "full"
    <3>1. out[r] \o resp[r] = TakenBy(r) /\ out[r] = <<>> /\ resp[r] \in Seq(Frames)
      BY <1>1, <2>2 DEF Told, Answered, Texts
    <3>2. resp[r] = TakenBy(r)
      BY <3>1, NothingAppended
    <3> QED
      BY <1>1, <1>6, <2>2, <3>2 DEF Told, Answered, Before
  <2> QED
    BY <1>1, <2>1, <2>2
<1> QED
  BY <1>4, <1>5, <1>7 DEF Told

LEMMA SendTold ==
  ASSUME CoreInv, NEW r \in Requests, Told(r), SendSummary(r)
  PROVE  Told(r)'
<1>1. /\ Plain /\ pc[r] = "send" /\ UNCHANGED <<kind, cur, decVars, chan>>
      /\ out' = [out EXCEPT ![r] = resp[r]] /\ resp' = [resp EXCEPT ![r] = <<>>]
  BY DEF CoreInv, SendSummary
<1>2. Mine(r)' = Mine(r) /\ pc'[r] = "join" /\ UNCHANGED <<thread, sent, video>>
  BY <1>1 DEF SendSummary, Goto, Plain, Mine, decVars
<1>3. Texts' /\ out'[r] = resp[r]
  BY <1>1 DEF Told, Texts
<1>4. \A o \in Objects : Fed(o)'
  BY <1>1, <1>2, FedKept DEF Told
<1>5. TakenBy(r)' = TakenBy(r) /\ Complete(r)' = Complete(r)
  BY <1>1, <1>2 DEF TakenBy, Complete, Drained
<1>6. Answered(r)'
  <2>1. thread'[Mine(r)'] # "none"
    BY <1>1, <1>2, Placed DEF Running
  <2> QED
    BY <1>1, <1>2, <1>3, <1>5, <2>1 DEF Told, Answered, Before
<1> QED
  BY <1>3, <1>4, <1>6 DEF Told

LEMMA JoinTold ==
  ASSUME CoreInv, NEW r \in Requests, Told(r), Join(r)
  PROVE  Told(r)'
<1>1. /\ Plain /\ pc[r] = "join" /\ UNCHANGED <<kind, cur, out, resp, video, sent, chan>>
      /\ pc'[r] \in {"read", "release", "abort"}
  BY DEF CoreInv, Join, Goto, Plain, loopVars
<1>2. /\ decoder = Mine(r) /\ Mine(r) \in Objects /\ Mine(r)' = Mine(r)
      /\ thread[Mine(r)] = "ended"
  BY <1>1, Placed DEF Join, Running, Mine
<1>3. thread'[Mine(r)] = "joined" /\ \A o \in Objects \ {Mine(r)} : thread'[o] = thread[o]
  BY <1>1, <1>2 DEF Join, Plain
<1>4. Texts'
  BY <1>1 DEF Told, Texts
<1>5. ASSUME NEW o \in Objects PROVE Fed(o)'
  <2>1. Fed(o)
    BY DEF Told
  <2>2. \/ thread'[o] = thread[o]
        \/ thread[o] = "ended" /\ thread'[o] = "joined"
    BY <1>2, <1>3
  <2> QED
    BY <1>1, <2>1, <2>2 DEF Fed
<1>6. TakenBy(r)' = TakenBy(r) /\ (Complete(r) => Complete(r)')
  BY <1>1, <1>2, <1>3 DEF TakenBy, Complete, Drained
<1>7. Answered(r)'
  BY <1>1, <1>2, <1>3, <1>6 DEF Told, Answered, Before
<1> QED
  BY <1>4, <1>5, <1>7 DEF Told

\* Whatever a call does, what it says of its frames stays true.
LEMMA RpcTold ==
  ASSUME CoreInv, NEW r \in Requests, Told(r), Rpc(r)
  PROVE  Told(r)'
  BY QuietTold, ReadTold, SetupTold, RunTold, OutputDoneTold, OutputStartTold,
     GetFrameTold, GetEndTold, ForwardTold, WriteTold, CloseTold, SendTold, JoinTold
     DEF Rpc, RpcStep

\* A call leaves what others have taken and written.
LEMMA AnsweredFrame ==
  ASSUME CoreInv, NEW r \in Requests, Rpc(r), NEW q \in Requests \ {r}, Answered(q)
  PROVE  Answered(q)'
<1>1. Plain /\ Alone /\ Same(q)
  BY Frame DEF CoreInv
<1>2. ASSUME NEW k \in Kinds, Arrive(r, k) PROVE Answered(q)'
  <2>1. UNCHANGED <<loopVars, decVars, chan, cur>> /\ Mine(q)' = Mine(q)
    BY <1>2 DEF Arrive, Mine
  <2>2. UNCHANGED <<out, resp, batch, left, thread, video>>
    BY <2>1 DEF loopVars, decVars
  <2>3. pc'[q] = pc[q] /\ kind'[q] = kind[q]
    BY <1>1 DEF Same
  <2>4. TakenBy(q)' = TakenBy(q) /\ Complete(q)' = Complete(q) /\ OnTrack(q)' = OnTrack(q)
    BY <2>1, <2>2, <2>3 DEF TakenBy, Complete, OnTrack, Drained
  <2> QED
    BY <2>1, <2>2, <2>3, <2>4 DEF Answered
<1>3. CASE RpcStep(r)
  <2>1. ~Active(q)
    BY <1>1, <1>3, StepActive DEF Alone
  <2>2. pc'[q] \in {"idle", "done"}
    BY <1>1, <2>1 DEF Same, Active
  <2> QED
    BY <2>2 DEF Answered, Before
<1> QED
  BY <1>2, <1>3 DEF Rpc

-----------------------------------------------------------------------------
\* The steps of a decode thread.

LEMMA DecodeFed ==
  ASSUME CoreInv, NEW o \in Objects, Decode(o), Fed(o)
  PROVE  /\ Fed(o)'
         /\ \A d \in Objects \ {o} : chan'[d] = chan[d] /\ sent'[d] = sent[d]
         /\ chan'[o].processed = chan[o].processed /\ chan'[o].total = chan[o].total
         /\ chan'[o].closed => chan[o].closed \/ thread'[o] # "decoding"
<1> DEFINE q == chan[o].queue
           p == chan[o].processed
<1>1. Plain /\ Noted(o)
  BY DEF CoreInv
<1>2. target[o] = o /\ video[o] \in Video /\ thread[o] = "decoding" /\ UNCHANGED video
  BY <1>1, DecodeFrameOf DEF Noted
<1>3. chan[o] \in Handler /\ q \in Seq(Frames) /\ p \in Nat /\ sent[o] \in Nat
  <2>1. chan[o] \in Handler /\ sent[o] \in Nat
    BY <1>1 DEF Plain
  <2> QED
    BY <2>1 DEF Handler
<1>4. /\ chan[o].total = video[o].meta /\ p + Len(q) = sent[o]
      /\ \A i \in 1..Len(q) : q[i] = <<o, p + i - 1>>
      /\ sent[o] <= Decodable(video[o])
  BY <1>2 DEF Fed
<1>5. CASE DecodeOpenFails(o)
  <2>1. /\ UNCHANGED <<chan, sent>> /\ thread'[o] = "ended" /\ ~video[o].reopens
    BY <1>1, <1>5 DEF DecodeOpenFails, Plain
  <2>2. sent[o] = Decodable(video[o])
    BY <1>3, <1>4, <2>1 DEF Decodable
  <2> QED
    BY <1>2, <1>4, <2>1, <2>2 DEF Fed
<1>6. CASE DecodeFrame(o)
  <2>1. /\ chan' = [chan EXCEPT ![o].queue = Append(@, <<o, sent[o]>>)]
        /\ sent' = [sent EXCEPT ![o] = @ + 1] /\ UNCHANGED thread
        /\ video[o].reopens /\ sent[o] < video[o].frames
    BY <1>2, <1>6 DEF DecodeFrame
  <2>2. <<o, sent[o]>> \in Frames
    BY <1>3 DEF Frames
  <2>3. /\ \A d \in Objects \ {o} : chan'[d] = chan[d] /\ sent'[d] = sent[d]
        /\ chan'[o] = [chan[o] EXCEPT !.queue = Append(@, <<o, sent[o]>>)]
        /\ sent'[o] = sent[o] + 1
    BY <1>1, <2>1 DEF Plain
  <2>4. /\ chan'[o].queue = Append(q, <<o, sent[o]>>) /\ chan'[o].processed = p
        /\ chan'[o].total = chan[o].total /\ chan'[o].closed = chan[o].closed
    BY <1>3, <2>3 DEF Handler
  <2>5. /\ p + Len(Append(q, <<o, sent[o]>>)) = sent[o] + 1
        /\ \A i \in 1..Len(Append(q, <<o, sent[o]>>)) :
             Append(q, <<o, sent[o]>>)[i] = <<o, p + i - 1>>
    <3> DEFINE n == sent[o]
    <3>1. n \in Nat /\ n = p + Len(q) /\ <<o, n>> \in Frames
      BY <1>3, <1>4, <2>2
    <3> HIDE DEF q, p, n
    <3>2. /\ p + Len(Append(q, <<o, n>>)) = n + 1
          /\ \A i \in 1..Len(Append(q, <<o, n>>)) : Append(q, <<o, n>>)[i] = <<o, p + i - 1>>
      BY <1>3, <1>4, <3>1, LastPut
    <3> QED
      BY <3>2 DEF n
  <2>6. sent[o] + 1 <= Decodable(video[o])
    BY <1>2, <1>3, <2>1 DEF Decodable, Video
  <2>7. Fed(o)'
    BY <1>2, <1>4, <2>1, <2>3, <2>4, <2>5, <2>6 DEF Fed
  <2> QED
    BY <2>3, <2>4, <2>7
<1>7. CASE DecodeEnd(o)
  <2>1. /\ chan' = [chan EXCEPT ![o].closed = TRUE] /\ UNCHANGED sent
        /\ thread'[o] = "ended" /\ video[o].reopens /\ sent[o] = video[o].frames
    BY <1>1, <1>2, <1>7 DEF DecodeEnd, CloseInput, Plain
  <2>2. /\ chan'[o].queue = q /\ chan'[o].processed = p /\ chan'[o].total = chan[o].total
    BY <1>1, <2>1, Closed
  <2>3. \A d \in Objects \ {o} : chan'[d] = chan[d]
    BY <1>1, <2>1 DEF Plain
  <2>4. sent[o] = Decodable(video[o])
    BY <2>1 DEF Decodable
  <2>5. Fed(o)'
    BY <1>2, <1>4, <2>1, <2>2, <2>4 DEF Fed
  <2> QED
    BY <2>1, <2>2, <2>3, <2>5
<1> QED
  BY <1>5, <1>6, <1>7 DEF Decode

LEMMA DecodeAnswered ==
  ASSUME CoreInv, NEW o \in Objects, Decode(o), Fed(o), NEW r \in Requests, Answered(r)
  PROVE  Answered(r)'
<1>1. /\ Plain /\ Noted(o) /\ Flow(r) /\ Unused(r)
  BY DEF CoreInv
<1>2. /\ UNCHANGED <<kind, pc, cur, batch, left, resp, out, video>> /\ Mine(r)' = Mine(r)
      /\ thread[o] = "decoding" /\ \A d \in Objects \ {o} : thread'[d] = thread[d]
  <2>1. UNCHANGED <<rpcVars, loopVars, video>>
    BY <1>1, DecodeFrameOf
  <2> QED
    BY <1>1, <2>1, DecodeFrameOf DEF rpcVars, loopVars, Mine
<1>3. /\ \A d \in Objects \ {o} : chan'[d] = chan[d]
      /\ chan'[o].processed = chan[o].processed /\ chan'[o].total = chan[o].total
      /\ chan'[o].closed => chan[o].closed \/ thread'[o] # "decoding"
  BY DecodeFed
<1>4. CASE pc[r] \in {"idle", "read", "done"}
  BY <1>2, <1>4 DEF Answered, Before
<1>5. CASE pc[r] \notin {"idle", "read", "done"}
  <2>1. Mine(r) \in Objects
    <3>1. pc[r] \in Before \cup Running \cup {"release", "abort"}
      BY <1>1, <1>5 DEF Plain, Places, Before, Running
    <3> QED
      BY <1>1, <3>1, ObjectFacts DEF Flow, Mine
  <2>2. /\ chan'[Mine(r)].processed = chan[Mine(r)].processed
        /\ chan'[Mine(r)].total = chan[Mine(r)].total
    BY <1>3, <2>1
  <2>3. Drained(Mine(r)) => Drained(Mine(r))'
    BY <1>2, <1>3, <2>1 DEF Drained
  <2>4. /\ TakenBy(r)' = TakenBy(r) /\ (Complete(r) => Complete(r)')
        /\ (OnTrack(r) => OnTrack(r)')
    BY <1>2, <2>2, <2>3 DEF TakenBy, Complete, OnTrack
  <2>5. pc[r] = "run" => o # Mine(r)
    BY <1>2, Placed DEF Before
  <2>6. chan'[Mine(r)].closed => chan[Mine(r)].closed \/ thread'[Mine(r)] # "decoding"
    BY <1>3, <2>1
  <2>7. /\ thread[Mine(r)] # "decoding" => thread'[Mine(r)] # "decoding"
        /\ thread[Mine(r)] # "none" => thread'[Mine(r)] # "none"
    BY <1>1, <1>2, <2>1, DecodeFrameOf
  <2>8. pc[r] = "run" => chan'[Mine(r)] = chan[Mine(r)]
    BY <1>3, <2>1, <2>5
  <2> QED
    BY <1>2, <2>2, <2>4, <2>6, <2>7, <2>8 DEF Answered
<1> QED
  BY <1>4, <1>5

-----------------------------------------------------------------------------
LEMMA InitAnswer == Init => AnswerInv
<1> SUFFICES ASSUME Init PROVE AnswerInv
  OBVIOUS
<1>1. Texts /\ \A r \in Requests : Answered(r)
  BY DEF Init, Texts, Answered, Before
<1>2. \A o \in Objects : Fed(o)
  BY DEF Init, Fed
<1> QED
  BY <1>1, <1>2, InitCore DEF AnswerInv

LEMMA StepAnswer == ~Overlap /\ AnswerInv /\ [Next]_vars => AnswerInv'
<1> SUFFICES ASSUME ~Overlap, AnswerInv, [Next]_vars PROVE AnswerInv'
  OBVIOUS
<1>1. CoreInv /\ CoreInv' /\ Texts
  BY StepCore DEF AnswerInv
<1>2. ASSUME NEW r \in Requests, Rpc(r) PROVE AnswerInv'
  <2>1. Told(r)'
    BY <1>1, <1>2, RpcTold DEF AnswerInv, Told
  <2>2. \A q \in Requests \ {r} : Answered(q)'
    BY <1>1, <1>2, AnsweredFrame DEF AnswerInv
  <2> QED
    BY <1>1, <2>1, <2>2 DEF AnswerInv, Told
<1>3. ASSUME NEW o \in Objects, Decode(o) PROVE AnswerInv'
  <2>1. /\ Fed(o)' /\ \A r \in Requests : Answered(r)'
        /\ \A d \in Objects \ {o} : chan'[d] = chan[d] /\ sent'[d] = sent[d]
    BY <1>1, <1>3, DecodeFed, DecodeAnswered DEF AnswerInv
  <2>2. /\ UNCHANGED <<loopVars, video>> /\ \A d \in Objects \ {o} : thread'[d] = thread[d]
    BY <1>1, <1>3, DecodeFrameOf DEF CoreInv
  <2>3. \A d \in Objects \ {o} : Fed(d)'
    BY <2>1, <2>2, FedKept DEF AnswerInv
  <2>4. Texts'
    BY <1>1, <2>2 DEF Texts, loopVars
  <2> QED
    BY <1>1, <2>1, <2>3, <2>4 DEF AnswerInv
<1>4. CASE UNCHANGED vars
  <2>1. UNCHANGED <<kind, pc, cur, batch, left, resp, out, video, thread, sent, chan>>
    BY <1>4 DEF vars, rpcVars, loopVars, decVars
  <2>2. Texts' /\ \A o \in Objects : Fed(o)'
    BY <2>1, FedKept DEF AnswerInv, Texts
  <2>3. ASSUME NEW r \in Requests PROVE Answered(r)'
    <3>1. Answered(r) /\ Mine(r)' = Mine(r)
      BY <2>1 DEF AnswerInv, Mine
    <3>2. TakenBy(r)' = TakenBy(r) /\ Complete(r)' = Complete(r) /\ OnTrack(r)' = OnTrack(r)
      BY <2>1, <3>1 DEF TakenBy, Complete, OnTrack, Drained
    <3> QED
      BY <2>1, <3>1, <3>2 DEF Answered
  <2> QED
    BY <1>1, <2>2, <2>3 DEF AnswerInv
<1> QED
  BY <1>2, <1>3, <1>4, NextCases

\* A video has been answered, when its call comes to join the decode thread, with its own
\* frames, each once, in order and from the first: all that it announced for AnnotateVideo,
\* those that could be decoded for a summary (handler.cpp:27-67, handler.h:36-39).
THEOREM CoreAnswers == ~Overlap => (Spec => []ResponsesComplete)
<1> SUFFICES ASSUME ~Overlap PROVE Spec => []ResponsesComplete
  OBVIOUS
<1>1. AnswerInv /\ [Next]_vars => AnswerInv'
  BY StepAnswer
<1>2. AnswerInv => ResponsesComplete
  <2> SUFFICES ASSUME AnswerInv, NEW r \in Requests, pc[r] \in {"join", "release", "abort"}
               PROVE  LET v == video[Mine(r)]
                          n == IF kind[r] = "summary" /\ Decodable(v) < v.meta
                               THEN Decodable(v) ELSE v.meta
                      IN  out[r] = FirstFrames(Mine(r), n)
    BY DEF ResponsesComplete
  <2> DEFINE o == Mine(r)
             v == video[o]
  <2>1. /\ o \in Objects /\ Fed(o) /\ Noted(o) /\ chan[o] \in Handler
        /\ chan[o].processed <= chan[o].total /\ kind[r] \in Kinds
    <3>1. Plain /\ Counting /\ Flow(r) /\ pc[r] \in Before \cup Running \cup {"release", "abort"}
      BY DEF AnswerInv, CoreInv, Running
    <3>2. o \in Objects /\ kind[r] \in Kinds
      BY <3>1, ObjectFacts DEF Flow, Mine
    <3> QED
      BY <3>1, <3>2 DEF AnswerInv, CoreInv, Plain, Counting
  <2>2. thread[o] # "none" /\ v \in Video
    <3>1. thread[o] # "none"
      BY DEF AnswerInv, Answered
    <3>2. thread[o] \in {"decoding", "ended", "joined"}
      BY <2>1, <3>1 DEF AnswerInv, CoreInv, Plain
    <3> QED
      BY <2>1, <3>1, <3>2 DEF Noted
  <2>3. out[r] = FirstFrames(o, chan[o].processed) /\ Complete(r)
    BY DEF AnswerInv, Answered, TakenBy
  <2>4. /\ chan[o].total = v.meta /\ chan[o].processed + Len(chan[o].queue) = sent[o]
        /\ sent[o] <= Decodable(v) /\ (thread[o] # "decoding" => sent[o] = Decodable(v))
    BY <2>1, <2>2 DEF Fed
  <2>5. /\ chan[o].processed \in Nat /\ Len(chan[o].queue) \in Nat /\ v.meta \in Nat
        /\ Decodable(v) \in Nat
    BY <2>1, <2>2 DEF Handler, Video, Decodable
  <2>6. CASE chan[o].processed = chan[o].total
    <3>1. chan[o].processed = v.meta /\ ~(Decodable(v) < v.meta)
      BY <2>4, <2>5, <2>6
    <3> QED
      BY <2>3, <3>1
  <2>7. CASE kind[r] = "summary" /\ Drained(o)
    <3>1. chan[o].processed = Decodable(v)
      <4>1. Len(<<>>) = 0
        OBVIOUS
      <4> QED
        BY <2>4, <2>5, <2>7, <4>1 DEF Drained
    <3>2. ~(Decodable(v) < v.meta) => Decodable(v) = v.meta
      BY <2>1, <2>4, <2>5, <3>1
    <3> QED
      BY <2>3, <2>7, <3>1, <3>2
  <2> QED
    BY <2>3, <2>6, <2>7 DEF Complete
<1> QED
  BY <1>1, <1>2, InitAnswer, PTL DEF Spec
=============================================================================
