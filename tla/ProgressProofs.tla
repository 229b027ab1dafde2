--------------------------- MODULE ProgressProofs ---------------------------
(***************************************************************************)
(* When calls on a video come to an end (Join of InferCore), on top of the *)
(* invariant of AnswerProofs and under the same assumption, that tests of  *)
(* the availability flag do not overlap.  Liveness itself is left to TLC;  *)
(* proved here is what it rests on: the call and its decode thread are     *)
(* never stuck together (CoreNeverStuck), each of their steps leaves less  *)
(* work (CoreProgresses) in an order without endless descent               *)
(* (NoEndlessWork), and a call that comes back had a healthy video         *)
(* (CoreJoins).                                                            *)
(***************************************************************************)
EXTENDS AnswerProofs, WellFoundedInduction

-----------------------------------------------------------------------------
\* Parts of the invariant.

\* A thread that ended after reading its video has closed the channel, and one that was
\* joined had a healthy video.
Ends(o) == /\ thread[o] = "ended" /\ video[o].reopens => chan[o].closed
           /\ thread[o] = "joined" => Healthy(kind[o[1]], video[o])

\* A video that does not open again: nobody closes the channel before the call does, so
\* the loop that waits for a frame is never left.
Silent(r) ==
  ~video[Mine(r)].reopens =>
    /\ pc[r] \in {"run", "output", "get", "full"} => ~chan[Mine(r)].closed
    /\ pc[r] = "get" => left[r] > 0
    /\ pc[r] \in {"full", "close", "send", "join"} => video[Mine(r)].meta = 0

\* The loops of GetOutput and GetOutputSummary: batches are counted up to their number,
\* and a response of AnnotateVideo takes at least one frame when the video has it.
Looping(r) ==
  /\ pc[r] = "get" => batch[r] < Batches(r, Mine(r))
  /\ kind[r] = "annotate" /\ Healthy("annotate", video[Mine(r)]) /\ resp[r] = <<>> =>
       /\ pc[r] = "get" => left[r] > 0
       /\ pc[r] # "full"

ProgressInv == /\ AnswerInv
               /\ \A o \in Objects : Ends(o)
               /\ \A r \in Requests : Silent(r) /\ Looping(r)

-----------------------------------------------------------------------------
\* Where a call that works on a video is.

LEMMA AtWork ==
  ASSUME AnswerInv, NEW r \in Requests, Working(r)
  PROVE  /\ Mine(r) \in Objects /\ kind[r] \in Kinds /\ video[Mine(r)] \in Video
         /\ chan[Mine(r)] \in Handler /\ Len(chan[Mine(r)].queue) \in 0..Capacity
         /\ chan[Mine(r)].processed <= chan[Mine(r)].total
         /\ sent[Mine(r)] \in Nat /\ left[r] \in 0..BatchSize /\ batch[r] \in Nat
         /\ resp[r] \in Seq(Frames) /\ thread[Mine(r)] \in {"none", "decoding", "ended", "joined"}
         /\ sent[Mine(r)] <= Decodable(video[Mine(r)])
         /\ pc[r] # "setup" => chan[Mine(r)].total = video[Mine(r)].meta
<1> DEFINE o == Mine(r)
<1>1. /\ Plain /\ Counting /\ Flow(r) /\ Own(r) /\ Unused(r) /\ Texts /\ Answered(r)
      /\ \A d \in Objects : Noted(d) /\ Fed(d)
  BY DEF AnswerInv, CoreInv
<1>2. pc[r] \in Before \cup Running \cup {"release", "abort"}
  BY DEF Working, Before, Running
<1>3. o \in Objects /\ kind[r] \in Kinds
  <2>1. cur[r] \in 1..MaxVideos
    BY <1>1, <1>2 DEF Flow
  <2>2. kind[r] \in Kinds
    BY <1>1 DEF Flow, Working
  <2> QED
    BY <2>1, <2>2, ObjectFacts DEF Mine
<1>4. /\ chan[o] \in Handler /\ Len(chan[o].queue) \in 0..Capacity
      /\ chan[o].processed <= chan[o].total /\ sent[o] \in Nat
      /\ thread[o] \in {"none", "decoding", "ended", "joined"}
  <2>1. chan[o] \in Handler /\ Len(chan[o].queue) <= Capacity
    BY <1>1, <1>3 DEF Plain, Counting
  <2>2. Len(chan[o].queue) \in Nat
    BY <2>1 DEF Handler
  <2> QED
    BY <1>1, <1>3, <2>1, <2>2, SizeAssumption DEF Plain, Counting
<1>5. video[o] \in Video
  <2>1. CASE pc[r] \in Before \cup Running
    BY <1>1, <2>1 DEF Own
  <2>2. CASE pc[r] \in {"release", "abort"}
    <3>1. thread[o] # "none"
      BY <1>1, <2>2 DEF Answered
    <3> QED
      BY <1>1, <1>3, <1>4, <3>1 DEF Noted
  <2> QED
    BY <1>2, <2>1, <2>2
<1>6. sent[o] <= Decodable(video[o])
  <2>1. Decodable(video[o]) \in Nat
    BY <1>5 DEF Decodable, Video
  <2> QED
    BY <1>1, <1>3, <1>4, <2>1 DEF Fed
<1>7. pc[r] # "setup" => chan[o].total = video[o].meta
  <2>1. CASE pc[r] = "run"
    BY <1>1, <2>1 DEF Answered
  <2>2. CASE pc[r] \in Running \cup {"release", "abort"}
    <3>1. thread[o] # "none"
      BY <1>1, <2>2 DEF Answered, Unused
    <3> QED
      BY <1>1, <1>3, <3>1 DEF Fed
  <2> QED
    BY <2>1, <2>2 DEF Working, Running
<1> QED
  BY <1>1, <1>3, <1>4, <1>5, <1>6, <1>7 DEF Plain, Texts

\* Its decode thread has put all that was taken and what is in the channel.
LEMMA Feeding ==
  ASSUME AnswerInv, NEW r \in Requests, pc[r] \in Running
  PROVE  /\ Working(r) /\ thread[Mine(r)] \in {"decoding", "ended"}
         /\ decoder = Mine(r) /\ handler = Mine(r)
         /\ thread[Mine(r)] = "decoding" => target[Mine(r)] = Mine(r)
         /\ chan[Mine(r)].processed + Len(chan[Mine(r)].queue) = sent[Mine(r)]
         /\ thread[Mine(r)] = "ended" => sent[Mine(r)] = Decodable(video[Mine(r)])
<1>1. Working(r) /\ Mine(r) \in Objects
  BY AtWork DEF Working, Running
<1>2. CoreInv /\ Fed(Mine(r)) /\ Noted(Mine(r))
  BY <1>1 DEF AnswerInv, CoreInv
<1>3. thread[Mine(r)] \in {"decoding", "ended"} /\ decoder = Mine(r) /\ handler = Mine(r)
  BY <1>2, Placed
<1> QED
  BY <1>1, <1>2, <1>3 DEF Fed, Noted

\* Nothing comes of a video that does not open again.
LEMMA NothingComes ==
  ASSUME AnswerInv, NEW r \in Requests, pc[r] \in Running, ~video[Mine(r)].reopens
  PROVE  chan[Mine(r)].queue = <<>> /\ chan[Mine(r)].processed = 0
<1>1. sent[Mine(r)] = 0 /\ chan[Mine(r)] \in Handler
  BY Feeding, AtWork DEF Decodable
<1>2. chan[Mine(r)].processed \in Nat /\ chan[Mine(r)].queue \in Seq(Frames)
  BY <1>1 DEF Handler
<1>3. chan[Mine(r)].processed = 0 /\ Len(chan[Mine(r)].queue) = 0
  <2>1. Len(chan[Mine(r)].queue) \in Nat
    BY <1>2
  <2> QED
    BY <1>1, <1>2, <2>1, Feeding
<1> QED
  BY <1>2, <1>3

\* A batch that begins has a frame to take, if one is missing.
LEMMA BatchOf ==
  ASSUME AnswerInv, NEW r \in Requests, Working(r), NEW b \in Nat, EnterBatch(r, Mine(r), b)
  PROVE  \/ b = Batches(r, Mine(r)) /\ pc'[r] = "full"
         \/ /\ b # Batches(r, Mine(r)) /\ pc'[r] = "get" /\ batch'[r] = b
            /\ chan[Mine(r)].processed < chan[Mine(r)].total => left'[r] > 0
            /\ left'[r] \in Nat
<1>1. /\ pc \in [Requests -> Places] /\ left \in [Requests -> 0..BatchSize]
      /\ batch \in [Requests -> Nat]
  BY DEF AnswerInv, CoreInv, Plain
<1>2. CASE b = Batches(r, Mine(r))
  BY <1>1, <1>2 DEF EnterBatch, Goto
<1>3. CASE b # Batches(r, Mine(r))
  <2> DEFINE rest == chan[Mine(r)].total - chan[Mine(r)].processed
  <2>1. /\ pc'[r] = "get" /\ batch'[r] = b
        /\ left'[r] = IF rest < BatchSize THEN rest ELSE BatchSize
    BY <1>1, <1>3 DEF EnterBatch, Goto
  <2>2. chan[Mine(r)] \in Handler /\ chan[Mine(r)].processed <= chan[Mine(r)].total
    BY AtWork
  <2>3. rest \in Nat /\ (chan[Mine(r)].processed < chan[Mine(r)].total => rest > 0)
    BY <2>2 DEF Handler
  <2> QED
    BY <1>3, <2>1, <2>3, SizeAssumption
<1> QED
  BY <1>2, <1>3

LEMMA BatchesCounted ==
  ASSUME AnswerInv, NEW r \in Requests, Working(r)
  PROVE  /\ Batches(r, Mine(r)) \in Nat
         /\ Batches(r, Mine(r)) = 0 => kind[r] = "summary" /\ chan[Mine(r)].total = 0
<1>1. chan[Mine(r)].total \in Nat
  BY AtWork DEF Handler
<1>2. kind[r] = "annotate" => Batches(r, Mine(r)) = BatchNum
  BY DEF Batches
<1>3. kind[r] # "annotate" => Batches(r, Mine(r)) = TotalBatches(chan[Mine(r)].total)
  BY DEF Batches
<1>4. TotalBatches(chan[Mine(r)].total) = 0 => chan[Mine(r)].total = 0
  <2>1. 0 * BatchSize = 0
    BY SizeAssumption
  <2> QED
    BY <1>1, <2>1, EnoughBatches
<1>5. kind[r] \in {"annotate", "summary"}
  BY AtWork DEF Kinds
<1> QED
  BY <1>1, <1>2, <1>3, <1>4, <1>5, EnoughBatches, SizeAssumption

-----------------------------------------------------------------------------
\* The steps of a call keep the invariant.
Going(r) == (\A o \in Objects : Ends(o)) /\ Silent(r) /\ Looping(r)

LEMMA EndsKept ==
  ASSUME NEW o, Ends(o), thread'[o] = thread[o], video'[o] = video[o],
         chan'[o].closed \/ chan'[o].closed = chan[o].closed, kind'[o[1]] = kind[o[1]]
  PROVE  Ends(o)'
  BY DEF Ends, Healthy, Decodable

LEMMA OwnerOf ==
  ASSUME NEW r, NEW k
  PROVE  <<r, k>>[1] = r
  OBVIOUS

LEMMA SilentKept ==
  ASSUME NEW r, Silent(r), UNCHANGED <<cur, video>>, pc'[r] = pc[r], left'[r] = left[r],
         chan'[Mine(r)].closed => chan[Mine(r)].closed \/ video[Mine(r)].reopens
  PROVE  Silent(r)'
  BY DEF Silent, Mine

LEMMA QuietGoes ==
  ASSUME ProgressInv, NEW r \in Requests,
         \/ ReadEmptyAddress(r) \/ EndOfStream(r) \/ Open(r) \/ Claim(r)
         \/ SendFails(r) \/ Release(r)
  PROVE  Going(r)'
<1>1. UNCHANGED <<kind, cur, loopVars, decVars, chan>>
  BY DEF ReadEmptyAddress, EndOfStream, Open, Claim, SendFails, Release
<1>2. pc \in [Requests -> Places]
  BY DEF ProgressInv, AnswerInv, CoreInv, Plain
<1>3. pc'[r] \in {"read", "done", "claim", "setup"}
  BY <1>2 DEF ReadEmptyAddress, EndOfStream, Open, Claim, SendFails, Release, Goto, Finish
<1>4. \A o \in Objects : Ends(o)'
  BY <1>1, EndsKept DEF ProgressInv, decVars
<1> QED
  BY <1>3, <1>4 DEF Going, Silent, Looping

LEMMA ArriveGoes ==
  ASSUME ProgressInv, NEW r \in Requests, NEW k \in Kinds, Arrive(r, k)
  PROVE  Going(r)'
<1>1. Plain /\ Flow(r) /\ Unused(r) /\ pc[r] = "idle"
  BY DEF ProgressInv, AnswerInv, CoreInv, Arrive
<1>2. UNCHANGED <<cur, thread, video, chan>> /\ pc'[r] \in {"read", "done"}
  BY <1>1 DEF Arrive, Goto, Finish, decVars, Plain
<1>3. ASSUME NEW o \in Objects PROVE Ends(o)'
  <2>1. PICK q \in Requests, n \in 1..MaxVideos : o = <<q, n>>
    BY ObjectFacts
  <2>2. CASE q = r
    <3>1. cur[r] = 0 /\ n > 0
      BY <1>1 DEF Flow
    <3>2. thread'[o] = "none"
      BY <1>1, <1>2, <2>1, <2>2, <3>1 DEF Unused
    <3> QED
      BY <3>2 DEF Ends
  <2>3. CASE q # r
    <3>1. kind'[q] = kind[q] /\ o[1] = q
      BY <1>1, <2>1, <2>3 DEF Arrive, Plain
    <3> QED
      BY <1>2, <3>1, EndsKept DEF ProgressInv
  <2> QED
    BY <2>2, <2>3
<1> QED
  BY <1>2, <1>3 DEF Going, Silent, Looping

LEMMA ReadGoes ==
  ASSUME ProgressInv, NEW r \in Requests, ReadVideo(r)
  PROVE  Going(r)'
<1> DEFINE n == <<r, cur[r] + 1>>
<1>1. Plain /\ Flow(r) /\ Unused(r) /\ pc[r] = "read"
  BY DEF ProgressInv, AnswerInv, CoreInv, ReadVideo
<1>2. kind[r] \in Kinds /\ cur[r] + 1 \in 1..MaxVideos
  BY <1>1, SizeAssumption DEF ReadVideo, Flow, Plain
<1>3. n \in Objects /\ thread[n] = "none"
  <2>1. cur[r] + 1 > cur[r]
    BY <1>1 DEF Plain
  <2> QED
    BY <1>1, <1>2, <2>1, ObjectFacts DEF Unused
<1>4. UNCHANGED <<kind, chan, thread>> /\ \A o \in Objects \ {n} : video'[o] = video[o]
  <2>1. \E v : video' = [video EXCEPT ![n] = v]
    BY DEF ReadVideo
  <2> QED
    BY <1>1, <2>1 DEF ReadVideo, Plain
<1>5. pc'[r] = "opening"
  BY <1>1 DEF ReadVideo, Goto, Plain
<1>6. \A o \in Objects \ {n} : Ends(o)'
  BY <1>4, EndsKept DEF ProgressInv
<1>7. ASSUME NEW o \in Objects, o = n PROVE Ends(o)'
  BY <1>3, <1>4, <1>7 DEF Ends
<1> QED
  BY <1>5, <1>6, <1>7 DEF Going, Silent, Looping

LEMMA SetupGoes ==
  ASSUME ProgressInv, NEW r \in Requests, Setup(r)
  PROVE  Going(r)'
<1>1. /\ Plain /\ pc[r] = "setup" /\ Mine(r) \in Objects /\ thread[Mine(r)] = "none"
      /\ UNCHANGED <<kind, cur, decVars>>
  BY Placed DEF ProgressInv, AnswerInv, CoreInv, Setup, Before
<1>2. /\ pc'[r] = "run" /\ Mine(r)' = Mine(r) /\ UNCHANGED <<thread, video>>
      /\ \E t : chan' = [chan EXCEPT ![Mine(r)] = [NoHandler EXCEPT !.total = t]]
  BY <1>1 DEF Setup, Goto, Plain, Mine, decVars
<1>3. ~chan'[Mine(r)].closed /\ \A o \in Objects \ {Mine(r)} : chan'[o] = chan[o]
  BY <1>1, <1>2 DEF Plain, NoHandler
<1>4. \A o \in Objects \ {Mine(r)} : Ends(o)'
  BY <1>1, <1>2, <1>3, EndsKept DEF ProgressInv
<1>5. ASSUME NEW o \in Objects, o = Mine(r) PROVE Ends(o)'
  BY <1>1, <1>2, <1>5 DEF Ends
<1> QED
  BY <1>2, <1>3, <1>4, <1>5 DEF Going, Silent, Looping

LEMMA RunGoes ==
  ASSUME ProgressInv, NEW r \in Requests, Run(r)
  PROVE  Going(r)'
<1>1. /\ Plain /\ pc[r] = "run" /\ decoder = Mine(r) /\ Mine(r) \in Objects
      /\ UNCHANGED <<kind, cur, video, chan, loopVars>>
  BY Placed DEF ProgressInv, AnswerInv, CoreInv, Run, Before
<1>2. /\ pc'[r] = "output" /\ Mine(r)' = Mine(r)
      /\ thread' = [thread EXCEPT ![Mine(r)] = "decoding"]
  BY <1>1 DEF Run, Goto, Plain, Mine
<1>3. thread'[Mine(r)] = "decoding" /\ \A o \in Objects \ {Mine(r)} : thread'[o] = thread[o]
  BY <1>1, <1>2 DEF Plain
<1>4. \A o \in Objects \ {Mine(r)} : Ends(o)'
  BY <1>1, <1>3, EndsKept DEF ProgressInv
<1>5. ASSUME NEW o \in Objects, o = Mine(r) PROVE Ends(o)'
  BY <1>3, <1>5 DEF Ends
<1> QED
  BY <1>1, <1>2, <1>4, <1>5 DEF Going, Silent, Looping, ProgressInv

LEMMA OutputDoneGoes ==
  ASSUME ProgressInv, NEW r \in Requests, OutputDone(r)
  PROVE  Going(r)'
<1>1. /\ Plain /\ AnswerInv /\ pc[r] = "output" /\ Working(r) /\ pc[r] \in Running
      /\ UNCHANGED <<kind, cur, loopVars, decVars, chan>>
  BY DEF ProgressInv, AnswerInv, CoreInv, OutputDone, Working, Running
<1>2. /\ handler = Mine(r) /\ pc'[r] = "close" /\ Mine(r)' = Mine(r)
      /\ chan[Mine(r)].processed = video[Mine(r)].meta
  BY <1>1, Feeding, AtWork DEF OutputDone, Goto, Plain, Mine
<1>3. UNCHANGED <<thread, video>> /\ \A o \in Objects : Ends(o)'
  BY <1>1, EndsKept DEF ProgressInv, decVars
<1>4. ~video[Mine(r)].reopens => video[Mine(r)].meta = 0
  BY <1>1, <1>2, NothingComes
<1> QED
  BY <1>2, <1>3, <1>4 DEF Going, Silent, Looping

LEMMA OutputStartGoes ==
  ASSUME ProgressInv, NEW r \in Requests, OutputStart(r)
  PROVE  Going(r)'
<1>1. /\ Plain /\ AnswerInv /\ pc[r] = "output" /\ Working(r) /\ pc[r] \in Running
      /\ UNCHANGED <<kind, cur, decVars, chan>> /\ Silent(r)
  BY DEF ProgressInv, AnswerInv, CoreInv, OutputStart, Working, Running
<1>2. /\ handler = Mine(r) /\ Mine(r)' = Mine(r) /\ EnterBatch(r, Mine(r), 0)
      /\ kind[r] = "summary" \/ chan[Mine(r)].processed # chan[Mine(r)].total
      /\ Batches(r, Mine(r))' = Batches(r, Mine(r))
  BY <1>1, Feeding DEF OutputStart, Mine, Batches
<1>3. UNCHANGED <<thread, video>> /\ \A o \in Objects : Ends(o)'
  BY <1>1, EndsKept DEF ProgressInv, decVars
<1>4. /\ chan[Mine(r)].processed \in Nat /\ chan[Mine(r)].total \in Nat
      /\ chan[Mine(r)].processed <= chan[Mine(r)].total
      /\ chan[Mine(r)].total = video[Mine(r)].meta /\ kind[r] \in {"annotate", "summary"}
  BY <1>1, AtWork DEF Handler, Kinds
<1>5. \/ 0 = Batches(r, Mine(r)) /\ pc'[r] = "full"
      \/ /\ 0 # Batches(r, Mine(r)) /\ pc'[r] = "get" /\ batch'[r] = 0
         /\ chan[Mine(r)].processed < chan[Mine(r)].total => left'[r] > 0
  BY <1>1, <1>2, BatchOf
<1>6. CASE 0 = Batches(r, Mine(r)) /\ pc'[r] = "full"
  <2>1. kind[r] = "summary" /\ video[Mine(r)].meta = 0
    BY <1>1, <1>4, <1>6, BatchesCounted
  <2> QED
    BY <1>1, <1>2, <1>3, <1>6, <2>1 DEF Going, Silent, Looping
<1>7. CASE 0 # Batches(r, Mine(r)) /\ pc'[r] = "get" /\ batch'[r] = 0
  <2>1. batch'[r] < Batches(r, Mine(r))
    BY <1>1, <1>7, BatchesCounted
  <2>2. kind[r] = "annotate" => left'[r] > 0
    BY <1>2, <1>4, <1>5, <1>7
  <2>3. ~video[Mine(r)].reopens => left'[r] > 0
    <3>1. kind[r] = "summary" => chan[Mine(r)].total # 0
      <4>1. TotalBatches(0) = 0
        BY SizeAssumption DEF TotalBatches
      <4> QED
        BY <1>7, <4>1 DEF Batches
    <3>2. ~video[Mine(r)].reopens => chan[Mine(r)].processed = 0
      BY <1>1, NothingComes
    <3> QED
      BY <1>2, <1>4, <1>5, <1>7, <3>1, <3>2
  <2> QED
    BY <1>1, <1>2, <1>3, <1>7, <2>1, <2>2, <2>3 DEF Going, Silent, Looping
<1> QED
  BY <1>5, <1>6, <1>7

LEMMA GetFrameGoes ==
  ASSUME ProgressInv, NEW r \in Requests, GetFrame(r)
  PROVE  Going(r)'
<1>1. /\ Plain /\ AnswerInv /\ pc[r] = "get" /\ Working(r) /\ pc[r] \in Running
      /\ UNCHANGED <<kind, pc, cur, decVars, batch>> /\ Looping(r)
  BY DEF ProgressInv, AnswerInv, CoreInv, GetFrame, Working, Running, rpcVars
<1>2. self[r] = Mine(r) /\ Mine(r) \in Objects /\ Mine(r)' = Mine(r)
  BY <1>1, Placed DEF AnswerInv, Mine
<1>3. video[Mine(r)].reopens
  BY <1>1, <1>2, NothingComes DEF GetFrame
<1>4. /\ \A o \in Objects \ {Mine(r)} : chan'[o] = chan[o]
      /\ chan'[Mine(r)].closed = chan[Mine(r)].closed
      /\ chan'[Mine(r)].total = chan[Mine(r)].total
  BY <1>1, <1>2 DEF GetFrame, Plain, Handler
<1>5. Batches(r, Mine(r))' = Batches(r, Mine(r))
  BY <1>1, <1>2, <1>4 DEF Batches
<1>6. UNCHANGED <<thread, video>> /\ \A o \in Objects : Ends(o)'
  <2>1. UNCHANGED <<thread, video, kind>>
    BY <1>1 DEF decVars
  <2>2. \A o \in Objects : chan'[o].closed = chan[o].closed
    BY <1>4
  <2> QED
    BY <2>1, <2>2, EndsKept DEF ProgressInv
<1>7. resp'[r] # <<>>
  <2>1. resp'[r] = Append(resp[r], Head(chan[Mine(r)].queue)) /\ resp[r] \in Seq(Frames)
    BY <1>1, <1>2, AtWork DEF GetFrame, AnswerInv, Texts
  <2> QED
    BY <2>1
<1> QED
  BY <1>1, <1>2, <1>3, <1>5, <1>6, <1>7 DEF Going, Silent, Looping

\* A getter that is told of the end has taken all there is.
LEMMA EndTold ==
  ASSUME AnswerInv, NEW r \in Requests, pc[r] = "get", left[r] > 0,
         chan[Mine(r)].queue = <<>>, chan[Mine(r)].closed
  PROVE  Decodable(video[Mine(r)]) < video[Mine(r)].meta
<1>1. Counting /\ Answered(r) /\ pc[r] \in Running /\ Working(r)
  BY DEF AnswerInv, CoreInv, Running, Working
<1>2. thread[Mine(r)] # "decoding"
  BY <1>1 DEF Answered
<1>3. sent[Mine(r)] = Decodable(video[Mine(r)]) /\ sent[Mine(r)] \in Nat
  BY <1>1, <1>2, Feeding, AtWork
<1>4. chan[Mine(r)].processed + Len(chan[Mine(r)].queue) = sent[Mine(r)]
  BY <1>1, Feeding
<1>5. chan[Mine(r)].processed + left[r] <= video[Mine(r)].meta
  <2>1. chan[Mine(r)].total = video[Mine(r)].meta
    BY <1>1, AtWork
  <2> QED
    BY <1>1, <2>1 DEF Counting
<1>6. /\ chan[Mine(r)].processed \in Nat /\ left[r] \in Nat /\ Len(<<>>) = 0
      /\ video[Mine(r)].meta \in Nat
  BY <1>1, AtWork, SizeAssumption DEF Handler, Video
<1>7. chan[Mine(r)].processed = sent[Mine(r)]
  BY <1>4, <1>6
<1> QED
  BY <1>3, <1>5, <1>6, <1>7

LEMMA GetEndGoes ==
  ASSUME ProgressInv, NEW r \in Requests, GetEnd(r)
  PROVE  Going(r)'
<1>1. /\ Plain /\ AnswerInv /\ pc[r] = "get" /\ Working(r)
      /\ UNCHANGED <<kind, pc, cur, video, thread, chan, batch>> /\ Looping(r) /\ Silent(r)
  BY DEF ProgressInv, AnswerInv, CoreInv, GetEnd, Working, rpcVars, decVars
<1>2. self[r] = Mine(r) /\ Mine(r)' = Mine(r)
  BY <1>1, Placed DEF AnswerInv, Mine, Running
<1>3. video[Mine(r)].reopens
  BY <1>1, <1>2 DEF GetEnd, Silent
<1>4. ~Healthy("annotate", video[Mine(r)])
  <2>1. Decodable(video[Mine(r)]) < video[Mine(r)].meta
    BY <1>1, <1>2, EndTold DEF GetEnd
  <2>2. Decodable(video[Mine(r)]) \in Nat /\ video[Mine(r)].meta \in Nat
    BY <1>1, AtWork DEF Video, Decodable
  <2> QED
    BY <2>1, <2>2 DEF Healthy
<1>5. Batches(r, Mine(r))' = Batches(r, Mine(r)) /\ \A o \in Objects : Ends(o)'
  BY <1>1, <1>2, EndsKept DEF Batches, ProgressInv
<1>6. Healthy("annotate", video[Mine(r)])' = Healthy("annotate", video[Mine(r)])
  BY <1>1, <1>2 DEF Healthy, Decodable
<1> QED
  BY <1>1, <1>2, <1>3, <1>4, <1>5, <1>6 DEF Going, Silent, Looping

LEMMA ForwardGoes ==
  ASSUME ProgressInv, NEW r \in Requests, Forward(r)
  PROVE  Going(r)'
<1>1. /\ Plain /\ AnswerInv /\ pc[r] = "get" /\ Working(r) /\ left[r] = 0
      /\ UNCHANGED <<kind, cur, resp, video, thread, chan>> /\ Looping(r) /\ Silent(r)
  BY DEF ProgressInv, AnswerInv, CoreInv, Forward, Working, decVars
<1>2. /\ self[r] = Mine(r) /\ Mine(r)' = Mine(r) /\ EnterBatch(r, Mine(r), batch[r] + 1)
      /\ batch[r] \in Nat
  BY <1>1, Placed DEF Forward, AnswerInv, Plain, Mine, Running
<1>3. video[Mine(r)].reopens
  BY <1>1 DEF Silent
<1>4. ~ (kind[r] = "annotate" /\ Healthy("annotate", video[Mine(r)]) /\ resp[r] = <<>>)
  BY <1>1 DEF Looping
<1>5. Batches(r, Mine(r))' = Batches(r, Mine(r)) /\ \A o \in Objects : Ends(o)'
  BY <1>1, <1>2, EndsKept DEF Batches, ProgressInv
<1>6. pc'[r] = "get" => batch'[r] < Batches(r, Mine(r))
  <2>1. batch[r] < Batches(r, Mine(r)) /\ Batches(r, Mine(r)) \in Nat
    BY <1>1, BatchesCounted DEF Looping
  <2>2. \/ batch[r] + 1 = Batches(r, Mine(r)) /\ pc'[r] = "full"
        \/ batch[r] + 1 # Batches(r, Mine(r)) /\ batch'[r] = batch[r] + 1
    BY <1>1, <1>2, BatchOf
  <2> QED
    BY <1>2, <2>1, <2>2
<1>7. Healthy("annotate", video[Mine(r)])' = Healthy("annotate", video[Mine(r)])
  BY <1>1, <1>2 DEF Healthy, Decodable
<1>8. Looping(r)'
  BY <1>1, <1>2, <1>4, <1>5, <1>6, <1>7 DEF Looping
<1> QED
  BY <1>1, <1>2, <1>3, <1>5, <1>8 DEF Going, Silent

LEMMA WriteGoes ==
  ASSUME ProgressInv, NEW r \in Requests, WriteResponse(r)
  PROVE  Going(r)'
<1>1. /\ Plain /\ pc[r] = "full" /\ UNCHANGED <<kind, cur, video, thread, chan>> /\ Silent(r)
  BY DEF ProgressInv, AnswerInv, CoreInv, WriteResponse, decVars
<1>2. pc'[r] = "output" /\ Mine(r)' = Mine(r)
  BY <1>1 DEF WriteResponse, Goto, Plain, Mine
<1>3. \A o \in Objects : Ends(o)'
  BY <1>1, EndsKept DEF ProgressInv
<1> QED
  BY <1>1, <1>2, <1>3 DEF Going, Silent, Looping

LEMMA CloseGoes ==
  ASSUME ProgressInv, NEW r \in Requests, CloseChannel(r)
  PROVE  Going(r)'
<1>1. /\ Plain /\ pc[r] \in {"close", "full"} /\ pc[r] \in Running
      /\ UNCHANGED <<kind, cur, video, thread>> /\ Silent(r)
  BY DEF ProgressInv, AnswerInv, CoreInv, CloseChannel, Running, decVars
<1>2. pc'[r] \in {"join", "send"} /\ Mine(r)' = Mine(r)
  BY <1>1 DEF CloseChannel, Goto, Plain, Mine
<1>3. handler = Mine(r) /\ Mine(r) \in Objects
  BY <1>1, Placed DEF ProgressInv, AnswerInv
<1>4. \A o \in Objects : chan'[o].closed \/ chan'[o].closed = chan[o].closed
  <2>1. chan' = [chan EXCEPT ![Mine(r)].closed = TRUE] /\ chan \in [Objects -> Handler]
    BY <1>1, <1>3 DEF CloseChannel, CloseInput, Plain
  <2>2. chan'[Mine(r)].closed /\ \A o \in Objects \ {Mine(r)} : chan'[o] = chan[o]
    BY <1>3, <2>1 DEF Handler
  <2> QED
    BY <2>2
<1>5. \A o \in Objects : Ends(o)'
  BY <1>1, <1>4, EndsKept DEF ProgressInv
<1> QED
  BY <1>1, <1>2, <1>5 DEF Going, Silent, Looping

LEMMA SendGoes ==
  ASSUME ProgressInv, NEW r \in Requests, SendSummary(r)
  PROVE  Going(r)'
<1>1. /\ Plain /\ pc[r] = "send" /\ UNCHANGED <<kind, cur, video, thread, chan>> /\ Silent(r)
  BY DEF ProgressInv, AnswerInv, CoreInv, SendSummary, decVars
<1>2. pc'[r] = "join" /\ Mine(r)' = Mine(r)
  BY <1>1 DEF SendSummary, Goto, Plain, Mine
<1>3. \A o \in Objects : Ends(o)'
  BY <1>1, EndsKept DEF ProgressInv
<1> QED
  BY <1>1, <1>2, <1>3 DEF Going, Silent, Looping

\* A call that comes to join a thread that has ended had a healthy video.
LEMMA HealthyAtJoin ==
  ASSUME ProgressInv, NEW r \in Requests, pc[r] = "join", thread[Mine(r)] = "ended"
  PROVE  Healthy(kind[r], video[Mine(r)])
<1> DEFINE o == Mine(r)
           n == Len(chan[Mine(r)].queue)
<1>1. AnswerInv /\ pc[r] \in Running /\ Working(r) /\ Answered(r) /\ Silent(r)
  BY DEF ProgressInv, AnswerInv, Running, Working
<1>2. /\ chan[o].processed \in Nat /\ chan[o].total = video[o].meta /\ n \in 0..Capacity
      /\ chan[o].processed <= video[o].meta /\ video[o].meta \in Nat
  BY <1>1, AtWork DEF Handler, Video
<1>3. Decodable(video[o]) = chan[o].processed + n
  BY <1>1, Feeding
<1> HIDE DEF o, n
<1>4. Decodable(video[o]) <= video[o].meta + Capacity
  <2>1. n \in Nat /\ n <= Capacity
    BY <1>2, SizeAssumption
  <2> QED
    BY <1>2, <1>3, <2>1, SizeAssumption
<1> USE DEF o, n
<1>5. Decodable(video[o]) >= video[o].meta \/ (kind[r] = "summary" /\ video[o].reopens)
  <2>1. CASE chan[o].processed = chan[o].total
    BY <1>2, <1>3, <2>1
  <2>2. CASE kind[r] = "summary" /\ chan[o].processed # chan[o].total
    <3>1. CASE video[o].reopens
      BY <2>2, <3>1
    <3>2. CASE ~video[o].reopens
      BY <1>1, <1>2, <1>3, <3>2 DEF Silent
    <3> QED
      BY <3>1, <3>2
  <2> QED
    BY <1>1, <2>1, <2>2 DEF Answered, Complete
<1> QED
  BY <1>4, <1>5 DEF Healthy

LEMMA JoinGoes ==
  ASSUME ProgressInv, NEW r \in Requests, Join(r)
  PROVE  Going(r)'
<1>1. /\ Plain /\ pc[r] = "join" /\ pc[r] \in Running /\ AnswerInv
      /\ UNCHANGED <<kind, cur, video, chan>> /\ Silent(r)
  BY DEF ProgressInv, AnswerInv, CoreInv, Join, Running
<1>2. pc'[r] \in {"abort", "release", "read"} /\ Mine(r)' = Mine(r)
  BY <1>1 DEF Join, Goto, Plain, Mine
<1>3. decoder = Mine(r) /\ Mine(r) \in Objects /\ thread[Mine(r)] = "ended"
  BY <1>1, Placed, Feeding DEF AnswerInv, Join
<1>4. Healthy(kind[r], video[Mine(r)])
  BY <1>1, <1>3, HealthyAtJoin
<1>5. thread'[Mine(r)] = "joined" /\ \A o \in Objects \ {Mine(r)} : thread'[o] = thread[o]
  BY <1>1, <1>3 DEF Join, Plain
<1>6. ASSUME NEW o \in Objects, o = Mine(r) PROVE Ends(o)'
  <2>1. o[1] = r /\ thread'[o] = "joined"
    BY <1>5, <1>6, OwnerOf DEF Mine
  <2> QED
    BY <1>1, <1>4, <1>6, <2>1 DEF Ends, Healthy, Decodable
<1>7. \A o \in Objects \ {Mine(r)} : Ends(o)'
  BY <1>1, <1>5, EndsKept DEF ProgressInv
<1> QED
  BY <1>2, <1>6, <1>7 DEF Going, Silent, Looping

LEMMA RpcGoes ==
  ASSUME ProgressInv, NEW r \in Requests, Rpc(r)
  PROVE  Going(r)'
  BY QuietGoes, ArriveGoes, ReadGoes, SetupGoes, RunGoes, OutputDoneGoes, OutputStartGoes,
     GetFrameGoes, GetEndGoes, ForwardGoes, WriteGoes, CloseGoes, SendGoes, JoinGoes
     DEF Rpc, RpcStep

\* While a call is at work, others only arrive, and find the core busy.
LEMMA OthersArrive ==
  ASSUME AnswerInv, NEW r \in Requests, Working(r), NEW q \in Requests \ {r}, Rpc(q)
  PROVE  /\ UNCHANGED <<cur, loopVars, decVars, chan>>
         /\ kind'[r] = kind[r] /\ pc'[r] = pc[r] /\ Mine(r)' = Mine(r)
<1>1. CoreInv /\ Plain /\ Alone
  BY DEF AnswerInv, CoreInv
<1>2. Same(r)
  BY <1>1, Frame
<1>3. \E k \in Kinds : Arrive(q, k)
  <2>1. ~Active(q)
    BY <1>1 DEF Alone, Active, Working
  <2> QED
    BY <2>1, StepActive DEF Rpc
<1> QED
  BY <1>2, <1>3 DEF Same, Arrive, Mine

LEMMA GoingFrame ==
  ASSUME ProgressInv, NEW r \in Requests, NEW q \in Requests \ {r}, Rpc(q)
  PROVE  Silent(r)' /\ Looping(r)'
<1>1. AnswerInv /\ Same(r) /\ Silent(r) /\ Looping(r)
  BY Frame DEF ProgressInv, AnswerInv, CoreInv
<1>2. CASE Working(r)
  <2>1. /\ UNCHANGED <<cur, video, chan, left, batch, resp>>
        /\ kind'[r] = kind[r] /\ pc'[r] = pc[r] /\ Mine(r)' = Mine(r)
    BY <1>1, <1>2, OthersArrive DEF loopVars, decVars
  <2>2. /\ Batches(r, Mine(r))' = Batches(r, Mine(r))
        /\ Healthy("annotate", video[Mine(r)])' = Healthy("annotate", video[Mine(r)])
    BY <2>1 DEF Batches, Healthy, Decodable
  <2> QED
    BY <1>1, <2>1, <2>2 DEF Silent, Looping
<1>3. CASE ~Working(r)
  BY <1>1, <1>3 DEF Same, Working, Silent, Looping
<1> QED
  BY <1>2, <1>3

\* The steps of a decode thread.
LEMMA DecodeGoes ==
  ASSUME ProgressInv, NEW o \in Objects, Decode(o)
  PROVE  /\ \A d \in Objects : Ends(d)'
         /\ \A r \in Requests : Silent(r)' /\ Looping(r)'
<1>1. AnswerInv /\ Plain /\ Noted(o) /\ Fed(o) /\ (\A d \in Objects : Ends(d))
  BY DEF ProgressInv, AnswerInv, CoreInv
<1>2. /\ UNCHANGED <<kind, pc, cur, batch, left, resp, video>>
      /\ thread[o] = "decoding" /\ thread'[o] \in {"decoding", "ended"}
      /\ \A d \in Objects \ {o} : thread'[d] = thread[d]
  <2>1. UNCHANGED <<rpcVars, loopVars, video>>
    BY <1>1, DecodeFrameOf
  <2> QED
    BY <1>1, <2>1, DecodeFrameOf DEF rpcVars, loopVars
<1>3. /\ \A d \in Objects \ {o} : chan'[d] = chan[d]
      /\ chan'[o].total = chan[o].total
  BY <1>1, DecodeFed DEF AnswerInv
<1>4. target[o] = o
  BY <1>1, <1>2 DEF Noted
<1>5. /\ chan'[o].closed => chan[o].closed \/ video[o].reopens
      /\ thread'[o] = "ended" /\ video[o].reopens => chan'[o].closed
  <2>1. CASE DecodeOpenFails(o)
    BY <2>1 DEF DecodeOpenFails
  <2>2. CASE DecodeFrame(o)
    <3>1. UNCHANGED thread /\ video[o].reopens
      BY <2>2 DEF DecodeFrame
    <3> QED
      BY <1>2, <3>1
  <2>3. CASE DecodeEnd(o)
    <3>1. chan' = [chan EXCEPT ![o].closed = TRUE] /\ chan \in [Objects -> Handler]
      BY <1>1, <1>4, <2>3 DEF DecodeEnd, CloseInput, Plain
    <3>2. chan'[o].closed
      BY <3>1 DEF Handler
    <3> QED
      BY <2>3, <3>2 DEF DecodeEnd
  <2> QED
    BY <2>1, <2>2, <2>3 DEF Decode
<1>6. \A d \in Objects \ {o} : Ends(d)'
  BY <1>1, <1>2, <1>3, EndsKept
<1>7. Ends(o)'
  BY <1>2, <1>5 DEF Ends
<1>8. ASSUME NEW r \in Requests PROVE Silent(r)' /\ Looping(r)'
  <2>1. Silent(r) /\ Looping(r) /\ Mine(r)' = Mine(r)
    BY <1>2 DEF ProgressInv, Mine
  <2>2. CASE Working(r)
    <3>1. Mine(r) \in Objects
      BY <1>1, <2>2, AtWork
    <3>2. /\ chan'[Mine(r)].closed => chan[Mine(r)].closed \/ video[Mine(r)].reopens
          /\ chan'[Mine(r)].total = chan[Mine(r)].total
      BY <1>3, <1>5, <3>1
    <3>3. /\ Batches(r, Mine(r))' = Batches(r, Mine(r))
          /\ Healthy("annotate", video[Mine(r)])' = Healthy("annotate", video[Mine(r)])
      BY <1>2, <2>1, <3>2 DEF Batches, Healthy, Decodable
    <3> QED
      BY <1>2, <2>1, <3>2, <3>3, SilentKept DEF Looping
  <2>3. CASE ~Working(r)
    BY <1>2, <2>3 DEF Working, Silent, Looping
  <2> QED
    BY <2>2, <2>3
<1> QED
  BY <1>6, <1>7, <1>8

LEMMA InitProgress == Init => ProgressInv
<1> SUFFICES ASSUME Init PROVE ProgressInv
  OBVIOUS
<1>1. \A o \in Objects : Ends(o)
  BY DEF Init, Ends
<1>2. \A r \in Requests : Silent(r) /\ Looping(r)
  BY DEF Init, Silent, Looping
<1> QED
  BY <1>1, <1>2, InitAnswer DEF ProgressInv

LEMMA StepProgress == ~Overlap /\ ProgressInv /\ [Next]_vars => ProgressInv'
<1> SUFFICES ASSUME ~Overlap, ProgressInv, [Next]_vars PROVE ProgressInv'
  OBVIOUS
<1>1. AnswerInv'
  BY StepAnswer DEF ProgressInv
<1>2. ASSUME NEW r \in Requests, Rpc(r) PROVE ProgressInv'
  <2>1. Going(r)' /\ \A q \in Requests \ {r} : Silent(q)' /\ Looping(q)'
    BY <1>2, RpcGoes, GoingFrame
  <2> QED
    BY <1>1, <2>1 DEF ProgressInv, Going
<1>3. ASSUME NEW o \in Objects, Decode(o) PROVE ProgressInv'
  BY <1>1, <1>3, DecodeGoes DEF ProgressInv
<1>4. CASE UNCHANGED vars
  <2>1. UNCHANGED <<kind, pc, cur, batch, left, resp, video, thread, chan>>
    BY <1>4 DEF vars, rpcVars, loopVars, decVars
  <2>2. \A o \in Objects : Ends(o)'
    BY <2>1, EndsKept DEF ProgressInv
  <2>3. ASSUME NEW r \in Requests PROVE Silent(r)' /\ Looping(r)'
    <3>1. Silent(r) /\ Looping(r) /\ Mine(r)' = Mine(r)
      BY <2>1 DEF ProgressInv, Mine
    <3> QED
      BY <2>1, <3>1 DEF Silent, Looping, Batches, Healthy, Decodable
  <2> QED
    BY <1>1, <2>2, <2>3 DEF ProgressInv
<1> QED
  BY <1>2, <1>3, <1>4, NextCases

THEOREM ProgressInvariant == ~Overlap => (Spec => []ProgressInv)
<1> SUFFICES ASSUME ~Overlap PROVE Spec => []ProgressInv
  OBVIOUS
<1>1. ProgressInv /\ [Next]_vars => ProgressInv'
  BY StepProgress
<1> QED
  BY <1>1, InitProgress, PTL DEF Spec

-----------------------------------------------------------------------------
\* A call comes back from Join only if its video yields what it announced and no more
\* than the channel can take after that; a summary may miss frames, but the video has to
\* open a second time (handler.cpp:27-67, decode.h:60-84).
THEOREM CoreJoins == ~Overlap => (Spec => []JoinMeansHealthy)
<1> SUFFICES ASSUME ~Overlap PROVE Spec => []JoinMeansHealthy
  OBVIOUS
<1>1. ProgressInv => JoinMeansHealthy
  BY DEF ProgressInv, JoinMeansHealthy, Ends
<1> QED
  BY <1>1, ProgressInvariant, PTL

\* A call that waits for a frame and one that waits for its decode thread can be served.
LEMMA GetServed ==
  ASSUME ProgressInv, NEW r \in Requests, pc[r] = "get", ~CanGo(r),
         video[Mine(r)].reopens \/ video[Mine(r)].meta = 0
  PROVE  CanDecode(Mine(r))
<1>1. AnswerInv /\ Counting /\ Silent(r) /\ pc[r] \in Running /\ Working(r)
  BY DEF ProgressInv, AnswerInv, CoreInv, Running, Working
<1>2. self[r] = Mine(r) /\ Mine(r) \in Objects
  BY <1>1, Placed DEF AnswerInv
<1>3. left[r] # 0 /\ chan[Mine(r)].queue = <<>> /\ ~chan[Mine(r)].closed
  BY <1>1, <1>2 DEF CanGo
<1>4. video[Mine(r)].reopens
  <2>1. CASE video[Mine(r)].meta = 0
    <3>1. /\ chan[Mine(r)].processed \in Nat /\ chan[Mine(r)].total = 0 /\ left[r] \in Nat
      BY <1>1, <2>1, AtWork, SizeAssumption DEF Handler
    <3> QED
      BY <1>1, <1>3, <3>1 DEF Counting
  <2> QED
    BY <2>1
<1>5. thread[Mine(r)] = "decoding" /\ target[Mine(r)] = Mine(r)
  <2>1. Ends(Mine(r)) /\ thread[Mine(r)] \in {"decoding", "ended"}
    BY <1>1, <1>2, Feeding DEF ProgressInv
  <2> QED
    BY <1>1, <1>3, <1>4, <2>1, Feeding DEF Ends
<1> QED
  BY <1>3, <1>5, SizeAssumption DEF CanDecode

LEMMA JoinServed ==
  ASSUME ProgressInv, NEW r \in Requests, pc[r] = "join", ~CanGo(r),
         Decodable(video[Mine(r)]) <= video[Mine(r)].meta + Capacity
  PROVE  CanDecode(Mine(r))
<1> DEFINE o == Mine(r)
<1>1. AnswerInv /\ Answered(r) /\ pc[r] \in Running /\ Working(r)
  BY DEF ProgressInv, AnswerInv, Running, Working
<1>2. thread[o] = "decoding" /\ decoder = o /\ target[o] = o
  BY <1>1, Feeding DEF CanGo
<1>3. chan[o].processed = video[o].meta
  BY <1>1, <1>2, AtWork DEF Answered, Complete, Drained
<1>4. /\ chan[o].processed \in Nat /\ Len(chan[o].queue) \in Nat /\ video[o].frames \in Nat
      /\ chan[o].processed + Len(chan[o].queue) = sent[o] /\ Capacity \in Nat
  BY <1>1, AtWork, Feeding, SizeAssumption DEF Handler, Video
<1>5. ASSUME video[o].reopens, sent[o] < video[o].frames
      PROVE  Len(chan[o].queue) < Capacity
  <2>1. video[o].frames <= video[o].meta + Capacity
    BY <1>5 DEF Decodable
  <2> QED
    BY <1>3, <1>4, <1>5, <2>1
<1> QED
  BY <1>2, <1>5 DEF CanDecode

\* A call that works on a video and its decode thread never wait for each other, unless
\* the video does not open again or has more frames left than the channel holds
\* (channel.h:22-30, 57-64, decode.h:79).
THEOREM CoreNeverStuck == ~Overlap => (Spec => []NeverStuck)
<1> SUFFICES ASSUME ~Overlap PROVE Spec => []NeverStuck
  OBVIOUS
<1>1. ProgressInv => NeverStuck
  BY GetServed, JoinServed DEF NeverStuck, CanGo
<1> QED
  BY <1>1, ProgressInvariant, PTL

-----------------------------------------------------------------------------
\* The order of the work left.

WorkOrder == {ww \in Works \X Works : Less(ww[1], ww[2])}

\* There is no infinite sequence of work, each less than the one before.
THEOREM NoEndlessWork == IsWellFoundedOn(WorkOrder, Works)
<1>1. IsWellFoundedOn({nn \in Nat \X Nat : nn[1] < nn[2]}, Nat)
  BY NatLessThanWellFounded DEF OpToRel
<1>2. WorkOrder = LexProductOrdering({nn \in Nat \X Nat : nn[1] < nn[2]}, Nat, 5)
  BY DEF WorkOrder, LexProductOrdering, Less, Works
<1>3. 5 \in Nat
  OBVIOUS
<1> QED
  BY <1>1, <1>2, <1>3, WFLexProductOrdering DEF Works

LexLess(a1, a2, a3, a4, a5, b1, b2, b3, b4, b5) ==
  \/ a1 < b1
  \/ /\ a1 = b1
     /\ \/ a2 < b2
        \/ /\ a2 = b2
           /\ \/ a3 < b3
              \/ /\ a3 = b3
                 /\ a4 < b4 \/ (a4 = b4 /\ a5 < b5)

LEMMA Lexicographic ==
  ASSUME NEW a1 \in Nat, NEW a2 \in Nat, NEW a3 \in Nat, NEW a4 \in Nat, NEW a5 \in Nat,
         NEW b1 \in Nat, NEW b2 \in Nat, NEW b3 \in Nat, NEW b4 \in Nat, NEW b5 \in Nat,
         LexLess(a1, a2, a3, a4, a5, b1, b2, b3, b4, b5)
  PROVE  Less(<<a1, a2, a3, a4, a5>>, <<b1, b2, b3, b4, b5>>)
<1> DEFINE a == <<a1, a2, a3, a4, a5>>
           b == <<b1, b2, b3, b4, b5>>
<1>1. a \in Works /\ b \in Works
  BY DEF Works
<1>2. \E i \in 1..5 : a[i] < b[i] /\ \A j \in 1..(i - 1) : a[j] = b[j]
  <2>1. CASE a1 < b1
    <3>1. a[1] < b[1] /\ \A j \in 1..(1 - 1) : a[j] = b[j]
      BY <2>1
    <3> QED
      BY <3>1
  <2>2. CASE a1 = b1 /\ a2 < b2
    <3>1. a[2] < b[2] /\ \A j \in 1..(2 - 1) : a[j] = b[j]
      BY <2>2
    <3> QED
      BY <3>1
  <2>3. CASE a1 = b1 /\ a2 = b2 /\ a3 < b3
    <3>1. a[3] < b[3] /\ \A j \in 1..(3 - 1) : a[j] = b[j]
      BY <2>3
    <3> QED
      BY <3>1
  <2>4. CASE a1 = b1 /\ a2 = b2 /\ a3 = b3 /\ a4 < b4
    <3>1. a[4] < b[4] /\ \A j \in 1..(4 - 1) : a[j] = b[j]
      BY <2>4
    <3> QED
      BY <3>1
  <2>5. CASE a1 = b1 /\ a2 = b2 /\ a3 = b3 /\ a4 = b4 /\ a5 < b5
    <3>1. a[5] < b[5] /\ \A j \in 1..(5 - 1) : a[j] = b[j]
      BY <2>5
    <3> QED
      BY <3>1
  <2> QED
    BY <2>1, <2>2, <2>3, <2>4, <2>5 DEF LexLess
<1> QED
  BY <1>1, <1>2 DEF Less

\* The five numbers of Work.
ToDecode(r) == ThreadLeft[thread[Mine(r)]] + (video[Mine(r)].frames - sent[Mine(r)])
ToTake(r) == FramesToTake(r) + (IF resp[r] = <<>> THEN 0 ELSE 1)
ToGo(r) == PlacesLeft[pc[r]]
BatchesToGo(r) == IF pc[r] = "get" THEN Batches(r, Mine(r)) - batch[r] ELSE 0
InBatch(r) == IF pc[r] = "get" THEN left[r] ELSE 0

Parts(r) == /\ ToDecode(r) \in Nat /\ ToTake(r) \in Nat /\ ToGo(r) \in Nat
            /\ BatchesToGo(r) \in Nat /\ InBatch(r) \in Nat

AllParts == \A r \in Requests : Working(r) => Parts(r)

LEMMA WorkParts == ProgressInv => AllParts
<1> SUFFICES ASSUME ProgressInv, NEW r \in Requests, Working(r) PROVE Parts(r)
  BY DEF AllParts
<1>1. /\ AnswerInv /\ video[Mine(r)] \in Video /\ sent[Mine(r)] \in Nat
      /\ sent[Mine(r)] <= Decodable(video[Mine(r)])
      /\ thread[Mine(r)] \in {"none", "decoding", "ended", "joined"}
      /\ chan[Mine(r)] \in Handler /\ chan[Mine(r)].processed <= chan[Mine(r)].total
      /\ pc[r] # "setup" => chan[Mine(r)].total = video[Mine(r)].meta
      /\ left[r] \in 0..BatchSize /\ batch[r] \in Nat
  BY AtWork DEF ProgressInv
<1>2. ToDecode(r) \in Nat
  <2>1. video[Mine(r)].frames \in Nat /\ sent[Mine(r)] <= video[Mine(r)].frames
    BY <1>1 DEF Decodable, Video
  <2>2. ThreadLeft[thread[Mine(r)]] \in Nat
    BY <1>1 DEF ThreadLeft
  <2> QED
    BY <1>1, <2>1, <2>2 DEF ToDecode
<1>3. ToTake(r) \in Nat
  <2>1. video[Mine(r)].meta \in Nat /\ chan[Mine(r)].processed \in Nat
    BY <1>1 DEF Handler, Video
  <2>2. FramesToTake(r) \in Nat
    BY <1>1, <2>1 DEF FramesToTake
  <2> QED
    BY <2>2 DEF ToTake
<1>4. ToGo(r) \in Nat
  BY DEF ToGo, PlacesLeft, Working
<1>5. BatchesToGo(r) \in Nat
  <2>1. pc[r] = "get" => batch[r] < Batches(r, Mine(r))
    BY DEF ProgressInv, Looping
  <2> QED
    BY <1>1, <2>1, BatchesCounted DEF BatchesToGo
<1>6. InBatch(r) \in Nat
  BY <1>1, SizeAssumption DEF InBatch
<1> QED
  BY <1>2, <1>3, <1>4, <1>5, <1>6 DEF Parts

\* What a step has to do to leave less work.
Shrinks(r) ==
  \/ ToDecode(r)' < ToDecode(r)
  \/ /\ ToDecode(r)' = ToDecode(r)
     /\ \/ ToTake(r)' < ToTake(r)
        \/ /\ ToTake(r)' = ToTake(r)
           /\ \/ ToGo(r)' < ToGo(r)
              \/ /\ ToGo(r)' = ToGo(r)
                 /\ \/ BatchesToGo(r)' < BatchesToGo(r)
                    \/ BatchesToGo(r)' = BatchesToGo(r) /\ InBatch(r)' < InBatch(r)

LEMMA WorkLess ==
  ASSUME ProgressInv, ProgressInv', NEW r \in Requests, Working(r), Working(r)',
         Shrinks(r)
  PROVE  Less(Work(r)', Work(r))
<1>1. Parts(r)
  BY WorkParts DEF AllParts
<1>2. Parts(r)'
  <2>1. ProgressInv' => AllParts'
    BY WorkParts, PTL
  <2> QED
    BY <2>1 DEF AllParts
<1> DEFINE a1 == ToDecode(r)'
           a2 == ToTake(r)'
           a3 == ToGo(r)'
           a4 == BatchesToGo(r)'
           a5 == InBatch(r)'
           b1 == ToDecode(r)
           b2 == ToTake(r)
           b3 == ToGo(r)
           b4 == BatchesToGo(r)
           b5 == InBatch(r)
<1>3. Work(r) = <<b1, b2, b3, b4, b5>> /\ Work(r)' = <<a1, a2, a3, a4, a5>>
  BY DEF Work, ToDecode, ToTake, ToGo, BatchesToGo, InBatch
<1>4. /\ a1 \in Nat /\ a2 \in Nat /\ a3 \in Nat /\ a4 \in Nat /\ a5 \in Nat
      /\ b1 \in Nat /\ b2 \in Nat /\ b3 \in Nat /\ b4 \in Nat /\ b5 \in Nat
  BY <1>1, <1>2 DEF Parts
<1>5. LexLess(a1, a2, a3, a4, a5, b1, b2, b3, b4, b5)
  BY DEF LexLess, Shrinks
<1> HIDE DEF a1, a2, a3, a4, a5, b1, b2, b3, b4, b5
<1>6. Less(<<a1, a2, a3, a4, a5>>, <<b1, b2, b3, b4, b5>>)
  BY <1>4, <1>5, Lexicographic
<1> QED
  BY <1>3, <1>6

-----------------------------------------------------------------------------
\* Each step leaves less work.

LEMMA DecodingKept ==
  ASSUME NEW r, UNCHANGED <<cur, video, sent>>, thread'[Mine(r)] = thread[Mine(r)]
  PROVE  ToDecode(r)' = ToDecode(r)
  BY DEF ToDecode, Mine

\* Nothing is taken, and no response grows.
LEMMA TakingKept ==
  ASSUME NEW r, UNCHANGED <<cur, video>>, pc[r] # "setup", pc'[r] # "setup",
         chan'[Mine(r)].processed = chan[Mine(r)].processed, FramesToTake(r) \in Nat,
         resp'[r] = resp[r] \/ resp'[r] = <<>>
  PROVE  ToTake(r)' = ToTake(r) \/ ToTake(r)' < ToTake(r)
<1>1. FramesToTake(r)' = FramesToTake(r)
  BY DEF FramesToTake, Mine
<1> QED
  BY <1>1 DEF ToTake

LEMMA TakeTyped ==
  ASSUME ProgressInv, NEW r \in Requests, Working(r)
  PROVE  FramesToTake(r) \in Nat
<1>1. /\ video[Mine(r)] \in Video /\ chan[Mine(r)] \in Handler
      /\ chan[Mine(r)].processed <= chan[Mine(r)].total
      /\ pc[r] # "setup" => chan[Mine(r)].total = video[Mine(r)].meta
  BY AtWork DEF ProgressInv
<1>2. video[Mine(r)].meta \in Nat /\ chan[Mine(r)].processed \in Nat
  BY <1>1 DEF Handler, Video
<1> QED
  BY <1>1, <1>2 DEF FramesToTake

\* The steps that only go on to the next place.
LEMMA OnwardShrinks ==
  ASSUME ProgressInv, NEW r \in Requests, Working(r), Working(r)',
         \/ OutputDone(r) \/ OutputStart(r) \/ CloseChannel(r) \/ SendSummary(r) \/ Join(r)
         \/ Release(r)
  PROVE  Shrinks(r)
<1>1. Plain /\ AnswerInv
  BY DEF ProgressInv, AnswerInv, CoreInv
<1>2. /\ \/ pc[r] = "output" /\ pc'[r] \in {"close", "get", "full"}
         \/ pc[r] = "close" /\ pc'[r] = "join"
         \/ pc[r] = "full" /\ pc'[r] = "send"
         \/ pc[r] = "send" /\ pc'[r] = "join"
         \/ pc[r] = "join" /\ pc'[r] \in {"abort", "release"}
      /\ UNCHANGED <<cur, video, sent>>
      /\ resp'[r] = resp[r] \/ resp'[r] = <<>>
  BY <1>1 DEF OutputDone, OutputStart, EnterBatch, CloseChannel, SendSummary, Join, Release,
     Goto, Finish, Plain, Working, AnswerInv, Texts, loopVars, decVars
<1>3. ToDecode(r)' = ToDecode(r)
  <2>1. CASE Join(r)
    <3>1. pc[r] \in Running /\ pc[r] = "join"
      BY <2>1 DEF Join, Running
    <3>2. decoder = Mine(r) /\ Mine(r) \in Objects /\ thread[Mine(r)] = "ended"
      BY <1>1, <2>1, <3>1, Feeding, Placed DEF Join, AnswerInv
    <3>3. thread'[Mine(r)] = "joined" /\ Mine(r)' = Mine(r)
      BY <1>1, <1>2, <2>1, <3>2 DEF Join, Plain, Mine
    <3> QED
      BY <1>2, <3>2, <3>3 DEF ToDecode, ThreadLeft
  <2>2. CASE ~Join(r)
    <3>1. UNCHANGED thread
      BY <2>2 DEF OutputDone, OutputStart, CloseChannel, SendSummary, Release, decVars
    <3> QED
      BY <1>2, <3>1, DecodingKept
  <2> QED
    BY <2>1, <2>2
<1>4. ToTake(r)' = ToTake(r) \/ ToTake(r)' < ToTake(r)
  <2>1. chan'[Mine(r)].processed = chan[Mine(r)].processed
    <3>1. CASE CloseChannel(r)
      <4>1. pc[r] \in Running
        BY <3>1 DEF CloseChannel, Running
      <4>2. handler = Mine(r) /\ Mine(r) \in Objects
        BY <1>1, <4>1, Placed DEF AnswerInv
      <4> QED
        BY <1>1, <3>1, <4>2, Closed DEF CloseChannel, CloseInput
    <3>2. CASE ~CloseChannel(r)
      BY <3>2 DEF OutputDone, OutputStart, SendSummary, Join, Release
    <3> QED
      BY <3>1, <3>2
  <2> QED
    BY <1>2, <2>1, TakingKept, TakeTyped
<1>5. ToGo(r)' < ToGo(r)
  BY <1>2 DEF ToGo, PlacesLeft
<1> QED
  BY <1>3, <1>4, <1>5 DEF Shrinks

LEMMA SetupShrinks ==
  ASSUME ProgressInv, NEW r \in Requests, Setup(r)
  PROVE  Shrinks(r)
<1>1. /\ Plain /\ pc[r] = "setup" /\ Mine(r) \in Objects
      /\ UNCHANGED <<cur, video, sent, thread, resp>>
  BY Placed DEF ProgressInv, AnswerInv, CoreInv, Setup, Before, loopVars, decVars
<1>2. /\ pc'[r] = "run" /\ Mine(r)' = Mine(r)
      /\ \E t : chan' = [chan EXCEPT ![Mine(r)] = [NoHandler EXCEPT !.total = t]]
  BY <1>1 DEF Setup, Goto, Plain, Mine
<1>3. chan'[Mine(r)].processed = 0
  BY <1>1, <1>2 DEF Plain, NoHandler
<1>4. ToDecode(r)' = ToDecode(r) /\ ToTake(r)' = ToTake(r)
  BY <1>1, <1>2, <1>3, DecodingKept DEF ToTake, FramesToTake
<1>5. ToGo(r)' < ToGo(r)
  BY <1>1, <1>2 DEF ToGo, PlacesLeft
<1> QED
  BY <1>4, <1>5 DEF Shrinks

LEMMA RunShrinks ==
  ASSUME ProgressInv, NEW r \in Requests, Run(r)
  PROVE  Shrinks(r)
<1>1. /\ Plain /\ pc[r] = "run" /\ decoder = Mine(r) /\ Mine(r) \in Objects
      /\ thread[Mine(r)] = "none" /\ UNCHANGED <<cur, video, sent>>
  BY Placed DEF ProgressInv, AnswerInv, CoreInv, Run, Before
<1>2. Mine(r)' = Mine(r) /\ thread'[Mine(r)] = "decoding"
  BY <1>1 DEF Run, Plain, Mine
<1>3. ToDecode(r) \in Nat
  BY <1>1, WorkParts DEF AllParts, Parts, Working
<1>4. video[Mine(r)].frames \in Nat /\ sent[Mine(r)] \in Nat
  BY <1>1, AtWork DEF ProgressInv, Working, Video
<1> QED
  BY <1>1, <1>2, <1>3, <1>4 DEF Shrinks, ToDecode, ThreadLeft

\* A frame taken is one less to take; the first one of a response is one less of its batch.
LEMMA GetFrameShrinks ==
  ASSUME ProgressInv, NEW r \in Requests, GetFrame(r)
  PROVE  Shrinks(r)
<1>1. /\ Plain /\ AnswerInv /\ pc[r] = "get" /\ Working(r) /\ pc[r] \in Running
      /\ UNCHANGED <<kind, pc, cur, video, thread, sent, batch>> /\ left[r] > 0
  BY DEF ProgressInv, AnswerInv, CoreInv, GetFrame, Working, Running, rpcVars, decVars
<1>2. self[r] = Mine(r) /\ Mine(r) \in Objects /\ Mine(r)' = Mine(r)
  BY <1>1, Placed DEF AnswerInv, Mine
<1>3. /\ chan'[Mine(r)].processed = chan[Mine(r)].processed + 1
      /\ chan'[Mine(r)].total = chan[Mine(r)].total
  BY <1>1, <1>2, Taken DEF GetFrame
<1>4. resp'[r] # <<>>
  <2>1. resp'[r] = Append(resp[r], Head(chan[Mine(r)].queue)) /\ resp[r] \in Seq(Frames)
    BY <1>1, <1>2, AtWork DEF GetFrame, AnswerInv, Texts
  <2> QED
    BY <2>1
<1>5. ToTake(r)' = FramesToTake(r) /\ FramesToTake(r) \in Nat
  <2>1. video[Mine(r)].meta \in Nat /\ chan[Mine(r)].processed \in Nat
    BY <1>1, AtWork DEF Handler, Video
  <2>2. FramesToTake(r)' = FramesToTake(r) - 1
    BY <1>1, <1>2, <1>3, <2>1 DEF FramesToTake
  <2>3. FramesToTake(r) \in Nat
    BY <1>1, TakeTyped
  <2> QED
    BY <1>4, <2>2, <2>3 DEF ToTake
<1>6. ToDecode(r)' = ToDecode(r) /\ ToGo(r)' = ToGo(r)
  BY <1>1, DecodingKept DEF ToGo
<1>7. BatchesToGo(r)' = BatchesToGo(r)
  BY <1>1, <1>2, <1>3 DEF BatchesToGo, Batches
<1>8. InBatch(r)' < InBatch(r)
  <2>1. left'[r] = left[r] - 1 /\ left[r] \in Nat
    BY <1>1, AtWork, SizeAssumption DEF GetFrame, Plain
  <2> QED
    BY <1>1, <2>1 DEF InBatch
<1>9. CASE resp[r] = <<>>
  BY <1>5, <1>6, <1>7, <1>8, <1>9 DEF Shrinks, ToTake
<1>10. CASE resp[r] # <<>>
  BY <1>5, <1>6, <1>10 DEF Shrinks, ToTake
<1> QED
  BY <1>9, <1>10

LEMMA GetEndShrinks ==
  ASSUME ProgressInv, NEW r \in Requests, GetEnd(r)
  PROVE  Shrinks(r)
<1>1. /\ Plain /\ AnswerInv /\ pc[r] = "get" /\ Working(r) /\ left[r] > 0
      /\ UNCHANGED <<kind, pc, cur, video, thread, sent, chan, batch, resp>>
  BY DEF ProgressInv, AnswerInv, CoreInv, GetEnd, Working, rpcVars, decVars
<1>2. Mine(r)' = Mine(r)
  BY <1>1 DEF Mine
<1>3. ToDecode(r)' = ToDecode(r) /\ ToGo(r)' = ToGo(r)
  BY <1>1, DecodingKept DEF ToGo
<1>4. ToTake(r)' = ToTake(r) /\ BatchesToGo(r)' = BatchesToGo(r)
  BY <1>1, <1>2 DEF ToTake, FramesToTake, BatchesToGo, Batches
<1>5. InBatch(r)' < InBatch(r)
  <2>1. left'[r] = left[r] - 1 /\ left[r] \in Nat
    BY <1>1, AtWork, SizeAssumption DEF GetEnd, Plain
  <2> QED
    BY <1>1, <2>1 DEF InBatch
<1> QED
  BY <1>3, <1>4, <1>5 DEF Shrinks

LEMMA ForwardShrinks ==
  ASSUME ProgressInv, NEW r \in Requests, Forward(r)
  PROVE  Shrinks(r)
<1>1. /\ Plain /\ AnswerInv /\ pc[r] = "get" /\ Working(r)
      /\ UNCHANGED <<kind, cur, resp, video, thread, sent, chan>>
  BY DEF ProgressInv, AnswerInv, CoreInv, Forward, Working, decVars
<1>2. /\ self[r] = Mine(r) /\ Mine(r)' = Mine(r) /\ EnterBatch(r, Mine(r), batch[r] + 1)
      /\ batch[r] \in Nat
  BY <1>1, Placed DEF Forward, AnswerInv, Plain, Mine, Running
<1>3. \/ pc'[r] = "full"
      \/ pc'[r] = "get" /\ batch'[r] = batch[r] + 1
  BY <1>1, <1>2, BatchOf
<1>4. ToDecode(r)' = ToDecode(r)
  BY <1>1, DecodingKept
<1>5. ToTake(r)' = ToTake(r)
  BY <1>1, <1>2, <1>3 DEF ToTake, FramesToTake
<1>6. CASE pc'[r] = "full"
  <2>1. ToGo(r)' < ToGo(r)
    BY <1>1, <1>6 DEF ToGo, PlacesLeft
  <2> QED
    BY <1>4, <1>5, <2>1 DEF Shrinks
<1>7. CASE pc'[r] = "get" /\ batch'[r] = batch[r] + 1
  <2>1. ToGo(r)' = ToGo(r)
    BY <1>1, <1>7 DEF ToGo
  <2>2. Batches(r, Mine(r)) \in Nat /\ Batches(r, Mine(r))' = Batches(r, Mine(r))
    BY <1>1, <1>2, BatchesCounted DEF Batches
  <2>3. BatchesToGo(r)' < BatchesToGo(r)
    BY <1>1, <1>2, <1>7, <2>2 DEF BatchesToGo
  <2> QED
    BY <1>4, <1>5, <2>1, <2>3 DEF Shrinks
<1> QED
  BY <1>3, <1>6, <1>7

\* A response of AnnotateVideo has frames, when the video is healthy: they are taken.
LEMMA WriteShrinks ==
  ASSUME ProgressInv, NEW r \in Requests, WriteResponse(r),
         Healthy(kind[r], video[Mine(r)])
  PROVE  Shrinks(r)
<1>1. /\ Plain /\ AnswerInv /\ pc[r] = "full" /\ Working(r) /\ kind[r] = "annotate"
      /\ UNCHANGED <<kind, cur, video, thread, sent, chan>> /\ Looping(r)
  BY DEF ProgressInv, AnswerInv, CoreInv, WriteResponse, Working, decVars
<1>2. resp[r] # <<>>
  BY <1>1 DEF Looping
<1>3. pc'[r] = "output" /\ resp'[r] = <<>> /\ Mine(r)' = Mine(r)
  BY <1>1 DEF WriteResponse, Goto, Plain, Mine, AnswerInv, Texts
<1>4. ToDecode(r)' = ToDecode(r)
  BY <1>1, DecodingKept
<1>5. FramesToTake(r)' = FramesToTake(r)
  BY <1>1, <1>3 DEF FramesToTake
<1>6. FramesToTake(r) \in Nat
  BY <1>1, TakeTyped
<1>7. ToTake(r)' < ToTake(r)
  BY <1>2, <1>3, <1>5, <1>6 DEF ToTake
<1> QED
  BY <1>4, <1>7 DEF Shrinks

\* The decode thread has less to do after each of its steps.
LEMMA DecodeShrinks ==
  ASSUME ProgressInv, NEW r \in Requests, Working(r), Decode(Mine(r))
  PROVE  Shrinks(r)
<1> DEFINE o == Mine(r)
<1>1. /\ AnswerInv /\ Plain /\ Noted(o) /\ o \in Objects /\ video[o] \in Video
      /\ sent[o] \in Nat
  <2>1. AnswerInv /\ o \in Objects /\ video[o] \in Video /\ sent[o] \in Nat
    BY AtWork DEF ProgressInv
  <2> QED
    BY <2>1 DEF AnswerInv, CoreInv
<1>2. Mine(r)' = Mine(r) /\ UNCHANGED video /\ thread[o] = "decoding"
  <2>1. UNCHANGED <<rpcVars, video>> /\ thread[o] = "decoding"
    BY <1>1, DecodeFrameOf
  <2> QED
    BY <2>1 DEF rpcVars, Mine
<1>3. video[o].frames \in Nat
  BY <1>1 DEF Video
<1>4. CASE DecodeFrame(o)
  <2>1. sent'[o] = sent[o] + 1 /\ UNCHANGED thread
    BY <1>1, <1>4 DEF DecodeFrame, Plain
  <2> QED
    BY <1>1, <1>2, <1>3, <2>1 DEF Shrinks, ToDecode, ThreadLeft
<1>5. CASE DecodeOpenFails(o) \/ DecodeEnd(o)
  <2>1. thread'[o] = "ended" /\ UNCHANGED sent
    BY <1>1, <1>5 DEF DecodeOpenFails, DecodeEnd, Plain
  <2> QED
    BY <1>1, <1>2, <1>3, <2>1 DEF Shrinks, ToDecode, ThreadLeft
<1> QED
  BY <1>4, <1>5 DEF Decode

\* All steps of a call at work.
LEMMA RpcShrinks ==
  ASSUME ProgressInv, NEW r \in Requests, Working(r), Working(r)', RpcStep(r),
         Healthy(kind[r], video[Mine(r)])
  PROVE  Shrinks(r)
<1>1. ~ (\/ ReadEmptyAddress(r) \/ ReadVideo(r) \/ EndOfStream(r) \/ Open(r) \/ Claim(r))
  BY DEF Working, ReadEmptyAddress, ReadVideo, EndOfStream, Open, Claim
<1>2. ~SendFails(r)
  <2>1. Plain
    BY DEF ProgressInv, AnswerInv, CoreInv
  <2> QED
    BY <2>1 DEF SendFails, Finish, Goto, Working, Plain
<1> QED
  BY <1>1, <1>2, OnwardShrinks, SetupShrinks, RunShrinks, GetFrameShrinks, GetEndShrinks,
     ForwardShrinks, WriteShrinks DEF RpcStep

\* Nobody else adds to the work.
LEMMA OthersSame ==
  ASSUME ProgressInv, [Next]_vars, NEW r \in Requests, Working(r),
         ~RpcStep(r), ~Decode(Mine(r))
  PROVE  Work(r)' = Work(r)
<1>1. AnswerInv /\ Plain /\ Mine(r) \in Objects
  BY AtWork DEF ProgressInv, AnswerInv, CoreInv
<1> DEFINE Unmoved == /\ kind'[r] = kind[r] /\ pc'[r] = pc[r] /\ Mine(r)' = Mine(r)
                      /\ resp'[r] = resp[r] /\ batch'[r] = batch[r] /\ left'[r] = left[r]
                      /\ thread'[Mine(r)] = thread[Mine(r)] /\ sent'[Mine(r)] = sent[Mine(r)]
                      /\ UNCHANGED video /\ chan'[Mine(r)] = chan[Mine(r)]
<1>2. ASSUME NEW q \in Requests, Rpc(q) PROVE Unmoved
  <2>1. q # r
    BY <1>2 DEF Rpc, Arrive, Working
  <2> QED
    BY <1>1, <1>2, <2>1, OthersArrive DEF loopVars, decVars
<1>3. ASSUME NEW o \in Objects, Decode(o) PROVE Unmoved
  <2>1. o # Mine(r) /\ CoreInv /\ Fed(o) /\ Noted(o)
    BY <1>1, <1>3 DEF AnswerInv, CoreInv
  <2>2. UNCHANGED <<rpcVars, loopVars, video>> /\ thread'[Mine(r)] = thread[Mine(r)]
    BY <1>1, <1>3, <2>1, DecodeFrameOf
  <2>3. chan'[Mine(r)] = chan[Mine(r)] /\ sent'[Mine(r)] = sent[Mine(r)]
    BY <1>1, <1>3, <2>1, DecodeFed
  <2> QED
    BY <2>2, <2>3 DEF rpcVars, loopVars, Mine
<1>4. ASSUME UNCHANGED vars PROVE Unmoved
  <2>1. UNCHANGED <<kind, pc, cur, resp, batch, left, video, thread, sent, chan>>
    BY <1>4 DEF vars, rpcVars, loopVars, decVars
  <2> QED
    BY <2>1 DEF Mine
<1>5. Unmoved
  <2> HIDE DEF Unmoved
  <2> QED
    BY <1>2, <1>3, <1>4, NextCases
<1> QED
  BY <1>5 DEF Work, FramesToTake, Batches

\* No loop of a call on a healthy video turns for nothing: each step of the call or of its
\* decode thread leaves less work, and nobody else adds to it (main.cpp:100-102,
\* handler.cpp:27-67, decode.h:60-84).
THEOREM CoreProgresses == ~Overlap => (Spec => HealthyProgresses)
<1> DEFINE Advances ==
      \A r \in Requests :
        /\ Working(r) /\ Working(r)'
        /\ Healthy(kind[r], video[Mine(r)])
        => IF RpcStep(r) \/ Decode(Mine(r)) THEN Less(Work(r)', Work(r))
           ELSE Work(r)' = Work(r)
<1> SUFFICES ASSUME ~Overlap PROVE Spec => HealthyProgresses
  OBVIOUS
<1>1. ProgressInv /\ ProgressInv' /\ [Next]_vars => Advances
  <2> SUFFICES ASSUME ProgressInv, ProgressInv', [Next]_vars, NEW r \in Requests,
                      Working(r), Working(r)', Healthy(kind[r], video[Mine(r)])
               PROVE  IF RpcStep(r) \/ Decode(Mine(r)) THEN Less(Work(r)', Work(r))
                      ELSE Work(r)' = Work(r)
    OBVIOUS
  <2>1. RpcStep(r) \/ Decode(Mine(r)) => Shrinks(r)
    BY RpcShrinks, DecodeShrinks
  <2>2. Shrinks(r) => Less(Work(r)', Work(r))
    BY WorkLess
  <2>3. ~RpcStep(r) /\ ~Decode(Mine(r)) => Work(r)' = Work(r)
    BY OthersSame
  <2> QED
    BY <2>1, <2>2, <2>3
<1>2. ProgressInv /\ ProgressInv' /\ [Next]_vars => [Advances]_vars
  BY <1>1
<1> QED
  BY <1>2, ProgressInvariant, PTL DEF HealthyProgresses, Spec
=============================================================================
