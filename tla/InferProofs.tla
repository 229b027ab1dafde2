----------------------------- MODULE InferProofs -----------------------------
(***************************************************************************)
(* Proofs about InferCore, for any calls, videos, capacity and batch sizes,*)
(* while no call arrives between another's test of the availability flag   *)
(* and its setting it (Overlap = FALSE; the run core_overlap shows what    *)
(* happens otherwise).  The argument: then at most one call is past the    *)
(* test (Alone), so decoder_ and handler_ are those it made (Own), and     *)
(* every decode thread is joined before they are replaced, unless a client *)
(* has gone away (Joined).                                                 *)
(***************************************************************************)
EXTENDS InferCore, TLAPS

Places == {"idle", "read", "opening", "claim", "setup", "run", "output", "get", "full",
           "close", "send", "join", "release", "abort", "done"}

Frames == Objects \X Nat
Handler == [queue : Seq(Frames), closed : BOOLEAN, total : Nat, processed : Nat]

-----------------------------------------------------------------------------
\* Parts of the invariant.

Plain ==
  /\ available \in BOOLEAN /\ ub \in BOOLEAN
  /\ decoder \in Objects \cup {Null} /\ handler \in Objects \cup {Null}
  /\ kind \in [Requests -> Kinds \cup {"none"}] /\ pc \in [Requests -> Places]
  /\ cur \in [Requests -> 0..MaxVideos] /\ status \in [Requests -> Statuses]
  /\ self \in [Requests -> Objects \cup {Null}]
  /\ batch \in [Requests -> Nat] /\ left \in [Requests -> 0..BatchSize]
  /\ video \in [Objects -> Video \cup {Null}]
  /\ thread \in [Objects -> {"none", "decoding", "ended", "joined"}]
  /\ target \in [Objects -> Objects \cup {Null}]
  /\ sent \in [Objects -> Nat] /\ aborted \in [Objects -> BOOLEAN]
  /\ chan \in [Objects -> Handler]

\* A call that has passed the test of the flag and not come back.
Active(r) == pc[r] \notin {"idle", "done"}

Alone == \A r, q \in Requests : Active(r) /\ Active(q) => r = q

\* The flag is up while a call is between its test and its setting it, and when nobody is
\* there.
Flag == /\ available => \A r \in Requests : ~Busy(r)
        /\ \A r \in Requests : InWindow(r) => available
        /\ NoBadSummary /\ (\A r \in Requests : ~Active(r)) => available

\* The places of a call before it runs its decoder, and while its decode thread may run.
Before == {"opening", "claim", "setup", "run"}
Running == {"output", "get", "full", "close", "send", "join"}

\* Each place belongs to a kind of call; a video has been read before the others.
Flow(r) ==
  /\ pc[r] = "idle" => cur[r] = 0 /\ kind[r] = "none"
  /\ pc[r] # "idle" => kind[r] \in Kinds
  /\ pc[r] \in {"claim", "close", "release"} => kind[r] = "annotate"
  /\ pc[r] = "send" => kind[r] = "summary"
  /\ pc[r] \in Before \cup Running \cup {"release", "abort"} => cur[r] \in 1..MaxVideos
  /\ kind[r] = "annotate" /\ pc[r] = "read" => cur[r] = 0
  /\ pc[r] # "done" => status[r] = "none"
  /\ kind[r] = "annotate" /\ status[r] \in {"OK", "ABORTED"} => cur[r] \in 1..MaxVideos

\* decoder_ and handler_ are those the call made.
Own(r) ==
  /\ pc[r] \in Before \cup Running => decoder = Mine(r) /\ video[Mine(r)] \in Video
  /\ pc[r] \in {"run"} \cup Running => handler = Mine(r)
  /\ pc[r] = "get" => self[r] = Mine(r)

\* Decoders are run once, and a call that is to join finds its thread.
Unused(r) ==
  /\ \A k \in 1..MaxVideos :
       k > cur[r] \/ (k = cur[r] /\ pc[r] \in Before) => thread[<<r, k>>] = "none"
  /\ pc[r] \in Running => thread[Mine(r)] \in {"decoding", "ended"}

\* Every decode thread that runs will be joined by its call.
Joined ==
  NoClientGone =>
    /\ \A o \in Objects : thread[o] = "decoding" =>
         \E r \in Requests : o = Mine(r) /\ pc[r] \in Running
    /\ ~ub

Fails(o) == video[o].throws /\ video[o].reopens

\* A decode thread feeds the handler of its call, and notes an exception when it ends.
Noted(o) ==
  /\ thread[o] = "decoding" => target[o] = o /\ video[o] \in Video
  /\ thread[o] \in {"none", "decoding"} => ~aborted[o]
  /\ thread[o] \in {"ended", "joined"} => video[o] \in Video /\ (aborted[o] <=> Fails(o))

\* What a call is about to answer, and has answered.
Verdict(r) ==
  /\ pc[r] = "release" => ~Fails(Mine(r))
  /\ pc[r] = "abort" => Fails(Mine(r))
  /\ kind[r] = "annotate" /\ status[r] = "OK" => ~Fails(Mine(r))
  /\ kind[r] = "annotate" /\ status[r] = "ABORTED" => Fails(Mine(r))

\* No more frames than announced, and a batch takes what is missing at most.
Counting == /\ \A o \in Objects : /\ Len(chan[o].queue) <= Capacity
                                  /\ chan[o].processed <= chan[o].total
            /\ \A r \in Requests : pc[r] = "get" =>
                 chan[Mine(r)].processed + left[r] <= chan[Mine(r)].total

CoreInv == /\ Plain /\ Alone /\ Flag /\ Joined /\ Counting
           /\ \A r \in Requests : Flow(r) /\ Own(r) /\ Unused(r) /\ Verdict(r)
           /\ \A o \in Objects : Noted(o)

-----------------------------------------------------------------------------
\* What a call does, and what a decode thread does.
Rpc(r) == (\E k \in Kinds : Arrive(r, k)) \/ RpcStep(r)

LEMMA NextCases ==
  Next => (\E r \in Requests : Rpc(r)) \/ (\E o \in Objects : Decode(o))
  BY DEF Next, Rpc

LEMMA ObjectFacts ==
  /\ Null \notin Objects
  /\ \A r \in Requests : \A k \in 1..MaxVideos : <<r, k>> \in Objects
  /\ \A o \in Objects : \E r \in Requests : \E k \in 1..MaxVideos : o = <<r, k>>
  BY DEF Null, Objects

\* A call leaves the others where they are.
Same(q) == /\ kind'[q] = kind[q] /\ pc'[q] = pc[q] /\ cur'[q] = cur[q]
           /\ status'[q] = status[q] /\ self'[q] = self[q] /\ left'[q] = left[q]

\* Calls change what is shared, and nothing of each other.
LEMMA Frame ==
  ASSUME NEW r \in Requests, Rpc(r), Plain
  PROVE  \A q \in Requests \ {r} : Same(q)
<1>1. ASSUME NEW k \in Kinds, Arrive(r, k) PROVE \A q \in Requests \ {r} : Same(q)
  BY <1>1 DEF Arrive, Goto, Finish, Same, Plain, rpcVars, loopVars
<1>2. CASE ReadEmptyAddress(r)
  BY <1>2 DEF ReadEmptyAddress, Goto, Finish, Same, Plain, rpcVars, loopVars
<1>3. CASE ReadVideo(r)
  BY <1>3 DEF ReadVideo, Goto, Same, Plain, rpcVars, loopVars
<1>4. CASE EndOfStream(r)
  BY <1>4 DEF EndOfStream, Goto, Finish, Same, Plain, rpcVars, loopVars
<1>5. CASE Open(r)
  BY <1>5 DEF Open, Goto, Finish, Same, Plain, rpcVars, loopVars
<1>6. CASE Claim(r)
  BY <1>6 DEF Claim, Goto, Same, Plain, rpcVars, loopVars
<1>7. CASE Setup(r)
  BY <1>7 DEF Setup, Goto, Same, Plain, rpcVars, loopVars
<1>8. CASE Run(r)
  BY <1>8 DEF Run, Goto, Same, Plain, rpcVars, loopVars
<1>9. CASE OutputDone(r)
  BY <1>9 DEF OutputDone, Goto, Same, Plain, rpcVars, loopVars
<1>10. CASE OutputStart(r)
  BY <1>10 DEF OutputStart, EnterBatch, Goto, Same, Plain, rpcVars, loopVars
<1>11. CASE GetFrame(r)
  BY <1>11 DEF GetFrame, Same, Plain, rpcVars, loopVars
<1>12. CASE GetEnd(r)
  BY <1>12 DEF GetEnd, Same, Plain, rpcVars, loopVars
<1>13. CASE Forward(r)
  BY <1>13 DEF Forward, EnterBatch, Goto, Same, Plain, rpcVars, loopVars
<1>14. CASE WriteResponse(r)
  BY <1>14 DEF WriteResponse, Goto, Same, Plain, rpcVars, loopVars
<1>15. CASE CloseChannel(r)
  BY <1>15 DEF CloseChannel, Goto, CloseInput, Same, Plain, rpcVars, loopVars
<1>16. CASE SendSummary(r)
  BY <1>16 DEF SendSummary, Goto, Same, Plain, rpcVars, loopVars
<1>17. CASE SendFails(r)
  BY <1>17 DEF SendFails, Goto, Finish, Same, Plain, rpcVars, loopVars
<1>18. CASE Join(r)
  BY <1>18 DEF Join, Goto, Same, Plain, rpcVars, loopVars
<1>19. CASE Release(r)
  BY <1>19 DEF Release, Goto, Finish, Same, Plain, rpcVars, loopVars
<1> QED
  BY <1>1, <1>2, <1>3, <1>4, <1>5, <1>6, <1>7, <1>8, <1>9, <1>10, <1>11, <1>12, <1>13,
     <1>14, <1>15, <1>16, <1>17, <1>18, <1>19 DEF Rpc, RpcStep

\* What a batch begins with.
LEMMA BatchBegins ==
  ASSUME Plain, NEW r \in Requests, NEW h \in Objects, chan[h].processed <= chan[h].total,
         NEW b \in Nat, EnterBatch(r, h, b)
  PROVE  /\ left' \in [Requests -> 0..BatchSize] /\ batch' \in [Requests -> Nat]
         /\ pc' \in [Requests -> Places] /\ pc'[r] \in {"get", "full"}
         /\ pc'[r] = "get" => chan[h].processed + left'[r] <= chan[h].total
<1> DEFINE rest == chan[h].total - chan[h].processed
           size == IF rest < BatchSize THEN rest ELSE BatchSize
<1>1. rest \in Nat /\ size \in 0..BatchSize /\ chan[h].processed + size <= chan[h].total
  <2>1. chan[h].total \in Nat /\ chan[h].processed \in Nat
    BY DEF Plain, Handler
  <2> QED
    BY <2>1, SizeAssumption
<1> HIDE DEF rest, size
<1>2. CASE b = Batches(r, h)
  BY <1>2, SizeAssumption DEF EnterBatch, Goto, Plain, Places
<1>3. CASE b # Batches(r, h)
  <2>1. /\ left' = [left EXCEPT ![r] = size] /\ pc' = [pc EXCEPT ![r] = "get"]
        /\ batch' = [batch EXCEPT ![r] = b]
    BY <1>3 DEF EnterBatch, Goto, rest, size
  <2> QED
    BY <1>1, <2>1 DEF Plain, Places
<1> QED
  BY <1>2, <1>3

\* What happens to the channel of handler h: a frame is taken, it is closed, a frame is put,
\* it is made.
LEMMA Taken ==
  ASSUME Plain, NEW h \in Objects, chan[h].queue # <<>>,
         chan' = [chan EXCEPT ![h].queue = Tail(@), ![h].processed = @ + 1]
  PROVE  /\ chan' \in [Objects -> Handler] /\ \A o \in Objects \ {h} : chan'[o] = chan[o]
         /\ Len(chan'[h].queue) = Len(chan[h].queue) - 1
         /\ chan'[h].processed = chan[h].processed + 1 /\ chan'[h].total = chan[h].total
<1>1. chan[h] \in Handler
  BY DEF Plain
<1>2. Tail(chan[h].queue) \in Seq(Frames) /\ Len(Tail(chan[h].queue)) = Len(chan[h].queue) - 1
  BY <1>1 DEF Handler
<1>3. /\ chan'[h] = [chan[h] EXCEPT !.queue = Tail(@), !.processed = @ + 1]
      /\ DOMAIN chan' = Objects /\ \A o \in Objects \ {h} : chan'[o] = chan[o]
  BY DEF Plain
<1>4. /\ chan'[h] \in Handler /\ chan'[h].queue = Tail(chan[h].queue)
      /\ chan'[h].processed = chan[h].processed + 1 /\ chan'[h].total = chan[h].total
  BY <1>1, <1>2, <1>3 DEF Handler
<1>5. chan' = [o \in Objects |-> chan'[o]]
  BY DEF Plain
<1> QED
  BY <1>2, <1>3, <1>4, <1>5 DEF Plain

LEMMA Closed ==
  ASSUME Plain, NEW h \in Objects, chan' = [chan EXCEPT ![h].closed = TRUE]
  PROVE  /\ chan' \in [Objects -> Handler]
         /\ \A o \in Objects : /\ chan'[o].queue = chan[o].queue
                               /\ chan'[o].processed = chan[o].processed
                               /\ chan'[o].total = chan[o].total
<1>1. chan[h] \in Handler
  BY DEF Plain
<1>2. /\ chan'[h] = [chan[h] EXCEPT !.closed = TRUE]
      /\ DOMAIN chan' = Objects /\ \A o \in Objects \ {h} : chan'[o] = chan[o]
  BY DEF Plain
<1>3. /\ chan'[h] \in Handler /\ chan'[h].queue = chan[h].queue
      /\ chan'[h].processed = chan[h].processed /\ chan'[h].total = chan[h].total
  BY <1>1, <1>2 DEF Handler
<1>4. chan' = [o \in Objects |-> chan'[o]]
  BY DEF Plain
<1> QED
  BY <1>2, <1>3, <1>4 DEF Plain

LEMMA Put ==
  ASSUME Plain, NEW h \in Objects, NEW f \in Frames,
         chan' = [chan EXCEPT ![h].queue = Append(@, f)]
  PROVE  /\ chan' \in [Objects -> Handler] /\ \A o \in Objects \ {h} : chan'[o] = chan[o]
         /\ Len(chan'[h].queue) = Len(chan[h].queue) + 1
         /\ chan'[h].processed = chan[h].processed /\ chan'[h].total = chan[h].total
<1>1. chan[h] \in Handler
  BY DEF Plain
<1>2. /\ Append(chan[h].queue, f) \in Seq(Frames)
      /\ Len(Append(chan[h].queue, f)) = Len(chan[h].queue) + 1
  BY <1>1 DEF Handler
<1>3. /\ chan'[h] = [chan[h] EXCEPT !.queue = Append(@, f)]
      /\ DOMAIN chan' = Objects /\ \A o \in Objects \ {h} : chan'[o] = chan[o]
  BY DEF Plain
<1>4. /\ chan'[h] \in Handler /\ chan'[h].queue = Append(chan[h].queue, f)
      /\ chan'[h].processed = chan[h].processed /\ chan'[h].total = chan[h].total
  BY <1>1, <1>2, <1>3 DEF Handler
<1>5. chan' = [o \in Objects |-> chan'[o]]
  BY DEF Plain
<1> QED
  BY <1>2, <1>3, <1>4, <1>5 DEF Plain

LEMMA Made ==
  ASSUME Plain, NEW h \in Objects, NEW n \in Nat,
         chan' = [chan EXCEPT ![h] = [NoHandler EXCEPT !.total = n]]
  PROVE  /\ chan' \in [Objects -> Handler] /\ \A o \in Objects \ {h} : chan'[o] = chan[o]
         /\ chan'[h].queue = <<>> /\ chan'[h].processed = 0 /\ chan'[h].total = n
<1>1. NoHandler \in Handler
  BY DEF NoHandler, Handler
<1>2. [NoHandler EXCEPT !.total = n] \in Handler
  BY <1>1 DEF Handler
<1>3. /\ [NoHandler EXCEPT !.total = n].queue = <<>>
      /\ [NoHandler EXCEPT !.total = n].processed = 0
      /\ [NoHandler EXCEPT !.total = n].total = n
  BY DEF NoHandler
<1> QED
  BY <1>2, <1>3 DEF Plain

\* The types are kept.
LEMMA PlainRpc ==
  ASSUME NEW r \in Requests, Rpc(r), Plain, Counting, Flow(r), Own(r)
  PROVE  Plain'
<1>1. ASSUME NEW k \in Kinds, Arrive(r, k) PROVE Plain'
  BY <1>1, SizeAssumption, ObjectFacts DEF Arrive, Goto, Finish, Plain, rpcVars, loopVars,
     decVars, Places, Statuses, Kinds
<1>2. CASE ReadEmptyAddress(r)
  BY <1>2, SizeAssumption, ObjectFacts DEF ReadEmptyAddress, Goto, Finish, Plain, rpcVars,
     loopVars, decVars, Places, Statuses, Kinds
<1>3. CASE ReadVideo(r)
  <2>1. kind[r] \in Kinds /\ cur[r] + 1 \in 1..MaxVideos
    BY <1>3, SizeAssumption DEF ReadVideo, Flow, Plain
  <2>2. <<r, cur[r] + 1>> \in Objects
    BY <2>1, ObjectFacts
  <2>3. PICK v \in Videos[kind[r]] : video' = [video EXCEPT ![<<r, cur[r] + 1>>] = v]
    BY <1>3 DEF ReadVideo
  <2>4. v \in Video
    BY <2>1, VideosAssumption
  <2>5. video' \in [Objects -> Video \cup {Null}]
    BY <2>3, <2>4 DEF Plain
  <2>6. cur' \in [Requests -> 0..MaxVideos]
    BY <1>3, <2>1 DEF ReadVideo, Plain
  <2>7. ub' \in BOOLEAN
    BY <1>3 DEF ReadVideo, DecoderInUse
  <2>8. /\ available' \in BOOLEAN /\ decoder' \in Objects \cup {Null}
        /\ pc' \in [Requests -> Places]
    BY <1>3, <2>2 DEF ReadVideo, Goto, Plain, Places
  <2> QED
    BY <1>3, <2>5, <2>6, <2>7, <2>8 DEF ReadVideo, Plain
<1>4. CASE EndOfStream(r)
  BY <1>4, SizeAssumption, ObjectFacts DEF EndOfStream, Goto, Finish, Plain, rpcVars,
     loopVars, decVars, Places, Statuses, Kinds
<1>5. CASE Open(r)
  <2>1. pc' \in [Requests -> Places]
    BY <1>5 DEF Open, Goto, Finish, Plain, Places
  <2>2. status' \in [Requests -> Statuses]
    BY <1>5 DEF Open, Goto, Finish, Plain, Statuses
  <2> QED
    BY <1>5, <2>1, <2>2 DEF Open, Plain, loopVars, decVars
<1>6. CASE Claim(r)
  BY <1>6, SizeAssumption, ObjectFacts DEF Claim, Goto, Plain, rpcVars, loopVars, decVars,
     Places, Statuses, Kinds
<1>7. CASE Setup(r)
  <2>1. decoder = Mine(r) /\ Mine(r) \in Objects /\ video[decoder] \in Video
    BY <1>7, ObjectFacts DEF Setup, Flow, Own, Before, Mine
  <2>2. video[decoder].meta \in Nat
    BY <2>1 DEF Video
  <2>3. chan' \in [Objects -> Handler]
    BY <1>7, <2>1, <2>2, Made DEF Setup
  <2>4. ub' \in BOOLEAN
    BY <1>7 DEF Setup, HandlerInUse
  <2>5. pc' \in [Requests -> Places] /\ handler' \in Objects \cup {Null}
    BY <1>7, <2>1 DEF Setup, Goto, Plain, Places
  <2> QED
    BY <1>7, <2>3, <2>4, <2>5 DEF Setup, Plain, loopVars, decVars
<1>8. CASE Run(r)
  BY <1>8, SizeAssumption, ObjectFacts DEF Run, Goto, Plain, rpcVars, loopVars, decVars,
     Places, Statuses, Kinds
<1>9. CASE OutputDone(r)
  BY <1>9, SizeAssumption, ObjectFacts DEF OutputDone, Goto, Plain, rpcVars, loopVars,
     decVars, Places, Statuses, Kinds
<1>10. CASE OutputStart(r)
  <2>1. handler \in Objects
    BY <1>10, ObjectFacts DEF OutputStart, Flow, Own, Running, Mine
  <2>2. chan[handler].processed <= chan[handler].total /\ EnterBatch(r, handler, 0)
    BY <1>10, <2>1 DEF OutputStart, Counting
  <2>3. /\ left' \in [Requests -> 0..BatchSize] /\ batch' \in [Requests -> Nat]
        /\ pc' \in [Requests -> Places]
    BY <2>1, <2>2, BatchBegins
  <2> QED
    BY <1>10, <2>1, <2>3 DEF OutputStart, Plain, decVars
<1>11. CASE GetFrame(r)
  <2>1. self[r] \in Objects
    BY <1>11, ObjectFacts DEF GetFrame, Flow, Own, Running, Mine
  <2>2. chan' \in [Objects -> Handler]
    BY <1>11, <2>1, Taken DEF GetFrame
  <2>3. left' \in [Requests -> 0..BatchSize]
    BY <1>11, SizeAssumption DEF GetFrame, Plain
  <2> QED
    BY <1>11, <2>2, <2>3 DEF GetFrame, Plain, rpcVars, decVars
<1>12. CASE GetEnd(r)
  <2>1. left' \in [Requests -> 0..BatchSize]
    BY <1>12, SizeAssumption DEF GetEnd, Plain
  <2> QED
    BY <1>12, <2>1 DEF GetEnd, Plain, rpcVars, decVars
<1>13. CASE Forward(r)
  <2>1. self[r] \in Objects
    BY <1>13, ObjectFacts DEF Forward, Flow, Own, Running, Mine
  <2>2. /\ chan[self[r]].processed <= chan[self[r]].total /\ batch[r] + 1 \in Nat
        /\ EnterBatch(r, self[r], batch[r] + 1)
    BY <1>13, <2>1 DEF Forward, Counting, Plain
  <2>3. /\ left' \in [Requests -> 0..BatchSize] /\ batch' \in [Requests -> Nat]
        /\ pc' \in [Requests -> Places]
    BY <2>1, <2>2, BatchBegins
  <2> QED
    BY <1>13, <2>3 DEF Forward, Plain, decVars
<1>14. CASE WriteResponse(r)
  BY <1>14, SizeAssumption, ObjectFacts DEF WriteResponse, Goto, Plain, rpcVars, loopVars,
     decVars, Places, Statuses, Kinds
<1>15. CASE CloseChannel(r)
  <2>1. handler \in Objects
    BY <1>15, ObjectFacts DEF CloseChannel, Flow, Own, Running, Mine
  <2>2. chan' \in [Objects -> Handler]
    BY <1>15, <2>1, Closed DEF CloseChannel, CloseInput
  <2>3. pc' \in [Requests -> Places]
    BY <1>15 DEF CloseChannel, Goto, Plain, Places
  <2> QED
    BY <1>15, <2>2, <2>3 DEF CloseChannel, Plain, loopVars, decVars
<1>16. CASE SendSummary(r)
  BY <1>16, SizeAssumption, ObjectFacts DEF SendSummary, Goto, Plain, rpcVars, loopVars,
     decVars, Places, Statuses, Kinds
<1>17. CASE SendFails(r)
  BY <1>17, SizeAssumption, ObjectFacts DEF SendFails, Goto, Finish, Plain, rpcVars,
     loopVars, decVars, Places, Statuses, Kinds
<1>18. CASE Join(r)
  BY <1>18, SizeAssumption, ObjectFacts DEF Join, Goto, Plain, rpcVars, loopVars, decVars,
     Places, Statuses, Kinds
<1>19. CASE Release(r)
  BY <1>19, SizeAssumption, ObjectFacts DEF Release, Goto, Finish, Plain, rpcVars,
     loopVars, decVars, Places, Statuses, Kinds
<1> QED
  BY <1>1, <1>2, <1>3, <1>4, <1>5, <1>6, <1>7, <1>8, <1>9, <1>10, <1>11, <1>12, <1>13,
     <1>14, <1>15, <1>16, <1>17, <1>18, <1>19 DEF Rpc, RpcStep

\* ... and by the decode threads.
LEMMA PlainDecode ==
  ASSUME NEW o \in Objects, Decode(o), Plain, Noted(o)
  PROVE  Plain'
<1>1. CASE DecodeOpenFails(o)
  BY <1>1 DEF DecodeOpenFails, Plain, rpcVars, loopVars, decVars, Noted
<1>2. CASE DecodeFrame(o)
  <2>1. target[o] = o /\ <<o, sent[o]>> \in Frames
    BY <1>2 DEF DecodeFrame, Noted, Plain, Frames
  <2>2. chan' \in [Objects -> Handler]
    BY <1>2, <2>1, Put DEF DecodeFrame
  <2> QED
    BY <1>2, <2>2 DEF DecodeFrame, Plain, rpcVars, loopVars
<1>3. CASE DecodeEnd(o)
  <2>1. target[o] = o /\ video[o].throws \in BOOLEAN
    BY <1>3 DEF DecodeEnd, Noted, Video
  <2>2. chan' \in [Objects -> Handler]
    BY <1>3, <2>1, Closed DEF DecodeEnd, CloseInput
  <2> QED
    BY <1>3, <2>1, <2>2 DEF DecodeEnd, Plain, rpcVars, loopVars
<1> QED
  BY <1>1, <1>2, <1>3 DEF Decode

\* Only an active call goes on.
LEMMA StepActive ==
  ASSUME NEW r \in Requests, RpcStep(r)
  PROVE  Active(r)
<1>1. CASE ReadEmptyAddress(r)
  BY <1>1 DEF ReadEmptyAddress, Active, Before, Running
<1>2. CASE ReadVideo(r)
  BY <1>2 DEF ReadVideo, Active, Before, Running
<1>3. CASE EndOfStream(r)
  BY <1>3 DEF EndOfStream, Active, Before, Running
<1>4. CASE Open(r)
  BY <1>4 DEF Open, Active, Before, Running
<1>5. CASE Claim(r)
  BY <1>5 DEF Claim, Active, Before, Running
<1>6. CASE Setup(r)
  BY <1>6 DEF Setup, Active, Before, Running
<1>7. CASE Run(r)
  BY <1>7 DEF Run, Active, Before, Running
<1>8. CASE OutputDone(r)
  BY <1>8 DEF OutputDone, Active, Before, Running
<1>9. CASE OutputStart(r)
  BY <1>9 DEF OutputStart, Active, Before, Running
<1>10. CASE GetFrame(r)
  BY <1>10 DEF GetFrame, Active, Before, Running
<1>11. CASE GetEnd(r)
  BY <1>11 DEF GetEnd, Active, Before, Running
<1>12. CASE Forward(r)
  BY <1>12 DEF Forward, Active, Before, Running
<1>13. CASE WriteResponse(r)
  BY <1>13 DEF WriteResponse, Active, Before, Running
<1>14. CASE CloseChannel(r)
  BY <1>14 DEF CloseChannel, Active, Before, Running
<1>15. CASE SendSummary(r)
  BY <1>15 DEF SendSummary, Active, Before, Running
<1>16. CASE SendFails(r)
  BY <1>16 DEF SendFails, Active, Before, Running
<1>17. CASE Join(r)
  BY <1>17 DEF Join, Active, Before, Running
<1>18. CASE Release(r)
  BY <1>18 DEF Release, Active, Before, Running
<1> QED
  BY <1>1, <1>2, <1>3, <1>4, <1>5, <1>6, <1>7, <1>8, <1>9, <1>10, <1>11, <1>12, <1>13,
     <1>14, <1>15, <1>16, <1>17, <1>18 DEF RpcStep

\* Who arrives at an available core finds nobody there.
LEMMA ArriveAlone ==
  ASSUME ~Overlap, Flag, NEW r \in Requests, NEW k \in Kinds, Arrive(r, k), available
  PROVE  \A q \in Requests : ~Active(q)
  BY DEF Arrive, Flag, Busy, Active

LEMMA AloneRpc ==
  ASSUME ~Overlap, NEW r \in Requests, Rpc(r), Plain, Alone, Flag
  PROVE  Alone'
<1>1. \A q \in Requests \ {r} : Same(q)
  BY Frame
<1>2. ASSUME NEW k \in Kinds, Arrive(r, k) PROVE Alone'
  <2>1. CASE available
    <3>1. \A q \in Requests : ~Active(q)
      BY <1>2, <2>1, ArriveAlone
    <3> QED
      BY <1>1, <3>1 DEF Alone, Active, Same
  <2>2. CASE ~available
    <3>1. pc'[r] = "done"
      BY <1>2, <2>2 DEF Arrive, Finish, Goto, Plain
    <3> QED
      BY <1>1, <3>1 DEF Alone, Active, Same
  <2> QED
    BY <2>1, <2>2
<1>3. CASE RpcStep(r)
  BY <1>1, <1>3, StepActive DEF Alone, Active, Same
<1> QED
  BY <1>2, <1>3 DEF Rpc

\* Each place is reached as Flow says.
LEMMA FlowOwn ==
  ASSUME NEW r \in Requests, Rpc(r), Plain, Flow(r), Own(r), Counting
  PROVE  Flow(r)'
<1>1. ASSUME NEW k \in Kinds, Arrive(r, k) PROVE Flow(r)'
  BY <1>1, SizeAssumption DEF Arrive, Goto, Finish, Flow, Plain, Before, Running, Kinds,
     Statuses, rpcVars
<1>2. CASE ReadEmptyAddress(r)
  BY <1>2, SizeAssumption DEF ReadEmptyAddress, Goto, Finish, Flow, Plain, Before,
     Running, Kinds, Statuses, rpcVars
<1>3. CASE ReadVideo(r)
  BY <1>3, SizeAssumption DEF ReadVideo, Goto, Flow, Plain, Before, Running, Kinds,
     Statuses, rpcVars
<1>4. CASE EndOfStream(r)
  BY <1>4, SizeAssumption DEF EndOfStream, Goto, Finish, Flow, Plain, Before, Running,
     Kinds, Statuses, rpcVars
<1>5. CASE Open(r)
  BY <1>5, SizeAssumption DEF Open, Goto, Finish, Flow, Plain, Before, Running, Kinds,
     Statuses, rpcVars
<1>6. CASE Claim(r)
  BY <1>6, SizeAssumption DEF Claim, Goto, Flow, Plain, Before, Running, Kinds, Statuses,
     rpcVars
<1>7. CASE Setup(r)
  BY <1>7, SizeAssumption DEF Setup, Goto, Flow, Plain, Before, Running, Kinds, Statuses,
     rpcVars
<1>8. CASE Run(r)
  BY <1>8, SizeAssumption DEF Run, Goto, Flow, Plain, Before, Running, Kinds, Statuses,
     rpcVars
<1>9. CASE OutputDone(r)
  BY <1>9, SizeAssumption DEF OutputDone, Goto, Flow, Plain, Before, Running, Kinds,
     Statuses, rpcVars
<1>10. CASE OutputStart(r)
  <2>1. pc[r] \in Running /\ pc'[r] \in {"get", "full"}
    BY <1>10 DEF OutputStart, EnterBatch, Goto, Plain, Running
  <2> QED
    BY <1>10, <2>1 DEF OutputStart, Flow, Plain, Before, Running, Kinds, Statuses, rpcVars
<1>11. CASE GetFrame(r)
  BY <1>11, SizeAssumption DEF GetFrame, Flow, Plain, Before, Running, Kinds, Statuses,
     rpcVars
<1>12. CASE GetEnd(r)
  BY <1>12, SizeAssumption DEF GetEnd, Flow, Plain, Before, Running, Kinds, Statuses,
     rpcVars
<1>13. CASE Forward(r)
  <2>1. pc[r] \in Running /\ pc'[r] \in {"get", "full"}
    BY <1>13 DEF Forward, EnterBatch, Goto, Plain, Running
  <2> QED
    BY <1>13, <2>1 DEF Forward, Flow, Plain, Before, Running, Kinds, Statuses, rpcVars
<1>14. CASE WriteResponse(r)
  BY <1>14, SizeAssumption DEF WriteResponse, Goto, Flow, Plain, Before, Running, Kinds,
     Statuses, rpcVars
<1>15. CASE CloseChannel(r)
  BY <1>15, SizeAssumption DEF CloseChannel, Goto, CloseInput, Flow, Plain, Before,
     Running, Kinds, Statuses, rpcVars
<1>16. CASE SendSummary(r)
  BY <1>16, SizeAssumption DEF SendSummary, Goto, Flow, Plain, Before, Running, Kinds,
     Statuses, rpcVars
<1>17. CASE SendFails(r)
  BY <1>17, SizeAssumption DEF SendFails, Goto, Finish, Flow, Plain, Before, Running,
     Kinds, Statuses, rpcVars
<1>18. CASE Join(r)
  BY <1>18, SizeAssumption DEF Join, Goto, Flow, Plain, Before, Running, Kinds, Statuses,
     rpcVars
<1>19. CASE Release(r)
  BY <1>19, SizeAssumption DEF Release, Goto, Finish, Flow, Plain, Before, Running, Kinds,
     Statuses, rpcVars
<1> QED
  BY <1>1, <1>2, <1>3, <1>4, <1>5, <1>6, <1>7, <1>8, <1>9, <1>10, <1>11, <1>12, <1>13,
     <1>14, <1>15, <1>16, <1>17, <1>18, <1>19 DEF Rpc, RpcStep

\* The flag is down from a call's claim to its end, which puts it up again, but for the end
\* of a summary stream that named a bad video.
LEMMA FlagOwn ==
  ASSUME NEW r \in Requests, RpcStep(r), Plain, Flow(r), Own(r), Counting, Flag
  PROVE  /\ available' => ~Busy(r)'
         /\ InWindow(r)' => available'
         /\ ~Active(r)' /\ ~(kind'[r] = "summary" /\ status'[r] = "INVALID_ARGUMENT")
              => available'
<1>1. CASE ReadEmptyAddress(r)
  <2>1. pc[r] = "read" /\ pc'[r] = "done" /\ kind[r] \in Kinds /\ UNCHANGED kind
        /\ status'[r] = "INVALID_ARGUMENT"
    BY <1>1 DEF ReadEmptyAddress, Finish, Goto, Flow, Plain
  <2>2. kind[r] = "annotate" => InWindow(r) /\ available
    BY <2>1 DEF InWindow, Flag
  <2>3. kind[r] = "annotate" => available'
    BY <1>1, <2>2 DEF ReadEmptyAddress
  <2> QED
    BY <2>1, <2>3 DEF Busy, InWindow, Active, Kinds
<1>2. CASE ReadVideo(r)
  BY <1>2 DEF ReadVideo, Goto, Flag, Flow, Plain, Busy, InWindow, Active, rpcVars
<1>3. CASE EndOfStream(r)
  BY <1>3 DEF EndOfStream, Goto, Finish, Flag, Flow, Plain, Busy, InWindow, Active,
     rpcVars
<1>4. CASE Open(r)
  <2>1. /\ pc[r] = "opening" /\ kind[r] \in Kinds /\ UNCHANGED <<kind, available>>
        /\ \/ pc'[r] = "done" /\ status'[r] = "INVALID_ARGUMENT"
           \/ pc'[r] = (IF kind[r] = "annotate" THEN "claim" ELSE "setup")
    BY <1>4 DEF Open, Finish, Goto, Flow, Plain
  <2>2. CASE kind[r] = "annotate"
    <3>1. available
      BY <2>1, <2>2 DEF InWindow, Flag
    <3> QED
      BY <2>1, <2>2, <3>1 DEF Busy, InWindow, Active
  <2>3. CASE kind[r] = "summary"
    <3>1. ~available
      BY <2>1, <2>3 DEF Busy, InWindow, Flag
    <3> QED
      BY <2>1, <2>3, <3>1 DEF Busy, InWindow, Active
  <2> QED
    BY <2>1, <2>2, <2>3 DEF Kinds
<1>5. CASE Claim(r)
  BY <1>5 DEF Claim, Goto, Flag, Flow, Plain, Busy, InWindow, Active, rpcVars
<1>6. CASE Setup(r)
  BY <1>6 DEF Setup, Goto, Flag, Flow, Plain, Busy, InWindow, Active, rpcVars
<1>7. CASE Run(r)
  BY <1>7 DEF Run, Goto, Flag, Flow, Plain, Busy, InWindow, Active, rpcVars
<1>8. CASE OutputDone(r)
  BY <1>8 DEF OutputDone, Goto, Flag, Flow, Plain, Busy, InWindow, Active, rpcVars
<1>9. CASE OutputStart(r)
  <2>1. pc[r] \in Running /\ pc'[r] \in {"get", "full"}
    BY <1>9 DEF OutputStart, EnterBatch, Goto, Plain, Running
  <2> QED
    BY <1>9, <2>1 DEF OutputStart, Flag, Flow, Plain, Busy, InWindow, Active, rpcVars, Running
<1>10. CASE GetFrame(r)
  BY <1>10 DEF GetFrame, Flag, Flow, Plain, Busy, InWindow, Active, rpcVars
<1>11. CASE GetEnd(r)
  BY <1>11 DEF GetEnd, Flag, Flow, Plain, Busy, InWindow, Active, rpcVars
<1>12. CASE Forward(r)
  <2>1. pc[r] \in Running /\ pc'[r] \in {"get", "full"}
    BY <1>12 DEF Forward, EnterBatch, Goto, Plain, Running
  <2> QED
    BY <1>12, <2>1 DEF Forward, Flag, Flow, Plain, Busy, InWindow, Active, rpcVars, Running
<1>13. CASE WriteResponse(r)
  BY <1>13 DEF WriteResponse, Goto, Flag, Flow, Plain, Busy, InWindow, Active, rpcVars
<1>14. CASE CloseChannel(r)
  BY <1>14 DEF CloseChannel, Goto, CloseInput, Flag, Flow, Plain, Busy, InWindow, Active,
     rpcVars
<1>15. CASE SendSummary(r)
  BY <1>15 DEF SendSummary, Goto, Flag, Flow, Plain, Busy, InWindow, Active, rpcVars
<1>16. CASE SendFails(r)
  BY <1>16 DEF SendFails, Goto, Finish, Flag, Flow, Plain, Busy, InWindow, Active, rpcVars
<1>17. CASE Join(r)
  <2>1. /\ pc[r] = "join" /\ kind[r] \in Kinds /\ cur[r] # 0 /\ UNCHANGED <<kind, available, cur>>
        /\ pc'[r] \in {"abort", "release", "read"} /\ (kind[r] = "annotate" => pc'[r] # "read")
    BY <1>17 DEF Join, Goto, Flow, Plain, Running
  <2>2. ~available
    BY <2>1 DEF Busy, InWindow, Flag
  <2> QED
    BY <2>1, <2>2 DEF Busy, InWindow, Active, Kinds
<1>18. CASE Release(r)
  BY <1>18 DEF Release, Goto, Finish, Flag, Flow, Plain, Busy, InWindow, Active, rpcVars
<1> QED
  BY <1>1, <1>2, <1>3, <1>4, <1>5, <1>6, <1>7, <1>8, <1>9, <1>10, <1>11, <1>12, <1>13,
     <1>14, <1>15, <1>16, <1>17, <1>18 DEF RpcStep

LEMMA FlagRpc ==
  ASSUME ~Overlap, NEW r \in Requests, Rpc(r), Plain, Flow(r), Own(r), Counting, Alone, Flag
  PROVE  Flag'
<1>1. \A q \in Requests \ {r} : Same(q)
  BY Frame
<1>2. NoBadSummary' => NoBadSummary
  <2>1. pc[r] # "done"
    BY StepActive DEF Rpc, Arrive, Active
  <2>2. status[r] = "none"
    BY <2>1 DEF Flow
  <2> QED
    BY <1>1, <2>2 DEF NoBadSummary, Same
<1>3. ASSUME NEW k \in Kinds, Arrive(r, k) PROVE Flag'
  <2>1. CASE available
    <3>1. \A q \in Requests : ~Active(q)
      BY <1>3, <2>1, ArriveAlone
    <3>2. available' /\ pc'[r] = "read" /\ cur'[r] = 0 /\ kind'[r] = k
      BY <1>3, <2>1 DEF Arrive, Goto, Flow, Plain
    <3>3. InWindow(r)'
      BY <3>2 DEF InWindow, Kinds
    <3>4. \A q \in Requests : ~Busy(q)'
      BY <1>1, <3>1, <3>3 DEF Busy, Active, Same
    <3> QED
      BY <3>2, <3>4 DEF Flag
  <2>2. CASE ~available
    <3>1. pc[r] = "idle" /\ pc'[r] = "done" /\ ~available'
      BY <1>3, <2>2 DEF Arrive, Finish, Goto, Plain
    <3>2. \A q \in Requests : InWindow(q)' => InWindow(q)
      BY <1>1, <3>1 DEF InWindow, Same
    <3>3. (\A q \in Requests : ~Active(q)') => \A q \in Requests : ~Active(q)
      BY <1>1, <3>1 DEF Active, Same
    <3> QED
      BY <1>2, <2>2, <3>1, <3>2, <3>3 DEF Flag
  <2> QED
    BY <2>1, <2>2
<1>4. CASE RpcStep(r)
  <2>1. \A q \in Requests \ {r} : ~Active(q) /\ ~Active(q)'
    BY <1>1, <1>4, StepActive DEF Alone, Active, Same
  <2>2. \A q \in Requests \ {r} : ~Busy(q)' /\ ~InWindow(q)'
    BY <2>1 DEF Active, Busy, InWindow
  <2>3. /\ available' => ~Busy(r)'
        /\ InWindow(r)' => available'
        /\ ~Active(r)' /\ ~(kind'[r] = "summary" /\ status'[r] = "INVALID_ARGUMENT")
             => available'
    BY <1>4, FlagOwn
  <2>4. NoBadSummary' => ~(kind'[r] = "summary" /\ status'[r] = "INVALID_ARGUMENT")
    BY DEF NoBadSummary
  <2> QED
    BY <2>2, <2>3, <2>4 DEF Flag
<1> QED
  BY <1>3, <1>4 DEF Rpc

\* decoder_ and handler_ are replaced by the call that uses them.
LEMMA OwnOwn ==
  ASSUME NEW r \in Requests, Rpc(r), Plain, Flow(r), Own(r)
  PROVE  Own(r)'
<1>1. ASSUME NEW k \in Kinds, Arrive(r, k) PROVE Own(r)'
  BY <1>1 DEF Arrive, Goto, Finish, Own, Flow, Plain, Before, Running, Mine, rpcVars,
     loopVars, decVars
<1>2. CASE ReadEmptyAddress(r)
  BY <1>2 DEF ReadEmptyAddress, Goto, Finish, Own, Flow, Plain, Before, Running, Mine,
     rpcVars, loopVars, decVars
<1>3. CASE ReadVideo(r)
  <2>1. kind[r] \in Kinds /\ cur[r] + 1 \in 1..MaxVideos
    BY <1>3, SizeAssumption DEF ReadVideo, Flow, Plain
  <2>2. <<r, cur[r] + 1>> \in Objects
    BY <2>1, ObjectFacts
  <2>3. PICK v \in Videos[kind[r]] : video' = [video EXCEPT ![<<r, cur[r] + 1>>] = v]
    BY <1>3 DEF ReadVideo
  <2>4. /\ pc'[r] = "opening" /\ Mine(r)' = <<r, cur[r] + 1>> /\ decoder' = <<r, cur[r] + 1>>
        /\ video'[<<r, cur[r] + 1>>] = v /\ v \in Video
    BY <1>3, <2>1, <2>2, <2>3, VideosAssumption DEF ReadVideo, Goto, Mine, Plain
  <2> QED
    BY <2>4 DEF Own, Running
<1>4. CASE EndOfStream(r)
  BY <1>4 DEF EndOfStream, Goto, Finish, Own, Flow, Plain, Before, Running, Mine, rpcVars,
     loopVars, decVars
<1>5. CASE Open(r)
  BY <1>5 DEF Open, Goto, Finish, Own, Flow, Plain, Before, Running, Mine, rpcVars,
     loopVars, decVars
<1>6. CASE Claim(r)
  BY <1>6 DEF Claim, Goto, Own, Flow, Plain, Before, Running, Mine, rpcVars, loopVars,
     decVars
<1>7. CASE Setup(r)
  BY <1>7 DEF Setup, Goto, Own, Flow, Plain, Before, Running, Mine, rpcVars, loopVars,
     decVars
<1>8. CASE Run(r)
  BY <1>8 DEF Run, Goto, Own, Flow, Plain, Before, Running, Mine, rpcVars, loopVars,
     decVars
<1>9. CASE OutputDone(r)
  BY <1>9 DEF OutputDone, Goto, Own, Flow, Plain, Before, Running, Mine, rpcVars,
     loopVars, decVars
<1>10. CASE OutputStart(r)
  <2>1. handler = Mine(r) /\ pc[r] \in Running /\ pc'[r] \in Running
    BY <1>10 DEF OutputStart, EnterBatch, Goto, Own, Plain, Running
  <2>2. self'[r] = Mine(r) /\ UNCHANGED <<decoder, handler, video, cur>>
    BY <1>10, <2>1 DEF OutputStart, Plain, decVars
  <2> QED
    BY <2>1, <2>2 DEF Own, Mine, Before, Running
<1>11. CASE GetFrame(r)
  BY <1>11 DEF GetFrame, Own, Flow, Plain, Before, Running, Mine, rpcVars, loopVars,
     decVars
<1>12. CASE GetEnd(r)
  BY <1>12 DEF GetEnd, Own, Flow, Plain, Before, Running, Mine, rpcVars, loopVars, decVars
<1>13. CASE Forward(r)
  <2>1. pc[r] = "get" /\ pc'[r] \in Running
    BY <1>13 DEF Forward, EnterBatch, Goto, Plain, Running
  <2>2. UNCHANGED <<decoder, handler, video, cur, self>>
    BY <1>13 DEF Forward, decVars
  <2> QED
    BY <2>1, <2>2 DEF Own, Mine, Before, Running
<1>14. CASE WriteResponse(r)
  BY <1>14 DEF WriteResponse, Goto, Own, Flow, Plain, Before, Running, Mine, rpcVars,
     loopVars, decVars
<1>15. CASE CloseChannel(r)
  BY <1>15 DEF CloseChannel, Goto, CloseInput, Own, Flow, Plain, Before, Running, Mine,
     rpcVars, loopVars, decVars
<1>16. CASE SendSummary(r)
  BY <1>16 DEF SendSummary, Goto, Own, Flow, Plain, Before, Running, Mine, rpcVars,
     loopVars, decVars
<1>17. CASE SendFails(r)
  BY <1>17 DEF SendFails, Goto, Finish, Own, Flow, Plain, Before, Running, Mine, rpcVars,
     loopVars, decVars
<1>18. CASE Join(r)
  BY <1>18 DEF Join, Goto, Own, Flow, Plain, Before, Running, Mine, rpcVars, loopVars,
     decVars
<1>19. CASE Release(r)
  BY <1>19 DEF Release, Goto, Finish, Own, Flow, Plain, Before, Running, Mine, rpcVars,
     loopVars, decVars
<1> QED
  BY <1>1, <1>2, <1>3, <1>4, <1>5, <1>6, <1>7, <1>8, <1>9, <1>10, <1>11, <1>12, <1>13,
     <1>14, <1>15, <1>16, <1>17, <1>18, <1>19 DEF Rpc, RpcStep

LEMMA OwnFrame ==
  ASSUME NEW r \in Requests, Rpc(r), Plain, Alone, NEW q \in Requests \ {r}, Own(q), Flow(q)
  PROVE  Own(q)'
<1>1. Same(q)
  BY Frame
<1>2. ASSUME NEW k \in Kinds, Arrive(r, k) PROVE Own(q)'
  BY <1>1, <1>2 DEF Arrive, Own, Same, Mine, loopVars, decVars
<1>3. CASE RpcStep(r)
  <2>1. ~Active(q)
    BY <1>3, StepActive DEF Alone
  <2> QED
    BY <1>1, <2>1 DEF Own, Same, Active, Before, Running
<1> QED
  BY <1>2, <1>3 DEF Rpc

\* A decoder is new when it is run.
LEMMA UnusedOwn ==
  ASSUME NEW r \in Requests, Rpc(r), Plain, Flow(r), Own(r), Unused(r)
  PROVE  Unused(r)'
<1>1. ASSUME NEW k \in Kinds, Arrive(r, k) PROVE Unused(r)'
  BY <1>1 DEF Arrive, Goto, Finish, Unused, Plain, Before, Running, Mine, rpcVars,
     loopVars, decVars
<1>2. CASE ReadEmptyAddress(r)
  BY <1>2 DEF ReadEmptyAddress, Goto, Finish, Unused, Plain, Before, Running, Mine,
     rpcVars, loopVars, decVars
<1>3. CASE ReadVideo(r)
  <2>1. cur'[r] = cur[r] + 1 /\ pc'[r] = "opening" /\ UNCHANGED thread /\ cur[r] \in Nat
    BY <1>3 DEF ReadVideo, Goto, Plain
  <2> QED
    BY <2>1 DEF Unused, Running
<1>4. CASE EndOfStream(r)
  BY <1>4 DEF EndOfStream, Goto, Finish, Unused, Plain, Before, Running, Mine, rpcVars,
     loopVars, decVars
<1>5. CASE Open(r)
  BY <1>5 DEF Open, Goto, Finish, Unused, Plain, Before, Running, Mine, rpcVars, loopVars,
     decVars
<1>6. CASE Claim(r)
  BY <1>6 DEF Claim, Goto, Unused, Plain, Before, Running, Mine, rpcVars, loopVars,
     decVars
<1>7. CASE Setup(r)
  BY <1>7 DEF Setup, Goto, Unused, Plain, Before, Running, Mine, rpcVars, loopVars,
     decVars
<1>8. CASE Run(r)
  <2>1. decoder = Mine(r) /\ Mine(r) \in Objects /\ cur[r] \in 1..MaxVideos
    BY <1>8, ObjectFacts DEF Run, Flow, Own, Before, Mine
  <2>2. /\ thread' = [thread EXCEPT ![<<r, cur[r]>>] = "decoding"]
        /\ pc'[r] = "output" /\ UNCHANGED cur
    BY <1>8, <2>1 DEF Run, Goto, Mine, Plain
  <2>3. thread'[<<r, cur[r]>>] = "decoding"
        /\ \A k \in 1..MaxVideos : k # cur[r] => thread'[<<r, k>>] = thread[<<r, k>>]
    BY <2>1, <2>2, ObjectFacts DEF Plain, Mine
  <2> QED
    BY <2>2, <2>3 DEF Unused, Mine, Before, Plain
<1>9. CASE OutputDone(r)
  BY <1>9 DEF OutputDone, Goto, Unused, Plain, Before, Running, Mine, rpcVars, loopVars,
     decVars
<1>10. CASE OutputStart(r)
  <2>1. pc[r] \in Running /\ pc'[r] \in {"get", "full"} /\ UNCHANGED <<cur, thread>>
    BY <1>10 DEF OutputStart, EnterBatch, Goto, Plain, Running, decVars
  <2> QED
    BY <2>1 DEF Unused, Mine, Before, Running
<1>11. CASE GetFrame(r)
  BY <1>11 DEF GetFrame, Unused, Plain, Before, Running, Mine, rpcVars, loopVars, decVars
<1>12. CASE GetEnd(r)
  BY <1>12 DEF GetEnd, Unused, Plain, Before, Running, Mine, rpcVars, loopVars, decVars
<1>13. CASE Forward(r)
  <2>1. pc[r] \in Running /\ pc'[r] \in {"get", "full"} /\ UNCHANGED <<cur, thread>>
    BY <1>13 DEF Forward, EnterBatch, Goto, Plain, Running, decVars
  <2> QED
    BY <2>1 DEF Unused, Mine, Before, Running
<1>14. CASE WriteResponse(r)
  BY <1>14 DEF WriteResponse, Goto, Unused, Plain, Before, Running, Mine, rpcVars,
     loopVars, decVars
<1>15. CASE CloseChannel(r)
  BY <1>15 DEF CloseChannel, Goto, CloseInput, Unused, Plain, Before, Running, Mine,
     rpcVars, loopVars, decVars
<1>16. CASE SendSummary(r)
  BY <1>16 DEF SendSummary, Goto, Unused, Plain, Before, Running, Mine, rpcVars, loopVars,
     decVars
<1>17. CASE SendFails(r)
  BY <1>17 DEF SendFails, Goto, Finish, Unused, Plain, Before, Running, Mine, rpcVars,
     loopVars, decVars
<1>18. CASE Join(r)
  <2>1. decoder = Mine(r) /\ Mine(r) \in Objects /\ cur[r] \in 1..MaxVideos
    BY <1>18, ObjectFacts DEF Join, Flow, Own, Running, Mine
  <2>2. /\ thread' = [thread EXCEPT ![<<r, cur[r]>>] = "joined"] /\ UNCHANGED cur
        /\ pc'[r] \in {"abort", "release", "read"}
    BY <1>18, <2>1 DEF Join, Goto, Mine, Plain
  <2>3. \A k \in 1..MaxVideos : k # cur[r] => thread'[<<r, k>>] = thread[<<r, k>>]
    BY <2>1, <2>2, ObjectFacts DEF Plain, Mine
  <2> QED
    BY <2>2, <2>3 DEF Unused, Mine, Before, Running, Plain
<1>19. CASE Release(r)
  BY <1>19 DEF Release, Goto, Finish, Unused, Plain, Before, Running, Mine, rpcVars,
     loopVars, decVars
<1> QED
  BY <1>1, <1>2, <1>3, <1>4, <1>5, <1>6, <1>7, <1>8, <1>9, <1>10, <1>11, <1>12, <1>13,
     <1>14, <1>15, <1>16, <1>17, <1>18, <1>19 DEF Rpc, RpcStep

\* A call starts and joins the threads of its own decoders, and opens them.
LEMMA ThreadsOfOthers ==
  ASSUME NEW r \in Requests, Rpc(r), Plain, Flow(r), Own(r)
  PROVE  \A q \in Requests \ {r} : \A k \in 1..MaxVideos :
           thread'[<<q, k>>] = thread[<<q, k>>] /\ video'[<<q, k>>] = video[<<q, k>>]
<1>1. ASSUME NEW c \in Kinds, Arrive(r, c)
      PROVE  \A q \in Requests \ {r} : \A k \in 1..MaxVideos :
               thread'[<<q, k>>] = thread[<<q, k>>] /\ video'[<<q, k>>] = video[<<q, k>>]
  BY <1>1 DEF Arrive, Plain, decVars
<1>2. CASE ReadEmptyAddress(r)
  BY <1>2 DEF ReadEmptyAddress, Plain, decVars
<1>3. CASE ReadVideo(r)
  <2>1. \E v : video' = [video EXCEPT ![<<r, cur[r] + 1>>] = v]
    BY <1>3 DEF ReadVideo
  <2> QED
    BY <1>3, <2>1, ObjectFacts DEF ReadVideo, Plain
<1>4. CASE EndOfStream(r)
  BY <1>4 DEF EndOfStream, Plain, decVars
<1>5. CASE Open(r)
  BY <1>5 DEF Open, Plain, decVars
<1>6. CASE Claim(r)
  BY <1>6 DEF Claim, Plain, decVars
<1>7. CASE Setup(r)
  BY <1>7 DEF Setup, Plain, decVars
<1>8. CASE Run(r)
  <2>1. decoder = <<r, cur[r]>>
    BY <1>8 DEF Run, Own, Before, Running, Mine
  <2> QED
    BY <1>8, <2>1, ObjectFacts DEF Run, Plain
<1>9. CASE OutputDone(r)
  BY <1>9 DEF OutputDone, Plain, decVars
<1>10. CASE OutputStart(r)
  BY <1>10 DEF OutputStart, Plain, decVars
<1>11. CASE GetFrame(r)
  BY <1>11 DEF GetFrame, Plain, decVars
<1>12. CASE GetEnd(r)
  BY <1>12 DEF GetEnd, Plain, decVars
<1>13. CASE Forward(r)
  BY <1>13 DEF Forward, Plain, decVars
<1>14. CASE WriteResponse(r)
  BY <1>14 DEF WriteResponse, Plain, decVars
<1>15. CASE CloseChannel(r)
  BY <1>15 DEF CloseChannel, Plain, decVars
<1>16. CASE SendSummary(r)
  BY <1>16 DEF SendSummary, Plain, decVars
<1>17. CASE SendFails(r)
  BY <1>17 DEF SendFails, Plain, decVars
<1>18. CASE Join(r)
  <2>1. decoder = <<r, cur[r]>>
    BY <1>18 DEF Join, Own, Before, Running, Mine
  <2> QED
    BY <1>18, <2>1, ObjectFacts DEF Join, Plain
<1>19. CASE Release(r)
  BY <1>19 DEF Release, Plain, decVars
<1> QED
  BY <1>1, <1>2, <1>3, <1>4, <1>5, <1>6, <1>7, <1>8, <1>9, <1>10, <1>11, <1>12, <1>13,
     <1>14, <1>15, <1>16, <1>17, <1>18, <1>19 DEF Rpc, RpcStep

LEMMA UnusedFrame ==
  ASSUME NEW r \in Requests, Rpc(r), Plain, Alone, Flow(r), Own(r),
         NEW q \in Requests \ {r}, Unused(q), Flow(q)
  PROVE  Unused(q)'
<1>1. Same(q)
  BY Frame
<1>2. \A k \in 1..MaxVideos : thread'[<<q, k>>] = thread[<<q, k>>]
  BY ThreadsOfOthers
<1> QED
  BY <1>1, <1>2 DEF Unused, Same, Mine, Flow

\* Join reads the flag when the thread has ended.
LEMMA VerdictOwn ==
  ASSUME NEW r \in Requests, Rpc(r), Plain, Flow(r), Own(r), Verdict(r), \A o \in
         Objects : Noted(o), Unused(r)
  PROVE  Verdict(r)'
<1>1. ASSUME NEW k \in Kinds, Arrive(r, k) PROVE Verdict(r)'
  BY <1>1 DEF Arrive, Goto, Finish, Verdict, Flow, Plain, Mine, Fails, Kinds, rpcVars,
     decVars
<1>2. CASE ReadEmptyAddress(r)
  BY <1>2 DEF ReadEmptyAddress, Goto, Finish, Verdict, Flow, Plain, Mine, Fails, Kinds,
     rpcVars, decVars
<1>3. CASE ReadVideo(r)
  <2>1. pc'[r] = "opening" /\ status'[r] = "none"
    BY <1>3 DEF ReadVideo, Goto, Flow, Plain
  <2> QED
    BY <2>1 DEF Verdict
<1>4. CASE EndOfStream(r)
  BY <1>4 DEF EndOfStream, Goto, Finish, Verdict, Flow, Plain, Mine, Fails, Kinds,
     rpcVars, decVars
<1>5. CASE Open(r)
  BY <1>5 DEF Open, Goto, Finish, Verdict, Flow, Plain, Mine, Fails, Kinds, rpcVars,
     decVars
<1>6. CASE Claim(r)
  BY <1>6 DEF Claim, Goto, Verdict, Flow, Plain, Mine, Fails, Kinds, rpcVars, decVars
<1>7. CASE Setup(r)
  BY <1>7 DEF Setup, Goto, Verdict, Flow, Plain, Mine, Fails, Kinds, rpcVars, decVars
<1>8. CASE Run(r)
  BY <1>8 DEF Run, Goto, Verdict, Flow, Plain, Mine, Fails, Kinds, rpcVars, decVars
<1>9. CASE OutputDone(r)
  BY <1>9 DEF OutputDone, Goto, Verdict, Flow, Plain, Mine, Fails, Kinds, rpcVars, decVars
<1>10. CASE OutputStart(r)
  <2>1. pc'[r] \in {"get", "full"} /\ status'[r] = "none"
    BY <1>10 DEF OutputStart, EnterBatch, Goto, Flow, Plain
  <2> QED
    BY <2>1 DEF Verdict
<1>11. CASE GetFrame(r)
  BY <1>11 DEF GetFrame, Verdict, Flow, Plain, Mine, Fails, Kinds, rpcVars, decVars
<1>12. CASE GetEnd(r)
  BY <1>12 DEF GetEnd, Verdict, Flow, Plain, Mine, Fails, Kinds, rpcVars, decVars
<1>13. CASE Forward(r)
  <2>1. pc'[r] \in {"get", "full"} /\ status'[r] = "none"
    BY <1>13 DEF Forward, EnterBatch, Goto, Flow, Plain
  <2> QED
    BY <2>1 DEF Verdict
<1>14. CASE WriteResponse(r)
  BY <1>14 DEF WriteResponse, Goto, Verdict, Flow, Plain, Mine, Fails, Kinds, rpcVars,
     decVars
<1>15. CASE CloseChannel(r)
  BY <1>15 DEF CloseChannel, Goto, CloseInput, Verdict, Flow, Plain, Mine, Fails, Kinds,
     rpcVars, decVars
<1>16. CASE SendSummary(r)
  BY <1>16 DEF SendSummary, Goto, Verdict, Flow, Plain, Mine, Fails, Kinds, rpcVars,
     decVars
<1>17. CASE SendFails(r)
  BY <1>17 DEF SendFails, Goto, Finish, Verdict, Flow, Plain, Mine, Fails, Kinds, rpcVars,
     decVars
<1>18. CASE Join(r)
  <2>1. decoder = Mine(r) /\ Mine(r) \in Objects /\ thread[Mine(r)] = "ended"
    BY <1>18, ObjectFacts DEF Join, Flow, Own, Unused, Running, Mine
  <2>2. aborted[Mine(r)] <=> Fails(Mine(r))
    BY <2>1 DEF Noted
  <2>3. /\ UNCHANGED <<cur, status, kind, video>> /\ status[r] = "none"
        /\ pc'[r] = (IF aborted[Mine(r)] THEN "abort"
                     ELSE IF kind[r] = "annotate" THEN "release" ELSE "read")
    BY <1>18, <2>1 DEF Join, Goto, Flow, Plain
  <2> QED
    BY <2>2, <2>3 DEF Verdict, Fails, Mine
<1>19. CASE Release(r)
  BY <1>19 DEF Release, Goto, Finish, Verdict, Flow, Plain, Mine, Fails, Kinds, rpcVars,
     decVars
<1> QED
  BY <1>1, <1>2, <1>3, <1>4, <1>5, <1>6, <1>7, <1>8, <1>9, <1>10, <1>11, <1>12, <1>13,
     <1>14, <1>15, <1>16, <1>17, <1>18, <1>19 DEF Rpc, RpcStep

LEMMA VerdictFrame ==
  ASSUME NEW r \in Requests, Rpc(r), Plain, Flow(r), Own(r),
         NEW q \in Requests \ {r}, Verdict(q), Flow(q)
  PROVE  Verdict(q)'
<1>1. Same(q)
  BY Frame
<1>2. \A k \in 1..MaxVideos : video'[<<q, k>>] = video[<<q, k>>]
  BY ThreadsOfOthers
<1> QED
  BY <1>1, <1>2 DEF Verdict, Same, Mine, Flow, Fails

\* What a thread noted stays.
LEMMA NotedRpc ==
  ASSUME NEW r \in Requests, Rpc(r), Plain, Flow(r), Own(r), Unused(r), NEW o \in
         Objects, Noted(o)
  PROVE  Noted(o)'
<1>1. ASSUME NEW k \in Kinds, Arrive(r, k) PROVE Noted(o)'
  BY <1>1 DEF Arrive, Noted, Plain, decVars, Fails
<1>2. CASE ReadEmptyAddress(r)
  BY <1>2 DEF ReadEmptyAddress, Noted, Plain, decVars, Fails
<1>3. CASE ReadVideo(r)
  <2>1. kind[r] \in Kinds /\ cur[r] + 1 \in 1..MaxVideos /\ cur[r] + 1 > cur[r]
    BY <1>3, SizeAssumption DEF ReadVideo, Flow, Plain
  <2>2. thread[<<r, cur[r] + 1>>] = "none" /\ UNCHANGED <<thread, target, aborted>>
    BY <1>3, <2>1 DEF ReadVideo, Unused
  <2>3. o # <<r, cur[r] + 1>> => video'[o] = video[o]
    BY <1>3 DEF ReadVideo, Plain
  <2> QED
    BY <2>2, <2>3 DEF Noted, Fails
<1>4. CASE EndOfStream(r)
  BY <1>4 DEF EndOfStream, Noted, Plain, decVars, Fails
<1>5. CASE Open(r)
  BY <1>5 DEF Open, Noted, Plain, decVars, Fails
<1>6. CASE Claim(r)
  BY <1>6 DEF Claim, Noted, Plain, decVars, Fails
<1>7. CASE Setup(r)
  BY <1>7 DEF Setup, Noted, Plain, decVars, Fails
<1>8. CASE Run(r)
  <2>1. /\ decoder = Mine(r) /\ handler = Mine(r) /\ Mine(r) \in Objects
        /\ video[Mine(r)] \in Video /\ thread[Mine(r)] = "none"
    BY <1>8, ObjectFacts DEF Run, Flow, Own, Unused, Before, Mine
  <2> QED
    BY <1>8, <2>1 DEF Run, Noted, Fails, Plain
<1>9. CASE OutputDone(r)
  BY <1>9 DEF OutputDone, Noted, Plain, decVars, Fails
<1>10. CASE OutputStart(r)
  BY <1>10 DEF OutputStart, Noted, Plain, decVars, Fails
<1>11. CASE GetFrame(r)
  BY <1>11 DEF GetFrame, Noted, Plain, decVars, Fails
<1>12. CASE GetEnd(r)
  BY <1>12 DEF GetEnd, Noted, Plain, decVars, Fails
<1>13. CASE Forward(r)
  BY <1>13 DEF Forward, Noted, Plain, decVars, Fails
<1>14. CASE WriteResponse(r)
  BY <1>14 DEF WriteResponse, Noted, Plain, decVars, Fails
<1>15. CASE CloseChannel(r)
  BY <1>15 DEF CloseChannel, CloseInput, Noted, Plain, decVars, Fails
<1>16. CASE SendSummary(r)
  BY <1>16 DEF SendSummary, Noted, Plain, decVars, Fails
<1>17. CASE SendFails(r)
  BY <1>17 DEF SendFails, Noted, Plain, decVars, Fails
<1>18. CASE Join(r)
  <2>1. decoder = Mine(r) /\ Mine(r) \in Objects /\ thread[Mine(r)] = "ended"
    BY <1>18, ObjectFacts DEF Join, Flow, Own, Unused, Running, Mine
  <2> QED
    BY <1>18, <2>1 DEF Join, Noted, Fails, Plain
<1>19. CASE Release(r)
  BY <1>19 DEF Release, Noted, Plain, decVars, Fails
<1> QED
  BY <1>1, <1>2, <1>3, <1>4, <1>5, <1>6, <1>7, <1>8, <1>9, <1>10, <1>11, <1>12, <1>13,
     <1>14, <1>15, <1>16, <1>17, <1>18, <1>19 DEF Rpc, RpcStep

\* A call leaves the places where its thread may run by Join, or as its client has gone.
LEMMA StaysRunning ==
  ASSUME NEW r \in Requests, RpcStep(r), Plain
  PROVE  pc[r] \in Running =>
            (pc'[r] \in Running /\ UNCHANGED cur) \/ Join(r) \/ SendFails(r)
<1>1. CASE ReadEmptyAddress(r)
  BY <1>1 DEF ReadEmptyAddress, Goto, Finish, Running, Plain, rpcVars
<1>2. CASE ReadVideo(r)
  BY <1>2 DEF ReadVideo, Goto, Running, Plain, rpcVars
<1>3. CASE EndOfStream(r)
  BY <1>3 DEF EndOfStream, Goto, Finish, Running, Plain, rpcVars
<1>4. CASE Open(r)
  BY <1>4 DEF Open, Goto, Finish, Running, Plain, rpcVars
<1>5. CASE Claim(r)
  BY <1>5 DEF Claim, Goto, Running, Plain, rpcVars
<1>6. CASE Setup(r)
  BY <1>6 DEF Setup, Goto, Running, Plain, rpcVars
<1>7. CASE Run(r)
  BY <1>7 DEF Run, Goto, Running, Plain, rpcVars
<1>8. CASE OutputDone(r)
  BY <1>8 DEF OutputDone, Goto, Running, Plain, rpcVars
<1>9. CASE OutputStart(r)
  BY <1>9 DEF OutputStart, EnterBatch, Goto, Running, Plain, rpcVars
<1>10. CASE GetFrame(r)
  BY <1>10 DEF GetFrame, Running, Plain, rpcVars
<1>11. CASE GetEnd(r)
  BY <1>11 DEF GetEnd, Running, Plain, rpcVars
<1>12. CASE Forward(r)
  BY <1>12 DEF Forward, EnterBatch, Goto, Running, Plain, rpcVars
<1>13. CASE WriteResponse(r)
  BY <1>13 DEF WriteResponse, Goto, Running, Plain, rpcVars
<1>14. CASE CloseChannel(r)
  BY <1>14 DEF CloseChannel, Goto, Running, Plain, rpcVars
<1>15. CASE SendSummary(r)
  BY <1>15 DEF SendSummary, Goto, Running, Plain, rpcVars
<1>16. CASE SendFails(r)
  BY <1>16 DEF SendFails, Goto, Finish, Running, Plain, rpcVars
<1>17. CASE Join(r)
  BY <1>17 DEF Join, Goto, Running, Plain, rpcVars
<1>18. CASE Release(r)
  BY <1>18 DEF Release, Goto, Finish, Running, Plain, rpcVars
<1> QED
  BY <1>1, <1>2, <1>3, <1>4, <1>5, <1>6, <1>7, <1>8, <1>9, <1>10, <1>11, <1>12, <1>13,
     <1>14, <1>15, <1>16, <1>17, <1>18 DEF RpcStep

\* Threads that run belong to an active call, so to the one that makes the step.
LEMMA Idle ==
  ASSUME Joined, Alone, NoClientGone, NEW r \in Requests, Active(r), pc[r] \notin Running
  PROVE  \A o \in Objects : thread[o] # "decoding"
  BY DEF Joined, Alone, Active, Running

LEMMA ClientGone ==
  ASSUME NEW r \in Requests, Rpc(r), Plain, Flow(r), NoClientGone'
  PROVE  NoClientGone
<1>1. \A q \in Requests \ {r} : Same(q)
  BY Frame
<1>2. pc[r] # "done"
  BY StepActive DEF Rpc, Arrive, Active
<1>3. status[r] = "none"
  BY <1>2 DEF Flow
<1> QED
  BY <1>1, <1>3 DEF NoClientGone, Same

\* Nothing is freed while a thread runs, as long as no client has gone.
LEMMA NothingFreed ==
  ASSUME NEW r \in Requests, Rpc(r), Plain, Flow(r), Own(r), Unused(r), Alone, Joined,
         NoClientGone
  PROVE  ~ub'
<1>1. ASSUME NEW k \in Kinds, Arrive(r, k) PROVE ~ub'
  BY <1>1 DEF Arrive
<1>2. CASE ReadEmptyAddress(r)
  BY <1>2 DEF ReadEmptyAddress
<1>3. CASE ReadVideo(r)
  <2>1. Active(r) /\ pc[r] = "read"
    BY <1>3 DEF ReadVideo, Active
  <2>2. \A o \in Objects : thread[o] # "decoding"
    BY <2>1, Idle DEF Running
  <2>3. \A q \in Requests : pc[q] # "opening"
    BY <2>1 DEF Alone, Active
  <2>4. ~DecoderInUse(decoder)
    BY <2>2, <2>3 DEF DecoderInUse, Plain
  <2> QED
    BY <1>3, <2>4 DEF ReadVideo
<1>4. CASE EndOfStream(r)
  BY <1>4 DEF EndOfStream
<1>5. CASE Open(r)
  BY <1>5 DEF Open
<1>6. CASE Claim(r)
  BY <1>6 DEF Claim
<1>7. CASE Setup(r)
  <2>1. Active(r) /\ pc[r] = "setup"
    BY <1>7 DEF Setup, Active
  <2>2. \A o \in Objects : thread[o] # "decoding"
    BY <2>1, Idle DEF Running
  <2>3. \A q \in Requests : pc[q] \notin {"opening", "get"}
    BY <2>1 DEF Alone, Active
  <2>4. ~HandlerInUse(handler)
    BY <2>2, <2>3 DEF HandlerInUse
  <2> QED
    BY <1>7, <2>3, <2>4 DEF Setup
<1>8. CASE Run(r)
  <2>1. decoder = Mine(r) /\ thread[Mine(r)] = "none"
    BY <1>8 DEF Run, Flow, Own, Unused, Before, Mine
  <2> QED
    BY <1>8, <2>1 DEF Run
<1>9. CASE OutputDone(r)
  BY <1>9 DEF OutputDone
<1>10. CASE OutputStart(r)
  BY <1>10 DEF OutputStart
<1>11. CASE GetFrame(r)
  BY <1>11 DEF GetFrame
<1>12. CASE GetEnd(r)
  BY <1>12 DEF GetEnd
<1>13. CASE Forward(r)
  BY <1>13 DEF Forward
<1>14. CASE WriteResponse(r)
  BY <1>14 DEF WriteResponse
<1>15. CASE CloseChannel(r)
  BY <1>15 DEF CloseChannel
<1>16. CASE SendSummary(r)
  BY <1>16 DEF SendSummary
<1>17. CASE SendFails(r)
  BY <1>17 DEF SendFails
<1>18. CASE Join(r)
  <2>1. decoder = Mine(r) /\ thread[Mine(r)] \in {"decoding", "ended"}
    BY <1>18 DEF Join, Own, Unused, Running
  <2> QED
    BY <1>18, <2>1 DEF Join
<1>19. CASE Release(r)
  BY <1>19 DEF Release
<1> QED
  BY <1>1, <1>2, <1>3, <1>4, <1>5, <1>6, <1>7, <1>8, <1>9, <1>10, <1>11, <1>12, <1>13,
     <1>14, <1>15, <1>16, <1>17, <1>18, <1>19 DEF Rpc, RpcStep

\* Run starts a thread, and nothing else does.
LEMMA Started ==
  ASSUME NEW r \in Requests, Rpc(r), Plain
  PROVE  Run(r) \/ \A o \in Objects : thread'[o] = "decoding" => thread[o] = "decoding"
<1>1. ASSUME NEW k \in Kinds, Arrive(r, k)
      PROVE  \A o \in Objects : thread'[o] = "decoding" => thread[o] = "decoding"
  BY <1>1 DEF Arrive, Plain, decVars
<1>2. CASE ReadEmptyAddress(r)
  BY <1>2 DEF ReadEmptyAddress, Plain, decVars
<1>3. CASE ReadVideo(r)
  BY <1>3 DEF ReadVideo, Plain, decVars
<1>4. CASE EndOfStream(r)
  BY <1>4 DEF EndOfStream, Plain, decVars
<1>5. CASE Open(r)
  BY <1>5 DEF Open, Plain, decVars
<1>6. CASE Claim(r)
  BY <1>6 DEF Claim, Plain, decVars
<1>7. CASE Setup(r)
  BY <1>7 DEF Setup, Plain, decVars
<1>8. CASE Run(r)
  BY <1>8 DEF Run, Plain, decVars
<1>9. CASE OutputDone(r)
  BY <1>9 DEF OutputDone, Plain, decVars
<1>10. CASE OutputStart(r)
  BY <1>10 DEF OutputStart, Plain, decVars
<1>11. CASE GetFrame(r)
  BY <1>11 DEF GetFrame, Plain, decVars
<1>12. CASE GetEnd(r)
  BY <1>12 DEF GetEnd, Plain, decVars
<1>13. CASE Forward(r)
  BY <1>13 DEF Forward, Plain, decVars
<1>14. CASE WriteResponse(r)
  BY <1>14 DEF WriteResponse, Plain, decVars
<1>15. CASE CloseChannel(r)
  BY <1>15 DEF CloseChannel, Plain, decVars
<1>16. CASE SendSummary(r)
  BY <1>16 DEF SendSummary, Plain, decVars
<1>17. CASE SendFails(r)
  BY <1>17 DEF SendFails, Plain, decVars
<1>18. CASE Join(r)
  BY <1>18 DEF Join, Plain, decVars
<1>19. CASE Release(r)
  BY <1>19 DEF Release, Plain, decVars
<1> QED
  BY <1>1, <1>2, <1>3, <1>4, <1>5, <1>6, <1>7, <1>8, <1>9, <1>10, <1>11, <1>12, <1>13,
     <1>14, <1>15, <1>16, <1>17, <1>18, <1>19 DEF Rpc, RpcStep

LEMMA JoinedRpc ==
  ASSUME NEW r \in Requests, Rpc(r), Plain, Flow(r), Own(r), Unused(r), Alone, Joined
  PROVE  Joined'
<1> SUFFICES ASSUME NoClientGone'
             PROVE  /\ \A o \in Objects : thread'[o] = "decoding" =>
                         \E q \in Requests : o = Mine(q)' /\ pc'[q] \in Running
                    /\ ~ub'
  BY DEF Joined
<1>1. NoClientGone
  BY ClientGone
<1>2. ~ub'
  BY <1>1, NothingFreed
<1>3. \A q \in Requests \ {r} : Same(q)
  BY Frame
<1>4. ASSUME NEW o \in Objects, thread'[o] = "decoding"
      PROVE  \E q \in Requests : o = Mine(q)' /\ pc'[q] \in Running
  <2>1. CASE Run(r)
    <3>1. /\ decoder = Mine(r) /\ pc[r] = "run" /\ pc'[r] = "output"
          /\ Mine(r)' = Mine(r) /\ thread' = [thread EXCEPT ![decoder] = "decoding"]
      BY <2>1 DEF Run, Goto, Own, Before, Plain, Mine
    <3>2. thread[o] # "decoding"
      BY <1>1, <3>1, Idle DEF Active, Running
    <3>3. o = Mine(r)
      BY <1>4, <3>1, <3>2 DEF Plain
    <3> QED
      BY <3>1, <3>3 DEF Running
  <2>2. CASE ~Run(r)
    <3>1. thread[o] = "decoding"
      BY <1>4, <2>2, Started
    <3>2. PICK q \in Requests : o = Mine(q) /\ pc[q] \in Running
      BY <1>1, <3>1 DEF Joined
    <3>3. CASE q # r
      BY <1>3, <3>2, <3>3 DEF Same, Mine
    <3>4. CASE q = r
      <4>1. RpcStep(r)
        BY <3>2, <3>4 DEF Rpc, Arrive, Running
      <4>2. ~Join(r)
        BY <1>4, <3>1, <3>2, <3>4 DEF Join, Own
      <4>3. ~SendFails(r)
        BY DEF SendFails, Finish, NoClientGone, Plain
      <4> QED
        BY <3>2, <3>4, <4>1, <4>2, <4>3, StaysRunning DEF Mine
    <3> QED
      BY <3>3, <3>4
  <2> QED
    BY <2>1, <2>2
<1> QED
  BY <1>2, <1>4

\* A frame is counted once, and none that is not there.
LEMMA CountingOwn ==
  ASSUME NEW r \in Requests, Rpc(r), Plain, Flow(r), Own(r), Counting
  PROVE  /\ \A o \in Objects : /\ Len(chan'[o].queue) <= Capacity
                               /\ chan'[o].processed <= chan'[o].total
         /\ pc'[r] = "get" =>
              chan'[Mine(r)'].processed + left'[r] <= chan'[Mine(r)'].total
<1>1. ASSUME NEW k \in Kinds, Arrive(r, k)
      PROVE  /\ \A o \in Objects : /\ Len(chan'[o].queue) <= Capacity
                                   /\ chan'[o].processed <= chan'[o].total
             /\ pc'[r] = "get" =>
                  chan'[Mine(r)'].processed + left'[r] <= chan'[Mine(r)'].total
  BY <1>1 DEF Arrive, Goto, Finish, Counting, Plain, decVars
<1>2. CASE ReadEmptyAddress(r)
  BY <1>2 DEF ReadEmptyAddress, Goto, Finish, Counting, Plain, decVars
<1>3. CASE ReadVideo(r)
  BY <1>3 DEF ReadVideo, Goto, Counting, Plain, decVars
<1>4. CASE EndOfStream(r)
  BY <1>4 DEF EndOfStream, Goto, Finish, Counting, Plain, decVars
<1>5. CASE Open(r)
  BY <1>5 DEF Open, Goto, Finish, Counting, Plain, decVars
<1>6. CASE Claim(r)
  BY <1>6 DEF Claim, Goto, Counting, Plain, decVars
<1>7. CASE Setup(r)
  <2>1. decoder = Mine(r) /\ Mine(r) \in Objects /\ video[decoder] \in Video
    BY <1>7, ObjectFacts DEF Setup, Flow, Own, Before, Mine
  <2>2. video[decoder].meta \in Nat
    BY <2>1 DEF Video
  <2>3. /\ \A o \in Objects \ {Mine(r)} : chan'[o] = chan[o]
        /\ chan'[Mine(r)].queue = <<>> /\ chan'[Mine(r)].processed = 0
        /\ chan'[Mine(r)].total = video[decoder].meta
    BY <1>7, <2>1, <2>2, Made DEF Setup
  <2>4. Len(<<>>) = 0 /\ pc'[r] = "run"
    BY <1>7 DEF Setup, Goto, Plain
  <2> QED
    BY <2>2, <2>3, <2>4, SizeAssumption DEF Counting
<1>8. CASE Run(r)
  BY <1>8 DEF Run, Goto, Counting, Plain, decVars
<1>9. CASE OutputDone(r)
  BY <1>9 DEF OutputDone, Goto, Counting, Plain, decVars
<1>10. CASE OutputStart(r)
  <2>1. handler = Mine(r) /\ handler \in Objects /\ UNCHANGED <<chan, cur>>
    BY <1>10, ObjectFacts DEF OutputStart, Flow, Own, Running, Mine
  <2>2. chan[handler].processed <= chan[handler].total /\ EnterBatch(r, handler, 0)
    BY <1>10, <2>1 DEF OutputStart, Counting
  <2>3. pc'[r] = "get" => chan[handler].processed + left'[r] <= chan[handler].total
    BY <2>1, <2>2, BatchBegins
  <2> QED
    BY <2>1, <2>3 DEF Counting, Mine
<1>11. CASE GetFrame(r)
  <2>1. self[r] = Mine(r) /\ Mine(r) \in Objects /\ UNCHANGED cur /\ Mine(r)' = Mine(r)
    BY <1>11, ObjectFacts DEF GetFrame, Flow, Own, Running, Mine, rpcVars
  <2>2. /\ \A o \in Objects \ {Mine(r)} : chan'[o] = chan[o]
        /\ Len(chan'[Mine(r)].queue) = Len(chan[Mine(r)].queue) - 1
        /\ chan'[Mine(r)].processed = chan[Mine(r)].processed + 1
        /\ chan'[Mine(r)].total = chan[Mine(r)].total
    BY <1>11, <2>1, Taken DEF GetFrame
  <2>3. /\ left'[r] = left[r] - 1 /\ left[r] \in Nat /\ left[r] > 0
        /\ chan[Mine(r)].processed + left[r] <= chan[Mine(r)].total
    BY <1>11, SizeAssumption DEF GetFrame, Counting, Plain
  <2>4. /\ chan[Mine(r)].processed \in Nat /\ chan[Mine(r)].total \in Nat
        /\ Len(chan[Mine(r)].queue) \in Nat
    <3>1. chan[Mine(r)] \in Handler
      BY <2>1 DEF Plain
    <3> QED
      BY <3>1 DEF Handler
  <2>5. Len(chan[Mine(r)].queue) <= Capacity
    BY <2>1 DEF Counting
  <2>6. /\ Len(chan'[Mine(r)].queue) <= Capacity
        /\ chan'[Mine(r)].processed <= chan'[Mine(r)].total
        /\ chan'[Mine(r)].processed + left'[r] <= chan'[Mine(r)].total
    <3>1. Len(chan'[Mine(r)].queue) <= Capacity
      <4>1. \A n \in Nat : n <= Capacity => n - 1 <= Capacity
        BY SizeAssumption
      <4> QED
        BY <2>2, <2>4, <2>5, <4>1
    <3>2. \A p, l, t \in Nat : p + l <= t /\ l > 0 => p + 1 <= t /\ p + 1 + (l - 1) <= t
      OBVIOUS
    <3>3. /\ chan[Mine(r)].processed + 1 <= chan[Mine(r)].total
          /\ chan[Mine(r)].processed + 1 + (left[r] - 1) <= chan[Mine(r)].total
      BY <2>3, <2>4, <3>2
    <3> QED
      BY <2>2, <2>3, <3>1, <3>3
  <2> QED
    BY <2>1, <2>2, <2>6 DEF Counting
<1>12. CASE GetEnd(r)
  <2>1. self[r] = Mine(r) /\ Mine(r) \in Objects /\ UNCHANGED <<chan, cur>> /\ Mine(r)' = Mine(r)
    BY <1>12, ObjectFacts DEF GetEnd, Flow, Own, Running, Mine, rpcVars
  <2>2. /\ left'[r] = left[r] - 1 /\ left[r] \in Nat
        /\ chan[Mine(r)].processed + left[r] <= chan[Mine(r)].total
    BY <1>12, SizeAssumption DEF GetEnd, Counting, Plain
  <2>3. chan[Mine(r)].processed \in Nat /\ chan[Mine(r)].total \in Nat
    BY <2>1 DEF Plain, Handler
  <2> QED
    BY <2>1, <2>2, <2>3 DEF Counting
<1>13. CASE Forward(r)
  <2>1. self[r] = Mine(r) /\ self[r] \in Objects /\ UNCHANGED <<chan, cur>>
    BY <1>13, ObjectFacts DEF Forward, Flow, Own, Running, Mine
  <2>2. /\ chan[self[r]].processed <= chan[self[r]].total /\ batch[r] + 1 \in Nat
        /\ EnterBatch(r, self[r], batch[r] + 1)
    BY <1>13, <2>1 DEF Forward, Counting, Plain
  <2>3. pc'[r] = "get" => chan[self[r]].processed + left'[r] <= chan[self[r]].total
    BY <2>1, <2>2, BatchBegins
  <2> QED
    BY <2>1, <2>3 DEF Counting, Mine
<1>14. CASE WriteResponse(r)
  BY <1>14 DEF WriteResponse, Goto, Counting, Plain, decVars
<1>15. CASE CloseChannel(r)
  <2>1. handler \in Objects /\ pc'[r] # "get"
    BY <1>15, ObjectFacts DEF CloseChannel, Goto, Flow, Own, Running, Mine, Plain
  <2>2. \A o \in Objects : /\ chan'[o].queue = chan[o].queue
                           /\ chan'[o].processed = chan[o].processed
                           /\ chan'[o].total = chan[o].total
    BY <1>15, <2>1, Closed DEF CloseChannel, CloseInput
  <2> QED
    BY <2>1, <2>2 DEF Counting
<1>16. CASE SendSummary(r)
  BY <1>16 DEF SendSummary, Goto, Counting, Plain, decVars
<1>17. CASE SendFails(r)
  BY <1>17 DEF SendFails, Goto, Finish, Counting, Plain, decVars
<1>18. CASE Join(r)
  BY <1>18 DEF Join, Goto, Counting, Plain, decVars
<1>19. CASE Release(r)
  BY <1>19 DEF Release, Goto, Finish, Counting, Plain, decVars
<1> QED
  BY <1>1, <1>2, <1>3, <1>4, <1>5, <1>6, <1>7, <1>8, <1>9, <1>10, <1>11, <1>12, <1>13,
     <1>14, <1>15, <1>16, <1>17, <1>18, <1>19 DEF Rpc, RpcStep

LEMMA CountingRpc ==
  ASSUME NEW r \in Requests, Rpc(r), Plain, Flow(r), Own(r), Counting, Alone
  PROVE  Counting'
<1>1. \A q \in Requests \ {r} : Same(q)
  BY Frame
<1>2. /\ \A o \in Objects : /\ Len(chan'[o].queue) <= Capacity
                            /\ chan'[o].processed <= chan'[o].total
      /\ pc'[r] = "get" =>
           chan'[Mine(r)'].processed + left'[r] <= chan'[Mine(r)'].total
  BY CountingOwn
<1>3. ASSUME NEW q \in Requests \ {r}, pc'[q] = "get"
      PROVE  chan'[Mine(q)'].processed + left'[q] <= chan'[Mine(q)'].total
  <2>1. pc[q] = "get" /\ Active(q)
    BY <1>1, <1>3 DEF Same, Active
  <2>2. \E k \in Kinds : Arrive(r, k)
    BY <2>1, StepActive DEF Rpc, Alone
  <2>3. UNCHANGED <<chan, left, cur>>
    BY <2>2 DEF Arrive, loopVars
  <2> QED
    BY <2>1, <2>3 DEF Counting, Mine
<1> QED
  BY <1>2, <1>3 DEF Counting

\* A decode thread changes its own state and the channel of its handler.
LEMMA DecodeFrameOf ==
  ASSUME NEW o \in Objects, Decode(o), Plain, Noted(o)
  PROVE  /\ UNCHANGED <<available, decoder, handler, rpcVars, loopVars, video, target, ub>>
         /\ thread[o] = "decoding" /\ thread'[o] \in {"decoding", "ended"}
         /\ \A d \in Objects \ {o} : thread'[d] = thread[d] /\ aborted'[d] = aborted[d]
  BY DEF Decode, DecodeOpenFails, DecodeFrame, DecodeEnd, Plain

LEMMA NotedDecode ==
  ASSUME NEW o \in Objects, Decode(o), Plain, Noted(o), NEW d \in Objects, Noted(d)
  PROVE  Noted(d)'
<1>1. CASE DecodeOpenFails(o)
  BY <1>1 DEF DecodeOpenFails, Noted, Fails, Plain
<1>2. CASE DecodeFrame(o)
  BY <1>2 DEF DecodeFrame, Noted, Fails, Plain
<1>3. CASE DecodeEnd(o)
  BY <1>3 DEF DecodeEnd, Noted, Fails, Plain
<1> QED
  BY <1>1, <1>2, <1>3 DEF Decode

LEMMA CountingDecode ==
  ASSUME NEW o \in Objects, Decode(o), Plain, Noted(o), Counting,
         \A r \in Requests : Flow(r)
  PROVE  Counting'
<1>1. target[o] = o /\ UNCHANGED <<pc, left, cur>>
  BY DecodeFrameOf DEF Noted, rpcVars, loopVars
<1>2. /\ \A d \in Objects : Len(chan'[d].queue) <= Capacity
      /\ \A d \in Objects : /\ chan'[d].processed = chan[d].processed
                            /\ chan'[d].total = chan[d].total
  <2>1. CASE DecodeOpenFails(o)
    BY <2>1 DEF DecodeOpenFails, Counting
  <2>2. CASE DecodeFrame(o)
    <3>1. <<o, sent[o]>> \in Frames
      BY DEF Plain, Frames
    <3>2. /\ \A d \in Objects \ {o} : chan'[d] = chan[d]
          /\ Len(chan'[o].queue) = Len(chan[o].queue) + 1
          /\ chan'[o].processed = chan[o].processed /\ chan'[o].total = chan[o].total
      BY <1>1, <2>2, <3>1, Put DEF DecodeFrame
    <3>3. Len(chan[o].queue) < Capacity /\ Len(chan[o].queue) \in Nat
      BY <1>1, <2>2 DEF DecodeFrame, Plain, Handler
    <3>4. Len(chan'[o].queue) <= Capacity
      BY <3>2, <3>3, SizeAssumption
    <3> QED
      BY <3>2, <3>4 DEF Counting
  <2>3. CASE DecodeEnd(o)
    <3>1. chan' = [chan EXCEPT ![o].closed = TRUE]
      BY <1>1, <2>3 DEF DecodeEnd, CloseInput
    <3> QED
      BY <3>1, Closed DEF Counting
  <2> QED
    BY <2>1, <2>2, <2>3 DEF Decode
<1>3. ASSUME NEW r \in Requests, pc'[r] = "get"
      PROVE  chan'[Mine(r)'].processed + left'[r] <= chan'[Mine(r)'].total
  <2>1. Mine(r)' = Mine(r) /\ pc[r] = "get" /\ left'[r] = left[r]
    BY <1>1, <1>3 DEF Mine
  <2>2. Mine(r) \in Objects
    BY <2>1, ObjectFacts DEF Flow, Running, Mine
  <2> QED
    BY <1>2, <2>1, <2>2 DEF Counting
<1> QED
  BY <1>2, <1>3 DEF Counting

LEMMA DecodeStep ==
  ASSUME CoreInv, NEW o \in Objects, Decode(o)
  PROVE  CoreInv'
<1>1. /\ Plain /\ Alone /\ Flag /\ Joined /\ Counting /\ Noted(o)
      /\ \A r \in Requests : Flow(r) /\ Own(r) /\ Unused(r) /\ Verdict(r)
      /\ \A d \in Objects : Noted(d)
  BY DEF CoreInv
<1>2. /\ UNCHANGED <<available, decoder, handler, rpcVars, loopVars, video, target, ub>>
      /\ thread[o] = "decoding" /\ thread'[o] \in {"decoding", "ended"}
      /\ \A d \in Objects \ {o} : thread'[d] = thread[d] /\ aborted'[d] = aborted[d]
  BY <1>1, DecodeFrameOf
<1>3. UNCHANGED <<kind, pc, cur, status, self, left>>
  BY <1>2 DEF rpcVars, loopVars
<1>4. Plain' /\ Counting' /\ \A d \in Objects : Noted(d)'
  BY <1>1, PlainDecode, CountingDecode, NotedDecode
<1>5. Alone' /\ Flag'
  BY <1>1, <1>2, <1>3 DEF Alone, Flag, Active, Busy, InWindow, NoBadSummary
<1>6. ASSUME NEW r \in Requests PROVE Flow(r)' /\ Own(r)' /\ Verdict(r)'
  BY <1>1, <1>2, <1>3 DEF Flow, Own, Verdict, Mine, Fails
<1>7. ASSUME NEW r \in Requests PROVE Unused(r)'
  <2>1. ASSUME NEW k \in 1..MaxVideos, thread[<<r, k>>] = "none"
        PROVE  thread'[<<r, k>>] = "none"
    BY <1>2, <2>1, ObjectFacts
  <2>2. pc[r] \in Running => thread'[Mine(r)] \in {"decoding", "ended"}
    <3> SUFFICES ASSUME pc[r] \in Running PROVE thread'[Mine(r)] \in {"decoding", "ended"}
      OBVIOUS
    <3>1. Mine(r) \in Objects /\ thread[Mine(r)] \in {"decoding", "ended"}
      BY <1>1, ObjectFacts DEF Flow, Unused, Mine
    <3> QED
      BY <1>2, <3>1
  <2> QED
    BY <1>1, <1>3, <2>1, <2>2 DEF Unused, Mine
<1>8. Joined'
  <2>1. \A d \in Objects : thread'[d] = "decoding" => thread[d] = "decoding"
    BY <1>2
  <2> QED
    BY <1>1, <1>2, <1>3, <2>1 DEF Joined, NoClientGone, Mine
<1> QED
  BY <1>4, <1>5, <1>6, <1>7, <1>8 DEF CoreInv

LEMMA RpcInv ==
  ASSUME ~Overlap, CoreInv, NEW r \in Requests, Rpc(r)
  PROVE  CoreInv'
<1>1. /\ Plain /\ Alone /\ Flag /\ Joined /\ Counting
      /\ Flow(r) /\ Own(r) /\ Unused(r) /\ Verdict(r)
      /\ \A o \in Objects : Noted(o)
  BY DEF CoreInv
<1>2. Plain' /\ Counting' /\ Joined'
  BY <1>1, PlainRpc, CountingRpc, JoinedRpc
<1>3. Alone' /\ Flag'
  BY <1>1, AloneRpc, FlagRpc
<1>4. \A o \in Objects : Noted(o)'
  BY <1>1, NotedRpc
<1>5. Flow(r)' /\ Own(r)' /\ Unused(r)' /\ Verdict(r)'
  BY <1>1, FlowOwn, OwnOwn, UnusedOwn, VerdictOwn
<1>6. ASSUME NEW q \in Requests \ {r} PROVE Flow(q)' /\ Own(q)' /\ Unused(q)' /\ Verdict(q)'
  <2>1. Flow(q) /\ Own(q) /\ Unused(q) /\ Verdict(q)
    BY DEF CoreInv
  <2>2. Same(q)
    BY <1>1, Frame
  <2>3. Flow(q)'
    BY <2>1, <2>2 DEF Flow, Same
  <2> QED
    BY <1>1, <2>1, <2>3, OwnFrame, UnusedFrame, VerdictFrame
<1> QED
  BY <1>2, <1>3, <1>4, <1>5, <1>6 DEF CoreInv

LEMMA InitCore == Init => CoreInv
<1> SUFFICES ASSUME Init PROVE CoreInv
  OBVIOUS
<1>1. NoHandler \in Handler
  BY DEF NoHandler, Handler
<1>2. Plain
  <2>1. /\ kind \in [Requests -> Kinds \cup {"none"}] /\ pc \in [Requests -> Places]
        /\ cur \in [Requests -> 0..MaxVideos] /\ status \in [Requests -> Statuses]
        /\ self \in [Requests -> Objects \cup {Null}]
        /\ batch \in [Requests -> Nat] /\ left \in [Requests -> 0..BatchSize]
    BY SizeAssumption DEF Init, Places, Statuses
  <2>2. /\ video \in [Objects -> Video \cup {Null}]
        /\ thread \in [Objects -> {"none", "decoding", "ended", "joined"}]
        /\ target \in [Objects -> Objects \cup {Null}]
        /\ sent \in [Objects -> Nat] /\ aborted \in [Objects -> BOOLEAN]
        /\ chan \in [Objects -> Handler]
    BY <1>1 DEF Init
  <2> QED
    BY <2>1, <2>2 DEF Init, Plain
<1>3. Alone /\ Flag
  BY DEF Init, Alone, Flag, Active, Busy, InWindow
<1>4. Joined
  BY DEF Init, Joined
<1>5. Counting
  <2>1. NoHandler.queue = <<>> /\ NoHandler.processed = 0 /\ NoHandler.total = 0
    BY DEF NoHandler
  <2>2. Len(<<>>) = 0
    OBVIOUS
  <2> QED
    BY <2>1, <2>2, SizeAssumption DEF Init, Counting
<1>6. ASSUME NEW r \in Requests PROVE Flow(r) /\ Own(r) /\ Verdict(r)
  BY <1>2 DEF Init, Flow, Own, Verdict, Before, Running
<1>7. ASSUME NEW r \in Requests PROVE Unused(r)
  BY ObjectFacts DEF Init, Unused, Before, Running
<1>8. \A o \in Objects : Noted(o)
  BY DEF Init, Noted
<1> QED
  BY <1>2, <1>3, <1>4, <1>5, <1>6, <1>7, <1>8 DEF CoreInv

LEMMA StepCore == ~Overlap /\ CoreInv /\ [Next]_vars => CoreInv'
<1> SUFFICES ASSUME ~Overlap, CoreInv, [Next]_vars PROVE CoreInv'
  OBVIOUS
<1>1. CASE \E r \in Requests : Rpc(r)
  BY <1>1, RpcInv
<1>2. CASE \E o \in Objects : Decode(o)
  BY <1>2, DecodeStep
<1>3. CASE UNCHANGED vars
  <2>1. UNCHANGED <<available, decoder, handler, kind, pc, cur, status, self, batch, left,
                    video, thread, target, sent, aborted, chan, ub>>
    BY <1>3 DEF vars, rpcVars, loopVars, decVars
  <2>2. Plain' /\ Counting'
    BY <2>1 DEF CoreInv, Plain, Counting, Mine
  <2>3. Alone' /\ Flag'
    BY <2>1 DEF CoreInv, Alone, Flag, Active, Busy, InWindow, NoBadSummary
  <2>4. Joined' /\ \A o \in Objects : Noted(o)'
    BY <2>1 DEF CoreInv, Joined, NoClientGone, Noted, Fails, Mine
  <2>5. ASSUME NEW r \in Requests PROVE Flow(r)' /\ Own(r)' /\ Unused(r)' /\ Verdict(r)'
    BY <2>1 DEF CoreInv, Flow, Own, Unused, Verdict, Fails, Mine
  <2> QED
    BY <2>2, <2>3, <2>4, <2>5 DEF CoreInv
<1> QED
  BY <1>1, <1>2, <1>3, NextCases

-----------------------------------------------------------------------------
\* CoreInv holds in every reachable state, for any number of calls and videos, as long as
\* no call arrives within another's test and claim of the flag.
THEOREM CoreInvariant == ~Overlap => (Spec => []CoreInv)
<1> SUFFICES ASSUME ~Overlap PROVE Spec => []CoreInv
  OBVIOUS
<1>1. CoreInv /\ [Next]_vars => CoreInv'
  BY StepCore
<1> QED
  BY <1>1, InitCore, PTL DEF Spec

\* Types; the channel stays within its capacity and the handler within the announced
\* number of frames (channel.h:17-22, handler.cpp:27-46).
THEOREM CoreTypes == ~Overlap => (Spec => []TypeOK)
<1> SUFFICES ASSUME ~Overlap PROVE Spec => []TypeOK
  OBVIOUS
<1>1. CoreInv => TypeOK
  <2> SUFFICES ASSUME CoreInv PROVE TypeOK
    OBVIOUS
  <2>1. Plain /\ Counting
    BY DEF CoreInv
  <2>2. ASSUME NEW o \in Objects
        PROVE  Len(chan[o].queue) <= Capacity /\ chan[o].processed \in 0..chan[o].total
    <3>1. /\ chan[o].processed \in Nat /\ chan[o].total \in Nat
          /\ Len(chan[o].queue) <= Capacity /\ chan[o].processed <= chan[o].total
      BY <2>1 DEF Plain, Handler, Counting
    <3> QED
      BY <3>1
  <2> QED
    BY <2>1, <2>2 DEF Plain, Places, TypeOK
<1> QED
  BY <1>1, CoreInvariant, PTL

\* One video at a time: whoever has claimed the core has it alone, and the decoder and the
\* handler there are its own (main.cpp:88-90).
THEOREM CoreOneVideo == ~Overlap => (Spec => []OneVideoAtATime)
<1> SUFFICES ASSUME ~Overlap PROVE Spec => []OneVideoAtATime
  OBVIOUS
<1>1. CoreInv => OneVideoAtATime
  BY DEF CoreInv, Alone, Own, OneVideoAtATime, FlagKeepsOthersOut, Busy, Active,
         Running
<1> QED
  BY <1>1, CoreInvariant, PTL

\* No decoder or handler is replaced while a thread uses it, and none is run or joined
\* twice, unless a client of a summary stream has gone away (main.cpp:84, 92, 95, 105).
THEOREM CoreMemory == ~Overlap => (Spec => []NoUseAfterFree)
<1> SUFFICES ASSUME ~Overlap PROVE Spec => []NoUseAfterFree
  OBVIOUS
<1>1. CoreInv => NoUseAfterFree
  BY DEF CoreInv, Joined, NoUseAfterFree
<1> QED
  BY <1>1, CoreInvariant, PTL

\* The flag tells the truth: it is up exactly when no call holds the core, unless a summary
\* stream has named a video that cannot be opened, and while it is up no decode thread runs,
\* unless a client of a summary stream has gone away
\* (main.cpp:90, 105, 106, 111, 123, 145-148, 157).
THEOREM CoreFlag == ~Overlap => (Spec => []FlagTellsTruth)
<1> SUFFICES ASSUME ~Overlap PROVE Spec => []FlagTellsTruth
  OBVIOUS
<1>1. ASSUME CoreInv, NoBadSummary, \A r \in Requests : ~Busy(r)
      PROVE  available
  <2>1. CASE \E r \in Requests : Active(r)
    BY <1>1, <2>1 DEF CoreInv, Flag, Busy, Active
  <2>2. CASE \A r \in Requests : ~Active(r)
    BY <1>1, <2>2 DEF CoreInv, Flag
  <2> QED
    BY <2>1, <2>2 DEF CoreInv
<1>2. ASSUME CoreInv, NoClientGone, available, NEW o \in Objects, thread[o] = "decoding"
      PROVE  FALSE
  <2>1. PICK r \in Requests : pc[r] \in Running
    BY <1>2 DEF CoreInv, Joined
  <2>2. Busy(r)
    BY <2>1 DEF Busy, InWindow, Running
  <2> QED
    BY <1>2, <2>2 DEF CoreInv, Flag
<1>3. CoreInv => FlagTellsTruth
  BY <1>1, <1>2 DEF CoreInv, Flag, FlagTellsTruth
<1> QED
  BY <1>3, CoreInvariant, PTL

\* An exception of the decoder is reported, and as nothing else (decode.h:75-78).
THEOREM CoreAborts == ~Overlap => (Spec => []AbortReported)
<1> SUFFICES ASSUME ~Overlap PROVE Spec => []AbortReported
  OBVIOUS
<1>1. CoreInv => AbortReported
  BY DEF CoreInv, Verdict, Fails, AbortReported
<1> QED
  BY <1>1, CoreInvariant, PTL

=============================================================================
