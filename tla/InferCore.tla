------------------------------ MODULE InferCore ------------------------------
(***************************************************************************)
(* The inference core: InferCoreImpl of cpp/app/infer_core/src/main.cpp,   *)
(* with the Handler (cpp/common/handler.h, handler.cpp) and the CPUDecoder *)
(* (cpp/common/decode.h) it drives.  Every RPC runs on a thread of the     *)
(* gRPC server; a decoder runs its own thread, which feeds the channel of  *)
(* a handler.  All RPCs share the availability flag and the two            *)
(* unique_ptr members decoder_ and handler_, which each video replaces.    *)
(* The channel is the atomic one that Channel implements.                  *)
(***************************************************************************)
EXTENDS Integers, Sequences, FiniteSets

CONSTANTS Requests,    \* AnnotateVideo and AnnotateVideoSummary calls
          MaxVideos,   \* bound: videos sent on one AnnotateVideoSummary stream
          Videos,      \* [Kinds -> SUBSET Video]: what clients ask for
          Capacity,    \* of a frame channel (100 in the code)
          BatchSize,   \* frames per forward (Pipeline::GetBatchSize)
          BatchNum,    \* batches per response: output_interval / batch size
          Overlap,     \* may a call arrive while another is between its test of
                       \* the availability flag and its setting it?
          WriteFails   \* may a client of a summary stream go away?

Kinds == {"annotate", "summary"}

\* What matters of a video: the address is not empty; Open succeeds; the frame
\* count its metadata announces; the decode thread can open it again; the frames
\* it yields; whether cv::Exception is thrown after them.
Video == [addr : BOOLEAN, opens : BOOLEAN, meta : Nat, reopens : BOOLEAN,
          frames : Nat, throws : BOOLEAN]

ASSUME SizeAssumption == /\ Capacity \in Nat \ {0}
                         /\ BatchSize \in Nat \ {0}
                         /\ BatchNum \in Nat \ {0}
                         /\ MaxVideos \in Nat \ {0}
ASSUME RegimeAssumption == Overlap \in BOOLEAN /\ WriteFails \in BOOLEAN
ASSUME VideosAssumption == Videos \in [Kinds -> SUBSET Video]

\* A decoder and a handler are created for each video of each call and named by
\* it: the k-th video of call r.
Objects == Requests \X (1..MaxVideos)
Null == <<>>

Statuses == {"none", "OK", "INTERNAL", "INVALID_ARGUMENT", "ABORTED", "UNKNOWN"}

VARIABLES available,   \* available_
          decoder,     \* decoder_: an object or Null
          handler,     \* handler_: an object or Null
          kind, pc,    \* [Requests -> ...]: which RPC, where it is in it
          cur,         \* number of videos read from the client so far
          status,      \* what the call returned
          self,        \* the handler GetOutput was called on
          batch, left, \* its loop counters: batch i, frames left in the batch
          resp,        \* frames annotated in the response being built
          out,         \* frames in the responses written for the current video
          video,       \* [Objects -> Video or Null]: what the decoder opened
          thread,      \* [Objects -> ...]: decode_thread_ of the decoder
          target,      \* the handler the decode thread feeds
          sent,        \* frames the decode thread has put
          aborted,     \* aborted_flag_
          chan,        \* [Objects -> ...]: the fields of the handler
          ub           \* a freed or unopened object was used, or the process
                       \* called std::terminate: nothing is known afterwards

rpcVars == <<kind, pc, cur, status>>
loopVars == <<self, batch, left, resp, out>>
decVars == <<video, thread, target, sent, aborted>>
vars == <<available, decoder, handler, rpcVars, loopVars, decVars, chan, ub>>

NoHandler == [queue |-> <<>>, closed |-> FALSE, total |-> 0, processed |-> 0]

Init == /\ available = TRUE
        /\ decoder = Null /\ handler = Null
        /\ kind = [r \in Requests |-> "none"]
        /\ pc = [r \in Requests |-> "idle"]
        /\ cur = [r \in Requests |-> 0]
        /\ status = [r \in Requests |-> "none"]
        /\ self = [r \in Requests |-> Null]
        /\ batch = [r \in Requests |-> 0]
        /\ left = [r \in Requests |-> 0]
        /\ resp = [r \in Requests |-> <<>>]
        /\ out = [r \in Requests |-> <<>>]
        /\ video = [o \in Objects |-> Null]
        /\ thread = [o \in Objects |-> "none"]
        /\ target = [o \in Objects |-> Null]
        /\ sent = [o \in Objects |-> 0]
        /\ aborted = [o \in Objects |-> FALSE]
        /\ chan = [o \in Objects |-> NoHandler]
        /\ ub = FALSE

-----------------------------------------------------------------------------
\* The object for the video call r is working on.
Mine(r) == <<r, cur[r]>>

Goto(r, l) == pc' = [pc EXCEPT ![r] = l]

Finish(r, s) == Goto(r, "done") /\ status' = [status EXCEPT ![r] = s]

\* r has seen available_ = true and not yet set it to false.
InWindow(r) == \/ kind[r] = "annotate" /\ pc[r] \in {"read", "opening", "claim"}
               \/ kind[r] = "summary" /\ pc[r] = "read" /\ cur[r] = 0

\* r has set available_ to false and not yet back to true.
Busy(r) == pc[r] \notin {"idle", "done"} /\ ~InWindow(r)

\* Some thread runs a method of this decoder, or of this handler: freeing it now
\* is a use after free when that thread goes on.
DecoderInUse(d) == /\ d # Null
                   /\ \/ thread[d] = "decoding"
                      \/ \E r \in Requests : pc[r] = "opening" /\ Mine(r) = d
HandlerInUse(h) == /\ h # Null
                   /\ \/ \E d \in Objects : thread[d] = "decoding" /\ target[d] = h
                      \/ \E r \in Requests : pc[r] = "get" /\ self[r] = h

\* ceil(total / batch size): total_batch_num_ of SetVideoMeta.
TotalBatches(total) == total \div BatchSize
                       + (IF total % BatchSize # 0 THEN 1 ELSE 0)

\* How many batches one call of GetOutput or GetOutputSummary runs.
Batches(r, h) == IF kind[r] = "annotate" THEN BatchNum
                 ELSE TotalBatches(chan[h].total)

\* Start batch number b of the loop over handler h, or leave the loop.  A batch
\* takes as many frames as remain, at most BatchSize.
EnterBatch(r, h, b) ==
  /\ batch' = [batch EXCEPT ![r] = b]
  /\ IF b = Batches(r, h)
     THEN left' = [left EXCEPT ![r] = 0] /\ Goto(r, "full")
     ELSE LET rest == chan[h].total - chan[h].processed IN
          /\ left' = [left EXCEPT ![r] = IF rest < BatchSize THEN rest ELSE BatchSize]
          /\ Goto(r, "get")

CloseInput(h) == chan' = [chan EXCEPT ![h].closed = TRUE]

-----------------------------------------------------------------------------
\* Plausible faults, one for each property.

\* GetOutput counts a frame it did not get.
GetEndCounting(r) ==
  /\ ~ub
  /\ pc[r] = "get" /\ left[r] > 0
  /\ chan[self[r]].queue = <<>> /\ chan[self[r]].closed
  /\ left' = [left EXCEPT ![r] = @ - 1]
  /\ chan' = [chan EXCEPT ![self[r]].processed = @ + 1]
  /\ UNCHANGED <<available, decoder, handler, rpcVars, self, batch, resp, out,
                 decVars, ub>>

\* AnnotateVideo forgets to mark the core as unavailable.
ClaimNothing(r) ==
  /\ ~ub
  /\ kind[r] = "annotate" /\ pc[r] = "claim"
  /\ Goto(r, "setup")
  /\ UNCHANGED <<available, decoder, handler, kind, cur, status, loopVars, decVars,
                 chan, ub>>

\* Join does not wait for the decode thread.
JoinAtOnce(r) ==
  /\ ~ub
  /\ pc[r] = "join"
  /\ Goto(r, IF aborted[decoder] THEN "abort"
             ELSE IF kind[r] = "annotate" THEN "release" ELSE "read")
  /\ UNCHANGED <<available, decoder, handler, kind, cur, status, loopVars, decVars,
                 chan, ub>>

\* The exit after an exception leaves the core unavailable.
ReleaseOnlyOK(r) ==
  /\ ~ub
  /\ pc[r] \in {"release", "abort"}
  /\ Finish(r, IF pc[r] = "release" THEN "OK" ELSE "ABORTED")
  /\ available' = (available \/ pc[r] = "release")
  /\ UNCHANGED <<decoder, handler, kind, cur, loopVars, decVars, chan, ub>>

\* The loop of GetOutputSummary forgets to count its batches.
ForwardSameBatch(r) ==
  /\ ~ub
  /\ pc[r] = "get" /\ left[r] = 0
  /\ EnterBatch(r, self[r], batch[r])
  /\ UNCHANGED <<available, decoder, handler, kind, cur, status, self, resp, out, decVars,
                 chan, ub>>

\* Put lets one frame too many into the channel.
DecodeFrameTooMany(o) ==
  /\ ~ub
  /\ thread[o] = "decoding" /\ video[o].reopens
  /\ sent[o] < video[o].frames
  /\ Len(chan[target[o]].queue) <= Capacity
  /\ chan' = [chan EXCEPT ![target[o]].queue = Append(@, <<o, sent[o]>>)]
  /\ sent' = [sent EXCEPT ![o] = @ + 1]
  /\ UNCHANGED <<available, decoder, handler, rpcVars, loopVars, video, thread, target,
                 aborted, ub>>

\* The decode thread ends without closing the channel.
DecodeEndOpen(o) ==
  /\ ~ub
  /\ thread[o] = "decoding" /\ video[o].reopens /\ sent[o] = video[o].frames
  /\ thread' = [thread EXCEPT ![o] = "ended"]
  /\ aborted' = [aborted EXCEPT ![o] = video[o].throws]
  /\ UNCHANGED <<available, decoder, handler, rpcVars, loopVars, video, target, sent,
                 chan, ub>>

-----------------------------------------------------------------------------
\* A call arrives at the server and tests GetAvailablity.
Arrive(r, k) ==
  /\ ~ub
  /\ pc[r] = "idle"
  /\ Overlap \/ \A q \in Requests : ~InWindow(q)
  /\ kind' = [kind EXCEPT ![r] = k]
  /\ IF available THEN Goto(r, "read") /\ UNCHANGED status
                  ELSE Finish(r, "INTERNAL")
  /\ UNCHANGED <<available, decoder, handler, cur, loopVars, decVars, chan, ub>>

\* The call takes the next video: the request of AnnotateVideo, or what Read
\* returns on a summary stream, which sets the flag first.  An empty address ends
\* the call; a summary leaves the flag as it is.
ReadEmptyAddress(r) ==
  /\ ~ub
  /\ pc[r] = "read"
  /\ cur[r] < IF kind[r] = "annotate" THEN 1 ELSE MaxVideos
  /\ \E v \in Videos[kind[r]] : ~v.addr
  /\ available' = (available /\ kind[r] = "annotate")
  /\ Finish(r, "INVALID_ARGUMENT")
  /\ UNCHANGED <<decoder, handler, kind, cur, loopVars, decVars, chan, ub>>

\* decoder_.reset(new CPUDecoder()), then the call of Open on it.
ReadVideo(r) ==
  /\ ~ub
  /\ pc[r] = "read"
  /\ cur[r] < IF kind[r] = "annotate" THEN 1 ELSE MaxVideos
  /\ \E v \in Videos[kind[r]] :
       /\ v.addr
       /\ video' = [video EXCEPT ![<<r, cur[r] + 1>>] = v]
  /\ available' = (available /\ kind[r] = "annotate")
  /\ cur' = [cur EXCEPT ![r] = @ + 1]
  /\ decoder' = <<r, cur[r] + 1>>
  /\ ub' = DecoderInUse(decoder)
  /\ out' = [out EXCEPT ![r] = <<>>]
  /\ Goto(r, "opening")
  /\ UNCHANGED <<handler, kind, status, self, batch, left, resp, thread, target, sent,
                 aborted, chan>>

\* The client has ended its summary stream.
EndOfStream(r) ==
  /\ ~ub
  /\ kind[r] = "summary" /\ pc[r] = "read"
  /\ available' = TRUE
  /\ Finish(r, "OK")
  /\ UNCHANGED <<decoder, handler, kind, cur, loopVars, decVars, chan, ub>>

Open(r) ==
  /\ ~ub
  /\ pc[r] = "opening"
  /\ IF ~video[Mine(r)].opens THEN Finish(r, "INVALID_ARGUMENT")
     ELSE /\ Goto(r, IF kind[r] = "annotate" THEN "claim" ELSE "setup")
          /\ UNCHANGED status
  /\ UNCHANGED <<available, decoder, handler, kind, cur, loopVars, decVars, chan, ub>>

Claim(r) ==
  /\ ~ub
  /\ kind[r] = "annotate" /\ pc[r] = "claim"
  /\ available' = FALSE
  /\ Goto(r, "setup")
  /\ UNCHANGED <<decoder, handler, kind, cur, status, loopVars, decVars, chan, ub>>

\* handler_.reset(new Handler(...)) and SetVideoMeta with the metadata of
\* decoder_, whichever call put that there.
Setup(r) ==
  /\ ~ub
  /\ pc[r] = "setup"
  /\ handler' = Mine(r)
  /\ chan' = [chan EXCEPT ![Mine(r)] = [NoHandler EXCEPT !.total = video[decoder].meta]]
  /\ ub' = \/ HandlerInUse(handler)
           \/ \E q \in Requests : pc[q] = "opening" /\ Mine(q) = decoder
  /\ Goto(r, "run")
  /\ UNCHANGED <<available, decoder, kind, cur, status, loopVars, decVars>>

\* decoder_->Run(handler_.get()).  Running a decoder twice destroys a joinable
\* std::thread.
Run(r) ==
  /\ ~ub
  /\ pc[r] = "run"
  /\ thread' = [thread EXCEPT ![decoder] = "decoding"]
  /\ target' = [target EXCEPT ![decoder] = handler]
  /\ ub' = (thread[decoder] # "none")
  /\ Goto(r, "output")
  /\ UNCHANGED <<available, decoder, handler, kind, cur, status, loopVars, video, sent,
                 aborted, chan>>

\* GetOutput returns false once all announced frames are processed.
OutputDone(r) ==
  /\ ~ub
  /\ kind[r] = "annotate" /\ pc[r] = "output"
  /\ chan[handler].processed = chan[handler].total
  /\ Goto(r, "close")
  /\ UNCHANGED <<available, decoder, handler, kind, cur, status, loopVars, decVars,
                 chan, ub>>

OutputStart(r) ==
  /\ ~ub
  /\ pc[r] = "output"
  /\ kind[r] = "summary" \/ chan[handler].processed # chan[handler].total
  /\ self' = [self EXCEPT ![r] = handler]
  /\ resp' = [resp EXCEPT ![r] = <<>>]
  /\ EnterBatch(r, handler, 0)
  /\ UNCHANGED <<available, decoder, handler, kind, cur, status, out, decVars, chan, ub>>

\* frame_chan_.Get hands out a frame ...
GetFrame(r) ==
  LET h == self[r] IN
  /\ ~ub
  /\ pc[r] = "get" /\ left[r] > 0
  /\ chan[h].queue # <<>>
  /\ resp' = [resp EXCEPT ![r] = Append(@, Head(chan[h].queue))]
  /\ left' = [left EXCEPT ![r] = @ - 1]
  /\ chan' = [chan EXCEPT ![h].queue = Tail(@), ![h].processed = @ + 1]
  /\ UNCHANGED <<available, decoder, handler, rpcVars, self, batch, out, decVars, ub>>

\* ... or fails on a closed and drained channel: the frame is not counted.
GetEnd(r) ==
  /\ ~ub
  /\ pc[r] = "get" /\ left[r] > 0
  /\ chan[self[r]].queue = <<>> /\ chan[self[r]].closed
  /\ left' = [left EXCEPT ![r] = @ - 1]
  /\ UNCHANGED <<available, decoder, handler, rpcVars, self, batch, resp, out, decVars,
                 chan, ub>>

\* pipeline_->Forward annotates the batch.
Forward(r) ==
  /\ ~ub
  /\ pc[r] = "get" /\ left[r] = 0
  /\ EnterBatch(r, self[r], batch[r] + 1)
  /\ UNCHANGED <<available, decoder, handler, kind, cur, status, self, resp, out, decVars,
                 chan, ub>>

\* AnnotateVideo streams the response, and ignores whether the client got it;
\* AnnotateVideoSummary closes the channel first.
WriteResponse(r) ==
  /\ ~ub
  /\ kind[r] = "annotate" /\ pc[r] = "full"
  /\ out' = [out EXCEPT ![r] = @ \o resp[r]]
  /\ resp' = [resp EXCEPT ![r] = <<>>]
  /\ Goto(r, "output")
  /\ UNCHANGED <<available, decoder, handler, kind, cur, status, self, batch, left,
                 decVars, chan, ub>>

CloseChannel(r) ==
  /\ ~ub
  /\ \/ kind[r] = "annotate" /\ pc[r] = "close" /\ Goto(r, "join")
     \/ kind[r] = "summary" /\ pc[r] = "full" /\ Goto(r, "send")
  /\ CloseInput(handler)
  /\ UNCHANGED <<available, decoder, handler, kind, cur, status, loopVars, decVars, ub>>

SendSummary(r) ==
  /\ ~ub
  /\ pc[r] = "send"
  /\ out' = [out EXCEPT ![r] = resp[r]]
  /\ resp' = [resp EXCEPT ![r] = <<>>]
  /\ Goto(r, "join")
  /\ UNCHANGED <<available, decoder, handler, kind, cur, status, self, batch, left,
                 decVars, chan, ub>>

\* The client has gone: return without joining the decode thread.
SendFails(r) ==
  /\ ~ub
  /\ WriteFails
  /\ pc[r] = "send"
  /\ available' = TRUE
  /\ Finish(r, "UNKNOWN")
  /\ UNCHANGED <<decoder, handler, kind, cur, loopVars, decVars, chan, ub>>

\* decoder_->Join() waits for the thread; joining none, or one that somebody else
\* joined, throws std::system_error.
Join(r) ==
  /\ ~ub
  /\ pc[r] = "join"
  /\ thread[decoder] # "decoding"
  /\ ub' = (thread[decoder] # "ended")
  /\ thread' = [thread EXCEPT ![decoder] = "joined"]
  /\ Goto(r, IF aborted[decoder] THEN "abort"
             ELSE IF kind[r] = "annotate" THEN "release" ELSE "read")
  /\ UNCHANGED <<available, decoder, handler, kind, cur, status, loopVars, video, target,
                 sent, aborted, chan>>

Release(r) ==
  /\ ~ub
  /\ pc[r] \in {"release", "abort"}
  /\ available' = TRUE
  /\ Finish(r, IF pc[r] = "release" THEN "OK" ELSE "ABORTED")
  /\ UNCHANGED <<decoder, handler, kind, cur, loopVars, decVars, chan, ub>>

\* The decode thread of decoder o: it opens the video again and gives up silently
\* when that fails, puts the frames (blocked while the channel is full, whether
\* or not it is closed), notes an exception, and closes the channel.
DecodeOpenFails(o) ==
  /\ ~ub
  /\ thread[o] = "decoding" /\ ~video[o].reopens
  /\ thread' = [thread EXCEPT ![o] = "ended"]
  /\ UNCHANGED <<available, decoder, handler, rpcVars, loopVars, video, target, sent,
                 aborted, chan, ub>>

DecodeFrame(o) ==
  /\ ~ub
  /\ thread[o] = "decoding" /\ video[o].reopens
  /\ sent[o] < video[o].frames
  /\ Len(chan[target[o]].queue) < Capacity
  /\ chan' = [chan EXCEPT ![target[o]].queue = Append(@, <<o, sent[o]>>)]
  /\ sent' = [sent EXCEPT ![o] = @ + 1]
  /\ UNCHANGED <<available, decoder, handler, rpcVars, loopVars, video, thread, target,
                 aborted, ub>>

DecodeEnd(o) ==
  /\ ~ub
  /\ thread[o] = "decoding" /\ video[o].reopens /\ sent[o] = video[o].frames
  /\ thread' = [thread EXCEPT ![o] = "ended"]
  /\ aborted' = [aborted EXCEPT ![o] = video[o].throws]
  /\ CloseInput(target[o])
  /\ UNCHANGED <<available, decoder, handler, rpcVars, loopVars, video, target, sent, ub>>

-----------------------------------------------------------------------------
RpcStep(r) == \/ ReadEmptyAddress(r) \/ ReadVideo(r) \/ EndOfStream(r)
              \/ Open(r) \/ Claim(r) \/ Setup(r) \/ Run(r)
              \/ OutputDone(r) \/ OutputStart(r) \/ GetFrame(r) \/ GetEnd(r)
              \/ Forward(r) \/ WriteResponse(r) \/ CloseChannel(r)
              \/ SendSummary(r) \/ SendFails(r) \/ Join(r) \/ Release(r)

Decode(o) == DecodeOpenFails(o) \/ DecodeFrame(o) \/ DecodeEnd(o)

Next == \/ \E r \in Requests, k \in Kinds : Arrive(r, k)
        \/ \E r \in Requests : RpcStep(r)
        \/ \E o \in Objects : Decode(o)

Spec == Init /\ [][Next]_vars

\* A thread of the server or of a decoder that can run does run, and the client
\* of a summary stream sends its videos and then ends the stream.
Fairness == /\ \A r \in Requests : WF_vars(RpcStep(r))
            /\ \A o \in Objects : WF_vars(Decode(o))

FairSpec == Spec /\ Fairness

-----------------------------------------------------------------------------
\* The frames video v yields, and the first n frames of decoder o.
Decodable(v) == IF v.reopens THEN v.frames ELSE 0
FirstFrames(o, n) == [i \in 1..n |-> <<o, i - 1>>]

\* Type invariant: the channels keep to their capacity and the handler to the
\* announced number of frames, which the loop test of GetOutput relies on.
TypeOK ==
  /\ available \in BOOLEAN /\ ub \in BOOLEAN
  /\ decoder \in Objects \cup {Null} /\ handler \in Objects \cup {Null}
  /\ kind \in [Requests -> Kinds \cup {"none"}]
  /\ pc \in [Requests -> {"idle", "read", "opening", "claim", "setup", "run", "output",
                          "get", "full", "close", "send", "join", "release", "abort",
                          "done"}]
  /\ cur \in [Requests -> 0..MaxVideos]
  /\ status \in [Requests -> Statuses]
  /\ self \in [Requests -> Objects \cup {Null}]
  /\ batch \in [Requests -> Nat] /\ left \in [Requests -> 0..BatchSize]
  /\ thread \in [Objects -> {"none", "decoding", "ended", "joined"}]
  /\ target \in [Objects -> Objects \cup {Null}]
  /\ \A o \in Objects : /\ Len(chan[o].queue) <= Capacity
                        /\ chan[o].processed \in 0..chan[o].total

\* The availability flag keeps other calls out: no two calls are between setting it and
\* giving the core back.  "The pipeline only do forwarding on one video at one time, so
\* set the availablity to false to avoid multiple video annotations." (main.cpp:88-89)
FlagKeepsOthersOut ==
  \A r, q \in Requests : Busy(r) /\ Busy(q) => r = q

\* One video at a time: no two calls have the core, and the frames a call takes come
\* from the handler it made.
OneVideoAtATime ==
  /\ FlagKeepsOthersOut
  /\ \A r \in Requests :
       Busy(r) /\ pc[r] \in {"output", "get", "full", "close", "send", "join"}
         => handler = Mine(r) /\ decoder = Mine(r)

\* No client of a summary stream has gone away: then the decode thread of its video
\* is left behind (main.cpp:145-148) and two of the properties below are lost.
NoClientGone == \A r \in Requests : status[r] # "UNKNOWN"

\* No summary stream has named a video that cannot be opened: such a call returns
\* and leaves the core unavailable for good (main.cpp:127-133).
NoBadSummary == ~ \E r \in Requests : kind[r] = "summary" /\ status[r] = "INVALID_ARGUMENT"

\* No thread touches a decoder or handler another one has freed or not yet
\* opened, no decoder is run or joined twice (main.cpp:84, 92, 95, 105).
NoUseAfterFree == NoClientGone => ~ub

\* The flag tells the truth to whoever polls CheckInferenceCore: the core is
\* available exactly when no call holds it, and then no decode thread is left
\* running (main.cpp:90, 106, 111, 123, 157).
FlagTellsTruth ==
  LET free == \A r \in Requests : ~Busy(r) IN
  /\ available => free
  /\ NoBadSummary /\ free => available
  /\ NoClientGone /\ available => \A o \in Objects : thread[o] # "decoding"

\* A video has been answered, when the call comes to join the decode thread, with
\* its own frames, each once, in order and from the first: all it announced for
\* AnnotateVideo, those that could be decoded for a summary (handler.cpp:27-67).
ResponsesComplete ==
  \A r \in Requests :
    pc[r] \in {"join", "release", "abort"} =>
      LET v == video[Mine(r)]
          n == IF kind[r] = "summary" /\ Decodable(v) < v.meta
               THEN Decodable(v) ELSE v.meta
      IN out[r] = FirstFrames(Mine(r), n)

\* An exception in the decode thread is never reported as success, nor success as
\* an exception: Join reads the flag of a thread that has ended (decode.h:75-78).
AbortReported ==
  \A r \in Requests : kind[r] = "annotate" =>
    /\ status[r] = "OK" => ~(video[Mine(r)].throws /\ video[Mine(r)].reopens)
    /\ status[r] = "ABORTED" => video[Mine(r)].throws /\ video[Mine(r)].reopens

\* A call on a video that yields at least the announced frames, and at most
\* Capacity more, always ends; a summary ends also when frames are missing.
\* (Unless its decoder is freed under it, which NoUseAfterFree says when.)
Healthy(k, v) == /\ Decodable(v) >= v.meta \/ (k = "summary" /\ v.reopens)
                 /\ Decodable(v) <= v.meta + Capacity
HealthyVideoEnds ==
  \A r \in Requests :
    (pc[r] = "setup" /\ Healthy(kind[r], video[Mine(r)])) ~> (ub \/ pc[r] \in {"read", "done"})

\* And only such calls come back from Join: Healthy says exactly which do.  On another
\* video a call waits for ever, unless its client goes away (handler.cpp:27-67,
\* decode.h:60-84).
JoinMeansHealthy ==
  \A o \in Objects : thread[o] = "joined" => Healthy(kind[o[1]], video[o])

\* A call is working on a video once it has opened it, until it gives up the core or
\* asks for the next one.  Where its thread, and that of its decoder, are not blocked.
Working(r) == pc[r] \in {"setup", "run", "output", "get", "full", "close", "send", "join",
                         "release", "abort"}
CanGo(r) == /\ pc[r] = "get" => left[r] = 0 \/ chan[self[r]].queue # <<>> \/ chan[self[r]].closed
            /\ pc[r] = "join" => thread[decoder] # "decoding"
CanDecode(o) ==
  /\ thread[o] = "decoding"
  /\ video[o].reopens /\ sent[o] < video[o].frames => Len(chan[target[o]].queue) < Capacity

\* A call and its decode thread never wait for each other, the one for a frame or for
\* the end and the other for room, when the video opens again (or announces nothing) and
\* leaves no more frames than the channel holds; missing frames do not matter here.
NeverStuck ==
  \A r \in Requests :
    LET v == video[Mine(r)] IN
    /\ Working(r) /\ ~ub
    /\ v.reopens \/ v.meta = 0
    /\ Decodable(v) <= v.meta + Capacity
    => CanGo(r) \/ CanDecode(Mine(r))

\* The work left on the video of r: what its decode thread has to do, the frames that
\* are announced and not taken (one more while a response has frames), the place of the
\* call, batches of the loop, frames of the batch.
ThreadLeft == [none |-> 2, decoding |-> 1, ended |-> 0, joined |-> 0]
PlacesLeft == [setup |-> 9, run |-> 8, output |-> 7, close |-> 6, get |-> 5, full |-> 4,
               send |-> 3, join |-> 2, release |-> 1, abort |-> 1]
FramesToTake(r) == video[Mine(r)].meta - (IF pc[r] = "setup" THEN 0
                                          ELSE chan[Mine(r)].processed)
Work(r) == << ThreadLeft[thread[Mine(r)]] + (video[Mine(r)].frames - sent[Mine(r)]),
              FramesToTake(r) + (IF resp[r] = <<>> THEN 0 ELSE 1),
              PlacesLeft[pc[r]],
              IF pc[r] = "get" THEN Batches(r, Mine(r)) - batch[r] ELSE 0,
              IF pc[r] = "get" THEN left[r] ELSE 0 >>

\* The lexicographic order of five natural numbers: it has no endless descent.
Works == [1..5 -> Nat]
Less(a, b) == /\ a \in Works /\ b \in Works
              /\ \E i \in 1..5 : a[i] < b[i] /\ \A j \in 1..(i - 1) : a[j] = b[j]

\* No loop of a call on a healthy video turns for nothing: each step of the call or of
\* its decode thread leaves less work, and other calls do not add to it
\* (main.cpp:100-102, handler.cpp:27-67).
HealthyProgresses ==
  [][\A r \in Requests :
       /\ Working(r) /\ Working(r)'
       /\ Healthy(kind[r], video[Mine(r)])
       => IF RpcStep(r) \/ Decode(Mine(r)) THEN Less(Work(r)', Work(r))
          ELSE Work(r)' = Work(r)]_vars

-----------------------------------------------------------------------------
\* What a comment says and the code does not do.

\* main.cpp:104: "if the decode encounter with exception then exit annotating".
AbortExits ==
  \A r \in Requests :
    (cur[r] = 1 /\ thread[<<r, 1>>] = "ended" /\ aborted[<<r, 1>>]) ~> (pc[r] = "done")
=============================================================================
