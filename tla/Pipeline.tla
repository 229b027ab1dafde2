------------------------------- MODULE Pipeline -------------------------------
(***************************************************************************)
(* What becomes of the frames of a video in VideoSummary: the batches of   *)
(* Handler::GetOutputSummary, the Forward of the three pipelines (InferPipe*)
(* with a classifier, YoloPipe with a detector, MixPipe with both), the    *)
(* choice of classes (Argmax, thresholds), the merging of boxes (ApplyNMS) *)
(* and the table of labels that is answered.                               *)
(* A network may put out anything; its output is recorded in "net".        *)
(* Scores and coordinates are integers: the code only adds, multiplies and *)
(* compares them.  The frames come in order, all of them (InferCore has    *)
(* the other cases).                                                       *)
(***************************************************************************)
EXTENDS Integers, Sequences, FiniteSets

CONSTANTS Kinds,       \* pipelines: "infer", "yolo", "mix"
          Labels,      \* labels_ of the classifier, a sequence
          Normal,      \* the label that is not reported
          TopK,        \* top_k_
          Selections,  \* interests_ and thresholds_: sequences of <<index, threshold>>
          Scores,      \* outputs of a classifier: sequences as long as Labels
          BoxLists,    \* boxes of RegionLayer, as they come: sequences
          BoxLabels,   \* labels_ of the detector
          MinScore,    \* threshold_ of the detector, for scores
          BatchSize,   \* what the networks take at once
          MaxFrames    \* bound: frames of a video

\* A detail has the classes of a frame, or of a box, with their confidences, the best first.
BoxDetail == Seq(BoxLabels \X Int) \ {<<>>}
Box == [x : Int, y : Int, w : Int, h : Int, score : Int, detail : BoxDetail]

ASSUME PipelineAssumption ==
  /\ Kinds \subseteq {"infer", "yolo", "mix"}
  /\ Len(Labels) \in Nat /\ TopK \in 1..Len(Labels)
  /\ BatchSize \in Nat \ {0} /\ MaxFrames \in Nat
  /\ Scores \subseteq [1..Len(Labels) -> Int]
  /\ \A l \in Selections : l \in Seq((1..Len(Labels)) \X Int)
  /\ \A l \in BoxLists : l \in Seq(Box)

VARIABLES kind, selection,
          size,       \* batch_size_
          total,      \* total_frame_num_
          phase,      \* "batch", "merge" and "write" boxes, "table", "done"; "crashed"
          processed,  \* processed_num_
          batch,      \* objs: the frames under way
          net,        \* History: per frame, scores and boxes put out by the networks
          boxes, i, dropped,   \* ApplyNMS: boxes in order, the loop variable, and p
          merged,     \* result of Detect for the frames of the batch so far
          metadatas,
          at,         \* the loops over metadatas and details: what comes next
          table,      \* conf_map
          summary     \* label_confs

givenVars == <<kind, selection, size, total>>
nmsVars == <<boxes, i, dropped, merged>>
vars == <<givenVars, phase, processed, batch, net, nmsVars, metadatas, at, table,
          summary>>

\* YoloPipe never sets its batch_size_ (pipeline.cpp:76-78): it is any number.  With 0
\* the division of handler.cpp:24 ends the process; 0 stands also for a size the network
\* has no room for.  A larger one for a short video is as good as BatchSize.
Init == /\ kind \in Kinds /\ selection \in Selections
        /\ size \in IF kind = "yolo" THEN 0..BatchSize ELSE {BatchSize}
        /\ phase = IF size = 0 THEN "crashed" ELSE "batch"
        /\ total \in 0..MaxFrames
        /\ processed = 0 /\ batch = <<>> /\ net = <<>>
        /\ boxes = <<>> /\ i = 1 /\ dropped = {} /\ merged = <<>>
        /\ metadatas = <<>> /\ at = <<1, 1>>
        /\ table = [l \in {} |-> <<>>] /\ summary = {}

Larger(a, b) == IF a > b THEN a ELSE b

\* The members of a set of numbers, in increasing order: the one sequence there is.
InOrder(S) == {s \in [1..Cardinality(S) -> S] : \A j, k \in DOMAIN s : j < k => s[j] < s[k]}

-----------------------------------------------------------------------------
\* Argmax: partial_sort leaves the order of equal values open.
Argmax(v, n) ==
  {top \in [1..n -> DOMAIN v] :
     /\ \A j, k \in 1..n : j < k => top[j] # top[k] /\ v[top[j]] >= v[top[k]]
     /\ \A x \in DOMAIN v : v[x] > v[top[n]] => \E j \in 1..n : top[j] = x}

\* Classify: the classes and confidences of a Detail, for one output.
Classify(v) ==
  IF selection = <<>>
  THEN {[k \in 1..TopK |-> <<Labels[top[k]], v[top[k]]>>] : top \in Argmax(v, TopK)}
  ELSE LET over == {k \in DOMAIN selection : v[selection[k][1]] > selection[k][2]}
       IN  {[k \in DOMAIN s |-> <<Labels[selection[s[k]][1]], v[selection[s[k]][1]]>>] :
              s \in InOrder(over)}

\* overlap() of two intervals given by centre and width, in halves.  It takes the right
\* end that is farther to the right, so that it is never negative.
Overlap(x1, w1, x2, w2) ==
  Larger(2 * x1 + w1, 2 * x2 + w2) - Larger(2 * x1 - w1, 2 * x2 - w2)

\* CalIOU > 0.5, the threshold_ of the detector; a union of zero makes it infinite.
IOUAbove(a, b) ==
  LET w == Overlap(a.x, a.w, b.x, b.w)
      h == Overlap(a.y, a.h, b.y, b.h)
      union == 4 * (a.w * a.h + b.w * b.h) - w * h
  IN  /\ w >= 0 /\ h >= 0
      /\ IF union = 0 THEN w * h > 0 ELSE union > 0 /\ 2 * w * h > union

\* Plausible fault: a batch is always full.
NextBatchFull == [k \in 1..size |-> processed + k]

\* The frames of the next batch.
NextBatch ==
  LET left == total - processed
  IN  [k \in 1..(IF left < size THEN left ELSE size) |-> processed + k]

Metadata(f, model, details) == [frame |-> f, model |-> model, details |-> details]

\* InferPipe::Forward, for the details that Classify returned.
ClassMetadata(f, detail) ==
  Metadata(f, "0", IF detail = <<>> THEN <<>> ELSE <<detail>>)

-----------------------------------------------------------------------------
\* Plausible faults.

\* A label keeps the last of its best frames.
LabelStepLast ==
  /\ phase = "table" /\ at[1] <= Len(metadatas) /\ at[2] <= Len(metadatas[at[1]].details)
  /\ LET md == metadatas[at[1]]
         label == md.details[at[2]][1][1]
         conf == md.details[at[2]][1][2]
     IN  table' = IF label = Normal \/ (label \in DOMAIN table /\ conf < table[label][1])
                  THEN table
                  ELSE [l \in DOMAIN table \cup {label} |->
                          IF l = label THEN <<conf, md.frame>> ELSE table[l]]
  /\ at' = <<at[1], at[2] + 1>>
  /\ UNCHANGED <<givenVars, phase, processed, batch, net, nmsVars, metadatas, summary>>

\* MixPipe takes the classes of the first frame for all.
MixMetadataFirst(details) ==
  [k \in 1..2 * Len(batch) |->
     LET n == (k + 1) \div 2
     IN  IF k % 2 = 1 THEN Metadata(batch[n], "2", merged[n])
                      ELSE ClassMetadata(batch[n], details[1])]

\* ApplyNMS lets a dropped box drop others.
MergeStepAll ==
  /\ phase = "merge" /\ i <= Len(boxes)
  /\ dropped' = dropped \cup {j \in i + 1..Len(boxes) : IOUAbove(boxes[j], boxes[i])}
  /\ i' = i + 1
  /\ UNCHANGED <<givenVars, phase, processed, batch, net, boxes, merged,
                 metadatas, at, table, summary>>

-----------------------------------------------------------------------------
\* RegionLayer keeps the boxes with a good score; ApplyNMS sorts them, equal ones in any
\* order.
Sorted(list) ==
  LET good == {k \in DOMAIN list : list[k].score > MinScore}
      n == Cardinality(good)
  IN  {[k \in 1..n |-> list[order[k]]] :
         order \in {o \in [1..n -> good] :
                      \A j, k \in 1..n : j < k =>
                        o[j] # o[k] /\ list[o[j]].score >= list[o[k]].score}}

\* What MixPipe writes for a frame: the boxes, then the classes.
MixMetadata(details) ==
  [k \in 1..2 * Len(batch) |->
     LET n == (k + 1) \div 2
     IN  IF k % 2 = 1 THEN Metadata(batch[n], "2", merged[n])
                      ELSE ClassMetadata(batch[n], details[n])]

\* A batch is taken and goes through the networks.  InferPipe is done with it then.
TakeBatch ==
  /\ phase = "batch" /\ processed < total
  /\ batch' = NextBatch
  /\ processed' = processed + Len(NextBatch)
  /\ \E outputs \in [1..Len(NextBatch) ->
                      [scores : IF kind = "yolo" THEN {<<>>} ELSE Scores,
                       list : IF kind = "infer" THEN {<<>>} ELSE BoxLists]] :
       /\ net' = net \o outputs
       /\ IF kind = "infer"
          THEN /\ \E details \in [1..Len(NextBatch) ->
                                   UNION {Classify(v) : v \in Scores}] :
                    /\ \A k \in DOMAIN details : details[k] \in Classify(outputs[k].scores)
                    /\ metadatas' = metadatas \o
                         [k \in 1..Len(NextBatch) |-> ClassMetadata(NextBatch[k], details[k])]
               /\ UNCHANGED <<phase, boxes>>
          ELSE /\ phase' = "merge"
               /\ boxes' \in Sorted(outputs[1].list)
               /\ UNCHANGED metadatas
  /\ i' = 1 /\ dropped' = {} /\ merged' = <<>>
  /\ UNCHANGED <<givenVars, at, table, summary>>

\* ApplyNMS: box i, unless it is dropped itself, drops the later ones it overlaps.
MergeStep ==
  /\ phase = "merge" /\ i <= Len(boxes)
  /\ dropped' = IF i \in dropped THEN dropped
                ELSE dropped \cup {j \in i + 1..Len(boxes) : IOUAbove(boxes[j], boxes[i])}
  /\ i' = i + 1
  /\ UNCHANGED <<givenVars, phase, processed, batch, net, boxes, merged,
                 metadatas, at, table, summary>>

\* The details of the boxes that are left, in their order.
Kept == {[k \in DOMAIN s |-> boxes[s[k]].detail] :
           s \in InOrder({j \in 1..Len(boxes) : j \notin dropped})}

\* The end of ApplyNMS for a frame: Detect goes on with the next ...
NextFrame ==
  /\ phase = "merge" /\ i > Len(boxes) /\ Len(merged) + 1 < Len(batch)
  /\ \E kept \in Kept : merged' = Append(merged, kept)
  /\ boxes' \in Sorted(net[batch[Len(merged) + 2]].list)
  /\ i' = 1 /\ dropped' = {}
  /\ UNCHANGED <<givenVars, phase, processed, batch, net, metadatas, at,
                 table, summary>>

\* ... or the batch is through.  YoloPipe and MixPipe write its metadata.
EndBatch ==
  /\ phase = "merge" /\ i > Len(boxes) /\ Len(merged) + 1 = Len(batch)
  /\ \E kept \in Kept : merged' = Append(merged, kept)
  /\ phase' = "write"
  /\ boxes' = <<>> /\ i' = 1 /\ dropped' = {}
  /\ UNCHANGED <<givenVars, processed, batch, net, metadatas, at, table,
                 summary>>

WriteYolo ==
  /\ phase = "write" /\ kind = "yolo"
  /\ metadatas' = metadatas \o [k \in 1..Len(batch) |-> Metadata(batch[k], "2", merged[k])]
  /\ phase' = "batch"
  /\ UNCHANGED <<givenVars, processed, batch, net, nmsVars, at, table, summary>>

WriteMix ==
  /\ phase = "write" /\ kind = "mix"
  /\ \E details \in [1..Len(batch) -> UNION {Classify(v) : v \in Scores}] :
       /\ \A k \in 1..Len(batch) : details[k] \in Classify(net[batch[k]].scores)
       /\ metadatas' = metadatas \o MixMetadata(details)
  /\ phase' = "batch"
  /\ UNCHANGED <<givenVars, processed, batch, net, nmsVars, at, table, summary>>

\* All batches are through: the details are gone through one by one.
StartTable ==
  /\ phase = "batch" /\ processed >= total
  /\ phase' = "table"
  /\ UNCHANGED <<givenVars, processed, batch, net, nmsVars, metadatas, at, table, summary>>

\* The first class of a detail: its best confidence, and the first frame with it.
LabelStep ==
  /\ phase = "table" /\ at[1] <= Len(metadatas) /\ at[2] <= Len(metadatas[at[1]].details)
  /\ LET md == metadatas[at[1]]
         label == md.details[at[2]][1][1]
         conf == md.details[at[2]][1][2]
     IN  table' = IF label = Normal \/ (label \in DOMAIN table /\ conf <= table[label][1])
                  THEN table
                  ELSE [l \in DOMAIN table \cup {label} |->
                          IF l = label THEN <<conf, md.frame>> ELSE table[l]]
  /\ at' = <<at[1], at[2] + 1>>
  /\ UNCHANGED <<givenVars, phase, processed, batch, net, nmsVars, metadatas, summary>>

\* The inner loop is over.
NextMetadata ==
  /\ phase = "table" /\ at[1] <= Len(metadatas) /\ at[2] > Len(metadatas[at[1]].details)
  /\ at' = <<at[1] + 1, 1>>
  /\ UNCHANGED <<givenVars, phase, processed, batch, net, nmsVars, metadatas, table, summary>>

Summarize ==
  /\ phase = "table" /\ at[1] > Len(metadatas)
  /\ summary' = IF DOMAIN table = {} THEN {<<Normal, 1, 0>>}
                ELSE {<<l, table[l][1], table[l][2]>> : l \in DOMAIN table}
  /\ phase' = "done"
  /\ UNCHANGED <<givenVars, processed, batch, net, nmsVars, metadatas, at, table>>

Next == TakeBatch \/ MergeStep \/ NextFrame \/ EndBatch \/ WriteYolo \/ WriteMix
        \/ StartTable \/ LabelStep \/ NextMetadata \/ Summarize

Spec == Init /\ [][Next]_vars

-----------------------------------------------------------------------------
\* Type invariant.
Details == (UNION {Classify(v) : v \in Scores})
           \cup (UNION {{l[k].detail : k \in DOMAIN l} : l \in BoxLists})

TypeOK ==
  /\ phase \in {"batch", "merge", "write", "table", "done", "crashed"}
  /\ size \in 0..BatchSize
  /\ processed \in 0..total /\ Len(net) = processed
  /\ \A k \in DOMAIN batch : batch[k] \in 1..total
  /\ i \in 1..Len(boxes) + 1 /\ dropped \subseteq 1..Len(boxes)
  /\ Len(merged) <= Len(batch)
  /\ \A k \in DOMAIN metadatas : /\ metadatas[k].frame \in 1..total
                                 /\ metadatas[k].model \in {"0", "2"}
                                 /\ \A d \in DOMAIN metadatas[k].details :
                                      metadatas[k].details[d] \in Details \ {<<>>}
  /\ at[1] \in 1..Len(metadatas) + 1 /\ Normal \notin DOMAIN table

\* The metadata are those of the frames 1, 2, ... in this order, through partial batches
\* and two networks, and each is made of what the networks said of its own frame
\* (pipeline.cpp:59-73, 87-134; classifier.cpp:226-258).
ResultsOfOwnFrame ==
  LET perFrame == IF kind = "mix" THEN 2 ELSE 1
  IN  /\ phase = "done" => Len(metadatas) = total * perFrame
      /\ \A k \in DOMAIN metadatas :
           LET md == metadatas[k] IN
             /\ md.frame = (k + perFrame - 1) \div perFrame
             /\ md.model = "0" =>
                  \E d \in Classify(net[md.frame].scores) :
                    md.details = IF d = <<>> THEN <<>> ELSE <<d>>
             /\ md.model = "2" =>
                  \A n \in DOMAIN md.details : \E b \in DOMAIN net[md.frame].list :
                    /\ net[md.frame].list[b].score > MinScore
                    /\ net[md.frame].list[b].detail = md.details[n]

\* The answer names each label but "normal" that came first in some detail, with its best
\* confidence and the first frame that had it; "normal" is said when there is none
\* (handler.cpp:68-98).
SummaryIsBest ==
  LET found == {x \in UNION {{<<metadatas[k].details[d][1][1], metadatas[k].details[d][1][2],
                                metadatas[k].frame>> : d \in DOMAIN metadatas[k].details} :
                             k \in DOMAIN metadatas} : x[1] # Normal}
  IN  phase = "done" =>
        summary = IF found = {} THEN {<<Normal, 1, 0>>}
                  ELSE {x \in found : \A y \in found :
                          y[1] = x[1] => x[2] > y[2] \/ (x[2] = y[2] /\ x[3] <= y[3])}

Merging == phase = "merge" /\ i > Len(boxes)

\* No two boxes that are left are over the threshold of each other, and a box is only given
\* up for one that is left and scores no less: boxes that were given up themselves drop
\* nothing (yolo_detector.cpp:146-163).
MergedWell ==
  Merging =>
    LET kept == 1..Len(boxes) \ dropped IN
    /\ \A j, k \in kept : j < k => ~IOUAbove(boxes[k], boxes[j])
    /\ \A j \in dropped : \E k \in kept :
         boxes[k].score >= boxes[j].score /\ IOUAbove(boxes[j], boxes[k])
=============================================================================
