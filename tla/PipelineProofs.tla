---------------------------- MODULE PipelineProofs ----------------------------
(***************************************************************************)
(* Proofs about Pipeline, for any networks, labels, boxes and thresholds,  *)
(* any batch size and any length of a video.  The merging of boxes is a    *)
(* loop with the invariants Apart and Covered; the metadata are counted    *)
(* off against the frames that went through (Written), and the table of    *)
(* labels is the best of what its loops have seen (Tabled).                *)
(***************************************************************************)
EXTENDS Pipeline, FiniteSetTheorems, SequenceTheorems, TLAPS

AnyLabel == {Labels[k] : k \in 1..Len(Labels)} \cup BoxLabels
Detail == Seq(AnyLabel \X Int)
Output == [scores : Scores \cup {<<>>}, list : BoxLists \cup {<<>>}]
AnyMetadata == [frame : Int, model : {"0", "2"}, details : Seq(Detail \ {<<>>})]

-----------------------------------------------------------------------------
\* Parts of the invariant.

Typed ==
  /\ kind \in {"infer", "yolo", "mix"} /\ selection \in Selections
  /\ size \in 0..BatchSize /\ total \in Nat
  /\ phase \in {"batch", "merge", "write", "table", "done", "crashed"}
  /\ processed \in 0..total
  /\ net \in Seq(Output) /\ Len(net) = processed
  /\ batch \in Seq(Nat) /\ Len(batch) <= processed
  /\ boxes \in Seq(Box) /\ i \in 1..Len(boxes) + 1 /\ dropped \subseteq 1..Len(boxes)
  /\ merged \in Seq(Seq(BoxDetail)) /\ Len(merged) <= Len(batch)
  /\ metadatas \in Seq(AnyMetadata)

\* Where the pipeline is, and the frames it has in hand: the last that were taken.
Flow ==
  /\ phase # "crashed" => size # 0
  /\ phase \in {"merge", "write"} => kind # "infer" /\ Len(batch) # 0
  /\ phase = "merge" => Len(merged) < Len(batch)
  /\ phase = "write" => Len(merged) = Len(batch)
  /\ phase \in {"table", "done"} => processed = total
  /\ \A k \in 1..Len(batch) : batch[k] = processed - Len(batch) + k
  /\ kind # "yolo" => \A f \in 1..processed : net[f].scores \in Scores

\* A detail of a good box of frame f.
Good(f, detail) ==
  \E b \in DOMAIN net[f].list : /\ net[f].list[b].score > MinScore
                                /\ net[f].list[b].detail = detail

\* The boxes under way are the good ones of the next frame, those merged of theirs.
Sources ==
  /\ phase = "merge" => \A j \in 1..Len(boxes) : Good(batch[Len(merged) + 1], boxes[j].detail)
  /\ phase \in {"merge", "write"} =>
       \A k \in 1..Len(merged) : \A n \in DOMAIN merged[k] : Good(batch[k], merged[k][n])

Descending == phase = "merge" =>
  \A j, k \in 1..Len(boxes) : j < k => boxes[j].score >= boxes[k].score

\* What ApplyNMS has achieved for the boxes before i.
Apart == phase = "merge" =>
  \A j, k \in 1..Len(boxes) \ dropped : j < k /\ j < i => ~IOUAbove(boxes[k], boxes[j])

Covered == phase = "merge" =>
  \A j \in dropped : \E k \in 1..Len(boxes) \ dropped :
    k < i /\ k < j /\ IOUAbove(boxes[j], boxes[k])

Merge == Sources /\ Descending /\ Apart /\ Covered

\* The frames that are through, and the metadata of them.
Through == IF phase \in {"merge", "write"} THEN processed - Len(batch) ELSE processed

FrameOf(k) == IF kind = "mix" THEN (k + 1) \div 2 ELSE k

OwnDetails(md) ==
  /\ md.model = "0" => /\ kind # "yolo"
                       /\ \E d \in Classify(net[md.frame].scores) :
                            md.details = IF d = <<>> THEN <<>> ELSE <<d>>
  /\ md.model = "2" => \A n \in DOMAIN md.details : Good(md.frame, md.details[n])

Written ==
  /\ Len(metadatas) = IF kind = "mix" THEN 2 * Through ELSE Through
  /\ \A k \in 1..Len(metadatas) :
       /\ metadatas[k].frame = FrameOf(k)
       /\ OwnDetails(metadatas[k])

\* The details that were gone through, and what each says.
Seen(a, b) == /\ a \in 1..Len(metadatas) /\ b \in 1..Len(metadatas[a].details)
              /\ a < at[1] \/ (a = at[1] /\ b < at[2])
LabelOf(a, b) == metadatas[a].details[b][1][1]
ConfOf(a, b) == metadatas[a].details[b][1][2]

\* An entry is that of a detail, and no detail has a better one for its label.
EntriesSeen == \A l \in DOMAIN table : \E a, b \in Nat :
  Seen(a, b) /\ LabelOf(a, b) = l /\ table[l] = <<ConfOf(a, b), metadatas[a].frame>>

Bests == \A a, b \in Nat : Seen(a, b) /\ LabelOf(a, b) # Normal =>
  /\ LabelOf(a, b) \in DOMAIN table
  /\ \/ table[LabelOf(a, b)][1] > ConfOf(a, b)
     \/ /\ table[LabelOf(a, b)][1] = ConfOf(a, b)
        /\ table[LabelOf(a, b)][2] <= metadatas[a].frame

Tabled ==
  /\ at = <<at[1], at[2]>> /\ at[1] \in 1..Len(metadatas) + 1 /\ at[2] \in Nat \ {0}
  /\ phase \notin {"table", "done"} => at = <<1, 1>> /\ DOMAIN table = {}
  /\ Normal \notin DOMAIN table
  /\ EntriesSeen /\ Bests

PipelineInv == Typed /\ Flow /\ Merge /\ Written /\ Tabled /\ SummaryIsBest

-----------------------------------------------------------------------------
\* Sequences.

LEMMA FunctionSeq ==
  ASSUME NEW S, NEW n \in Nat, NEW f \in [1..n -> S]
  PROVE  f \in Seq(S) /\ Len(f) = n
  OBVIOUS

LEMMA Joined ==
  ASSUME NEW S, NEW s \in Seq(S), NEW t \in Seq(S)
  PROVE  /\ s \o t \in Seq(S) /\ Len(s \o t) = Len(s) + Len(t)
         /\ \A k \in 1..Len(s) : (s \o t)[k] = s[k]
         /\ \A k \in 1..Len(t) : (s \o t)[Len(s) + k] = t[k]
         /\ \A k \in 1..Len(s \o t) : k \in 1..Len(s) \/ k - Len(s) \in 1..Len(t)
  OBVIOUS

LEMMA Appended ==
  ASSUME NEW S, NEW s \in Seq(S), NEW e \in S
  PROVE  /\ Append(s, e) \in Seq(S) /\ Len(Append(s, e)) = Len(s) + 1
         /\ \A k \in 1..Len(s) : Append(s, e)[k] = s[k]
         /\ Append(s, e)[Len(s) + 1] = e
  OBVIOUS

LEMMA Countable ==
  ASSUME NEW n \in Nat, NEW S \in SUBSET (1..n)
  PROVE  Cardinality(S) \in Nat
<1>1. IsFiniteSet(1..n)
  BY FS_Interval, 1 \in Int, n \in Int
<1> QED
  BY <1>1, FS_Subset, FS_CardinalityType

LEMMA InOrderType ==
  ASSUME NEW n \in Nat, NEW S \in SUBSET (1..n), NEW s \in InOrder(S)
  PROVE  \E m \in Nat : s \in [1..m -> S]
BY Countable DEF InOrder

-----------------------------------------------------------------------------
\* What the helpers of the code return.

LEMMA ClassifyType ==
  ASSUME selection \in Selections, NEW v \in Scores, NEW d \in Classify(v)
  PROVE  d \in Detail
<1>1. v \in [1..Len(Labels) -> Int] /\ Len(Labels) \in Nat /\ TopK \in 1..Len(Labels)
  BY PipelineAssumption
<1>2. CASE selection = <<>>
  <2>1. PICK top \in Argmax(v, TopK) : d = [k \in 1..TopK |-> <<Labels[top[k]], v[top[k]]>>]
    BY <1>2 DEF Classify
  <2>2. top \in [1..TopK -> 1..Len(Labels)]
    BY <1>1, <2>1 DEF Argmax
  <2>3. d \in [1..TopK -> AnyLabel \X Int]
    BY <1>1, <2>1, <2>2 DEF AnyLabel
  <2> QED
    BY <1>1, <2>3, FunctionSeq DEF Detail
<1>3. CASE selection # <<>>
  <2> DEFINE over == {k \in DOMAIN selection : v[selection[k][1]] > selection[k][2]}
  <2>1. PICK s \in InOrder(over) :
          d = [k \in DOMAIN s |-> <<Labels[selection[s[k]][1]], v[selection[s[k]][1]]>>]
    BY <1>3 DEF Classify
  <2>2. selection \in Seq((1..Len(Labels)) \X Int)
    BY PipelineAssumption
  <2>3. over \in SUBSET (1..Len(selection)) /\ Len(selection) \in Nat
    BY <2>2
  <2>4. PICK m \in Nat : s \in [1..m -> over]
    <3> HIDE DEF over
    <3> QED BY <2>1, <2>3, InOrderType
  <2>5. \A k \in 1..m : selection[s[k]][1] \in 1..Len(Labels)
    BY <2>2, <2>3, <2>4
  <2>6. \A k \in 1..m : <<Labels[selection[s[k]][1]], v[selection[s[k]][1]]>> \in AnyLabel \X Int
    BY <1>1, <2>5 DEF AnyLabel
  <2>7. d \in [1..m -> AnyLabel \X Int]
    <3> HIDE DEF over
    <3> QED BY <2>1, <2>4, <2>6
  <2> QED
    BY <2>7, FunctionSeq DEF Detail
<1> QED
  BY <1>2, <1>3

\* RegionLayer and the sort leave good boxes, the best first.
LEMMA SortedType ==
  ASSUME NEW list \in Seq(Box), NEW s \in Sorted(list)
  PROVE  /\ s \in Seq(Box)
         /\ \A j \in 1..Len(s) : \E b \in DOMAIN list : list[b].score > MinScore /\ list[b] = s[j]
         /\ \A j, k \in 1..Len(s) : j < k => s[j].score >= s[k].score
<1> DEFINE good == {k \in DOMAIN list : list[k].score > MinScore}
           n == Cardinality(good)
<1>1. good \in SUBSET (1..Len(list)) /\ Len(list) \in Nat
  OBVIOUS
<1>2. n \in Nat
  <2> HIDE DEF good
  <2> QED BY <1>1, Countable
<1>3. PICK o \in [1..n -> good] :
        /\ s = [k \in 1..n |-> list[o[k]]]
        /\ \A j, k \in 1..n : j < k => o[j] # o[k] /\ list[o[j]].score >= list[o[k]].score
  BY DEF Sorted
<1>4. \A k \in 1..n : o[k] \in DOMAIN list /\ list[o[k]].score > MinScore /\ s[k] = list[o[k]]
  <2> HIDE DEF n
  <2> QED BY <1>2, <1>3
<1> HIDE DEF good, n
<1>5. \A k \in 1..n : list[o[k]] \in Box
  BY <1>4
<1>6. s \in [1..n -> Box]
  BY <1>3, <1>5
<1>7. s \in Seq(Box) /\ Len(s) = n
  BY <1>2, <1>6, FunctionSeq
<1> QED
  BY <1>3, <1>4, <1>7

\* What is left of the boxes of a frame.
LEMMA KeptType ==
  ASSUME boxes \in Seq(Box), NEW kept \in Kept
  PROVE  /\ kept \in Seq(BoxDetail)
         /\ \A n \in DOMAIN kept : \E j \in 1..Len(boxes) : kept[n] = boxes[j].detail
<1> DEFINE left == {j \in 1..Len(boxes) : j \notin dropped}
<1>1. left \in SUBSET (1..Len(boxes)) /\ Len(boxes) \in Nat
  OBVIOUS
<1>2. PICK s \in InOrder(left) : kept = [k \in DOMAIN s |-> boxes[s[k]].detail]
  BY DEF Kept
<1> HIDE DEF left
<1>3. PICK m \in Nat : s \in [1..m -> left]
  BY <1>1, <1>2, InOrderType
<1>4. \A k \in 1..m : s[k] \in 1..Len(boxes)
  BY <1>1, <1>3
<1>5. \A k \in 1..m : boxes[s[k]].detail \in BoxDetail
  <2>1. \A k \in 1..m : boxes[s[k]] \in Box
    BY <1>4
  <2> QED
    BY <2>1 DEF Box
<1>6. kept \in [1..m -> BoxDetail]
  BY <1>2, <1>3, <1>5
<1> QED
  BY <1>2, <1>3, <1>4, <1>6, FunctionSeq

LEMMA NextBatchType ==
  ASSUME Typed, Flow, processed < total, phase # "crashed"
  PROVE  /\ NextBatch \in Seq(Nat) /\ Len(NextBatch) \in 1..total - processed
         /\ \A k \in 1..Len(NextBatch) : NextBatch[k] = processed + k
<1> DEFINE n == IF total - processed < size THEN total - processed ELSE size
<1>1. n \in 1..total - processed
  BY PipelineAssumption DEF Typed, Flow
<1>2. NextBatch = [k \in 1..n |-> processed + k]
  BY DEF NextBatch
<1> HIDE DEF n
<1>3. n \in Nat /\ NextBatch \in [1..n -> Nat]
  BY <1>1, <1>2 DEF Typed
<1> QED
  BY <1>1, <1>2, <1>3, FunctionSeq

LEMMA Outcome ==
  ASSUME NEW output \in Output
  PROVE  output.scores \in Scores \cup {<<>>} /\ output.list \in Seq(Box)
<1>1. <<>> \in Seq(Box)
  BY EmptySeq
<1>2. output.scores \in Scores \cup {<<>>} /\ output.list \in BoxLists \cup {<<>>}
  BY DEF Output
<1> QED
  BY <1>1, <1>2, PipelineAssumption

\* TakeBatch, with what the networks put out as part of net'.
LEMMA Taken ==
  ASSUME Typed, Flow, TakeBatch
  PROVE  /\ processed' = processed + Len(batch') /\ processed' <= total
         /\ batch' \in Seq(Nat) /\ Len(batch') \in Nat \ {0}
         /\ \A k \in 1..Len(batch') : batch'[k] = processed + k
         /\ net' \in Seq(Output) /\ Len(net') = processed'
         /\ \A f \in 1..processed : net'[f] = net[f]
         /\ kind # "yolo" => \A k \in 1..Len(batch') : net'[processed + k].scores \in Scores
         /\ kind = "infer" =>
              /\ phase' = "batch" /\ boxes' = boxes
              /\ \E details \in [1..Len(batch') -> UNION {Classify(v) : v \in Scores}] :
                   /\ \A k \in 1..Len(batch') :
                        details[k] \in Classify(net'[processed + k].scores)
                   /\ metadatas' = metadatas \o
                        [k \in 1..Len(batch') |-> ClassMetadata(batch'[k], details[k])]
         /\ kind # "infer" => /\ phase' = "merge" /\ metadatas' = metadatas
                              /\ boxes' \in Sorted(net'[processed + 1].list)
<1>1. /\ NextBatch \in Seq(Nat) /\ Len(NextBatch) \in 1..total - processed
      /\ \A k \in 1..Len(NextBatch) : NextBatch[k] = processed + k
  BY NextBatchType DEF TakeBatch
<1>2. PICK outputs \in [1..Len(NextBatch) ->
                      [scores : IF kind = "yolo" THEN {<<>>} ELSE Scores,
                       list : IF kind = "infer" THEN {<<>>} ELSE BoxLists]] :
       /\ net' = net \o outputs
       /\ IF kind = "infer"
          THEN /\ \E details \in [1..Len(NextBatch) ->
                                   UNION {Classify(v) : v \in Scores}] :
                    /\ \A k \in DOMAIN details : details[k] \in Classify(outputs[k].scores)
                    /\ metadatas' = metadatas \o
                         [k \in 1..Len(NextBatch) |-> ClassMetadata(NextBatch[k], details[k])]
               /\ UNCHANGED <<phase, boxes>>
          ELSE /\ phase' = "merge"
               /\ boxes' \in Sorted(outputs[1].list)
               /\ UNCHANGED metadatas
  BY DEF TakeBatch
<1>3. /\ processed' = processed + Len(NextBatch) /\ batch' = NextBatch /\ phase = "batch"
      /\ processed \in Nat /\ total \in Nat
  BY DEF TakeBatch, Typed
<1>4. /\ processed' = processed + Len(batch') /\ processed' <= total /\ Len(batch') # 0
      /\ \A k \in 1..Len(batch') : batch'[k] = processed + k
      /\ batch' \in Seq(Nat) /\ Len(batch') \in Nat /\ 1 \in 1..Len(batch')
  BY <1>1, <1>3
<1>5. \A k \in 1..Len(batch') :
        /\ outputs[k] \in Output
        /\ kind # "yolo" => outputs[k].scores \in Scores
  BY <1>2, <1>3 DEF Output
<1>6. outputs \in Seq(Output) /\ Len(outputs) = Len(batch')
  <2>1. outputs \in [1..Len(batch') -> Output]
    BY <1>2, <1>3, <1>5
  <2> QED
    BY <2>1, <1>4, FunctionSeq
<1>7. net \in Seq(Output) /\ Len(net) = processed
  BY DEF Typed
<1>8. /\ net' \in Seq(Output) /\ Len(net') = processed'
      /\ \A f \in 1..processed : net'[f] = net[f]
      /\ \A k \in 1..Len(batch') : net'[processed + k] = outputs[k]
  <2>1. \A s, t \in Seq(Output) :
          /\ s \o t \in Seq(Output) /\ Len(s \o t) = Len(s) + Len(t)
          /\ \A k \in 1..Len(s) : (s \o t)[k] = s[k]
          /\ \A k \in 1..Len(t) : (s \o t)[Len(s) + k] = t[k]
    <3> HIDE DEF Output
    <3> QED BY Joined
  <2>2. /\ net \o outputs \in Seq(Output)
        /\ Len(net \o outputs) = Len(net) + Len(outputs)
        /\ \A k \in 1..Len(net) : (net \o outputs)[k] = net[k]
        /\ \A k \in 1..Len(outputs) : (net \o outputs)[Len(net) + k] = outputs[k]
    BY <1>6, <1>7, <2>1
  <2> QED
    BY <1>2, <1>3, <1>4, <1>6, <1>7, <2>2
<1>9. kind # "yolo" => \A k \in 1..Len(batch') : net'[processed + k].scores \in Scores
  BY <1>5, <1>8
<1>10. ASSUME kind = "infer"
       PROVE  /\ phase' = "batch" /\ boxes' = boxes
              /\ \E details \in [1..Len(batch') -> UNION {Classify(v) : v \in Scores}] :
                   /\ \A k \in 1..Len(batch') :
                        details[k] \in Classify(net'[processed + k].scores)
                   /\ metadatas' = metadatas \o
                        [k \in 1..Len(batch') |-> ClassMetadata(batch'[k], details[k])]
  BY <1>10, <1>2, <1>3, <1>8
<1>11. ASSUME kind # "infer"
       PROVE  /\ phase' = "merge" /\ metadatas' = metadatas
              /\ boxes' \in Sorted(net'[processed + 1].list)
  BY <1>11, <1>2, <1>4, <1>8
<1> QED
  BY <1>4, <1>8, <1>9, <1>10, <1>11

-----------------------------------------------------------------------------
\* The metadata that are written.

LEMMA ClassMetadataType ==
  ASSUME Typed, NEW f \in Nat, NEW v \in Scores, NEW d \in Classify(v)
  PROVE  /\ ClassMetadata(f, d) \in AnyMetadata
         /\ ClassMetadata(f, d).frame = f /\ ClassMetadata(f, d).model = "0"
         /\ ClassMetadata(f, d).details = IF d = <<>> THEN <<>> ELSE <<d>>
<1>1. d \in Detail
  BY ClassifyType DEF Typed
<1>2. (IF d = <<>> THEN <<>> ELSE <<d>>) \in Seq(Detail \ {<<>>})
  <2>1. CASE d = <<>>
    BY <2>1, EmptySeq
  <2>2. CASE d # <<>>
    <3> HIDE DEF Detail
    <3>1. <<d>> \in [1..1 -> Detail \ {<<>>}]
      BY <1>1, <2>2
    <3> QED
      BY <2>2, <3>1, FunctionSeq
  <2> QED
    BY <2>1, <2>2
<1> QED
  BY <1>2 DEF ClassMetadata, Metadata, AnyMetadata

LEMMA BoxMetadataType ==
  ASSUME NEW f \in Nat, NEW details \in Seq(BoxDetail)
  PROVE  /\ Metadata(f, "2", details) \in AnyMetadata
         /\ Metadata(f, "2", details).frame = f /\ Metadata(f, "2", details).model = "2"
         /\ Metadata(f, "2", details).details = details
<1>1. BoxDetail \subseteq Detail \ {<<>>}
  BY DEF BoxDetail, Detail, AnyLabel
<1>2. details \in Seq(Detail \ {<<>>})
  BY <1>1
<1> QED
  BY <1>2 DEF Metadata, AnyMetadata

LEMMA ThroughType ==
  ASSUME Typed
  PROVE  Through \in 0..processed
BY DEF Typed, Through

LEMMA FrameBound ==
  ASSUME Typed, Written, NEW k \in 1..Len(metadatas)
  PROVE  metadatas[k].frame \in 1..Through
<1>1. metadatas[k].frame = FrameOf(k) /\ Through \in Nat
  BY ThroughType DEF Written, Typed
<1>2. Len(metadatas) = IF kind = "mix" THEN 2 * Through ELSE Through
  BY DEF Written
<1> HIDE DEF Through
<1> QED
  BY <1>1, <1>2 DEF FrameOf

\* What is said of a frame does not depend on those that come later.
LEMMA OwnStays ==
  ASSUME NEW md, OwnDetails(md), UNCHANGED <<kind, selection>>,
         net'[md.frame] = net[md.frame]
  PROVE  OwnDetails(md)'
<1>1. \A v : Classify(v)' = Classify(v)
  BY DEF Classify
<1> QED
  BY <1>1 DEF OwnDetails, Good

LEMMA WrittenStays ==
  ASSUME Typed, Written, UNCHANGED <<kind, selection, net, metadatas>>, Through' = Through
  PROVE  Written'
<1>1. \A k \in 1..Len(metadatas) : OwnDetails(metadatas[k])'
  <2> SUFFICES ASSUME NEW k \in 1..Len(metadatas), NEW md, md = metadatas[k]
               PROVE  OwnDetails(md)'
    OBVIOUS
  <2> QED
    BY OwnStays DEF Written
<1> QED
  BY <1>1 DEF Written, FrameOf

\* New metadata of the frames that come through.
LEMMA Difference ==
  ASSUME NEW a \in Nat, NEW b \in Nat
  PROVE  a + (b - a) = b /\ 2 * a + 2 * (b - a) = 2 * b
OBVIOUS

LEMMA WrittenGrows ==
  ASSUME Typed, Written, UNCHANGED <<kind, selection>>,
         \A f \in 1..processed : net'[f] = net[f],
         NEW s \in Seq(AnyMetadata), metadatas' = metadatas \o s,
         Through' \in Nat, Through' >= Through,
         Len(s) = (IF kind = "mix" THEN 2 * (Through' - Through) ELSE Through' - Through),
         \A k \in 1..Len(s) : /\ s[k].frame = FrameOf(Len(metadatas) + k)
                              /\ OwnDetails(s[k])'
  PROVE  Written' /\ metadatas' \in Seq(AnyMetadata)
<1> DEFINE m == Len(metadatas)
<1>1. /\ metadatas' \in Seq(AnyMetadata) /\ Len(metadatas') = m + Len(s) /\ m \in Nat
      /\ \A k \in 1..m : metadatas'[k] = metadatas[k]
      /\ \A k \in 1..Len(s) : metadatas'[m + k] = s[k]
      /\ \A k \in 1..Len(metadatas') : k \in 1..m \/ k - m \in 1..Len(s)
  <2>1. metadatas \in Seq(AnyMetadata)
    BY DEF Typed
  <2>2. m \in Nat
    BY <2>1
  <2>3. /\ metadatas \o s \in Seq(AnyMetadata)
        /\ Len(metadatas \o s) = Len(metadatas) + Len(s)
        /\ \A k \in 1..Len(metadatas) : (metadatas \o s)[k] = metadatas[k]
        /\ \A k \in 1..Len(s) : (metadatas \o s)[Len(metadatas) + k] = s[k]
        /\ \A k \in 1..Len(metadatas \o s) :
             k \in 1..Len(metadatas) \/ k - Len(metadatas) \in 1..Len(s)
    <3>1. \A x, y \in Seq(AnyMetadata) :
            /\ x \o y \in Seq(AnyMetadata) /\ Len(x \o y) = Len(x) + Len(y)
            /\ \A k \in 1..Len(x) : (x \o y)[k] = x[k]
            /\ \A k \in 1..Len(y) : (x \o y)[Len(x) + k] = y[k]
            /\ \A k \in 1..Len(x \o y) : k \in 1..Len(x) \/ k - Len(x) \in 1..Len(y)
      BY Joined
    <3> QED
      BY <2>1, <3>1
  <2> QED
    BY <2>2, <2>3
<1>2. Through \in Nat /\ Len(s) \in Nat
  BY ThroughType DEF Typed
<1>3. Len(metadatas') = IF kind' = "mix" THEN 2 * Through' ELSE Through'
  <2>1. m = IF kind = "mix" THEN 2 * Through ELSE Through
    BY DEF Written
  <2>2. PICK a \in Nat, b \in Nat : a = Through /\ b = Through'
    BY <1>2
  <2>3. Len(metadatas') = m + (IF kind = "mix" THEN 2 * (b - a) ELSE b - a)
    BY <1>1, <2>2
  <2>4. Len(metadatas') = IF kind = "mix" THEN 2 * b ELSE b
    <3>1. CASE kind = "mix"
      BY <2>1, <2>2, <2>3, <3>1, Difference
    <3>2. CASE kind # "mix"
      <4>1. m = a /\ Len(metadatas') = m + (b - a)
        BY <2>1, <2>2, <2>3, <3>2
      <4>2. Len(metadatas') = a + (b - a)
        BY <4>1
      <4> QED
        BY <3>2, <4>2, Difference
    <3> QED
      BY <3>1, <3>2
  <2> QED
    BY <2>2, <2>4
<1>4. \A k : FrameOf(k)' = FrameOf(k)
  BY DEF FrameOf
<1>5. ASSUME NEW k \in 1..m
      PROVE  /\ metadatas'[k].frame = FrameOf(k)'
             /\ \A md : md = metadatas[k] => OwnDetails(md)'
  <2>1. metadatas[k].frame = FrameOf(k) /\ OwnDetails(metadatas[k])
    BY DEF Written
  <2>2. metadatas[k].frame \in 1..processed
    <3>1. metadatas[k].frame \in 1..Through
      BY FrameBound
    <3>2. Through \in 0..processed /\ processed \in Nat
      BY ThroughType DEF Typed
    <3> QED
      BY <3>1, <3>2
  <2>3. ASSUME NEW md, md = metadatas[k]
        PROVE  OwnDetails(md)'
    BY <2>1, <2>2, <2>3, OwnStays
  <2> QED
    BY <1>1, <1>4, <2>1, <2>3
<1>6. ASSUME NEW k \in 1..Len(metadatas')
      PROVE  metadatas'[k].frame = FrameOf(k)' /\ OwnDetails(metadatas[k])'
  <2> SUFFICES ASSUME NEW md, md = metadatas'[k]
               PROVE  md.frame = FrameOf(k)' /\ OwnDetails(md)'
    OBVIOUS
  <2>1. CASE k \in 1..m
    BY <2>1, <1>1, <1>5
  <2>2. CASE k - m \in 1..Len(s)
    <3>1. PICK j \in 1..Len(s) : j = k - m
      BY <2>2
    <3>2. m + j = k /\ md = s[j]
      BY <1>1, <3>1
    <3> HIDE DEF m
    <3> QED
      BY <1>4, <3>2 DEF m
  <2> QED
    BY <1>1, <2>1, <2>2
<1> QED
  BY <1>1, <1>3, <1>6 DEF Written

-----------------------------------------------------------------------------
\* The actions up to the table.

Core == Typed /\ Flow /\ Merge /\ Written

LEMMA CoreInit == Init => Core
<1> SUFFICES ASSUME Init PROVE Core
  OBVIOUS
<1>1. size \in 0..BatchSize /\ total \in Nat /\ phase \in {"batch", "crashed"}
  BY PipelineAssumption DEF Init
<1>2. Typed
  <2>1. kind \in {"infer", "yolo", "mix"} /\ selection \in Selections /\ processed = 0
    BY PipelineAssumption DEF Init
  <2>2. net = <<>> /\ batch = <<>> /\ boxes = <<>> /\ merged = <<>> /\ metadatas = <<>>
    BY DEF Init
  <2>3. i = 1 /\ dropped = {}
    BY DEF Init
  <2> QED
    BY <1>1, <2>1, <2>2, <2>3, EmptySeq DEF Typed
<1>3. Flow
  <2>1. phase # "crashed" => size # 0
    BY DEF Init
  <2> QED
    BY <1>1, <2>1 DEF Init, Flow
<1>4. Merge
  BY <1>1 DEF Merge, Sources, Descending, Apart, Covered
<1>5. Written
  BY <1>1 DEF Init, Written, Through
<1> QED
  BY <1>2, <1>3, <1>4, <1>5 DEF Core

LEMMA TakeBatchKeeps ==
  ASSUME Core, TakeBatch
  PROVE  Core'
<1>1. Typed /\ Flow /\ Written
  BY DEF Core
<1> DEFINE new == Len(batch')
<1>2. /\ processed' = processed + new /\ processed' <= total
      /\ batch' \in Seq(Nat) /\ new \in Nat \ {0}
      /\ \A k \in 1..new : batch'[k] = processed + k
      /\ net' \in Seq(Output) /\ Len(net') = processed'
      /\ \A f \in 1..processed : net'[f] = net[f]
      /\ kind # "yolo" => \A k \in 1..new : net'[processed + k].scores \in Scores
      /\ kind # "infer" => /\ phase' = "merge" /\ metadatas' = metadatas
                           /\ boxes' \in Sorted(net'[processed + 1].list)
      /\ kind = "infer" => phase' = "batch" /\ boxes' = boxes
  BY <1>1, Taken
<1>3. /\ phase = "batch" /\ i' = 1 /\ dropped' = {} /\ merged' = <<>>
      /\ UNCHANGED <<kind, selection, size, total>>
  BY DEF TakeBatch, givenVars
<1>4. processed \in Nat /\ total \in Nat /\ new \in Nat \ {0} /\ processed' \in Nat
  <2>1. processed \in Nat /\ total \in Nat
    BY <1>1 DEF Typed
  <2> QED
    BY <1>2, <2>1
<1>5. kind # "infer" =>
        /\ boxes' \in Seq(Box)
        /\ \A j \in 1..Len(boxes') : \E b \in DOMAIN net'[processed + 1].list :
             /\ net'[processed + 1].list[b].score > MinScore
             /\ net'[processed + 1].list[b] = boxes'[j]
        /\ \A j, k \in 1..Len(boxes') : j < k => boxes'[j].score >= boxes'[k].score
  <2>1. net'[processed + 1] \in Output
    BY <1>2, <1>4
  <2>2. net'[processed + 1].list \in Seq(Box)
    BY <2>1, Outcome
  <2> QED
    BY <1>2, <2>2, SortedType
<1>6. Merge'
  <2>1. phase' = "merge" => kind # "infer" /\ batch'[Len(merged') + 1] = processed + 1
    <3>1. Len(merged') + 1 = 1 /\ 1 \in 1..new
      BY <1>3, <1>4, EmptySeq
    <3> QED
      BY <1>2, <3>1
  <2>2. Sources'
    <3>1. phase' = "merge" => \A j \in 1..Len(boxes') :
            \E b \in DOMAIN net'[batch'[Len(merged') + 1]].list :
              /\ net'[batch'[Len(merged') + 1]].list[b].score > MinScore
              /\ net'[batch'[Len(merged') + 1]].list[b].detail = boxes'[j].detail
      BY <1>5, <2>1
    <3>2. 1..Len(merged') = {}
      BY <1>3, EmptySeq
    <3> QED
      BY <3>1, <3>2 DEF Sources, Good
  <2>3. Descending'
    BY <1>5, <2>1 DEF Descending
  <2>4. Apart' /\ Covered'
    BY <1>3 DEF Apart, Covered
  <2> QED
    BY <2>2, <2>3, <2>4 DEF Merge
<1>7. boxes' \in Seq(Box) /\ Len(boxes') \in Nat
  BY <1>1, <1>2, <1>5 DEF Typed
<1>8. Flow'
  <2>1. kind # "yolo" => \A f \in 1..processed' : net'[f].scores \in Scores
    <3> SUFFICES ASSUME kind # "yolo", NEW f \in 1..processed'
                 PROVE  net'[f].scores \in Scores
      OBVIOUS
    <3>1. CASE f \in 1..processed
      BY <3>1, <1>1, <1>2 DEF Flow
    <3>2. CASE f - processed \in 1..new
      <4>1. PICK k \in 1..new : k = f - processed
        BY <3>2
      <4>2. f = processed + k
        BY <1>4, <4>1
      <4> QED
        BY <1>2, <4>2
    <3> QED
      BY <1>2, <1>4, <3>1, <3>2
  <2>2. size' # 0
    BY <1>1, <1>3 DEF Flow
  <2> QED
    BY <1>2, <1>3, <1>4, <2>1, <2>2 DEF Flow
<1>9. Written' /\ metadatas' \in Seq(AnyMetadata)
  <2>1. metadatas \in Seq(AnyMetadata) /\ Through = processed
    BY <1>1, <1>3 DEF Typed, Through
  <2>2. CASE kind # "infer"
    <3>1. Through' = processed
      BY <2>2, <1>2, <1>4 DEF Through
    <3>2. <<>> \in Seq(AnyMetadata) /\ Len(<<>>) = 0
      BY EmptySeq
    <3> SUFFICES ASSUME NEW s, s = <<>>
                 PROVE  Written' /\ metadatas' \in Seq(AnyMetadata)
      OBVIOUS
    <3>3. s \in Seq(AnyMetadata) /\ Len(s) = 0 /\ metadatas' = metadatas \o s
      BY <2>1, <2>2, <1>2, <3>2, ConcatEmptySeq
    <3>4. Len(s) = IF kind = "mix" THEN 2 * (Through' - Through) ELSE Through' - Through
      BY <1>4, <2>1, <3>1, <3>3
    <3>5. \A k \in 1..Len(s) : /\ s[k].frame = FrameOf(Len(metadatas) + k)
                              /\ OwnDetails(s[k])'
      BY <3>3
    <3>6. Through' \in Nat /\ Through' >= Through
      BY <1>4, <2>1, <3>1
    <3> QED
      BY <1>1, <1>2, <1>3, <3>3, <3>4, <3>5, <3>6, WrittenGrows
  <2>3. CASE kind = "infer"
    <3>1. PICK details \in [1..new -> UNION {Classify(v) : v \in Scores}] :
            /\ \A k \in 1..new : details[k] \in Classify(net'[processed + k].scores)
            /\ metadatas' = metadatas \o
                 [k \in 1..new |-> ClassMetadata(batch'[k], details[k])]
      BY <1>1, <2>3, Taken
    <3> SUFFICES ASSUME NEW s, s = [k \in 1..new |-> ClassMetadata(batch'[k], details[k])]
                 PROVE  Written' /\ metadatas' \in Seq(AnyMetadata)
      OBVIOUS
    <3>2. ASSUME NEW k \in 1..new
          PROVE  /\ s[k] \in AnyMetadata
                 /\ s[k].frame = processed + k /\ s[k].model = "0"
                 /\ s[k].details = IF details[k] = <<>> THEN <<>> ELSE <<details[k]>>
      <4>1. batch'[k] \in Nat /\ batch'[k] = processed + k
        BY <1>2, <1>4
      <4>2. net'[processed + k].scores \in Scores
        BY <1>2, <2>3
      <4>3. details[k] \in Classify(net'[processed + k].scores)
        BY <3>1
      <4> QED
        BY <1>1, <4>1, <4>2, <4>3, ClassMetadataType
    <3>3. s \in Seq(AnyMetadata) /\ Len(s) = new
      <4>1. s \in [1..new -> AnyMetadata]
        BY <3>2
      <4> QED
        BY <1>4, <4>1, FunctionSeq
    <3>4. Len(metadatas) = processed
      BY <1>1, <2>1, <2>3 DEF Written
    <3>5. Through' = processed'
      BY <1>2, <2>3 DEF Through
    <3>6. ASSUME NEW k \in 1..Len(s)
          PROVE  s[k].frame = FrameOf(Len(metadatas) + k) /\ OwnDetails(s[k])'
      <4>1. s[k].frame = FrameOf(Len(metadatas) + k)
        BY <1>4, <2>3, <3>2, <3>3, <3>4 DEF FrameOf
      <4>2. \A v : Classify(v)' = Classify(v)
        BY <1>3 DEF Classify
      <4>3. details[k] \in Classify(net'[s[k].frame].scores)
        BY <3>1, <3>2, <3>3
      <4>4. s[k].model = "0" /\ kind' # "yolo"
        BY <1>3, <2>3, <3>2, <3>3
      <4>5. s[k].details = IF details[k] = <<>> THEN <<>> ELSE <<details[k]>>
        BY <3>2, <3>3
      <4> QED
        BY <4>1, <4>2, <4>3, <4>4, <4>5 DEF OwnDetails
    <3>7. metadatas' = metadatas \o s
      BY <3>1
    <3>8. Len(s) = IF kind = "mix" THEN 2 * (Through' - Through) ELSE Through' - Through
      BY <1>2, <1>4, <2>1, <2>3, <3>3, <3>5
    <3>9. Through' \in Nat /\ Through' >= Through
      BY <1>2, <1>4, <2>1, <3>5
    <3> QED
      BY <1>1, <1>2, <1>3, <3>3, <3>6, <3>7, <3>8, <3>9, WrittenGrows
  <2> QED
    BY <2>2, <2>3
<1>10. Typed'
  <2>1. phase' \in {"batch", "merge"}
    BY <1>2
  <2>2. /\ processed' \in 0..total' /\ Len(batch') <= processed'
        /\ Len(net') = processed' /\ net' \in Seq(Output) /\ batch' \in Seq(Nat)
    <3>1. processed' \in 0..total' /\ Len(batch') <= processed'
      BY <1>2, <1>3, <1>4
    <3> QED
      BY <1>2, <3>1
  <2>3. i' \in 1..Len(boxes') + 1 /\ dropped' \subseteq 1..Len(boxes')
    BY <1>3, <1>7
  <2>4. merged' \in Seq(Seq(BoxDetail)) /\ Len(merged') <= Len(batch')
    BY <1>3, <1>4, EmptySeq
  <2>5. /\ kind' \in {"infer", "yolo", "mix"} /\ selection' \in Selections
        /\ size' \in 0..BatchSize /\ total' \in Nat
    BY <1>1, <1>3 DEF Typed
  <2> QED
    BY <1>7, <1>9, <2>1, <2>2, <2>3, <2>4, <2>5 DEF Typed
<1> QED
  BY <1>6, <1>8, <1>9, <1>10 DEF Core

\* One turn of ApplyNMS: box i comes among those that are settled.
LEMMA MergeStepKeeps ==
  ASSUME Core, MergeStep
  PROVE  Core'
<1>1. Typed /\ Flow /\ Merge /\ Written
  BY DEF Core
<1>2. /\ phase = "merge" /\ i \in 1..Len(boxes) /\ Len(boxes) \in Nat
      /\ dropped \subseteq 1..Len(boxes)
  BY <1>1 DEF Typed, MergeStep
<1> DEFINE over == {j \in i + 1..Len(boxes) : IOUAbove(boxes[j], boxes[i])}
<1>3. /\ dropped' = IF i \in dropped THEN dropped ELSE dropped \cup over
      /\ i' = i + 1
      /\ UNCHANGED <<givenVars, phase, processed, batch, net, boxes, merged, metadatas>>
  BY DEF MergeStep
<1>4. over \subseteq 1..Len(boxes) /\ \A j \in over : j > i /\ IOUAbove(boxes[j], boxes[i])
  BY <1>2
<1> HIDE DEF over
<1>5. Typed'
  <2>1. i' \in 1..Len(boxes) + 1 /\ dropped' \subseteq 1..Len(boxes)
    BY <1>2, <1>3, <1>4
  <2> QED
    BY <1>1, <1>3, <2>1 DEF Typed, givenVars
<1>6. Flow'
  BY <1>1, <1>3 DEF Flow, givenVars
<1>7. Sources' /\ Descending'
  BY <1>1, <1>3 DEF Merge, Sources, Descending, Good
<1>8. Apart'
  <2> SUFFICES ASSUME NEW j \in 1..Len(boxes) \ dropped', NEW k \in 1..Len(boxes) \ dropped',
                      j < k, j < i'
               PROVE  ~IOUAbove(boxes[k], boxes[j])
    BY <1>3 DEF Apart, IOUAbove
  <2>1. j \notin dropped /\ k \notin dropped
    BY <1>3
  <2>2. CASE j < i
    BY <1>1, <1>2, <2>1, <2>2 DEF Merge, Apart
  <2>3. CASE j = i
    <3>1. k \notin over
      BY <1>3, <2>1, <2>3
    <3>2. k \in i + 1..Len(boxes)
      BY <1>2, <2>3
    <3> QED
      BY <2>3, <3>1, <3>2 DEF over
  <2> QED
    BY <1>2, <1>3, <2>2, <2>3
<1>9. Covered'
  <2> SUFFICES ASSUME NEW j \in dropped'
               PROVE  \E k \in 1..Len(boxes) \ dropped' :
                        k < i + 1 /\ k < j /\ IOUAbove(boxes[j], boxes[k])
    BY <1>3 DEF Covered, IOUAbove
  <2>1. CASE j \in dropped
    <3>1. PICK k \in 1..Len(boxes) \ dropped : k < i /\ k < j /\ IOUAbove(boxes[j], boxes[k])
      BY <1>1, <1>2, <2>1 DEF Merge, Covered
    <3>2. k \notin dropped' /\ k < i + 1
      BY <1>2, <1>3, <1>4, <3>1
    <3> QED
      BY <3>1, <3>2
  <2>2. CASE j \notin dropped
    <3>1. i \notin dropped /\ j \in over
      BY <1>3, <2>2
    <3>2. i \in 1..Len(boxes) \ dropped'
      BY <1>2, <1>3, <1>4, <3>1
    <3> QED
      BY <1>2, <1>4, <3>1, <3>2
  <2> QED
    BY <2>1, <2>2
<1>10. Written'
  <2>1. Through' = Through
    BY <1>3 DEF Through
  <2> QED
    BY <1>1, <1>3, <2>1, WrittenStays DEF givenVars
<1> QED
  BY <1>5, <1>6, <1>7, <1>8, <1>9, <1>10 DEF Core, Merge

\* What ApplyNMS leaves of a frame goes to the details of that frame.
LEMMA FrameMerged ==
  ASSUME Core, phase = "merge", NEW kept \in Kept, merged' = Append(merged, kept),
         UNCHANGED <<net, batch>>
  PROVE  /\ merged' \in Seq(Seq(BoxDetail)) /\ Len(merged') = Len(merged) + 1
         /\ Len(merged) \in Nat /\ Len(merged) < Len(batch) /\ Len(batch) \in Nat
         /\ \A k \in 1..Len(merged') : \A n \in DOMAIN merged'[k] :
              Good(batch[k], merged'[k][n])
<1>1. Typed /\ Flow /\ Sources
  BY DEF Core, Merge
<1>2. boxes \in Seq(Box) /\ merged \in Seq(Seq(BoxDetail)) /\ Len(merged) \in Nat
  BY <1>1 DEF Typed
<1>3. Len(batch) \in Nat /\ Len(merged) < Len(batch)
  BY <1>1 DEF Typed, Flow
<1>4. kept \in Seq(BoxDetail)
  BY <1>2, KeptType
<1>5. \A n \in DOMAIN kept : \E j \in 1..Len(boxes) : kept[n] = boxes[j].detail
  BY <1>2, KeptType
<1>6. /\ merged' \in Seq(Seq(BoxDetail)) /\ Len(merged') = Len(merged) + 1
      /\ \A k \in 1..Len(merged) : merged'[k] = merged[k]
      /\ merged'[Len(merged) + 1] = kept
  <2>1. \A s \in Seq(Seq(BoxDetail)), e \in Seq(BoxDetail) :
          /\ Append(s, e) \in Seq(Seq(BoxDetail)) /\ Len(Append(s, e)) = Len(s) + 1
          /\ \A k \in 1..Len(s) : Append(s, e)[k] = s[k]
          /\ Append(s, e)[Len(s) + 1] = e
    BY Appended
  <2> QED
    BY <1>2, <1>4, <2>1
<1>7. ASSUME NEW k \in 1..Len(merged'), NEW n \in DOMAIN merged'[k]
      PROVE  Good(batch[k], merged'[k][n])
  <2>1. CASE k \in 1..Len(merged)
    BY <1>1, <1>6, <2>1 DEF Sources
  <2>2. CASE k = Len(merged) + 1
    <3>1. PICK j \in 1..Len(boxes) : kept[n] = boxes[j].detail
      BY <1>5, <1>6, <2>2
    <3> QED
      BY <1>1, <1>6, <2>2, <3>1 DEF Sources
  <2> QED
    BY <1>2, <1>6, <2>1, <2>2
<1> QED
  BY <1>3, <1>2, <1>6, <1>7

LEMMA NextFrameKeeps ==
  ASSUME Core, NextFrame
  PROVE  Core'
<1>1. Typed /\ Flow /\ Merge /\ Written
  BY DEF Core
<1>2. /\ phase = "merge" /\ Len(merged) + 1 < Len(batch) /\ i' = 1 /\ dropped' = {}
      /\ boxes' \in Sorted(net[batch[Len(merged) + 2]].list)
      /\ UNCHANGED <<givenVars, phase, processed, batch, net, metadatas>>
  BY DEF NextFrame
<1>3. PICK kept \in Kept : merged' = Append(merged, kept)
  BY DEF NextFrame
<1>4. /\ merged' \in Seq(Seq(BoxDetail)) /\ Len(merged') = Len(merged) + 1
      /\ Len(merged) \in Nat /\ Len(batch) \in Nat
      /\ \A k \in 1..Len(merged') : \A n \in DOMAIN merged'[k] :
           Good(batch[k], merged'[k][n])
  BY <1>2, <1>3, FrameMerged
<1> DEFINE f == batch[Len(merged) + 2]
<1>5. /\ net[f].list \in Seq(Box) /\ batch[Len(merged') + 1] = f
  <2>1. Len(merged) + 2 \in 1..Len(batch)
    BY <1>2, <1>4
  <2>2. f = processed - Len(batch) + (Len(merged) + 2) /\ Len(batch) <= processed
        /\ processed \in Nat
    BY <1>1, <2>1 DEF Flow, Typed
  <2>3. f \in 1..processed
    BY <1>4, <2>1, <2>2
  <2>4. net[f] \in Output
    BY <1>1, <2>3 DEF Typed
  <2> QED
    BY <1>4, <2>4, Outcome
<1> HIDE DEF f
<1>6. /\ boxes' \in Seq(Box)
      /\ \A j \in 1..Len(boxes') : \E b \in DOMAIN net[f].list :
           net[f].list[b].score > MinScore /\ net[f].list[b] = boxes'[j]
      /\ \A j, k \in 1..Len(boxes') : j < k => boxes'[j].score >= boxes'[k].score
  <2>1. boxes' \in Sorted(net[f].list)
    BY <1>2 DEF f
  <2> QED
    BY <1>5, <2>1, SortedType
<1>7. Typed'
  <2>1. i' \in 1..Len(boxes') + 1 /\ dropped' \subseteq 1..Len(boxes')
    BY <1>2, <1>6
  <2>2. Len(merged') <= Len(batch')
    BY <1>2, <1>4
  <2> QED
    BY <1>1, <1>2, <1>4, <1>6, <2>1, <2>2 DEF Typed, givenVars
<1>8. Flow'
  BY <1>1, <1>2, <1>4 DEF Flow, givenVars
<1>9. Merge'
  <2>1. Sources'
    <3>1. \A j \in 1..Len(boxes') : \E b \in DOMAIN net[batch[Len(merged') + 1]].list :
            /\ net[batch[Len(merged') + 1]].list[b].score > MinScore
            /\ net[batch[Len(merged') + 1]].list[b].detail = boxes'[j].detail
      BY <1>5, <1>6
    <3> QED
      BY <1>2, <1>4, <3>1 DEF Sources, Good
  <2>2. Descending'
    BY <1>6 DEF Descending
  <2>3. Apart' /\ Covered'
    BY <1>2 DEF Apart, Covered
  <2> QED
    BY <2>1, <2>2, <2>3 DEF Merge
<1>10. Written'
  <2>1. Through' = Through
    BY <1>2 DEF Through
  <2> QED
    BY <1>1, <1>2, <2>1, WrittenStays DEF givenVars
<1> QED
  BY <1>7, <1>8, <1>9, <1>10 DEF Core

LEMMA EndBatchKeeps ==
  ASSUME Core, EndBatch
  PROVE  Core'
<1>1. Typed /\ Flow /\ Merge /\ Written
  BY DEF Core
<1>2. /\ phase = "merge" /\ Len(merged) + 1 = Len(batch) /\ i' = 1 /\ dropped' = {}
      /\ phase' = "write" /\ boxes' = <<>>
      /\ UNCHANGED <<givenVars, processed, batch, net, metadatas>>
  BY DEF EndBatch
<1>3. PICK kept \in Kept : merged' = Append(merged, kept)
  BY DEF EndBatch
<1>4. /\ merged' \in Seq(Seq(BoxDetail)) /\ Len(merged') = Len(merged) + 1
      /\ Len(merged) \in Nat /\ Len(batch) \in Nat
      /\ \A k \in 1..Len(merged') : \A n \in DOMAIN merged'[k] :
           Good(batch[k], merged'[k][n])
  BY <1>2, <1>3, FrameMerged
<1>5. Typed'
  <2>1. boxes' \in Seq(Box) /\ Len(boxes') = 0
    BY <1>2, EmptySeq
  <2>2. i' \in 1..Len(boxes') + 1 /\ dropped' \subseteq 1..Len(boxes')
    BY <1>2, <2>1
  <2>3. Len(merged') <= Len(batch')
    BY <1>2, <1>4
  <2> QED
    BY <1>1, <1>2, <1>4, <2>1, <2>2, <2>3 DEF Typed, givenVars
<1>6. Flow'
  BY <1>1, <1>2, <1>4 DEF Flow, givenVars
<1>7. Merge'
  <2>1. Sources'
    BY <1>2, <1>4 DEF Sources, Good
  <2> QED
    BY <1>2, <2>1 DEF Merge, Descending, Apart, Covered
<1>8. Written'
  <2>1. Through' = Through
    BY <1>2 DEF Through
  <2> QED
    BY <1>1, <1>2, <2>1, WrittenStays DEF givenVars
<1> QED
  BY <1>5, <1>6, <1>7, <1>8 DEF Core

\* YoloPipe: each frame has the boxes merged for it.
LEMMA WriteYoloKeeps ==
  ASSUME Core, WriteYolo
  PROVE  Core'
<1>1. Typed /\ Flow /\ Merge /\ Written
  BY DEF Core
<1>2. /\ phase = "write" /\ kind = "yolo" /\ phase' = "batch"
      /\ UNCHANGED <<givenVars, processed, batch, net, nmsVars>>
      /\ metadatas' = metadatas \o [k \in 1..Len(batch) |-> Metadata(batch[k], "2", merged[k])]
  BY DEF WriteYolo
<1>3. /\ Len(merged) = Len(batch) /\ Len(batch) \in Nat /\ Len(batch) <= processed
      /\ processed \in Nat /\ batch \in Seq(Nat) /\ merged \in Seq(Seq(BoxDetail))
  BY <1>1, <1>2 DEF Typed, Flow
<1> SUFFICES ASSUME NEW s, s = [k \in 1..Len(batch) |-> Metadata(batch[k], "2", merged[k])]
             PROVE  Core'
  OBVIOUS
<1>4. ASSUME NEW k \in 1..Len(batch)
      PROVE  /\ s[k] \in AnyMetadata
             /\ s[k].frame = batch[k] /\ s[k].model = "2" /\ s[k].details = merged[k]
  <2>1. batch[k] \in Nat /\ merged[k] \in Seq(BoxDetail)
    BY <1>3
  <2> QED
    BY <2>1, BoxMetadataType
<1>5. s \in Seq(AnyMetadata) /\ Len(s) = Len(batch)
  <2>1. PICK n \in Nat : n = Len(batch)
    BY <1>3
  <2>2. s \in [1..n -> AnyMetadata]
    BY <1>4, <2>1
  <2> QED
    BY <2>1, <2>2, FunctionSeq
<1>6. Through = processed - Len(batch) /\ Through' = processed
  BY <1>2 DEF Through
<1>7. Written' /\ metadatas' \in Seq(AnyMetadata)
  <2>1. Len(metadatas) = processed - Len(batch)
    BY <1>1, <1>2, <1>6 DEF Written
  <2>2. ASSUME NEW k \in 1..Len(s)
        PROVE  s[k].frame = FrameOf(Len(metadatas) + k) /\ OwnDetails(s[k])'
    <3>1. s[k].frame = batch[k] /\ s[k].model = "2" /\ s[k].details = merged[k]
      BY <1>4, <1>5
    <3>2. batch[k] = processed - Len(batch) + k
      BY <1>1, <1>5 DEF Flow
    <3>3. s[k].frame = FrameOf(Len(metadatas) + k)
      BY <1>2, <2>1, <3>1, <3>2 DEF FrameOf
    <3>4. \A n \in DOMAIN merged[k] : Good(batch[k], merged[k][n])
      BY <1>1, <1>2, <1>3, <1>5 DEF Merge, Sources
    <3>5. \A n \in DOMAIN s[k].details : Good(s[k].frame, s[k].details[n])
      BY <3>1, <3>4
    <3>6. s[k].model # "0"
      BY <3>1
    <3> QED
      BY <1>2, <3>3, <3>5, <3>6 DEF OwnDetails, Good
  <2>3. metadatas' = metadatas \o s /\ UNCHANGED <<kind, selection, net>>
    BY <1>2 DEF givenVars
  <2>4. Len(s) = IF kind = "mix" THEN 2 * (Through' - Through) ELSE Through' - Through
    BY <1>2, <1>3, <1>5, <1>6
  <2>5. Through' \in Nat /\ Through' >= Through
    BY <1>3, <1>6
  <2> QED
    BY <1>1, <1>5, <2>2, <2>3, <2>4, <2>5, WrittenGrows
<1>8. Typed'
  BY <1>1, <1>2, <1>7 DEF Typed, givenVars, nmsVars
<1>9. Flow'
  BY <1>1, <1>2 DEF Flow, givenVars
<1>10. Merge'
  BY <1>2 DEF Merge, Sources, Descending, Apart, Covered
<1> QED
  BY <1>7, <1>8, <1>9, <1>10 DEF Core

\* MixPipe: two for each frame.
LEMMA MixMetadataType ==
  ASSUME Core, phase = "write", kind = "mix",
         NEW details, \A k \in 1..Len(batch) : details[k] \in Classify(net[batch[k]].scores)
  PROVE  /\ MixMetadata(details) \in Seq(AnyMetadata)
         /\ Len(MixMetadata(details)) = 2 * Len(batch)
         /\ \A k \in 1..2 * Len(batch) :
              /\ MixMetadata(details)[k].frame = processed - Len(batch) + (k + 1) \div 2
              /\ OwnDetails(MixMetadata(details)[k])
<1>1. Typed /\ Flow /\ Sources
  BY DEF Core, Merge
<1>2. /\ Len(merged) = Len(batch) /\ Len(batch) \in Nat /\ Len(batch) <= processed
      /\ processed \in Nat /\ batch \in Seq(Nat) /\ merged \in Seq(Seq(BoxDetail))
  BY <1>1 DEF Typed, Flow
<1> DEFINE s == MixMetadata(details)
<1>3. ASSUME NEW k \in 1..2 * Len(batch)
      PROVE  /\ s[k] \in AnyMetadata
             /\ s[k].frame = processed - Len(batch) + (k + 1) \div 2
             /\ OwnDetails(s[k])
  <2> DEFINE n == (k + 1) \div 2
  <2>1. n \in 1..Len(batch)
    BY <1>2
  <2>2. s[k] = IF k % 2 = 1 THEN Metadata(batch[n], "2", merged[n])
               ELSE ClassMetadata(batch[n], details[n])
    BY DEF MixMetadata
  <2> HIDE DEF n
  <2>3. batch[n] = processed - Len(batch) + n /\ batch[n] \in Nat /\ batch[n] \in 1..processed
    BY <1>1, <1>2, <2>1 DEF Flow
  <2>4. CASE k % 2 = 1
    <3>1. merged[n] \in Seq(BoxDetail)
      BY <1>2, <2>1
    <3>2. /\ s[k] \in AnyMetadata /\ s[k].frame = batch[n] /\ s[k].model = "2"
          /\ s[k].details = merged[n]
      BY <2>2, <2>3, <2>4, <3>1, BoxMetadataType
    <3>3. \A m \in DOMAIN merged[n] : Good(batch[n], merged[n][m])
      BY <1>1, <1>2, <2>1 DEF Sources
    <3>4. OwnDetails(s[k])
      BY <3>2, <3>3 DEF OwnDetails
    <3> QED
      BY <2>3, <3>2, <3>4 DEF n
  <2>5. CASE k % 2 # 1
    <3>1. net[batch[n]].scores \in Scores
      BY <1>1, <2>3 DEF Flow
    <3>2. details[n] \in Classify(net[batch[n]].scores)
      BY <2>1
    <3>3. /\ s[k] \in AnyMetadata /\ s[k].frame = batch[n] /\ s[k].model = "0"
          /\ s[k].details = IF details[n] = <<>> THEN <<>> ELSE <<details[n]>>
      BY <1>1, <2>2, <2>3, <2>5, <3>1, <3>2, ClassMetadataType
    <3>4. OwnDetails(s[k])
      BY <3>2, <3>3 DEF OwnDetails
    <3> QED
      BY <2>3, <3>3, <3>4 DEF n
  <2> QED
    BY <2>4, <2>5
<1>4. s \in [1..2 * Len(batch) -> AnyMetadata]
  BY <1>3 DEF MixMetadata
<1> HIDE DEF s
<1>5. s \in Seq(AnyMetadata) /\ Len(s) = 2 * Len(batch)
  <2>1. PICK n \in Nat : n = 2 * Len(batch)
    BY <1>2
  <2>2. s \in [1..n -> AnyMetadata]
    BY <1>4, <2>1
  <2> QED
    BY <2>1, <2>2, FunctionSeq
<1> QED
  BY <1>3, <1>5 DEF s

LEMMA Halves ==
  ASSUME NEW a \in Nat, NEW k \in Nat
  PROVE  (2 * a + k + 1) \div 2 = a + (k + 1) \div 2
OBVIOUS

LEMMA WriteMixKeeps ==
  ASSUME Core, WriteMix
  PROVE  Core'
<1>1. Typed /\ Flow /\ Merge /\ Written
  BY DEF Core
<1>2. /\ phase = "write" /\ kind = "mix" /\ phase' = "batch"
      /\ UNCHANGED <<givenVars, processed, batch, net, nmsVars>>
  BY DEF WriteMix
<1>3. PICK details \in [1..Len(batch) -> UNION {Classify(v) : v \in Scores}] :
        /\ \A k \in 1..Len(batch) : details[k] \in Classify(net[batch[k]].scores)
        /\ metadatas' = metadatas \o MixMetadata(details)
  BY DEF WriteMix
<1>4. Len(batch) \in Nat /\ Len(batch) <= processed /\ processed \in Nat
  BY <1>1 DEF Typed
<1> SUFFICES ASSUME NEW s, s = MixMetadata(details)
             PROVE  Core'
  OBVIOUS
<1>5. /\ s \in Seq(AnyMetadata) /\ Len(s) = 2 * Len(batch)
      /\ \A k \in 1..2 * Len(batch) :
           /\ s[k].frame = processed - Len(batch) + (k + 1) \div 2
           /\ OwnDetails(s[k])
  BY <1>2, <1>3, MixMetadataType
<1>6. Through = processed - Len(batch) /\ Through' = processed
  BY <1>2 DEF Through
<1>7. Written' /\ metadatas' \in Seq(AnyMetadata)
  <2>1. Len(metadatas) = 2 * (processed - Len(batch))
    BY <1>1, <1>2, <1>6 DEF Written
  <2>2. metadatas' = metadatas \o s /\ UNCHANGED <<kind, selection, net>>
    BY <1>2, <1>3 DEF givenVars
  <2>3. ASSUME NEW k \in 1..Len(s)
        PROVE  s[k].frame = FrameOf(Len(metadatas) + k) /\ OwnDetails(s[k])'
    <3>1. s[k].frame = processed - Len(batch) + (k + 1) \div 2 /\ OwnDetails(s[k])
      BY <1>5
    <3>2. s[k].frame = FrameOf(Len(metadatas) + k)
      <4>1. PICK a \in Nat : a = Through
        BY <1>1, ThroughType DEF Typed
      <4>2. Len(metadatas) = 2 * a /\ s[k].frame = a + (k + 1) \div 2
        BY <1>1, <1>2, <1>6, <3>1, <4>1 DEF Written
      <4>3. FrameOf(Len(metadatas) + k) = (2 * a + k + 1) \div 2
        BY <1>2, <4>2 DEF FrameOf
      <4>4. k \in Nat
        BY <1>4, <1>5
      <4> QED
        BY <4>1, <4>2, <4>3, <4>4, Halves
    <3>3. OwnDetails(s[k])'
      <4> SUFFICES ASSUME NEW md, md = s[k]
                   PROVE  OwnDetails(md)'
        OBVIOUS
      <4> QED
        BY <2>2, <3>1, OwnStays
    <3> QED
      BY <3>2, <3>3
  <2>4. Len(s) = IF kind = "mix" THEN 2 * (Through' - Through) ELSE Through' - Through
    BY <1>2, <1>4, <1>5, <1>6
  <2>5. Through' \in Nat /\ Through' >= Through
    BY <1>4, <1>6
  <2> QED
    BY <1>1, <1>5, <2>2, <2>3, <2>4, <2>5, WrittenGrows
<1>8. Typed'
  BY <1>1, <1>2, <1>7 DEF Typed, givenVars, nmsVars
<1>9. Flow'
  BY <1>1, <1>2 DEF Flow, givenVars
<1>10. Merge'
  BY <1>2 DEF Merge, Sources, Descending, Apart, Covered
<1> QED
  BY <1>7, <1>8, <1>9, <1>10 DEF Core

LEMMA CoreStep == Core /\ [Next]_vars => Core'
<1> SUFFICES ASSUME Core, [Next]_vars PROVE Core'
  OBVIOUS
<1>1. ASSUME UNCHANGED <<givenVars, processed, batch, net, nmsVars, metadatas>>,
             \/ phase' = phase
             \/ phase = "batch" /\ phase' = "table" /\ processed >= total
             \/ phase = "table" /\ phase' = "done"
      PROVE  Core'
  <2>1. Typed /\ Flow /\ Merge /\ Written
    BY DEF Core
  <2>2. Typed'
    BY <1>1, <2>1 DEF Typed, givenVars, nmsVars
  <2>3. Flow'
    <3>1. processed \in 0..total /\ total \in Nat
      BY <2>1 DEF Typed
    <3> QED
      BY <1>1, <2>1, <3>1 DEF Flow, givenVars, nmsVars
  <2>4. Merge'
    <3>1. CASE phase' = phase
      BY <1>1, <2>1, <3>1
        DEF Merge, Sources, Descending, Apart, Covered, Good, IOUAbove, nmsVars
    <3>2. CASE phase' \in {"table", "done"}
      BY <3>2 DEF Merge, Sources, Descending, Apart, Covered
    <3> QED
      BY <1>1, <3>1, <3>2
  <2>5. Written'
    <3>1. Through' = Through
      BY <1>1 DEF Through
    <3> QED
      BY <1>1, <2>1, <3>1, WrittenStays DEF givenVars
  <2> QED
    BY <2>2, <2>3, <2>4, <2>5 DEF Core
<1>2. CASE StartTable
  BY <1>1, <1>2 DEF StartTable
<1>3. CASE LabelStep
  BY <1>1, <1>3 DEF LabelStep
<1>4. CASE NextMetadata
  BY <1>1, <1>4 DEF NextMetadata
<1>5. CASE Summarize
  BY <1>1, <1>5 DEF Summarize
<1>6. CASE UNCHANGED vars
  BY <1>1, <1>6 DEF vars
<1> QED
  BY <1>2, <1>3, <1>4, <1>5, <1>6, TakeBatchKeeps, MergeStepKeeps, NextFrameKeeps, EndBatchKeeps,
     WriteYoloKeeps, WriteMixKeeps DEF Next

-----------------------------------------------------------------------------
\* The table of labels.

LEMMA EntryType ==
  ASSUME Core, NEW a, NEW b, a \in 1..Len(metadatas), b \in 1..Len(metadatas[a].details)
  PROVE  ConfOf(a, b) \in Int /\ metadatas[a].frame \in Int
<1>1. metadatas[a] \in AnyMetadata
  BY DEF Core, Typed
<1>2. metadatas[a].frame \in Int /\ metadatas[a].details \in Seq(Detail \ {<<>>})
  BY <1>1 DEF AnyMetadata
<1>3. metadatas[a].details[b] \in Detail /\ metadatas[a].details[b] # <<>>
  BY <1>2
<1>4. metadatas[a].details[b][1] \in AnyLabel \X Int
  <2>1. \A s \in Seq(AnyLabel \X Int) : s # <<>> => s[1] \in AnyLabel \X Int
    OBVIOUS
  <2> QED
    BY <1>3, <2>1 DEF Detail
<1> QED
  BY <1>2, <1>4 DEF ConfOf

LEMMA FramesAscend ==
  ASSUME Core, NEW a \in 1..Len(metadatas), NEW c \in 1..Len(metadatas), a <= c
  PROVE  metadatas[a].frame <= metadatas[c].frame
<1>1. metadatas[a].frame = FrameOf(a) /\ metadatas[c].frame = FrameOf(c)
  BY DEF Core, Written
<1> QED
  BY <1>1 DEF FrameOf

\* Before the loops there is nothing in it.
LEMMA NothingSeen ==
  ASSUME Core, at = <<1, 1>>, DOMAIN table = {}
  PROVE  Tabled
<1>1. at[1] = 1 /\ at[2] = 1 /\ at = <<at[1], at[2]>>
  OBVIOUS
<1>2. \A a, b \in Nat : ~Seen(a, b)
  BY <1>1 DEF Seen
<1>3. Len(metadatas) \in Nat
  BY DEF Core, Typed
<1> QED
  BY <1>1, <1>2, <1>3 DEF Tabled, EntriesSeen, Bests

LEMMA TabledInit == Init => Tabled /\ SummaryIsBest
<1> SUFFICES ASSUME Init PROVE Tabled /\ SummaryIsBest
  OBVIOUS
<1>1. Core
  BY CoreInit
<1>2. at = <<1, 1>> /\ DOMAIN table = {} /\ phase # "done"
  BY DEF Init
<1> QED
  BY <1>1, <1>2, NothingSeen DEF SummaryIsBest

\* The same details are seen and the table is the same.
LEMMA SameTable ==
  ASSUME Tabled, UNCHANGED <<metadatas, table>>, phase \in {"table", "done"} \/ UNCHANGED at,
         at' = <<at'[1], at'[2]>>, at'[1] \in 1..Len(metadatas) + 1, at'[2] \in Nat \ {0},
         \A a, b \in Nat : Seen(a, b)' <=> Seen(a, b),
         phase' = phase \/ phase' \in {"table", "done"}
  PROVE  Tabled'
<1>1. EntriesSeen'
  BY DEF Tabled, EntriesSeen, LabelOf, ConfOf
<1>2. Bests'
  BY DEF Tabled, Bests, LabelOf, ConfOf
<1> QED
  BY <1>1, <1>2 DEF Tabled

LEMMA NextMetadataKeeps ==
  ASSUME Core, Tabled, NextMetadata
  PROVE  Tabled'
<1>1. /\ phase = "table" /\ at[1] <= Len(metadatas)
      /\ at[2] > Len(metadatas[at[1]].details) /\ at' = <<at[1] + 1, 1>>
      /\ UNCHANGED <<phase, metadatas, table>>
  BY DEF NextMetadata
<1>2. Len(metadatas) \in Nat /\ at[1] \in 1..Len(metadatas) /\ at[2] \in Nat
  BY <1>1 DEF Core, Typed, Tabled
<1>3. at'[1] = at[1] + 1 /\ at'[2] = 1 /\ at' = <<at'[1], at'[2]>>
  BY <1>1
<1>4. \A a, b \in Nat : Seen(a, b)' <=> Seen(a, b)
  <2> SUFFICES ASSUME NEW a \in Nat, NEW b \in Nat
               PROVE  Seen(a, b)' <=> Seen(a, b)
    OBVIOUS
  <2>1. metadatas[at[1]] \in AnyMetadata
    BY <1>2 DEF Core, Typed
  <2>2. Len(metadatas[at[1]].details) \in Nat
    BY <2>1 DEF AnyMetadata
  <2>3. a < at[1] + 1 <=> a < at[1] \/ a = at[1]
    BY <1>2
  <2>4. ~(b \in 1..Len(metadatas[a].details) /\ b < 1)
    OBVIOUS
  <2>5. a = at[1] /\ b \in 1..Len(metadatas[a].details) => b < at[2]
    BY <1>1, <1>2, <2>2
  <2> QED
    BY <1>1, <1>3, <2>3, <2>4, <2>5 DEF Seen
<1>5. at'[1] \in 1..Len(metadatas) + 1
  BY <1>2, <1>3
<1> QED
  BY <1>1, <1>3, <1>4, <1>5, SameTable

LEMMA LabelStepKeeps ==
  ASSUME Core, Tabled, LabelStep
  PROVE  Tabled'
<1> DEFINE A == at[1]
           B == at[2]
           frame == metadatas[A].frame
<1>1. /\ phase = "table" /\ A <= Len(metadatas) /\ B <= Len(metadatas[A].details)
      /\ at' = <<A, B + 1>> /\ UNCHANGED <<phase, metadatas>>
      /\ table' = IF \/ LabelOf(A, B) = Normal
                     \/ LabelOf(A, B) \in DOMAIN table /\ ConfOf(A, B) <= table[LabelOf(A, B)][1]
                  THEN table
                  ELSE [l \in DOMAIN table \cup {LabelOf(A, B)} |->
                          IF l = LabelOf(A, B) THEN <<ConfOf(A, B), frame>> ELSE table[l]]
  BY DEF LabelStep, LabelOf, ConfOf
<1>2. Len(metadatas) \in Nat /\ A \in 1..Len(metadatas) /\ B \in Nat \ {0}
  BY <1>1 DEF Core, Typed, Tabled
<1>3. Len(metadatas[A].details) \in Nat /\ B \in 1..Len(metadatas[A].details)
  <2>1. metadatas[A] \in AnyMetadata
    BY <1>2 DEF Core, Typed
  <2>2. Len(metadatas[A].details) \in Nat
    BY <2>1 DEF AnyMetadata
  <2> QED
    BY <1>1, <1>2, <2>2
<1>4. at'[1] = A /\ at'[2] = B + 1 /\ at' = <<at'[1], at'[2]>>
  BY <1>1
<1> DEFINE L == LabelOf(A, B)
           C == ConfOf(A, B)
<1>5. \A a, b \in Nat : Seen(a, b)' <=> Seen(a, b) \/ (a = A /\ b = B)
  BY <1>1, <1>2, <1>3, <1>4 DEF Seen
<1>6. \A a, b : LabelOf(a, b)' = LabelOf(a, b) /\ ConfOf(a, b)' = ConfOf(a, b)
  BY <1>1 DEF LabelOf, ConfOf
<1>7. C \in Int /\ frame \in Int
  BY <1>2, <1>3, EntryType
<1>8. A \in Nat /\ B \in Nat
  BY <1>2
<1>9. \A l \in DOMAIN table : \E a, b \in Nat :
        Seen(a, b) /\ LabelOf(a, b) = l /\ table[l] = <<ConfOf(a, b), metadatas[a].frame>>
  BY DEF Tabled, EntriesSeen
<1>10. \A a, b \in Nat : Seen(a, b) /\ LabelOf(a, b) # Normal =>
         /\ LabelOf(a, b) \in DOMAIN table
         /\ \/ table[LabelOf(a, b)][1] > ConfOf(a, b)
            \/ /\ table[LabelOf(a, b)][1] = ConfOf(a, b)
               /\ table[LabelOf(a, b)][2] <= metadatas[a].frame
  BY DEF Tabled, Bests
<1>11. Normal \notin DOMAIN table
  BY DEF Tabled
\* Entries are of details up to here.
<1>12. \A l \in DOMAIN table :
         table[l][1] \in Int /\ table[l][2] \in Int /\ table[l][2] <= frame
  <2> SUFFICES ASSUME NEW l \in DOMAIN table
               PROVE  table[l][1] \in Int /\ table[l][2] \in Int /\ table[l][2] <= frame
    OBVIOUS
  <2>1. PICK a \in Nat, b \in Nat :
          Seen(a, b) /\ table[l] = <<ConfOf(a, b), metadatas[a].frame>>
    BY <1>9
  <2>2. a \in 1..Len(metadatas) /\ b \in 1..Len(metadatas[a].details) /\ a <= A
    BY <2>1, <1>2 DEF Seen
  <2>3. metadatas[a].frame <= frame
    BY <1>2, <2>2, FramesAscend
  <2>4. ConfOf(a, b) \in Int /\ metadatas[a].frame \in Int
    BY <2>2, EntryType
  <2> QED
    BY <2>1, <2>3, <2>4
<1> HIDE DEF A, B, L, C, frame
<1>13. CASE L = Normal \/ (L \in DOMAIN table /\ C <= table[L][1])
  <2>1. table' = table
    BY <1>1, <1>13 DEF L, C
  <2>2. ASSUME NEW a \in Nat, NEW b \in Nat, Seen(a, b)', LabelOf(a, b) # Normal
        PROVE  /\ LabelOf(a, b) \in DOMAIN table
               /\ \/ table[LabelOf(a, b)][1] > ConfOf(a, b)
                  \/ /\ table[LabelOf(a, b)][1] = ConfOf(a, b)
                     /\ table[LabelOf(a, b)][2] <= metadatas[a].frame
    <3>1. CASE Seen(a, b)
      BY <1>10, <2>2, <3>1
    <3>2. CASE a = A /\ b = B
      <4>1. LabelOf(a, b) = L /\ ConfOf(a, b) = C /\ metadatas[a].frame = frame
        BY <3>2 DEF L, C, frame
      <4>2. L \in DOMAIN table /\ C <= table[L][1]
        BY <1>13, <2>2, <4>1
      <4>3. table[L][1] \in Int /\ table[L][2] <= frame
        BY <1>12, <4>2
      <4> QED
        BY <1>7, <4>1, <4>2, <4>3
    <3> QED
      BY <1>5, <2>2, <3>1, <3>2
  <2>3. ASSUME NEW l \in DOMAIN table'
        PROVE  \E a, b \in Nat : /\ Seen(a, b)' /\ LabelOf(a, b) = l
                                 /\ table'[l] = <<ConfOf(a, b), metadatas[a].frame>>
    BY <1>5, <1>9, <2>1
  <2>4. at'[1] \in 1..Len(metadatas') + 1 /\ at'[2] \in Nat \ {0}
    BY <1>1, <1>2, <1>4
  <2>5. EntriesSeen'
    <3> SUFFICES ASSUME NEW l \in DOMAIN table'
                 PROVE  \E a, b \in Nat :
                          /\ Seen(a, b)' /\ LabelOf(a, b)' = l
                          /\ table'[l] = <<ConfOf(a, b)', metadatas'[a].frame>>
      BY DEF EntriesSeen
    <3>1. PICK a \in Nat, b \in Nat :
            /\ Seen(a, b)' /\ LabelOf(a, b) = l
            /\ table'[l] = <<ConfOf(a, b), metadatas[a].frame>>
      BY <2>3
    <3> QED
      BY <1>1, <1>6, <3>1
  <2>6. Bests'
    BY <1>1, <1>6, <2>1, <2>2 DEF Bests
  <2> QED
    BY <1>1, <1>4, <1>11, <2>1, <2>4, <2>5, <2>6 DEF Tabled
<1>14. CASE L # Normal /\ ~(L \in DOMAIN table /\ C <= table[L][1])
  <2>1. /\ DOMAIN table' = DOMAIN table \cup {L}
        /\ table'[L] = <<C, frame>>
        /\ \A l \in DOMAIN table \ {L} : table'[l] = table[l]
    BY <1>1, <1>14 DEF L, C
  <2>2. ASSUME NEW a \in Nat, NEW b \in Nat, Seen(a, b)', LabelOf(a, b) # Normal
        PROVE  /\ LabelOf(a, b) \in DOMAIN table'
               /\ \/ table'[LabelOf(a, b)][1] > ConfOf(a, b)
                  \/ /\ table'[LabelOf(a, b)][1] = ConfOf(a, b)
                     /\ table'[LabelOf(a, b)][2] <= metadatas[a].frame
    <3>1. CASE Seen(a, b) /\ LabelOf(a, b) # L
      BY <1>10, <2>1, <2>2, <3>1
    <3>2. CASE Seen(a, b) /\ LabelOf(a, b) = L
      <4>1. L \in DOMAIN table /\ table[L][1] >= ConfOf(a, b) /\ ConfOf(a, b) \in Int
        <5>1. ConfOf(a, b) \in Int
          BY <3>2, EntryType DEF Seen
        <5> QED
          BY <1>10, <1>12, <2>2, <3>2, <5>1
      <4>2. C > ConfOf(a, b)
        BY <1>7, <1>12, <1>14, <4>1
      <4> QED
        BY <2>1, <3>2, <4>2
    <3>3. CASE a = A /\ b = B
      <4>1. LabelOf(a, b) = L /\ ConfOf(a, b) = C /\ metadatas[a].frame = frame
        BY <3>3 DEF L, C, frame
      <4> QED
        BY <1>7, <2>1, <4>1
    <3> QED
      BY <1>5, <2>2, <3>1, <3>2, <3>3
  <2>3. ASSUME NEW l \in DOMAIN table'
        PROVE  \E a, b \in Nat : /\ Seen(a, b)' /\ LabelOf(a, b) = l
                                 /\ table'[l] = <<ConfOf(a, b), metadatas[a].frame>>
    <3>1. CASE l = L
      <4>1. PICK a \in Nat, b \in Nat : a = A /\ b = B
        BY <1>8
      <4>2. Seen(a, b)'
        BY <1>5, <4>1
      <4>3. LabelOf(a, b) = L /\ ConfOf(a, b) = C /\ metadatas[a].frame = frame
        BY <4>1 DEF L, C, frame
      <4> QED
        BY <2>1, <3>1, <4>2, <4>3
    <3>2. CASE l # L
      BY <1>5, <1>9, <2>1, <3>2
    <3> QED
      BY <3>1, <3>2
  <2>4. at'[1] \in 1..Len(metadatas') + 1 /\ at'[2] \in Nat \ {0}
    BY <1>1, <1>2, <1>4
  <2>5. Normal \notin DOMAIN table'
    BY <1>11, <1>14, <2>1
  <2>6. EntriesSeen'
    <3> SUFFICES ASSUME NEW l \in DOMAIN table'
                 PROVE  \E a, b \in Nat :
                          /\ Seen(a, b)' /\ LabelOf(a, b)' = l
                          /\ table'[l] = <<ConfOf(a, b)', metadatas'[a].frame>>
      BY DEF EntriesSeen
    <3>1. PICK a \in Nat, b \in Nat :
            /\ Seen(a, b)' /\ LabelOf(a, b) = l
            /\ table'[l] = <<ConfOf(a, b), metadatas[a].frame>>
      BY <2>3
    <3> QED
      BY <1>1, <1>6, <3>1
  <2>7. Bests'
    BY <1>1, <1>6, <2>2 DEF Bests
  <2> QED
    BY <1>1, <1>4, <2>4, <2>5, <2>6, <2>7 DEF Tabled
<1> QED
  BY <1>13, <1>14

\* The answer to metadata, as SummaryIsBest says it.
AnswerTo(mds) ==
  LET found == {x \in UNION {{<<mds[k].details[d][1][1], mds[k].details[d][1][2],
                                mds[k].frame>> : d \in DOMAIN mds[k].details} :
                             k \in DOMAIN mds} : x[1] # Normal}
  IN  IF found = {} THEN {<<Normal, 1, 0>>}
      ELSE {x \in found : \A y \in found :
              y[1] = x[1] => x[2] > y[2] \/ (x[2] = y[2] /\ x[3] <= y[3])}

\* When the loops are over, the answer is made of the bests of all details.
LEMMA SummarizeKeeps ==
  ASSUME Core, Tabled, Summarize
  PROVE  SummaryIsBest'
<1>1. /\ phase' = "done" /\ at[1] > Len(metadatas) /\ UNCHANGED metadatas
      /\ summary' = IF DOMAIN table = {} THEN {<<Normal, 1, 0>>}
                    ELSE {<<l, table[l][1], table[l][2]>> : l \in DOMAIN table}
  BY DEF Summarize
<1>2. Len(metadatas) \in Nat /\ DOMAIN metadatas = 1..Len(metadatas)
  BY DEF Core, Typed
<1>3. \A a \in 1..Len(metadatas) : DOMAIN metadatas[a].details = 1..Len(metadatas[a].details)
  <2> SUFFICES ASSUME NEW a \in 1..Len(metadatas)
               PROVE  DOMAIN metadatas[a].details = 1..Len(metadatas[a].details)
    OBVIOUS
  <2>1. metadatas[a] \in AnyMetadata
    BY DEF Core, Typed
  <2>2. metadatas[a].details \in Seq(Detail \ {<<>>})
    BY <2>1 DEF AnyMetadata
  <2> QED
    BY <2>2
<1> DEFINE found ==
      {x \in UNION {{<<metadatas[k].details[d][1][1], metadatas[k].details[d][1][2],
                       metadatas[k].frame>> : d \in DOMAIN metadatas[k].details} :
                    k \in DOMAIN metadatas} : x[1] # Normal}
      best == {x \in found : \A y \in found :
                 y[1] = x[1] => x[2] > y[2] \/ (x[2] = y[2] /\ x[3] <= y[3])}
      Entry(a, b) == <<LabelOf(a, b), ConfOf(a, b), metadatas[a].frame>>
\* All details are seen.
<1>4. \A x \in found : \E a, b \in Nat : Seen(a, b) /\ LabelOf(a, b) # Normal /\ x = Entry(a, b)
  <2> SUFFICES ASSUME NEW k \in DOMAIN metadatas, NEW d \in DOMAIN metadatas[k].details,
                      LabelOf(k, d) # Normal
               PROVE  Seen(k, d) /\ k \in Nat /\ d \in Nat
    BY DEF LabelOf, ConfOf
  <2>1. k \in 1..Len(metadatas) /\ d \in 1..Len(metadatas[k].details)
    BY <1>2, <1>3
  <2>2. k < at[1]
    BY <1>1, <1>2, <2>1 DEF Tabled
  <2>3. Len(metadatas[k].details) \in Nat
    <3>1. metadatas[k] \in AnyMetadata
      BY <2>1 DEF Core, Typed
    <3>2. metadatas[k].details \in Seq(Detail \ {<<>>})
      BY <3>1 DEF AnyMetadata
    <3> QED
      BY <3>2
  <2> QED
    BY <1>2, <2>1, <2>2, <2>3 DEF Seen
<1>5. \A a, b \in Nat : Seen(a, b) /\ LabelOf(a, b) # Normal => Entry(a, b) \in found
  <2> SUFFICES ASSUME NEW a \in Nat, NEW b \in Nat, Seen(a, b), LabelOf(a, b) # Normal
               PROVE  Entry(a, b) \in found
    OBVIOUS
  <2>1. a \in DOMAIN metadatas /\ b \in DOMAIN metadatas[a].details
    BY <1>2, <1>3 DEF Seen
  <2>2. Entry(a, b)[1] # Normal
    OBVIOUS
  <2> QED
    BY <2>1, <2>2 DEF LabelOf, ConfOf
<1> HIDE DEF found
<1>6. \A l \in DOMAIN table :
        /\ <<l, table[l][1], table[l][2]>> \in found
        /\ table[l][1] \in Int /\ table[l][2] \in Int
  <2> SUFFICES ASSUME NEW l \in DOMAIN table
               PROVE  /\ <<l, table[l][1], table[l][2]>> \in found
                      /\ table[l][1] \in Int /\ table[l][2] \in Int
    OBVIOUS
  <2>1. PICK a \in Nat, b \in Nat :
          Seen(a, b) /\ LabelOf(a, b) = l /\ table[l] = <<ConfOf(a, b), metadatas[a].frame>>
    BY DEF Tabled, EntriesSeen
  <2>2. l # Normal
    BY DEF Tabled
  <2>3. Entry(a, b) \in found /\ Entry(a, b) = <<l, table[l][1], table[l][2]>>
    BY <1>5, <2>1, <2>2
  <2>4. ConfOf(a, b) \in Int /\ metadatas[a].frame \in Int
    BY <2>1, EntryType DEF Seen
  <2> QED
    BY <2>1, <2>3, <2>4
<1>7. \A x \in found :
        /\ x[1] \in DOMAIN table /\ x = <<x[1], x[2], x[3]>> /\ x[2] \in Int /\ x[3] \in Int
        /\ table[x[1]][1] > x[2] \/ (table[x[1]][1] = x[2] /\ table[x[1]][2] <= x[3])
  <2> SUFFICES ASSUME NEW x \in found
               PROVE  /\ x[1] \in DOMAIN table /\ x = <<x[1], x[2], x[3]>>
                      /\ x[2] \in Int /\ x[3] \in Int
                      /\ \/ table[x[1]][1] > x[2]
                         \/ table[x[1]][1] = x[2] /\ table[x[1]][2] <= x[3]
    OBVIOUS
  <2>1. PICK a \in Nat, b \in Nat : Seen(a, b) /\ LabelOf(a, b) # Normal /\ x = Entry(a, b)
    BY <1>4
  <2>2. x[1] = LabelOf(a, b) /\ x[2] = ConfOf(a, b) /\ x[3] = metadatas[a].frame
    BY <2>1
  <2>3. ConfOf(a, b) \in Int /\ metadatas[a].frame \in Int
    BY <2>1, EntryType DEF Seen
  <2> QED
    BY <2>1, <2>2, <2>3 DEF Tabled, Bests
<1>8. found = {} <=> DOMAIN table = {}
  BY <1>6, <1>7
<1> DEFINE entries == {<<l, table[l][1], table[l][2]>> : l \in DOMAIN table}
<1>9. \A x \in entries : x \in best
  <2> SUFFICES ASSUME NEW l \in DOMAIN table, NEW y \in found, y[1] = l
               PROVE  table[l][1] > y[2] \/ (table[l][1] = y[2] /\ table[l][2] <= y[3])
    BY <1>6
  <2> QED
    BY <1>7
<1>10. \A x \in best : x \in entries
  <2> SUFFICES ASSUME NEW x \in best
               PROVE  x \in entries
    OBVIOUS
  <2>1. /\ x \in found
        /\ \A y \in found : y[1] = x[1] => x[2] > y[2] \/ (x[2] = y[2] /\ x[3] <= y[3])
    OBVIOUS
  <2>2. PICK y : y = <<x[1], table[x[1]][1], table[x[1]][2]>>
    OBVIOUS
  <2>3. y \in found /\ y[1] = x[1] /\ y[2] = table[x[1]][1] /\ y[3] = table[x[1]][2]
        /\ y[2] \in Int /\ y[3] \in Int
    BY <1>6, <1>7, <2>1, <2>2
  <2>4. x[2] = y[2] /\ x[3] = y[3]
    BY <1>7, <2>1, <2>3
  <2> QED
    BY <1>7, <2>1, <2>2, <2>4
<1>11. entries = best
  <2> HIDE DEF entries, best
  <2> QED BY <1>9, <1>10
<1>12. summary' = IF found = {} THEN {<<Normal, 1, 0>>} ELSE best
  <2> HIDE DEF best
  <2> QED BY <1>1, <1>8, <1>11
<1>13. summary' = AnswerTo(metadatas)
  BY <1>12 DEF AnswerTo, found
<1>14. summary' = AnswerTo(metadatas')
  BY <1>1, <1>13
<1> QED
  BY <1>14 DEF SummaryIsBest, AnswerTo

LEMMA TabledStep == Core /\ Tabled /\ SummaryIsBest /\ [Next]_vars => Tabled' /\ SummaryIsBest'
<1> SUFFICES ASSUME Core, Tabled, SummaryIsBest, [Next]_vars
             PROVE  Tabled' /\ SummaryIsBest'
  OBVIOUS
<1>1. Core'
  BY CoreStep
<1>2. ASSUME phase \notin {"table", "done"}, UNCHANGED <<at, table>>, phase' # "done"
      PROVE  Tabled' /\ SummaryIsBest'
  <2>1. at' = <<1, 1>> /\ DOMAIN table' = {}
    BY <1>2 DEF Tabled
  <2>2. at'[1] = 1 /\ at'[2] = 1 /\ at' = <<at'[1], at'[2]>>
    BY <2>1
  <2>3. \A a, b \in Nat : ~Seen(a, b)'
    BY <2>2 DEF Seen
  <2>4. Len(metadatas') \in Nat
    BY <1>1 DEF Core, Typed
  <2>5. EntriesSeen' /\ Bests'
    BY <2>1, <2>3 DEF EntriesSeen, Bests
  <2> QED
    BY <1>2, <2>1, <2>2, <2>4, <2>5 DEF Tabled, SummaryIsBest
<1>3. CASE TakeBatch \/ MergeStep \/ NextFrame \/ EndBatch \/ WriteYolo \/ WriteMix \/ StartTable
  <2>1. phase \notin {"table", "done"} /\ UNCHANGED <<at, table>>
    BY <1>3 DEF TakeBatch, MergeStep, NextFrame, EndBatch, WriteYolo, WriteMix, StartTable
  <2>2. phase' # "done"
    <3>1. CASE TakeBatch
      BY <3>1 DEF TakeBatch
    <3> QED
      BY <1>3, <3>1 DEF MergeStep, NextFrame, EndBatch, WriteYolo, WriteMix, StartTable
  <2> QED
    BY <1>2, <2>1, <2>2
<1>4. CASE LabelStep
  BY <1>4, LabelStepKeeps DEF LabelStep, SummaryIsBest
<1>5. CASE NextMetadata
  BY <1>5, NextMetadataKeeps DEF NextMetadata, SummaryIsBest
<1>6. CASE Summarize
  <2>1. Tabled'
    <3>1. phase' = "done" /\ UNCHANGED <<metadatas, at, table>> /\ phase = "table"
      BY <1>6 DEF Summarize
    <3>2. \A a, b \in Nat : Seen(a, b)' <=> Seen(a, b)
      BY <3>1 DEF Seen
    <3> QED
      BY <3>1, <3>2, SameTable DEF Tabled
  <2> QED
    BY <1>6, <2>1, SummarizeKeeps
<1>7. CASE UNCHANGED vars
  <2>1. UNCHANGED <<metadatas, at, table, phase, summary>>
    BY <1>7 DEF vars
  <2>2. \A a, b \in Nat : Seen(a, b)' <=> Seen(a, b)
    BY <2>1 DEF Seen
  <2>3. Tabled'
    BY <2>1, <2>2, SameTable DEF Tabled
  <2> QED
    BY <2>1, <2>3 DEF SummaryIsBest
<1> QED
  BY <1>3, <1>4, <1>5, <1>6, <1>7 DEF Next

-----------------------------------------------------------------------------
\* The theorems.

LEMMA Inductive == Spec => []PipelineInv
<1>1. Init => PipelineInv
  BY CoreInit, TabledInit DEF PipelineInv, Core
<1>2. PipelineInv /\ [Next]_vars => PipelineInv'
  BY CoreStep, TabledStep DEF PipelineInv, Core
<1> QED
  BY <1>1, <1>2, PTL DEF Spec

\* No two boxes that ApplyNMS leaves of a frame overlap by more than the threshold, whatever
\* boxes the network puts out, and each box that it drops is covered by one that is left,
\* of no lower score: what a dropped box would have dropped stays, unless another takes it
\* (yolo_detector.cpp:146-163).
THEOREM BoxesMerged == Spec => []MergedWell
<1>1. ASSUME PipelineInv, phase = "merge", i > Len(boxes),
             NEW j \in 1..Len(boxes) \ dropped, NEW k \in 1..Len(boxes) \ dropped, j < k
      PROVE  ~IOUAbove(boxes[k], boxes[j])
  <2>1. Len(boxes) \in Nat /\ i \in Nat
    BY <1>1 DEF PipelineInv, Typed
  <2>2. j < i
    BY <1>1, <2>1
  <2> QED
    BY <1>1, <2>2 DEF PipelineInv, Merge, Apart
<1>2. ASSUME PipelineInv, phase = "merge", NEW j \in dropped
      PROVE  \E k \in 1..Len(boxes) \ dropped :
               boxes[k].score >= boxes[j].score /\ IOUAbove(boxes[j], boxes[k])
  <2>1. PICK k \in 1..Len(boxes) \ dropped : k < i /\ k < j /\ IOUAbove(boxes[j], boxes[k])
    BY <1>2 DEF PipelineInv, Merge, Covered
  <2>2. j \in 1..Len(boxes)
    BY <1>2 DEF PipelineInv, Typed
  <2> QED
    BY <1>2, <2>1, <2>2 DEF PipelineInv, Merge, Descending
<1>3. PipelineInv => MergedWell
  BY <1>1, <1>2 DEF MergedWell, Merging
<1> QED
  BY <1>3, Inductive, PTL

\* The metadata of a video are those of its frames in order, none missing and none twice,
\* and each is made of what the networks said of its own frame, through partial batches
\* and both networks of MixPipe (pipeline.cpp:59-73, 87-134).
THEOREM FramesKeepResults == Spec => []ResultsOfOwnFrame
<1>1. PipelineInv => ResultsOfOwnFrame
  <2> SUFFICES ASSUME PipelineInv
               PROVE  ResultsOfOwnFrame
    OBVIOUS
  <2>1. Typed /\ Flow /\ Written /\ Len(metadatas) \in Nat /\ DOMAIN metadatas = 1..Len(metadatas)
    BY DEF PipelineInv, Typed
  <2> DEFINE perFrame == IF kind = "mix" THEN 2 ELSE 1
  <2>2. phase = "done" => Len(metadatas) = total * perFrame
    <3> SUFFICES ASSUME phase = "done"
                 PROVE  Len(metadatas) = total * perFrame
      OBVIOUS
    <3>1. Through = total /\ total \in Nat
      BY <2>1 DEF Through, Flow, Typed
    <3>2. Len(metadatas) = IF kind = "mix" THEN 2 * total ELSE total
      BY <2>1, <3>1 DEF Written
    <3> QED
      BY <3>1, <3>2
  <2>3. ASSUME NEW k \in DOMAIN metadatas
        PROVE  /\ metadatas[k].frame = (k + perFrame - 1) \div perFrame
               /\ OwnDetails(metadatas[k])
    <3>1. metadatas[k].frame = FrameOf(k) /\ OwnDetails(metadatas[k]) /\ k \in Nat
      BY <2>1 DEF Written
    <3>2. FrameOf(k) = (k + perFrame - 1) \div perFrame
      <4>1. CASE kind = "mix"
        BY <3>1, <4>1 DEF FrameOf
      <4>2. CASE kind # "mix"
        BY <3>1, <4>2 DEF FrameOf
      <4> QED
        BY <4>1, <4>2
    <3> QED
      BY <3>1, <3>2
  <2> QED
    BY <2>2, <2>3 DEF ResultsOfOwnFrame, OwnDetails, Good
<1> QED
  BY <1>1, Inductive, PTL

\* The answer has, for every label that came first in a detail, its best confidence and
\* the first frame that had it, and no other (handler.cpp:68-98).
THEOREM BestOfEachLabel == Spec => []SummaryIsBest
<1>1. PipelineInv => SummaryIsBest
  BY DEF PipelineInv
<1> QED
  BY <1>1, Inductive, PTL

LEMMA DetailsOfBoxes ==
  ASSUME NEW l \in BoxLists, NEW b \in DOMAIN l
  PROVE  l[b].detail \in Details
<1>1. l[b].detail \in UNION {{m[k].detail : k \in DOMAIN m} : m \in BoxLists}
  <2>1. l[b].detail \in {l[k].detail : k \in DOMAIN l}
    OBVIOUS
  <2>2. {l[k].detail : k \in DOMAIN l} \in {{m[k].detail : k \in DOMAIN m} : m \in BoxLists}
    OBVIOUS
  <2> QED
    BY <2>1, <2>2
<1> QED
  BY <1>1 DEF Details

\* Types and ranges of all that VideoSummary keeps.
THEOREM PipelineTypes == Spec => []TypeOK
<1>1. PipelineInv => TypeOK
  <2> SUFFICES ASSUME PipelineInv
               PROVE  TypeOK
    OBVIOUS
  <2>1. Typed /\ Flow /\ Written /\ Tabled
    BY DEF PipelineInv
  <2>2. processed \in 0..total /\ total \in Nat /\ Len(batch) \in Nat /\ Len(batch) <= processed
    BY <2>1 DEF Typed
  <2>3. \A k \in DOMAIN batch : batch[k] \in 1..total
    <3> SUFFICES ASSUME NEW k \in 1..Len(batch)
                 PROVE  batch[k] \in 1..total
      BY <2>1 DEF Typed
    <3>1. batch[k] = processed - Len(batch) + k
      BY <2>1 DEF Flow
    <3> QED
      BY <2>2, <3>1
  <2>4. ASSUME NEW k \in DOMAIN metadatas
        PROVE  /\ metadatas[k].frame \in 1..total /\ metadatas[k].model \in {"0", "2"}
               /\ \A d \in DOMAIN metadatas[k].details :
                    metadatas[k].details[d] \in Details \ {<<>>}
    <3>1. k \in 1..Len(metadatas) /\ metadatas[k] \in AnyMetadata
      BY <2>1 DEF Typed
    <3>2. metadatas[k].model \in {"0", "2"} /\ metadatas[k].details \in Seq(Detail \ {<<>>})
      BY <3>1 DEF AnyMetadata
    <3> DEFINE f == metadatas[k].frame
    <3>3. f \in 1..processed
      BY <2>1, <2>2, <3>1, FrameBound, ThroughType
    <3>4. OwnDetails(metadatas[k])
      BY <2>1, <3>1 DEF Written
    <3>5. net[f] \in Output
      BY <2>1, <3>3 DEF Typed
    <3>6. ASSUME NEW d \in DOMAIN metadatas[k].details
          PROVE  metadatas[k].details[d] \in Details \ {<<>>}
      <4>1. metadatas[k].details[d] # <<>>
        BY <3>2
      <4>2. CASE metadatas[k].model = "0"
        <5>1. net[f].scores \in Scores
          BY <2>1, <3>3, <3>4, <4>2 DEF Flow, OwnDetails
        <5>2. PICK c \in Classify(net[f].scores) :
                metadatas[k].details = IF c = <<>> THEN <<>> ELSE <<c>>
          BY <3>4, <4>2 DEF OwnDetails
        <5>3. metadatas[k].details[d] = c
          <6>1. c # <<>>
            BY <5>2, EmptySeq
          <6>2. metadatas[k].details = <<c>>
            BY <5>2, <6>1
          <6> QED
            BY <6>2
        <5> QED
          BY <4>1, <5>1, <5>2, <5>3 DEF Details
      <4>3. CASE metadatas[k].model = "2"
        <5>1. PICK b \in DOMAIN net[f].list : net[f].list[b].detail = metadatas[k].details[d]
          BY <3>4, <4>3 DEF OwnDetails, Good
        <5>2. net[f].list \in BoxLists
          <6>1. net[f].list \in BoxLists \cup {<<>>}
            BY <3>5 DEF Output
          <6>2. net[f].list # <<>>
            BY <5>1
          <6> QED
            BY <6>1, <6>2
        <5>3. PICK l \in BoxLists : l = net[f].list
          BY <5>2
        <5>4. b \in DOMAIN l /\ metadatas[k].details[d] = l[b].detail
          BY <5>1, <5>3
        <5>5. metadatas[k].details[d] \in Details
          BY <5>4, DetailsOfBoxes
        <5> QED
          BY <4>1, <5>5
      <4> QED
        BY <3>2, <4>2, <4>3
    <3> QED
      BY <2>2, <3>2, <3>3, <3>6
  <2> QED
    BY <2>1, <2>3, <2>4 DEF TypeOK, Typed, Tabled
<1> QED
  BY <1>1, Inductive, PTL
=============================================================================
