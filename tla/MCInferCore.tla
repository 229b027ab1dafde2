----------------------------- MODULE MCInferCore -----------------------------
(***************************************************************************)
(* Bounded instances of InferCore: the videos clients may ask for.  "long" *)
(* ones yield a frame more than announced, "short" ones a frame less, the  *)
(* "endless" one more than the channel can take after the last Get.        *)
(***************************************************************************)
EXTENDS InferCore

V(meta, frames, throws) == [addr |-> TRUE, opens |-> TRUE, meta |-> meta,
                            reopens |-> TRUE, frames |-> frames, throws |-> throws]
NoAddress == [V(0, 0, FALSE) EXCEPT !.addr = FALSE]
Unreadable == [V(0, 0, FALSE) EXCEPT !.opens = FALSE]
\* A video the decode thread cannot open again.
Gone(meta) == [V(meta, 3, FALSE) EXCEPT !.reopens = FALSE]

GoodVideos == {V(3, 3, FALSE), V(0, 0, FALSE), V(2, 3, FALSE), V(3, 3, TRUE)}
OddVideos == {V(3, 2, FALSE), V(3, 1, TRUE), V(1, 3, FALSE), V(0, 3, TRUE),
              Gone(0), Gone(1)}

MCVideos == [k \in Kinds |-> GoodVideos \cup OddVideos \cup {NoAddress, Unreadable}]

\* Only AnnotateVideo is called.
PlainVideos == [k \in Kinds |-> IF k = "annotate" THEN {V(2, 2, FALSE)} ELSE {}]
AbortedVideos == [k \in Kinds |-> {V(2, 1, TRUE)}]
=============================================================================
