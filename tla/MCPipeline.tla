------------------------------ MODULE MCPipeline ------------------------------
(* Bounded instance of Pipeline: labels, scores and boxes. *)
EXTENDS Pipeline

CONSTANTS normal, fire, smoke

MCBoxLabels == {normal, fire, smoke}
MCLabels == <<normal, fire, smoke>>

\* The best classes, and the first two of the labels over thresholds of their own.
MCSelections == {<<>>, <<<<2, 0>>, <<1, 1>>>>}

\* A clear result of each label, two with equal values, and two confidences of one label.
MCScores == {<<2, 1, 0>>, <<1, 2, 0>>, <<0, 1, 1>>}

B(x, w, score, label) == [x |-> x, y |-> 2, w |-> w, h |-> 2, score |-> score,
                            detail |-> <<<<label, score>>>>]

\* A chain in which each box drops the next, but the first not the last; equal scores; two
\* boxes far apart, one of which is dropped all the same; one below the threshold.
MCBoxLists == {<<B(8, 2, 1, fire), B(3, 4, 3, fire), B(6, 3, 2, smoke)>>,
               <<B(2, 2, 2, fire), B(5, 8, 2, smoke), B(6, 8, 2, fire)>>,
               <<B(1, 1, 2, normal), B(9, 1, 1, smoke)>>,
               <<B(3, 2, 0, fire)>>}
=============================================================================
