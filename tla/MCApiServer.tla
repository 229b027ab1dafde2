----------------------------- MODULE MCApiServer -----------------------------
(* Bounded instance of ApiServer: the lists a call may carry. *)
EXTENDS ApiServer

CONSTANTS g1, g2, g3

Old(t) == [topic |-> t, new |-> FALSE]
New(t) == [topic |-> t, new |-> TRUE]

\* One group or two, in either order, so that two calls may wait for each other; a new
\* group, which may be there by now, alone, first, or named twice.
MCAddLists == {<<Old(g1)>>, <<Old(g1), Old(g2)>>, <<Old(g2), Old(g1)>>,
               <<New(g3)>>, <<New(g3), Old(g1)>>, <<New(g3), New(g3)>>}

MCSelections == {<<g1>>, <<g2>>, <<g1, g2>>}
=============================================================================
