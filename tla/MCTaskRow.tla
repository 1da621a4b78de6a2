----------------------------- MODULE MCTaskRow -----------------------------
(* TaskRow with two versions of one node, of which the second says nothing *)
(* but the status, and an event from before there were versions.           *)
EXTENDS TaskRow

NodeEvent(v, at, status, title) == [version |-> v, at |-> at, status |-> status, title |-> title]

MCNodeEvents ==
    { NodeEvent(1, 1, "PENDING", "t"), NodeEvent(2, 2, "RUNNING", None),
      NodeEvent(0, 1, "PENDING", None) }
=============================================================================
