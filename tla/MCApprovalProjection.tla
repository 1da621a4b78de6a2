------------------------ MODULE MCApprovalProjection ------------------------
(* One approval with four decisions, of which one has no version and one   *)
(* carries a status the tables do not know.                                *)
EXTENDS ApprovalProjection

Req(id) == [id |-> id, type |-> "requested", status |-> "PENDING", version |-> 1]

Dec(status, version) ==
    [id |-> "decision", type |-> "decided", status |-> status, version |-> version]

AllDecisions ==
    {Dec("APPROVED", 2), Dec("CANCELLED", 3), Dec("TAKEN_OVER", 4),
     Dec("REJECTED", 0), Dec("EXPIRED", 5)}

\* The approval is requested once.
RequestedOnce == {Req("first")} \cup AllDecisions

\* The runtime requests it again under another event id.
RequestedTwice == RequestedOnce \cup {Req("second")}
=============================================================================
