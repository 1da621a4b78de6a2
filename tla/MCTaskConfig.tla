---------------------------- MODULE MCTaskConfig ----------------------------
(* TaskConfig with three updates: one states no permissions, one custom    *)
(* ones without a rule, one states all. And the SOP registry with all      *)
(* definitions of up to three steps over a few names. The two share no     *)
(* state: a behaviour is one of either.                                    *)
EXTENDS TaskConfig, SOP, TLC

CONSTANTS c1, c2, c3

MCRequests == c1 :> None @@ c2 :> Spec("custom", None) @@ c3 :> Spec("custom", "none")

MCStep(id, deps) == [id |-> id, deps |-> deps, subject |-> TRUE, attempts |-> 0]

A == <<"a">>
S(n) == <<"s", n>>

MCIds == {NoId, A, S(1), S(2), S(3)}

MCDefinitions ==
    { <<MCStep(NoId, Absent), MCStep(NoId, Absent)>>,
      <<MCStep(S(1), << >>), MCStep(S(2), <<S(1), S(1)>>)>>,
      <<MCStep(A, Absent), MCStep(NoId, <<A>>)>>, <<MCStep(A, <<A>>)>> }

Steps == {MCStep(id, deps) : id \in {NoId, S(2), A},
                             deps \in {Absent, << >>, <<S(1)>>, <<S(2), A>>, <<A, A>>, <<S(3)>>}}

\* Just over each limit.
MCOverLimit ==
    { << >>, [i \in 1 .. MaxSteps + 1 |-> MCStep(NoId, Absent)],
      <<[MCStep(A, Absent) EXCEPT !.attempts = MaxAttempts + 1]>>,
      <<[MCStep(A, Absent) EXCEPT !.attempts = -1]>>,
      <<[MCStep(A, Absent) EXCEPT !.subject = FALSE]>> }

MCInputs == MCOverLimit \cup UNION {[1 .. n -> Steps] : n \in 1 .. 3}

MCInit == Init /\ SOPInit

MCNext ==
    \/ registered = {} /\ Next /\ UNCHANGED sopVars
    \/ wf = << >> /\ saves = 0 /\ SOPNext /\ UNCHANGED vars

MCSpec == MCInit /\ [][MCNext]_<<vars, sopVars>>
=============================================================================
