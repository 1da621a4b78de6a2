---------------------------- MODULE CommandOnce ----------------------------
(***************************************************************************)
(* What the command path promises about one command id, without ledger,    *)
(* leases, replicas or failures: the id is bound to one request, the       *)
(* workflow executes that request at most once, and an answer is recorded  *)
(* at most once, only for a command that was executed.                     *)
(***************************************************************************)
CONSTANTS Keys, Hashes, Answers, NoHash, NoAnswer

VARIABLES bound, executed, answer

vars == <<bound, executed, answer>>

Init ==
    /\ bound = [k \in Keys |-> NoHash]
    /\ executed = [k \in Keys |-> FALSE]
    /\ answer = [k \in Keys |-> NoAnswer]

Bind(k, h) ==
    /\ bound[k] = NoHash
    /\ bound' = [bound EXCEPT ![k] = h]
    /\ UNCHANGED <<executed, answer>>

Execute(k) ==
    /\ bound[k] # NoHash
    /\ ~executed[k]
    /\ executed' = [executed EXCEPT ![k] = TRUE]
    /\ UNCHANGED <<bound, answer>>

Record(k, a) ==
    /\ executed[k]
    /\ answer[k] = NoAnswer
    /\ answer' = [answer EXCEPT ![k] = a]
    /\ UNCHANGED <<bound, executed>>

Next ==
    \E k \in Keys :
        \/ \E h \in Hashes : Bind(k, h)
        \/ Execute(k)
        \/ \E a \in Answers : Record(k, a)

Spec == Init /\ [][Next]_vars
=============================================================================
