------------------------------ MODULE TaskLog ------------------------------
(***************************************************************************)
(* What task_events promises for one task: an append-only log in which     *)
(* position is the event's sequence number and an event appears once.      *)
(***************************************************************************)
EXTENDS Naturals, Sequences

CONSTANT Events

VARIABLE log

Logged == {log[i] : i \in 1 .. Len(log)}

Init == log = << >>

AppendEvent(e) ==
    /\ e \notin Logged
    /\ log' = Append(log, e)

Next == \E e \in Events : AppendEvent(e)

Spec == Init /\ [][Next]_log
=============================================================================
