-------------------------------- MODULE SOP --------------------------------
(***************************************************************************)
(* The SOP registry (internal/task/sop.go, internal/store/pgstore/sop.go). *)
(* A definition is a sequence of steps that wait for each other. It is     *)
(* given its defaults, checked, and stored under an id and a version,      *)
(* which is then the same for good.                                        *)
(*                                                                         *)
(* A step is [id, deps, subject, attempts]: deps is a sequence of ids or   *)
(* Absent, subject is whether it has one. An id is a sequence, so that     *)
(* "s2" is <<"s", 2>>; it may be left out (NoId).                          *)
(***************************************************************************)
EXTENDS Integers, Sequences, FiniteSets, SequencesExt, Functions

CONSTANTS
    Absent,         \* a value that was left out, or is not there yet
    MaxSteps,       \* 50
    MaxAttempts,    \* 20
    Ids,            \* ids a caller may write, NoId among them
    Inputs,         \* definitions the first registration may be of
    Definitions     \* definitions that are registered later under its id and version

NoId == << >>

Step == [id : Ids, deps : Seq(Ids) \cup {Absent}, subject : BOOLEAN, attempts : Int]

ASSUME SOPAssumption ==
    /\ MaxSteps \in Nat \ {0} /\ MaxAttempts \in Nat \ {0}
    /\ \A steps \in Inputs \cup Definitions : steps \in Seq(Step)

VARIABLES
    registry,       \* the stored definition, or Absent
    registered      \* answers given: <<definition, answer>>

sopVars == <<registry, registered>>

DefaultID(i) == <<"s", i>>

Named(steps, i) == IF steps[i].id = NoId THEN DefaultID(i) ELSE steps[i].id

\* Repeats are dropped, the first of each is kept.
Dedupe(seq) == SelectSeq([i \in DOMAIN seq |-> [at |-> i, id |-> seq[i]]],
                         LAMBDA d : \A j \in 1 .. d.at - 1 : seq[j] # d.id)

\* NormalizeSOPSteps: the position names a step, and a step without depends_on
\* waits for the one before it.
NormalizeSOPSteps(steps) ==
    [i \in DOMAIN steps |->
        [steps[i] EXCEPT !.id = Named(steps, i),
                         !.attempts = IF @ = 0 THEN 3 ELSE @,
                         !.deps = IF @ = Absent
                                  THEN IF i = 1 THEN << >> ELSE <<Named(steps, i - 1)>>
                                  ELSE LET kept == Dedupe(@) IN [j \in DOMAIN kept |-> kept[j].id]]]

\* A stored definition is told from one that is not there.
ASSUME StoredAssumption ==
    \A steps \in Inputs \cup Definitions : NormalizeSOPSteps(steps) # Absent

\* Mutation of Ready: a step starts once it waits for one step at most.
ReadyByOne(steps, done) ==
    {s \in Range(steps) : Cardinality(Range(s.deps) \ {d.id : d \in done}) <= 1}

\* The steps that wait for none but those done.
Ready(steps, done) == {s \in Range(steps) : Range(s.deps) \subseteq {d.id : d \in done}}

\* What is done, round after round (Kahn).
Rounds(steps) ==
    LET done[n \in 0 .. Len(steps)] ==
            IF n = 0 THEN {} ELSE done[n - 1] \cup Ready(steps, done[n - 1])
    IN done

\* sopHasCycle: some step never becomes ready.
SOPHasCycle(steps) == Rounds(steps)[Len(steps)] # Range(steps)

ValidStep(step) == step.subject /\ step.attempts \in 1 .. MaxAttempts

\* ValidateSOP. A default id must not take one that was written.
ValidateSOP(steps) ==
    LET written == {i \in DOMAIN steps : steps[i].id # NoId}
        normal == NormalizeSOPSteps(steps)
        ids == {normal[i].id : i \in DOMAIN normal}
    IN /\ Len(steps) \in 1 .. MaxSteps
       /\ \A i, j \in written : steps[i].id = steps[j].id => i = j
       /\ \A i \in DOMAIN steps \ written : DefaultID(i) \notin {steps[j].id : j \in written}
       /\ \A i \in DOMAIN normal :
            ValidStep(normal[i]) /\ Range(normal[i].deps) \subseteq ids \ {normal[i].id}
       /\ ~SOPHasCycle(normal)

SameSOP(a, b) == NormalizeSOPSteps(a) = NormalizeSOPSteps(b)

SOPInit == registry = Absent /\ registered = {}

\* Mutation of StoreSOP: a version that exists is written over.
StoreSOPOver(steps) == registry' = steps

\* The version is inserted if there is none.
StoreSOP(steps) == registry' = IF registry = Absent THEN steps ELSE registry

\* RegisterSOP: what is stored must be the same as what was sent.
RegisterSOP(steps) ==
    LET answer == IF ~ValidateSOP(steps) THEN "invalid"
                  ELSE IF SameSOP(registry', steps) THEN "ok" ELSE "conflict"
    IN /\ IF ValidateSOP(steps) THEN StoreSOP(NormalizeSOPSteps(steps)) ELSE UNCHANGED registry
       /\ registered' = registered \cup {<<steps, answer>>}

SOPNext ==
    \/ registered = {} /\ \E steps \in Inputs : RegisterSOP(steps)
    \/ \E steps \in Definitions : RegisterSOP(steps)

SOPSpec == SOPInit /\ [][SOPNext]_sopVars

-----------------------------------------------------------------------------
(* Properties.                                                             *)

\* Positions of the steps in an order that runs each after what it waits for.
Runs(steps, order) ==
    \A i, j \in DOMAIN steps : steps[j].id \in Range(steps[i].deps) => order[j] < order[i]

Runnable(steps) ==
    LET normal == NormalizeSOPSteps(steps)
        n == Len(steps)
    IN /\ \A i, j \in DOMAIN normal : normal[i].id = normal[j].id => i = j
       /\ \A i \in DOMAIN normal :
            Range(normal[i].deps) \subseteq {normal[j].id : j \in DOMAIN normal}
       /\ \E order \in [1 .. n -> 1 .. n] : IsInjective(order) /\ Runs(normal, order)

\* The number of steps and their fields are within the limits.
WithinLimits(steps) ==
    /\ Len(steps) \in 1 .. MaxSteps
    /\ \A i \in DOMAIN steps : ValidStep(NormalizeSOPSteps(steps)[i])

\* Of the definitions within the limits, registration turns down exactly those whose
\* steps do not have names of their own or cannot all be run, each after the steps it
\* names, or after the one before it when it names none (ValidateSOP, sopHasCycle).
SOPRunnable ==
    \A r \in registered : r[2] = "invalid" <=> ~(WithinLimits(r[1]) /\ Runnable(r[1]))

\* Whoever was told that a definition is registered finds that definition there, and
\* so does every task that runs the version later (pgstore RegisterSOP).
RegisteredHolds == \A r \in registered : r[2] = "ok" => SameSOP(registry, r[1])
=============================================================================
