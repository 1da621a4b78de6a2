---------------------------- MODULE MCProjector ----------------------------
(* Projector on one task, four outbox rows and two replicas.               *)
EXTENDS Projector, TLC

CONSTANTS node, attempt

MCRows == 1 .. 4

MCEntities == {node, attempt}

Ev(kind, entity, version) ==
    [kind |-> kind, entity |-> entity, version |-> version]

\* Two versions of a node around a row that cannot be decoded, and a worker's
\* event that names an entity without owning its version.
BadRowBody ==
    << Ev("durable", node, 1), Ev("bad", NoEntity, 0),
       Ev("durable", node, 2), Ev("durable", attempt, 0) >>

\* Three versions of a node with an ephemeral event of another entity between.
LiveRowBody ==
    << Ev("durable", node, 1), Ev("live", attempt, 1),
       Ev("durable", node, 2), Ev("durable", node, 3) >>

Symmetry == Permutations(Replicas)
=============================================================================
