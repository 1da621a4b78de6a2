--------------------------- MODULE RegistryProofs ---------------------------
(***************************************************************************)
(* Proofs about the two registries of a tenant that store definitions      *)
(* under versions: SOP and Experts.                                        *)
(*                                                                         *)
(* What a recursive definition computes is proved by induction over sets:  *)
(* a set of numbers or of sequences stands for the property its members    *)
(* have (SetInduction, SeqInduction). The rest follows from that.          *)
(*                                                                         *)
(* The order: induction; the registry of SOPs; filters; the two files a    *)
(* form is rendered to; bundles; then the experts' invariant, part by      *)
(* part, and the theorems.                                                 *)
(***************************************************************************)
EXTENDS Experts, SOP, FiniteSetTheorems, SequenceTheorems, WellFoundedInduction, TLAPS

-----------------------------------------------------------------------------
(* Induction. A set of numbers stands for the property they have.          *)

\* A set that has a number has a least one.
LEMMA LeastNat ==
  ASSUME NEW S \in SUBSET Nat, S # {}
  PROVE  \E n \in S : \A m \in S : n <= m
<1> DEFINE T == {0 .. n : n \in S}
<1>1. T \subseteq FiniteSubsetsOf(Nat)
  <2> SUFFICES ASSUME NEW n \in S PROVE 0 .. n \in FiniteSubsetsOf(Nat)
    OBVIOUS
  <2>1. IsFiniteSet(0 .. n) /\ 0 .. n \in SUBSET Nat
    BY FS_Interval
  <2> QED
    BY <2>1 DEF FiniteSubsetsOf
<1>2. PICK x \in T : \A y \in T : ~(<<y, x>> \in StrictSubsetOrdering(Nat))
  <2>1. T # {}
    OBVIOUS
  <2> HIDE DEF T
  <2> QED
    BY <1>1, <2>1, FS_StrictSubsetOrderingWellFounded, WFMin
<1>3. PICK n \in S : x = 0 .. n
  OBVIOUS
<1>4. ASSUME NEW m \in S, ~(n <= m) PROVE FALSE
  <2>1. <<0 .. m, 0 .. n>> \in StrictSubsetOrdering(Nat)
    BY <1>4 DEF StrictSubsetOrdering
  <2> QED
    BY <1>2, <1>3, <2>1
<1> QED
  BY <1>4

\* A set that has 0 and the successor of each of its numbers up to k has them all.
LEMMA SetInduction ==
  ASSUME NEW k \in Nat, NEW S, 0 \in S, \A n \in 0 .. k - 1 : n \in S => n + 1 \in S
  PROVE  0 .. k \subseteq S
<1> SUFFICES ASSUME (0 .. k) \ S # {} PROVE FALSE
  OBVIOUS
<1>1. PICK n \in (0 .. k) \ S : \A m \in (0 .. k) \ S : n <= m
  <2>1. (0 .. k) \ S \in SUBSET Nat
    OBVIOUS
  <2> QED
    BY <2>1, LeastNat
<1>2. n # 0 /\ n - 1 \in 0 .. k - 1 /\ (n - 1) + 1 = n
  BY <1>1
<1>3. n - 1 \in S
  BY <1>1, <1>2
<1> QED
  BY <1>1, <1>2, <1>3

\* A recursion over the numbers up to N: G[n] takes the value at n - 1 to the value
\* at n.
HasSolution(N, V, base, G) ==
  \E h \in [0 .. N -> V] : h[0] = base /\ \A n \in 1 .. N : h[n] = G[n][h[n - 1]]

\* Such a recursion has a solution.
LEMMA Iterates ==
  ASSUME NEW N \in Nat, NEW V, NEW base \in V, NEW G \in [1 .. N -> [V -> V]]
  PROVE  HasSolution(N, V, base, G)
<1> DEFINE Upto(m) == {h \in [0 .. N -> V] : h[0] = base /\ \A n \in 1 .. m : h[n] = G[n][h[n - 1]]}
           S == {m \in 0 .. N : Upto(m) # {}}
<1>1. 0 \in S
  <2>1. [n \in 0 .. N |-> base] \in Upto(0)
    OBVIOUS
  <2> HIDE DEF Upto
  <2> QED
    BY <2>1
<1>2. ASSUME NEW m \in 0 .. N - 1, m \in S PROVE m + 1 \in S
  <2>1. PICK h \in Upto(m) : TRUE
    BY <1>2
  <2> DEFINE g == [h EXCEPT ![m + 1] = G[m + 1][h[m]]]
  <2>2. m + 1 \in 1 .. N /\ m \in 0 .. N /\ m + 1 \in 0 .. N /\ (m + 1) - 1 = m /\ 0 \in 0 .. N
    OBVIOUS
  <2>3. h \in [0 .. N -> V] /\ h[0] = base /\ \A n \in 1 .. m : h[n] = G[n][h[n - 1]]
    BY <2>1
  <2>4. G[m + 1][h[m]] \in V
    BY <2>2, <2>3
  <2>5. g \in [0 .. N -> V] /\ g[0] = base
    BY <2>2, <2>3, <2>4
  <2>6. ASSUME NEW n \in 1 .. m + 1 PROVE g[n] = G[n][g[n - 1]]
    <3>1. CASE n = m + 1
      <4>1. g[n] = G[m + 1][h[m]] /\ g[m] = h[m]
        BY <2>2, <2>3, <3>1
      <4> QED
        BY <2>2, <3>1, <4>1
    <3>2. CASE n # m + 1
      <4>1. n \in 1 .. m /\ n \in 0 .. N /\ n - 1 \in 0 .. N /\ n - 1 # m + 1
        BY <2>2, <3>2
      <4>2. g[n] = h[n] /\ g[n - 1] = h[n - 1]
        BY <2>3, <3>2, <4>1
      <4> QED
        BY <2>3, <4>1, <4>2
    <3> QED
      BY <3>1, <3>2
  <2>7. g \in Upto(m + 1)
    <3> HIDE DEF g
    <3> QED
      BY <2>5, <2>6
  <2> HIDE DEF Upto
  <2> QED
    BY <2>2, <2>7
<1>3. N \in S
  <2> HIDE DEF S
  <2>1. 0 .. N \subseteq S
    BY <1>1, <1>2, SetInduction
  <2> QED
    BY <2>1
<1> QED
  BY <1>3 DEF HasSolution

\* A set of sequences that has the empty one and every extension by an element has
\* them all.
LEMMA SeqInduction ==
  ASSUME NEW S, NEW P, << >> \in P,
         \A s \in Seq(S) : \A x \in S : s \in P => Append(s, x) \in P
  PROVE  Seq(S) \subseteq P
<1> SUFFICES ASSUME NEW s0 \in Seq(S) PROVE s0 \in P
  OBVIOUS
<1> DEFINE Q == {k \in 0 .. Len(s0) : \A s \in Seq(S) : Len(s) = k => s \in P}
<1>1. 0 \in Q
  <2>1. \A s \in Seq(S) : Len(s) = 0 => s = << >>
    BY EmptySeq
  <2> QED
    BY <2>1
<1>2. ASSUME NEW k \in 0 .. Len(s0) - 1, k \in Q PROVE k + 1 \in Q
  <2> SUFFICES ASSUME NEW s \in Seq(S), Len(s) = k + 1 PROVE s \in P
    OBVIOUS
  <2> DEFINE t == [i \in 1 .. k |-> s[i]]
  <2>1. t \in Seq(S) /\ Len(t) = k /\ s[k + 1] \in S
    OBVIOUS
  <2>2. s = Append(t, s[k + 1])
    <3>1. DOMAIN s = 1 .. k + 1 /\ Append(t, s[k + 1]) \in Seq(S) /\ Len(Append(t, s[k + 1])) = k + 1
      BY <2>1
    <3>2. \A i \in 1 .. k + 1 : s[i] = Append(t, s[k + 1])[i]
      BY <2>1
    <3> QED
      BY <3>1, <3>2, SeqEqual
  <2>3. t \in P
    BY <1>2, <2>1
  <2> QED
    BY <2>1, <2>2, <2>3
<1>3. Len(s0) \in Q
  <2> HIDE DEF Q
  <2>1. 0 .. Len(s0) \subseteq Q
    BY <1>1, <1>2, SetInduction
  <2> QED
    BY <2>1
<1> QED
  BY <1>3

\* A larger set of positions has more.
LEMMA MorePositions ==
  ASSUME NEW n \in Nat, NEW A \in SUBSET (1 .. n), NEW B \in SUBSET (1 .. n),
         A \subseteq B, NEW x \in B \ A
  PROVE  Cardinality(A) < Cardinality(B)
<1>1. IsFiniteSet(1 .. n)
  BY FS_Interval
<1>2. /\ IsFiniteSet(A) /\ IsFiniteSet(B)
      /\ Cardinality(A) \in Nat /\ Cardinality(B) \in Nat
  BY <1>1, FS_Subset, FS_CardinalityType
<1>3. Cardinality(A) <= Cardinality(B) /\ (Cardinality(B) = Cardinality(A) => B = A)
  BY <1>2, FS_Subset
<1> QED
  BY <1>2, <1>3

\* Positions can be sorted by a rank, equal ranks staying as they are.
LEMMA SortedByRank ==
  ASSUME NEW n \in Nat, NEW rank \in [1 .. n -> Nat]
  PROVE  \E order \in [1 .. n -> 1 .. n] :
            IsInjective(order) /\ \A i, j \in 1 .. n : rank[i] < rank[j] => order[i] < order[j]
<1> DEFINE UpTo(i) == {j \in 1 .. n : rank[j] < rank[i] \/ (rank[j] = rank[i] /\ j <= i)}
           order == [i \in 1 .. n |-> Cardinality(UpTo(i))]
<1>1. IsFiniteSet(1 .. n) /\ Cardinality(1 .. n) = n
  BY FS_Interval
<1>2. order \in [1 .. n -> 1 .. n]
  <2> SUFFICES ASSUME NEW i \in 1 .. n PROVE Cardinality(UpTo(i)) \in 1 .. n
    OBVIOUS
  <2>1. UpTo(i) \in SUBSET (1 .. n) /\ i \in UpTo(i)
    OBVIOUS
  <2> HIDE DEF UpTo
  <2>2. Cardinality({}) < Cardinality(UpTo(i)) /\ Cardinality({}) = 0
    <3>1. {} \in SUBSET (1 .. n) /\ i \in UpTo(i) \ {}
      BY <2>1
    <3> QED
      BY <2>1, <3>1, MorePositions, FS_EmptySet
  <2>3. Cardinality(UpTo(i)) <= n /\ Cardinality(UpTo(i)) \in Nat
    BY <1>1, <2>1, FS_Subset, FS_CardinalityType
  <2> QED
    BY <2>2, <2>3
<1>3. ASSUME NEW i \in 1 .. n, NEW j \in 1 .. n,
             rank[i] < rank[j] \/ (rank[i] = rank[j] /\ i < j)
      PROVE  order[i] < order[j]
  <2>1. /\ UpTo(i) \in SUBSET (1 .. n) /\ UpTo(j) \in SUBSET (1 .. n)
        /\ UpTo(i) \subseteq UpTo(j) /\ j \in UpTo(j) \ UpTo(i)
    BY <1>3
  <2> HIDE DEF UpTo
  <2>2. Cardinality(UpTo(i)) < Cardinality(UpTo(j))
    BY <2>1, MorePositions
  <2> QED
    BY <2>2
<1>4. \A i, j \in 1 .. n :
         i = j \/ rank[i] < rank[j] \/ rank[j] < rank[i]
         \/ (rank[i] = rank[j] /\ i < j) \/ (rank[j] = rank[i] /\ j < i)
  OBVIOUS
<1> HIDE DEF order
<1>5. IsInjective(order)
  <2>1. \A i, j \in 1 .. n : i # j => order[i] < order[j] \/ order[j] < order[i]
    BY <1>3, <1>4
  <2>2. ASSUME NEW i \in 1 .. n, NEW j \in 1 .. n, order[i] = order[j] PROVE i = j
    <3>1. order[i] \in Int /\ order[j] \in Int
      BY <1>2
    <3> QED
      BY <2>1, <2>2, <3>1
  <2> QED
    BY <1>2, <2>2 DEF IsInjective
<1> QED
  BY <1>2, <1>3, <1>5

-----------------------------------------------------------------------------
(* The rounds of a definition.                                             *)

\* The rounds are what their recursive definition says.
LEMMA RoundsDef ==
  ASSUME NEW steps, Len(steps) \in Nat
  PROVE  /\ Rounds(steps)[0] = {}
         /\ \A k \in 0 .. Len(steps) - 1 :
              Rounds(steps)[k + 1] = Rounds(steps)[k] \cup Ready(steps, Rounds(steps)[k])
         /\ \A k \in 0 .. Len(steps) : Rounds(steps)[k] \subseteq Range(steps)
<1> DEFINE n == Len(steps)
           R == Range(steps)
           Body(f) == [k \in 0 .. n |->
                         IF k = 0 THEN {} ELSE f[k - 1] \cup Ready(steps, f[k - 1])]
           Upto(m) == {f \in [0 .. n -> SUBSET R] :
                         \A k \in 0 .. m : f[k] = Body(f)[k]}
           S == {m \in 0 .. n : Upto(m) # {}}
<1>1. 0 \in S
  <2> DEFINE none == [k \in 0 .. n |-> {}]
  <2>1. none \in [0 .. n -> SUBSET R]
    OBVIOUS
  <2>2. none[0] = {} /\ Body(none)[0] = {}
    OBVIOUS
  <2>3. \A k \in 0 .. 0 : k = 0
    OBVIOUS
  <2> HIDE DEF none, Body
  <2>4. none \in Upto(0)
    BY <2>1, <2>2, <2>3
  <2> HIDE DEF Upto
  <2> QED
    BY <2>4
<1>2. ASSUME NEW m \in 0 .. n - 1, m \in S PROVE m + 1 \in S
  <2>1. PICK f \in [0 .. n -> SUBSET R] : \A k \in 0 .. m : f[k] = Body(f)[k]
    BY <1>2
  <2> DEFINE g == [f EXCEPT ![m + 1] = f[m] \cup Ready(steps, f[m])]
  <2>2. m + 1 \in 0 .. n /\ f[m] \in SUBSET R /\ Ready(steps, f[m]) \subseteq R
    BY DEF Ready
  <2>3. g \in [0 .. n -> SUBSET R]
    BY <2>2
  <2>4. ASSUME NEW k \in 0 .. m + 1 PROVE g[k] = Body(g)[k]
    <3>1. k = m + 1 => g[k] = f[m] \cup Ready(steps, f[m]) /\ g[m] = f[m] /\ k - 1 = m
      BY <2>2
    <3>2. k # m + 1 => g[k] = f[k] /\ (k # 0 => g[k - 1] = f[k - 1])
      BY <2>2
    <3>3. k # m + 1 => f[k] = Body(f)[k]
      BY <2>1
    <3> QED
      BY <2>2, <3>1, <3>2, <3>3
  <2>5. g \in Upto(m + 1)
    BY <2>3, <2>4
  <2> QED
    BY <2>2, <2>5
<1>3. n \in S
  <2> HIDE DEF S
  <2>1. 0 .. n \subseteq S
    BY <1>1, <1>2, SetInduction
  <2> QED
    BY <2>1
<1>4. \E f : f = Body(f)
  <2>1. PICK f \in [0 .. n -> SUBSET R] : \A k \in 0 .. n : f[k] = Body(f)[k]
    BY <1>3
  <2>2. f = Body(f)
    BY <2>1
  <2> QED
    BY <2>2
<1>5. Rounds(steps) = Body(Rounds(steps))
  BY <1>4 DEF Rounds
<1> DEFINE r == Rounds(steps)
<1>6. r[0] = {} /\ \A k \in 0 .. n - 1 : r[k + 1] = r[k] \cup Ready(steps, r[k])
  <2>1. r[0] = {}
    BY <1>5
  <2>2. ASSUME NEW k \in 0 .. n - 1 PROVE r[k + 1] = r[k] \cup Ready(steps, r[k])
    <3>1. k + 1 \in 0 .. n /\ k + 1 # 0 /\ (k + 1) - 1 = k
      OBVIOUS
    <3>2. Body(r)[k + 1] = r[k] \cup Ready(steps, r[k])
      BY <3>1
    <3> QED
      BY <1>5, <3>2
  <2> QED
    BY <2>1, <2>2
<1>7. \A k \in 0 .. n : r[k] \subseteq R
  <2> DEFINE Q == {k \in 0 .. n : r[k] \subseteq R}
  <2> HIDE DEF r
  <2>1. 0 \in Q
    BY <1>6
  <2>2. \A k \in 0 .. n - 1 : k \in Q => k + 1 \in Q
    BY <1>6 DEF Ready
  <2> HIDE DEF Q
  <2>3. 0 .. n \subseteq Q
    BY <2>1, <2>2, SetInduction
  <2> QED
    BY <2>3 DEF Q
<1> QED
  BY <1>6, <1>7

-----------------------------------------------------------------------------
(* Definitions with their defaults.                                        *)

\* Every step is there at its place, under its name.
LEMMA NormalSteps ==
  ASSUME NEW steps \in Seq(Step)
  PROVE  /\ Len(steps) \in Nat /\ DOMAIN steps = 1 .. Len(steps)
         /\ DOMAIN NormalizeSOPSteps(steps) = 1 .. Len(steps)
         /\ Len(NormalizeSOPSteps(steps)) = Len(steps)
         /\ \A i \in 1 .. Len(steps) : NormalizeSOPSteps(steps)[i].id = Named(steps, i)
         /\ Range(NormalizeSOPSteps(steps)) =
              {NormalizeSOPSteps(steps)[i] : i \in 1 .. Len(steps)}
<1> DEFINE normal == NormalizeSOPSteps(steps)
<1>1. Len(steps) \in Nat /\ DOMAIN steps = 1 .. Len(steps)
  OBVIOUS
<1>2. DOMAIN normal = 1 .. Len(steps)
  BY <1>1 DEF NormalizeSOPSteps
<1>3. Len(normal) = Len(steps)
  BY <1>1, <1>2, LenProperties DEF NormalizeSOPSteps
<1>4. ASSUME NEW i \in 1 .. Len(steps) PROVE normal[i].id = Named(steps, i)
  <2>1. steps[i] \in Step
    BY <1>1
  <2> QED
    BY <1>1, <2>1 DEF NormalizeSOPSteps, Step
<1>5. Range(normal) = {normal[i] : i \in 1 .. Len(steps)}
  BY <1>2 DEF Range
<1> QED
  BY <1>1, <1>2, <1>3, <1>4, <1>5

\* Default ids are told apart, and from an id that was left out.
LEMMA DefaultIDs ==
  ASSUME NEW i \in Nat, NEW j \in Nat
  PROVE  DefaultID(i) # NoId /\ (DefaultID(i) = DefaultID(j) => i = j)
BY DEF DefaultID, NoId

DistinctIds(normal) == \A i, j \in DOMAIN normal : normal[i].id = normal[j].id => i = j

\* The names of the steps are distinct if and only if those that were written are,
\* and no default takes one.
LEMMA DistinctNames ==
  ASSUME NEW steps \in Seq(Step)
  PROVE  LET written == {i \in DOMAIN steps : steps[i].id # NoId}
         IN DistinctIds(NormalizeSOPSteps(steps)) <=>
              /\ \A i, j \in written : steps[i].id = steps[j].id => i = j
              /\ \A i \in DOMAIN steps \ written : DefaultID(i) \notin {steps[j].id : j \in written}
<1> DEFINE n == Len(steps)
           normal == NormalizeSOPSteps(steps)
           written == {i \in DOMAIN steps : steps[i].id # NoId}
<1>1. /\ n \in Nat /\ DOMAIN steps = 1 .. n /\ DOMAIN normal = 1 .. n
      /\ \A i \in 1 .. n : normal[i].id = Named(steps, i)
  BY NormalSteps
<1>2. /\ \A i \in written : i \in 1 .. n /\ Named(steps, i) = steps[i].id
      /\ \A i \in (1 .. n) \ written : Named(steps, i) = DefaultID(i)
  BY <1>1 DEF Named
<1>3. \A i, j \in 1 .. n : DefaultID(i) = DefaultID(j) => i = j
  BY <1>1, DefaultIDs
<1> HIDE DEF n, normal, written
<1>4. DistinctIds(normal) <=> \A i, j \in 1 .. n : Named(steps, i) = Named(steps, j) => i = j
  BY <1>1 DEF DistinctIds
<1>5. ASSUME DistinctIds(normal)
      PROVE  /\ \A i, j \in written : steps[i].id = steps[j].id => i = j
             /\ \A i \in (1 .. n) \ written : DefaultID(i) \notin {steps[j].id : j \in written}
  BY <1>2, <1>4, <1>5
<1>6. ASSUME \A i, j \in written : steps[i].id = steps[j].id => i = j,
             \A i \in (1 .. n) \ written : DefaultID(i) \notin {steps[j].id : j \in written}
      PROVE  DistinctIds(normal)
  <2> SUFFICES ASSUME NEW i \in 1 .. n, NEW j \in 1 .. n, Named(steps, i) = Named(steps, j)
               PROVE  i = j
    BY <1>4
  <2>1. CASE i \in written /\ j \in written
    BY <1>2, <1>6, <2>1
  <2>2. CASE i \notin written /\ j \notin written
    BY <1>2, <1>3, <2>2
  <2>3. CASE i \in written /\ j \notin written
    BY <1>2, <1>6, <2>3
  <2>4. CASE i \notin written /\ j \in written
    BY <1>2, <1>6, <2>4
  <2> QED
    BY <2>1, <2>2, <2>3, <2>4
<1> QED
  BY <1>1, <1>5, <1>6 DEF normal, written

\* Every dependency is the name of a step.
Known(normal) ==
  \A i \in DOMAIN normal : Range(normal[i].deps) \subseteq {normal[j].id : j \in DOMAIN normal}

\* A definition that runs in some order is done after as many rounds as it has
\* steps: the step at place k by round k.
LEMMA RunsDone ==
  ASSUME NEW normal, NEW n \in Nat, Len(normal) = n, DOMAIN normal = 1 .. n,
         Known(normal), NEW order \in [1 .. n -> 1 .. n], Runs(normal, order)
  PROVE  ~SOPHasCycle(normal)
<1> DEFINE r == Rounds(normal)
           Q == {k \in 0 .. n : \A i \in 1 .. n : order[i] <= k => normal[i] \in r[k]}
<1>1. /\ \A k \in 0 .. n - 1 : r[k + 1] = r[k] \cup Ready(normal, r[k])
      /\ r[n] \subseteq Range(normal)
  <2>1. Len(normal) \in Nat /\ n \in 0 .. n
    OBVIOUS
  <2> QED
    BY <2>1, RoundsDef
<1> HIDE DEF r
<1>2. 0 \in Q
  OBVIOUS
<1>3. ASSUME NEW k \in 0 .. n - 1, k \in Q PROVE k + 1 \in Q
  <2> SUFFICES ASSUME NEW i \in 1 .. n, order[i] <= k + 1 PROVE normal[i] \in r[k + 1]
    BY <1>3
  <2>1. ASSUME NEW d \in Range(normal[i].deps) PROVE d \in {s.id : s \in r[k]}
    <3>1. PICK j \in 1 .. n : d = normal[j].id
      BY <2>1 DEF Known
    <3>2. order[j] < order[i]
      BY <2>1, <3>1 DEF Runs
    <3>3. normal[j] \in r[k]
      BY <1>3, <3>2
    <3> QED
      BY <3>1, <3>3
  <2>2. normal[i] \in Ready(normal, r[k])
    BY <2>1 DEF Ready, Range
  <2> QED
    BY <1>1, <2>2
<1>4. n \in Q
  <2> HIDE DEF Q
  <2>1. 0 .. n \subseteq Q
    BY <1>2, <1>3, SetInduction
  <2> QED
    BY <2>1
<1>5. \A i \in 1 .. n : normal[i] \in r[n]
  BY <1>4
<1>6. r[n] = Range(normal)
  BY <1>1, <1>5 DEF Range
<1> QED
  BY <1>6 DEF SOPHasCycle, r

\* A definition that is done after as many rounds runs in the order in which its
\* steps become ready.
LEMMA DoneRuns ==
  ASSUME NEW normal, NEW n \in Nat, Len(normal) = n, DOMAIN normal = 1 .. n,
         DistinctIds(normal), ~SOPHasCycle(normal)
  PROVE  \E order \in [1 .. n -> 1 .. n] : IsInjective(order) /\ Runs(normal, order)
<1> DEFINE r == Rounds(normal)
           When(i) == {k \in 0 .. n : normal[i] \in r[k]}
<1>1. /\ r[0] = {}
      /\ \A k \in 0 .. n - 1 : r[k + 1] = r[k] \cup Ready(normal, r[k])
      /\ \A k \in 0 .. n : r[k] \subseteq Range(normal)
  <2>1. Len(normal) \in Nat
    OBVIOUS
  <2> QED
    BY <2>1, RoundsDef
<1>2. \A i \in 1 .. n : normal[i] \in r[n]
  BY DEF SOPHasCycle, Range
<1> HIDE DEF r
<1>3. \A i \in 1 .. n : \E k \in When(i) : \A m \in When(i) : k <= m
  <2> SUFFICES ASSUME NEW i \in 1 .. n PROVE \E k \in When(i) : \A m \in When(i) : k <= m
    OBVIOUS
  <2>1. When(i) \in SUBSET Nat /\ n \in When(i)
    BY <1>2
  <2> HIDE DEF When
  <2> QED
    BY <2>1, LeastNat
<1> DEFINE rank == [i \in 1 .. n |-> CHOOSE k \in When(i) : \A m \in When(i) : k <= m]
<1>4. \A i \in 1 .. n : rank[i] \in When(i) /\ \A m \in When(i) : rank[i] <= m
  <2> HIDE DEF When
  <2> QED
    BY <1>3
<1> HIDE DEF rank
<1>5. rank \in [1 .. n -> Nat]
  <2>1. \A i \in 1 .. n : rank[i] \in Nat
    BY <1>4
  <2> QED
    BY <2>1 DEF rank
<1>6. PICK order \in [1 .. n -> 1 .. n] :
         IsInjective(order) /\ \A i, j \in 1 .. n : rank[i] < rank[j] => order[i] < order[j]
  BY <1>5, SortedByRank
<1>7. ASSUME NEW i \in 1 .. n, NEW j \in 1 .. n, normal[j].id \in Range(normal[i].deps)
      PROVE  rank[j] < rank[i]
  <2>1. rank[i] # 0 /\ rank[i] - 1 \in 0 .. n - 1 /\ (rank[i] - 1) + 1 = rank[i]
    <3>1. rank[i] \in 0 .. n /\ normal[i] \in r[rank[i]]
      BY <1>4
    <3>2. rank[i] # 0
      BY <1>1, <3>1
    <3>3. ASSUME NEW k \in 0 .. n, k # 0
          PROVE  k - 1 \in 0 .. n - 1 /\ (k - 1) + 1 = k
      BY <3>3
    <3> QED
      BY <3>1, <3>2, <3>3
  <2>2. normal[i] \notin r[rank[i] - 1]
    BY <1>4, <2>1
  <2>3. normal[i] \in Ready(normal, r[rank[i] - 1])
    BY <1>1, <1>4, <2>1, <2>2
  <2>4. PICK s \in r[rank[i] - 1] : s.id = normal[j].id
    BY <1>7, <2>3 DEF Ready
  <2>5. s = normal[j]
    <3>1. PICK k \in 1 .. n : s = normal[k]
      BY <1>1, <2>1, <2>4 DEF Range
    <3> QED
      BY <2>4, <3>1 DEF DistinctIds
  <2>6. rank[i] - 1 \in When(j)
    <3>1. rank[i] - 1 \in 0 .. n
      BY <2>1
    <3> QED
      BY <2>4, <2>5, <3>1
  <2>7. rank[j] <= rank[i] - 1
    BY <1>4, <2>6
  <2> QED
    BY <1>5, <2>7
<1>8. Runs(normal, order)
  BY <1>6, <1>7 DEF Runs
<1> QED
  BY <1>6, <1>8

\* A definition is valid if and only if it is within the limits and can be run.
LEMMA ValidRunnable ==
  ASSUME NEW steps \in Seq(Step)
  PROVE  ValidateSOP(steps) <=> WithinLimits(steps) /\ Runnable(steps)
<1> DEFINE n == Len(steps)
           normal == NormalizeSOPSteps(steps)
           written == {i \in DOMAIN steps : steps[i].id # NoId}
           ids == {normal[i].id : i \in DOMAIN normal}
<1>1. n \in Nat /\ DOMAIN steps = 1 .. n /\ DOMAIN normal = 1 .. n /\ Len(normal) = n
  BY NormalSteps
<1>2. DistinctIds(normal) <=>
         /\ \A i, j \in written : steps[i].id = steps[j].id => i = j
         /\ \A i \in DOMAIN steps \ written : DefaultID(i) \notin {steps[j].id : j \in written}
  BY DistinctNames
<1> DEFINE Limits == n \in 1 .. MaxSteps /\ \A i \in 1 .. n : ValidStep(normal[i])
           NotSelf == \A i \in 1 .. n : normal[i].id \notin Range(normal[i].deps)
           Order == \E order \in [1 .. n -> 1 .. n] : IsInjective(order) /\ Runs(normal, order)
<1>3. ValidateSOP(steps) <=>
         Limits /\ DistinctIds(normal) /\ Known(normal) /\ NotSelf /\ ~SOPHasCycle(normal)
  <2>1. (\A i \in 1 .. n : ValidStep(normal[i]) /\ Range(normal[i].deps) \subseteq ids \ {normal[i].id})
          <=> (\A i \in 1 .. n : ValidStep(normal[i])) /\ Known(normal) /\ NotSelf
    BY <1>1 DEF Known
  <2>2. ValidateSOP(steps) <=>
           /\ n \in 1 .. MaxSteps
           /\ \A i, j \in written : steps[i].id = steps[j].id => i = j
           /\ \A i \in DOMAIN steps \ written : DefaultID(i) \notin {steps[j].id : j \in written}
           /\ \A i \in 1 .. n : ValidStep(normal[i]) /\ Range(normal[i].deps) \subseteq ids \ {normal[i].id}
           /\ ~SOPHasCycle(normal)
    BY <1>1 DEF ValidateSOP
  <2> QED
    BY <1>2, <2>1, <2>2
<1>4. WithinLimits(steps) <=> Limits
  BY <1>1 DEF WithinLimits
<1>5. Runnable(steps) <=> DistinctIds(normal) /\ Known(normal) /\ Order
  BY <1>1 DEF Runnable, DistinctIds, Known
<1> HIDE DEF normal, n, Limits
<1>6. Known(normal) /\ Order => NotSelf /\ ~SOPHasCycle(normal)
  <2> SUFFICES ASSUME Known(normal), NEW order \in [1 .. n -> 1 .. n], Runs(normal, order)
               PROVE  NotSelf /\ ~SOPHasCycle(normal)
    OBVIOUS
  <2>1. ~SOPHasCycle(normal)
    BY <1>1, RunsDone
  <2>2. NotSelf
    BY <1>1 DEF Runs
  <2> QED
    BY <2>1, <2>2
<1>7. DistinctIds(normal) /\ ~SOPHasCycle(normal) => Order
  BY <1>1, DoneRuns
<1> QED
  BY <1>3, <1>4, <1>5, <1>6, <1>7

-----------------------------------------------------------------------------
(* The registry.                                                           *)

\* Registration turns down exactly the definitions that are over a limit or cannot
\* be run in any order (ValidateSOP, sopHasCycle), whatever they are.
THEOREM SOPRunnableTheorem == SOPSpec => []SOPRunnable
<1> DEFINE Inv == /\ SOPRunnable
                  /\ \A r \in registered : r[1] \in Seq(Step)
<1>1. SOPInit => Inv
  BY DEF SOPInit, SOPRunnable
<1>2. Inv /\ [SOPNext]_sopVars => Inv'
  <2>1. ASSUME Inv, NEW steps \in Inputs \cup Definitions, RegisterSOP(steps) PROVE Inv'
    <3> DEFINE answer == IF ~ValidateSOP(steps) THEN "invalid"
                         ELSE IF SameSOP(registry', steps) THEN "ok" ELSE "conflict"
    <3>1. /\ registered' = registered \cup {<<steps, answer>>}
          /\ answer = "invalid" <=> ~ValidateSOP(steps)
      <4>1. registered' = registered \cup {<<steps, answer>>}
        BY <2>1 DEF RegisterSOP
      <4>2. answer = "invalid" <=> ~ValidateSOP(steps)
        OBVIOUS
      <4> QED
        BY <4>1, <4>2
    <3> HIDE DEF answer
    <3>2. steps \in Seq(Step)
      BY SOPAssumption DEF SOPAssumption
    <3>3. answer = "invalid" <=> ~(WithinLimits(steps) /\ Runnable(steps))
      BY <3>1, <3>2, ValidRunnable
    <3> QED
      BY <2>1, <3>1, <3>2, <3>3 DEF SOPRunnable
  <2>2. ASSUME Inv, UNCHANGED sopVars PROVE Inv'
    BY <2>2 DEF sopVars, SOPRunnable
  <2> QED
    BY <2>1, <2>2 DEF SOPNext
<1> QED
  BY <1>1, <1>2, PTL DEF SOPSpec

\* RegisteredHolds is not inductive: a first definition would change what is
\* there if one could be answered before one is stored.
RegistryInv ==
  /\ RegisteredHolds
  /\ \A r \in registered : r[2] = "ok" => registry # Absent

\* A version is stored once, and every later registration is compared with it.
LEMMA RegisterStep ==
  ASSUME RegistryInv, NEW steps \in Inputs \cup Definitions, RegisterSOP(steps)
  PROVE  RegistryInv'
<1> DEFINE answer == IF ~ValidateSOP(steps) THEN "invalid"
                     ELSE IF SameSOP(registry', steps) THEN "ok" ELSE "conflict"
<1>1. /\ registered' = registered \cup {<<steps, answer>>}
      /\ answer = "ok" => ValidateSOP(steps) /\ SameSOP(registry', steps)
  <2>1. registered' = registered \cup {<<steps, answer>>}
    BY DEF RegisterSOP
  <2>2. answer = "ok" => ValidateSOP(steps) /\ SameSOP(registry', steps)
    OBVIOUS
  <2> QED
    BY <2>1, <2>2
<1>2. ValidateSOP(steps) => registry' # Absent
  BY StoredAssumption DEF StoredAssumption, RegisterSOP, StoreSOP
<1>3. registry # Absent => registry' = registry
  BY DEF RegisterSOP, StoreSOP
<1> HIDE DEF answer
<1>4. \A r \in registered : r[2] = "ok" => registry' = registry /\ registry # Absent
  BY <1>3 DEF RegistryInv
<1>5. \A r \in registered : r[2] = "ok" => SameSOP(registry', r[1]) /\ registry' # Absent
  BY <1>4 DEF RegistryInv, RegisteredHolds
<1> QED
  BY <1>1, <1>2, <1>5 DEF RegistryInv, RegisteredHolds, SameSOP

\* Whoever was told that a definition is registered finds it there for good.
THEOREM RegisteredHoldsTheorem == SOPSpec => []RegisteredHolds
<1>1. SOPInit => RegistryInv
  BY DEF SOPInit, RegistryInv, RegisteredHolds
<1>2. RegistryInv /\ [SOPNext]_sopVars => RegistryInv'
  <2>1. ASSUME RegistryInv, UNCHANGED sopVars PROVE RegistryInv'
    BY <2>1 DEF sopVars, RegistryInv, RegisteredHolds, SameSOP
  <2> QED
    BY <2>1, RegisterStep DEF SOPNext
<1>3. RegistryInv => RegisteredHolds
  BY DEF RegistryInv
<1> QED
  BY <1>1, <1>2, <1>3, PTL DEF SOPSpec

-----------------------------------------------------------------------------
(* Filters.                                                                *)

\* How far a filter has come after each element.
Kept(s, T) ==
  LET kept[n \in 0 .. Len(s)] ==
          IF n = 0 THEN << >>
          ELSE IF s[n] \in T THEN Append(kept[n - 1], s[n]) ELSE kept[n - 1]
  IN kept

\* What the recursive definition of Keep says.
KeepFacts(s, T, N, kept) ==
  /\ Keep(s, T) = kept[N]
  /\ kept[0] = << >>
  /\ \A n \in 1 .. N : kept[n] = IF s[n] \in T THEN Append(kept[n - 1], s[n]) ELSE kept[n - 1]

\* The recursive definition of a filter defines it, and it filters.
LEMMA KeepDef ==
  ASSUME NEW S, NEW s \in Seq(S), NEW T
  PROVE  KeepFacts(s, T, Len(s), Kept(s, T)) /\ Keep(s, T) \in Seq(S \cap T)
<1> DEFINE N == Len(s)
           V == Seq(S \cap T)
           Next1(v, n) == IF s[n] \in T THEN Append(v, s[n]) ELSE v
           Body(f) == [n \in 0 .. N |-> IF n = 0 THEN << >> ELSE Next1(f[n - 1], n)]
           G == [n \in 1 .. N |-> [v \in V |-> Next1(v, n)]]
           base == << >>
<1>1. N \in Nat /\ base \in V /\ \A n \in 1 .. N : s[n] \in S
  OBVIOUS
<1>2. \A n \in 1 .. N, v \in V : Next1(v, n) \in V
  BY <1>1
<1> HIDE DEF V, Next1, base, N
<1>3. G \in [1 .. N -> [V -> V]]
  BY <1>2
<1>4. PICK h \in [0 .. N -> V] : h[0] = base /\ \A n \in 1 .. N : h[n] = G[n][h[n - 1]]
  <2> HIDE DEF G
  <2>1. HasSolution(N, V, base, G)
    BY <1>1, <1>3, Iterates
  <2> QED
    BY <2>1 DEF HasSolution
<1>5. \A n \in 1 .. N : h[n] = Next1(h[n - 1], n)
  <2> TAKE n \in 1 .. N
  <2>1. h[n - 1] \in V
    BY <1>1, <1>4
  <2> QED
    BY <1>4, <2>1
<1>6. h = Body(h)
  <2>1. \A n \in 0 .. N : n = 0 \/ n \in 1 .. N
    BY <1>1
  <2>2. \A n \in 0 .. N : h[n] = Body(h)[n]
    BY <1>1, <1>4, <1>5, <2>1 DEF base
  <2> QED
    BY <1>4, <2>2
<1> DEFINE kept == Kept(s, T)
<1>7. kept = Body(kept)
  <2>1. \E f : f = Body(f)
    BY <1>6
  <2>2. kept = CHOOSE f : f = Body(f)
    BY DEF Kept, Next1, N
  <2> QED
    BY <2>1, <2>2
<1>8. Keep(s, T) = kept[N]
  BY DEF Keep, Kept, N
<1> HIDE DEF kept
<1>9. kept[0] = << >>
  BY <1>1, <1>7
<1>10. ASSUME NEW n \in 1 .. N PROVE kept[n] = Next1(kept[n - 1], n)
  <2>1. n \in 0 .. N /\ n # 0
    BY <1>1
  <2>2. Body(kept)[n] = Next1(kept[n - 1], n)
    BY <2>1
  <2> QED
    BY <1>7, <2>2
<1>11. kept \in [0 .. N -> V]
  <2> DEFINE Q == {n \in 0 .. N : kept[n] = h[n]}
  <2>1. 0 \in Q
    BY <1>1, <1>4, <1>9 DEF base
  <2>2. ASSUME NEW n \in 0 .. N - 1, n \in Q PROVE n + 1 \in Q
    <3>1. n + 1 \in 1 .. N /\ (n + 1) - 1 = n /\ n + 1 \in 0 .. N
      BY <1>1
    <3> QED
      BY <1>5, <1>10, <2>2, <3>1
  <2>3. 0 .. N \subseteq Q
    <3> HIDE DEF Q
    <3> QED
      BY <1>1, <2>1, <2>2, SetInduction
  <2>4. DOMAIN kept = 0 .. N /\ kept = [n \in 0 .. N |-> kept[n]]
    BY <1>7
  <2> QED
    BY <1>4, <2>3, <2>4
<1> QED
  <2>1. KeepFacts(s, T, N, kept)
    BY <1>8, <1>9, <1>10 DEF KeepFacts, Next1
  <2>2. Keep(s, T) \in Seq(S \cap T)
    BY <1>1, <1>8, <1>11 DEF V
  <2> QED
    BY <2>1, <2>2 DEF N, kept

\* A filter of no elements has none.
LEMMA KeepEmpty == ASSUME NEW T PROVE Keep(<< >>, T) = << >>
<1>1. << >> \in Seq({}) /\ Len(<< >>) = 0
  OBVIOUS
<1>2. KeepFacts(<< >>, T, Len(<< >>), Kept(<< >>, T))
  BY <1>1, KeepDef
<1> QED
  BY <1>1, <1>2 DEF KeepFacts

\* A filter takes the elements one by one.
LEMMA KeepAppend ==
  ASSUME NEW S, NEW s \in Seq(S), NEW x \in S, NEW T
  PROVE  Keep(Append(s, x), T) = IF x \in T THEN Append(Keep(s, T), x) ELSE Keep(s, T)
<1> DEFINE t == Append(s, x)
           N == Len(s)
           f == Kept(s, T)
           g == Kept(t, T)
<1>1. N \in Nat /\ t \in Seq(S) /\ Len(t) = N + 1 /\ t[N + 1] = x /\ \A n \in 1 .. N : t[n] = s[n]
  OBVIOUS
<1>2. KeepFacts(s, T, N, f)
  BY KeepDef
<1> HIDE DEF t, N, f
<1>3. KeepFacts(t, T, N + 1, g)
  BY <1>1, KeepDef
<1> HIDE DEF g
<1> DEFINE Q == {n \in 0 .. N : f[n] = g[n]}
<1>4. 0 \in Q
  BY <1>1, <1>2, <1>3 DEF KeepFacts
<1>5. ASSUME NEW n \in 0 .. N - 1, n \in Q PROVE n + 1 \in Q
  <2>1. n + 1 \in 1 .. N /\ n + 1 \in 1 .. N + 1 /\ (n + 1) - 1 = n /\ n + 1 \in 0 .. N
    BY <1>1
  <2>2. /\ f[n + 1] = IF s[n + 1] \in T THEN Append(f[n], s[n + 1]) ELSE f[n]
        /\ g[n + 1] = IF t[n + 1] \in T THEN Append(g[n], t[n + 1]) ELSE g[n]
    BY <1>2, <1>3, <2>1 DEF KeepFacts
  <2> QED
    BY <1>1, <1>5, <2>1, <2>2
<1>6. N \in Q
  <2> HIDE DEF Q
  <2>1. 0 .. N \subseteq Q
    BY <1>1, <1>4, <1>5, SetInduction
  <2> QED
    BY <1>1, <2>1
<1>7. N + 1 \in 1 .. N + 1 /\ (N + 1) - 1 = N
  BY <1>1
<1>8. g[N + 1] = IF t[N + 1] \in T THEN Append(g[N], t[N + 1]) ELSE g[N]
  BY <1>3, <1>7 DEF KeepFacts
<1> QED
  BY <1>1, <1>2, <1>3, <1>6, <1>8 DEF t, KeepFacts

-----------------------------------------------------------------------------
\* The elements of a sequence.
LEMMA ElementsOf ==
  ASSUME NEW S, NEW s \in Seq(S)
  PROVE  /\ ToSet(s) \subseteq S /\ ToSet(s) = {s[i] : i \in 1 .. Len(s)}
         /\ ToSet(s) = {} => s = << >>
         /\ ToSet(<< >>) = {}
<1>1. Len(s) \in Nat /\ DOMAIN s = 1 .. Len(s) /\ \A i \in 1 .. Len(s) : s[i] \in S
  OBVIOUS
<1>2. ToSet(s) = {s[i] : i \in 1 .. Len(s)}
  BY <1>1 DEF ToSet
<1>3. ASSUME ToSet(s) = {} PROVE s = << >>
  <2>1. 1 .. Len(s) = {}
    BY <1>2, <1>3
  <2>2. Len(s) = 0
    <3> DEFINE n == Len(s)
    <3>1. n \in Nat /\ 1 .. n = {}
      BY <1>1, <2>1
    <3> HIDE DEF n
    <3>2. n = 0
      BY <3>1
    <3> QED
      BY <3>2 DEF n
  <2> QED
    BY <2>2, EmptySeq
<1>4. ToSet(<< >>) = {}
  BY DEF ToSet
<1> QED
  BY <1>1, <1>2, <1>3, <1>4

\* The elements of a sequence and one more.
LEMMA ElementsAppend ==
  ASSUME NEW S, NEW s \in Seq(S), NEW x \in S
  PROVE  Append(s, x) \in Seq(S) /\ ToSet(Append(s, x)) = ToSet(s) \cup {x}
<1> DEFINE n == Len(s)
           t == Append(s, x)
<1>1. n \in Nat /\ t \in Seq(S) /\ Len(t) = n + 1 /\ t[n + 1] = x /\ \A i \in 1 .. n : t[i] = s[i]
  OBVIOUS
<1> HIDE DEF t
<1>2. ToSet(t) = {t[i] : i \in 1 .. n + 1} /\ ToSet(s) = {s[i] : i \in 1 .. n}
  BY <1>1, ElementsOf
<1>3. \A i : i \in 1 .. n + 1 <=> i \in 1 .. n \/ i = n + 1
  BY <1>1
<1>4. \A e : (\E i \in 1 .. n + 1 : e = t[i]) <=> (\E i \in 1 .. n : e = s[i]) \/ e = x
  BY <1>1, <1>3
<1> HIDE DEF n
<1> QED
  BY <1>1, <1>2, <1>4 DEF t

\* The elements of two sequences in a row.
LEMMA ElementsConcat ==
  ASSUME NEW S, NEW s \in Seq(S), NEW t \in Seq(S)
  PROVE  s \o t \in Seq(S) /\ ToSet(s \o t) = ToSet(s) \cup ToSet(t)
<1> DEFINE P == {u \in Seq(S) : ToSet(s \o u) = ToSet(s) \cup ToSet(u)}
<1>1. << >> \in P
  <2>1. s \o << >> = s /\ << >> \in Seq(S)
    OBVIOUS
  <2> QED
    BY <2>1, ElementsOf
<1>2. ASSUME NEW u \in Seq(S), NEW x \in S, u \in P PROVE Append(u, x) \in P
  <2> DEFINE w == s \o u
  <2>1. s \o Append(u, x) = Append(w, x) /\ w \in Seq(S)
    OBVIOUS
  <2>2. ToSet(Append(w, x)) = ToSet(w) \cup {x}
    <3> HIDE DEF w
    <3> QED
      BY <2>1, ElementsAppend
  <2>3. ToSet(Append(u, x)) = ToSet(u) \cup {x} /\ Append(u, x) \in Seq(S)
    BY ElementsAppend
  <2> QED
    BY <1>2, <2>1, <2>2, <2>3
<1>3. t \in P
  <2> HIDE DEF P
  <2> QED
    BY <1>1, <1>2, SeqInduction
<1> QED
  BY <1>3

\* A filter's elements are those of the sequence that are in the set.
LEMMA KeepSet ==
  ASSUME NEW S, NEW s \in Seq(S), NEW T
  PROVE  Keep(s, T) \in Seq(S \cap T) /\ Keep(s, T) \in Seq(S) /\ ToSet(Keep(s, T)) = ToSet(s) \cap T
<1> DEFINE P == {t \in Seq(S) : ToSet(Keep(t, T)) = ToSet(t) \cap T}
<1>1. << >> \in P
  <2>1. << >> \in Seq(S) /\ ToSet(<< >>) = {}
    BY DEF ToSet
  <2> QED
    BY <2>1, KeepEmpty
<1>2. ASSUME NEW t \in Seq(S), NEW x \in S, t \in P PROVE Append(t, x) \in P
  <2>1. ToSet(Append(t, x)) = ToSet(t) \cup {x} /\ Append(t, x) \in Seq(S)
    BY ElementsAppend
  <2>2. Keep(t, T) \in Seq(S)
    <3>1. Keep(t, T) \in Seq(S \cap T)
      BY KeepDef
    <3> QED
      BY <3>1
  <2>3. ToSet(Append(Keep(t, T), x)) = ToSet(Keep(t, T)) \cup {x}
    BY <2>2, ElementsAppend
  <2>4. Keep(Append(t, x), T) = IF x \in T THEN Append(Keep(t, T), x) ELSE Keep(t, T)
    BY KeepAppend
  <2> QED
    BY <1>2, <2>1, <2>3, <2>4
<1>3. s \in P
  <2> HIDE DEF P
  <2> QED
    BY <1>1, <1>2, SeqInduction
<1>4. Keep(s, T) \in Seq(S \cap T)
  BY KeepDef
<1>5. Keep(s, T) \in Seq(S)
  BY <1>4
<1> QED
  BY <1>3, <1>4, <1>5

\* Two filters that take the same elements at the same places are the same.
LEMMA KeepSame ==
  ASSUME NEW S, NEW s \in Seq(S), NEW t \in Seq(S), NEW T, NEW U, Len(s) = Len(t),
         \A i \in 1 .. Len(s) : (s[i] \in T <=> t[i] \in U) /\ (s[i] \in T => s[i] = t[i])
  PROVE  Keep(s, T) = Keep(t, U)
<1> DEFINE N == Len(s)
           f == Kept(s, T)
           g == Kept(t, U)
<1>1. N \in Nat
  OBVIOUS
<1>2. KeepFacts(s, T, N, f)
  BY KeepDef
<1>3. KeepFacts(t, U, N, g)
  BY KeepDef
<1> HIDE DEF N, f, g
<1> DEFINE Q == {n \in 0 .. N : f[n] = g[n]}
<1>4. 0 \in Q
  BY <1>1, <1>2, <1>3 DEF KeepFacts
<1>5. ASSUME NEW n \in 0 .. N - 1, n \in Q PROVE n + 1 \in Q
  <2>1. n + 1 \in 1 .. N /\ (n + 1) - 1 = n /\ n + 1 \in 0 .. N
    BY <1>1
  <2>2. /\ f[n + 1] = IF s[n + 1] \in T THEN Append(f[n], s[n + 1]) ELSE f[n]
        /\ g[n + 1] = IF t[n + 1] \in U THEN Append(g[n], t[n + 1]) ELSE g[n]
    BY <1>2, <1>3, <2>1 DEF KeepFacts
  <2>3. (s[n + 1] \in T <=> t[n + 1] \in U) /\ (s[n + 1] \in T => s[n + 1] = t[n + 1])
    BY <2>1 DEF N
  <2> QED
    BY <1>5, <2>1, <2>2, <2>3
<1>6. N \in Q
  <2> HIDE DEF Q
  <2>1. 0 .. N \subseteq Q
    BY <1>1, <1>4, <1>5, SetInduction
  <2> QED
    BY <1>1, <2>1
<1> QED
  BY <1>2, <1>3, <1>6 DEF KeepFacts

\* A filter that takes all, or nothing.
LEMMA KeepAll ==
  ASSUME NEW S, NEW s \in Seq(S), NEW T, ToSet(s) \subseteq T
  PROVE  Keep(s, T) = s
<1> DEFINE P == {t \in Seq(S) : ToSet(t) \subseteq T => Keep(t, T) = t}
<1>1. << >> \in P
  BY KeepEmpty
<1>2. ASSUME NEW t \in Seq(S), NEW x \in S, t \in P PROVE Append(t, x) \in P
  <2>1. ToSet(Append(t, x)) = ToSet(t) \cup {x} /\ Append(t, x) \in Seq(S)
    BY ElementsAppend
  <2> QED
    BY <1>2, <2>1, KeepAppend
<1>3. s \in P
  <2> HIDE DEF P
  <2> QED
    BY <1>1, <1>2, SeqInduction
<1> QED
  BY <1>3

\* A filter that lets nothing pass.
LEMMA KeepNone ==
  ASSUME NEW S, NEW s \in Seq(S), NEW T, ToSet(s) \cap T = {}
  PROVE  Keep(s, T) = << >>
<1>1. Keep(s, T) \in Seq(S) /\ ToSet(Keep(s, T)) = {}
  BY KeepSet
<1> QED
  BY <1>1, ElementsOf

\* A filter of two sequences in a row.
LEMMA KeepConcat ==
  ASSUME NEW S, NEW s \in Seq(S), NEW t \in Seq(S), NEW T
  PROVE  Keep(s \o t, T) = Keep(s, T) \o Keep(t, T)
<1> DEFINE P == {u \in Seq(S) : Keep(s \o u, T) = Keep(s, T) \o Keep(u, T)}
<1>1. << >> \in P
  <2>1. Keep(s, T) \in Seq(S)
    BY KeepSet
  <2>2. s \o << >> = s /\ Keep(s, T) \o << >> = Keep(s, T) /\ << >> \in Seq(S)
    BY <2>1
  <2> QED
    BY <2>2, KeepEmpty
<1>2. ASSUME NEW u \in Seq(S), NEW x \in S, u \in P PROVE Append(u, x) \in P
  <2>1. s \o Append(u, x) = Append(s \o u, x) /\ s \o u \in Seq(S) /\ Append(u, x) \in Seq(S)
    OBVIOUS
  <2>2. Keep(s, T) \in Seq(S) /\ Keep(u, T) \in Seq(S)
    BY KeepSet
  <2>3. Keep(s, T) \o Append(Keep(u, T), x) = Append(Keep(s, T) \o Keep(u, T), x)
    BY <2>2
  <2>4. Keep(Append(s \o u, x), T) = IF x \in T THEN Append(Keep(s \o u, T), x) ELSE Keep(s \o u, T)
    BY <2>1, KeepAppend
  <2>5. Keep(Append(u, x), T) = IF x \in T THEN Append(Keep(u, T), x) ELSE Keep(u, T)
    BY KeepAppend
  <2> QED
    BY <1>2, <2>1, <2>3, <2>4, <2>5
<1>3. t \in P
  <2> HIDE DEF P
  <2> QED
    BY <1>1, <1>2, SeqInduction
<1> QED
  BY <1>3

\* A filter of a filter.
LEMMA KeepKeep ==
  ASSUME NEW S, NEW s \in Seq(S), NEW T, NEW U
  PROVE  Keep(Keep(s, T), U) = Keep(s, T \cap U)
<1> DEFINE P == {t \in Seq(S) : Keep(Keep(t, T), U) = Keep(t, T \cap U)}
<1>1. << >> \in P
  BY KeepEmpty
<1>2. ASSUME NEW t \in Seq(S), NEW x \in S, t \in P PROVE Append(t, x) \in P
  <2>1. Keep(t, T) \in Seq(S)
    BY KeepSet
  <2>2. Keep(Append(t, x), T) = IF x \in T THEN Append(Keep(t, T), x) ELSE Keep(t, T)
    BY KeepAppend
  <2>3. Keep(Append(t, x), T \cap U)
          = IF x \in T \cap U THEN Append(Keep(t, T \cap U), x) ELSE Keep(t, T \cap U)
    BY KeepAppend
  <2>4. Keep(Append(Keep(t, T), x), U)
          = IF x \in U THEN Append(Keep(t, T \cap U), x) ELSE Keep(t, T \cap U)
    <3>1. Keep(Keep(t, T), U) = Keep(t, T \cap U)
      BY <1>2
    <3> QED
      BY <2>1, <3>1, KeepAppend
  <2>5. Keep(Keep(Append(t, x), T), U) = Keep(Append(t, x), T \cap U)
    <3>1. CASE x \in T
      BY <2>2, <2>3, <2>4, <3>1
    <3>2. CASE x \notin T
      <4>1. Keep(Keep(t, T), U) = Keep(t, T \cap U)
        BY <1>2
      <4> QED
        BY <2>2, <2>3, <3>2, <4>1
    <3> QED
      BY <3>1, <3>2
  <2>6. Append(t, x) \in Seq(S)
    BY ElementsAppend
  <2> QED
    BY <2>5, <2>6
<1>3. s \in P
  <2> HIDE DEF P
  <2> QED
    BY <1>1, <1>2, SeqInduction
<1> QED
  BY <1>3

\* Where the elements of a filter come from: each from a place of its own.
Places(t, s) ==
  \E at \in [1 .. Len(t) -> 1 .. Len(s)] : IsInjective(at) /\ \A k \in 1 .. Len(t) : t[k] = s[at[k]]

\* What a filter lets pass was somewhere in the sequence.
LEMMA KeepPlaces ==
  ASSUME NEW S, NEW s \in Seq(S), NEW T
  PROVE  Places(Keep(s, T), s)
<1> DEFINE P == {t \in Seq(S) : Places(Keep(t, T), t)}
<1>1. << >> \in P
  <2>1. Keep(<< >>, T) = << >> /\ << >> \in Seq(S)
    BY KeepEmpty
  <2>2. Len(<< >>) = 0 /\ 1 .. 0 = {}
    OBVIOUS
  <2> DEFINE at == [k \in 1 .. 0 |-> k]
  <2>3. at \in [1 .. 0 -> 1 .. 0] /\ IsInjective(at)
    BY <2>2 DEF IsInjective
  <2> HIDE DEF at
  <2>4. Places(<< >>, << >>)
    BY <2>2, <2>3 DEF Places
  <2> QED
    BY <2>1, <2>4
<1>2. ASSUME NEW t \in Seq(S), NEW x \in S, t \in P PROVE Append(t, x) \in P
  <2> DEFINE u == Keep(t, T)
             v == Append(t, x)
             n == Len(u)
             m == Len(t)
  <2>0. u \in Seq(S)
    BY KeepSet
  <2>1. /\ u \in Seq(S) /\ v \in Seq(S) /\ n \in Nat /\ m \in Nat
        /\ Len(v) = m + 1 /\ v[m + 1] = x /\ \A i \in 1 .. m : v[i] = t[i]
    <3> HIDE DEF u
    <3> QED
      BY <2>0
  <2>2. Keep(v, T) = IF x \in T THEN Append(u, x) ELSE u
    BY KeepAppend
  <2>3. /\ Append(u, x) \in Seq(S) /\ Len(Append(u, x)) = n + 1
        /\ Append(u, x)[n + 1] = x /\ \A k \in 1 .. n : Append(u, x)[k] = u[k]
    BY <2>1
  <2>4. PICK at \in [1 .. n -> 1 .. m] : IsInjective(at) /\ \A k \in 1 .. n : u[k] = t[at[k]]
    BY <1>2 DEF Places
  <2> HIDE DEF u, v, n, m
  <2>5. ASSUME x \notin T PROVE Places(Keep(v, T), v)
    <3>0. \A k \in 1 .. n : at[k] \in 1 .. m /\ at[k] \in 1 .. m + 1
      BY <2>1, <2>4
    <3>1. at \in [1 .. n -> 1 .. m + 1] /\ \A k \in 1 .. n : u[k] = v[at[k]]
      BY <2>1, <2>4, <3>0
    <3>2. Places(u, v)
      BY <2>1, <2>4, <3>1 DEF Places, n
    <3> QED
      BY <2>2, <2>5, <3>2
  <2>6. ASSUME x \in T PROVE Places(Keep(v, T), v)
    <3> DEFINE to == [k \in 1 .. n + 1 |-> IF k = n + 1 THEN m + 1 ELSE at[k]]
               w == Append(u, x)
    <3>1. \A k \in 1 .. n + 1 : k = n + 1 \/ (k \in 1 .. n /\ k # n + 1)
      BY <2>1
    <3>2. \A k \in 1 .. n : at[k] \in 1 .. m /\ at[k] # m + 1 /\ at[k] \in 1 .. m + 1
      BY <2>1, <2>4
    <3>3. to \in [1 .. n + 1 -> 1 .. m + 1]
      <4>1. m + 1 \in 1 .. m + 1
        BY <2>1
      <4> QED
        BY <3>1, <3>2, <4>1
    <3>4. /\ \A k \in 1 .. n : to[k] = at[k]
          /\ to[n + 1] = m + 1
      BY <2>1
    <3> HIDE DEF to
    <3>5. IsInjective(to)
      <4> SUFFICES ASSUME NEW i \in 1 .. n + 1, NEW j \in 1 .. n + 1, to[i] = to[j] PROVE i = j
        BY <3>3 DEF IsInjective
      <4>1. CASE i \in 1 .. n /\ j \in 1 .. n
        BY <2>4, <3>4, <4>1 DEF IsInjective
      <4>2. CASE i = n + 1 \/ j = n + 1
        BY <3>1, <3>2, <3>4, <4>2
      <4> QED
        BY <3>1, <4>1, <4>2
    <3>6. ASSUME NEW k \in 1 .. n + 1 PROVE w[k] = v[to[k]]
      BY <2>1, <2>3, <2>4, <3>1, <3>2, <3>4
    <3>7. Places(w, v)
      <4>1. Len(w) = n + 1 /\ Len(v) = m + 1
        BY <2>1, <2>3
      <4> HIDE DEF w
      <4> QED
        BY <3>3, <3>5, <3>6, <4>1 DEF Places
    <3> QED
      BY <2>2, <2>6, <3>7
  <2>7. Places(Keep(v, T), v)
    BY <2>5, <2>6
  <2> QED
    BY <2>1, <2>7 DEF v
<1>3. s \in P
  <2> HIDE DEF P
  <2> QED
    BY <1>1, <1>2, SeqInduction
<1> QED
  BY <1>3

\* A filter of a sequence without repeats has none.
LEMMA KeepInjective ==
  ASSUME NEW S, NEW s \in Seq(S), NEW T, IsInjective(s)
  PROVE  IsInjective(Keep(s, T))
<1> DEFINE t == Keep(s, T)
<1>1. t \in Seq(S)
  BY KeepSet
<1>2. Places(t, s)
  BY KeepPlaces
<1> HIDE DEF t
<1>3. DOMAIN t = 1 .. Len(t) /\ DOMAIN s = 1 .. Len(s)
  BY <1>1
<1>4. PICK at \in [1 .. Len(t) -> 1 .. Len(s)] :
         IsInjective(at) /\ \A k \in 1 .. Len(t) : t[k] = s[at[k]]
  BY <1>2 DEF Places
<1>5. IsInjective(t)
  BY <1>3, <1>4 DEF IsInjective
<1> QED
  BY <1>5 DEF t

\* Two sequences in a row: the places of the first, then those of the second.
LEMMA TwoParts ==
  ASSUME NEW k \in Nat, NEW m \in Nat
  PROVE  \A i : i \in 1 .. k + m <=> i \in 1 .. k \/ \E j \in 1 .. m : i = k + j
<1>1. ASSUME NEW i \in 1 .. k + m, i \notin 1 .. k PROVE \E j \in 1 .. m : i = k + j
  <2>1. i - k \in 1 .. m /\ i = k + (i - k)
    BY <1>1
  <2> QED
    BY <2>1
<1>2. ASSUME NEW j \in 1 .. m PROVE k + j \in 1 .. k + m
  OBVIOUS
<1>3. 1 .. k \subseteq 1 .. k + m
  OBVIOUS
<1> QED
  BY <1>1, <1>2, <1>3

InARow(u, s, k, t, m) ==
  /\ Len(u) = k + m /\ Len(s) = k /\ Len(t) = m /\ k \in Nat /\ m \in Nat
  /\ \A i \in 1 .. k : u[i] = s[i]
  /\ \A i \in 1 .. m : u[k + i] = t[i]

\* Two sequences in a row, place by place.
LEMMA ConcatPlaces ==
  ASSUME NEW S, NEW s \in Seq(S), NEW t \in Seq(S)
  PROVE  s \o t \in Seq(S) /\ InARow(s \o t, s, Len(s), t, Len(t))
<1>1. s \o t \in Seq(S) /\ Len(s \o t) = Len(s) + Len(t) /\ Len(s) \in Nat /\ Len(t) \in Nat
  OBVIOUS
<1>2. ASSUME NEW i \in 1 .. Len(s) PROVE (s \o t)[i] = s[i]
  OBVIOUS
<1>3. ASSUME NEW i \in 1 .. Len(t) PROVE (s \o t)[Len(s) + i] = t[i]
  OBVIOUS
<1> QED
  BY <1>1, <1>2, <1>3 DEF InARow

-----------------------------------------------------------------------------
(* skills.json.                                                            *)

PrevSkills(base) == IF SkillsOK(base.skills) THEN base.skills ELSE << >>

KeptSkills(in, base) ==
  Keep(PrevSkills(base),
       {e \in ToSet(PrevSkills(base)) :
          IF e.id = NoConn THEN e.name \in base.dirs ELSE e.id \in ToSet(in.skills)})

KeptIds(kept) == {kept[i].id : i \in DOMAIN kept}

\* What RenderSkills puts together.
RenewedSkills(kept) ==
  [i \in DOMAIN kept |-> IF kept[i].id = NoConn THEN kept[i] ELSE CatalogEntry(kept[i].id)]

NewSkills(in, base) == Keep(in.skills, ToSet(in.skills) \ KeptIds(KeptSkills(in, base)))

CatalogSkills(ids) == [i \in DOMAIN ids |-> CatalogEntry(ids[i])]

\* RenderSkills: the entries that stay, and those the form adds.
LEMMA RenderSkillsParts ==
  ASSUME NEW in, NEW base
  PROVE  RenderSkills(in, base)
           = RenewedSkills(KeptSkills(in, base)) \o CatalogSkills(NewSkills(in, base))
BY DEF RenderSkills, RenewedSkills, CatalogSkills, KeptSkills, NewSkills, KeptIds, PrevSkills, Project

\* The entries of the version before that stay.
LEMMA KeptSkillsFacts ==
  ASSUME NEW in \in Form, NEW base \in Files
  PROVE  /\ PrevSkills(base) \in Seq(Entry) /\ SkillsOK(PrevSkills(base))
         /\ KeptSkills(in, base) \in Seq(Entry) /\ SkillsOK(KeptSkills(in, base))
         /\ \A i \in 1 .. Len(KeptSkills(in, base)) :
              LET e == KeptSkills(in, base)[i]
              IN IF e.id = NoConn THEN e.name \in base.dirs ELSE e.id \in ToSet(in.skills)
<1> DEFINE prev == PrevSkills(base)
           stays == {e \in ToSet(prev) :
                       IF e.id = NoConn THEN e.name \in base.dirs ELSE e.id \in ToSet(in.skills)}
           kept == KeptSkills(in, base)
<1>1. prev \in Seq(Entry) /\ SkillsOK(prev)
  BY DEF PrevSkills, Files, SkillsOK
<1>2. kept = Keep(prev, stays)
  BY DEF KeptSkills
<1> HIDE DEF prev, kept
<1>3. kept \in Seq(Entry) /\ ToSet(kept) = ToSet(prev) \cap stays
  <2> HIDE DEF stays
  <2> QED
    BY <1>1, <1>2, KeepSet
<1>4. Places(kept, prev)
  <2> HIDE DEF stays
  <2> QED
    BY <1>1, <1>2, KeepPlaces
<1>5. SkillsOK(kept)
  <2>1. PICK at \in [1 .. Len(kept) -> 1 .. Len(prev)] :
           IsInjective(at) /\ \A k \in 1 .. Len(kept) : kept[k] = prev[at[k]]
    BY <1>4 DEF Places
  <2>2. DOMAIN kept = 1 .. Len(kept) /\ DOMAIN prev = 1 .. Len(prev)
    BY <1>1, <1>3
  <2> QED
    BY <1>1, <2>1, <2>2 DEF SkillsOK, IsInjective
<1>6. \A i \in 1 .. Len(kept) : kept[i] \in stays
  <2>1. ToSet(kept) = {kept[i] : i \in 1 .. Len(kept)}
    BY <1>3, ElementsOf
  <2> QED
    BY <1>3, <2>1
<1> QED
  BY <1>1, <1>3, <1>5, <1>6 DEF prev, kept

\* The entry at each place of the rendered file: an entry that stays, or a skill of
\* the form that has none yet.
SkillAt(in, base, b, k, m) ==
  LET kept == KeptSkills(in, base)
      new == NewSkills(in, base)
  IN /\ k \in Nat /\ m \in Nat /\ b \in Seq(Entry) /\ Len(b) = k + m
     /\ k = Len(kept) /\ m = Len(new)
     /\ \A i \in 1 .. k : /\ b[i].id = kept[i].id
                          /\ kept[i].id = NoConn => b[i] = kept[i]
     /\ \A i \in 1 .. m : b[k + i] = CatalogEntry(new[i])

\* That is what RenderSkills puts there.
LEMMA SkillPlaces ==
  ASSUME NEW in \in Form, NEW base \in Files, ToSet(in.skills) \subseteq DOMAIN Skills
  PROVE  SkillAt(in, base, RenderSkills(in, base), Len(KeptSkills(in, base)), Len(NewSkills(in, base)))
<1> DEFINE kept == KeptSkills(in, base)
           new == NewSkills(in, base)
           k == Len(kept)
           m == Len(new)
           old == RenewedSkills(kept)
           add == CatalogSkills(new)
           b == RenderSkills(in, base)
<1>1. kept \in Seq(Entry) /\ \A i \in 1 .. k : kept[i].id = NoConn \/ kept[i].id \in DOMAIN Skills
  BY KeptSkillsFacts
<1>2. new \in Seq(Names) /\ ToSet(new) \subseteq DOMAIN Skills
  <2>1. in.skills \in Seq(Names)
    BY DEF Form
  <2>2. new \in Seq(Names) /\ ToSet(new) = ToSet(in.skills) \cap (ToSet(in.skills) \ KeptIds(kept))
    BY <2>1, KeepSet DEF NewSkills
  <2> QED
    BY <2>2
<1> HIDE DEF kept, new
<1>3. k \in Nat /\ m \in Nat /\ DOMAIN kept = 1 .. k /\ DOMAIN new = 1 .. m
  BY <1>1, <1>2
<1>4. ASSUME NEW id \in DOMAIN Skills PROVE CatalogEntry(id) \in Entry /\ CatalogEntry(id).id = id
  BY BundleAssumption DEF BundleAssumption, CatalogEntry, Entry
<1>5. old \in Seq(Entry) /\ Len(old) = k
  <2>1. \A i \in 1 .. k : old[i] \in Entry
    BY <1>1, <1>3, <1>4 DEF RenewedSkills
  <2> QED
    BY <1>3, <2>1 DEF RenewedSkills
<1>6. add \in Seq(Entry) /\ Len(add) = m
  <2>0. ToSet(new) = {new[i] : i \in 1 .. m}
    BY <1>2, ElementsOf
  <2>1. \A i \in 1 .. m : add[i] \in Entry
    BY <1>2, <1>3, <1>4, <2>0 DEF CatalogSkills
  <2> QED
    BY <1>3, <2>1 DEF CatalogSkills
<1>7. b = old \o add
  BY RenderSkillsParts DEF kept, new
<1>8. \A i \in 1 .. k : old[i].id = kept[i].id /\ (kept[i].id = NoConn => old[i] = kept[i])
  BY <1>1, <1>3, <1>4 DEF RenewedSkills
<1>9. \A i \in 1 .. m : add[i] = CatalogEntry(new[i])
  BY <1>3 DEF CatalogSkills
<1> HIDE DEF old, add, b, k, m
<1>10. /\ b \in Seq(Entry) /\ Len(b) = k + m
       /\ \A i \in 1 .. k : b[i] = old[i]
       /\ \A i \in 1 .. m : b[k + i] = add[i]
  <2>1. old \o add \in Seq(Entry) /\ InARow(old \o add, old, Len(old), add, Len(add))
    BY <1>5, <1>6, ConcatPlaces
  <2> QED
    BY <1>5, <1>6, <1>7, <2>1 DEF InARow
<1> QED
  BY <1>3, <1>8, <1>9, <1>10 DEF SkillAt, kept, new, k, m, b

\* Rendering skills.json: the entries that are not the form's stay.
SkillsSay(in, base, b) ==
  /\ b \in Seq(Entry)
  /\ ToSet(Given([i \in DOMAIN b |-> b[i].id])) = ToSet(in.skills)
  /\ \A i \in DOMAIN b : b[i].id = NoConn => b[i].name \in base.dirs
  /\ (SkillsOK(base.skills)
      /\ \A i \in DOMAIN base.skills : base.skills[i].id = NoConn => base.skills[i].name \in base.dirs)
       => Listed(b) = Listed(base.skills)

\* RenderSkills does that.
LEMMA SkillsRendered ==
  ASSUME NEW in \in Form, NEW base \in Files, ToSet(in.skills) \subseteq DOMAIN Skills
  PROVE  SkillsSay(in, base, RenderSkills(in, base))
<1> DEFINE kept == KeptSkills(in, base)
           new == NewSkills(in, base)
           k == Len(kept)
           m == Len(new)
           b == RenderSkills(in, base)
           ids == [i \in DOMAIN b |-> b[i].id]
<1>1. SkillAt(in, base, b, k, m)
  BY SkillPlaces
<1>2. /\ kept \in Seq(Entry)
      /\ \A i \in 1 .. k : IF kept[i].id = NoConn THEN kept[i].name \in base.dirs
                           ELSE kept[i].id \in ToSet(in.skills)
  BY KeptSkillsFacts
<1>3. in.skills \in Seq(Names)
  BY DEF Form
<1>4. new \in Seq(Names) /\ ToSet(new) = ToSet(in.skills) \ KeptIds(kept)
  <2>1. new \in Seq(Names) /\ ToSet(new) = ToSet(in.skills) \cap (ToSet(in.skills) \ KeptIds(kept))
    BY <1>3, KeepSet DEF NewSkills
  <2> QED
    BY <2>1
<1>5. ToSet(new) = {new[i] : i \in 1 .. m}
  BY <1>4, ElementsOf
<1>6. KeptIds(kept) = {kept[i].id : i \in 1 .. k}
  BY <1>2 DEF KeptIds
<1> HIDE DEF kept, new, k, m, b
<1>7. /\ k \in Nat /\ m \in Nat /\ b \in Seq(Entry) /\ Len(b) = k + m
      /\ \A i \in 1 .. k : b[i].id = kept[i].id /\ (kept[i].id = NoConn => b[i] = kept[i])
      /\ \A i \in 1 .. m : b[k + i] = CatalogEntry(new[i])
  BY <1>1 DEF SkillAt, kept, new
<1>8. DOMAIN b = 1 .. k + m
  BY <1>7
<1>9. \A i : i \in 1 .. k + m <=> i \in 1 .. k \/ \E j \in 1 .. m : i = k + j
  BY <1>7, TwoParts
<1>10. \A i \in 1 .. m : new[i] \in ToSet(in.skills) /\ new[i] # NoConn /\ b[k + i].id = new[i]
  <2>1. \A i \in 1 .. m : new[i] \in ToSet(in.skills) /\ new[i] # NoConn
    BY <1>4, <1>5, BundleAssumption DEF BundleAssumption
  <2>2. \A i \in 1 .. m : b[k + i].id = new[i]
    <3>1. \A id : CatalogEntry(id).id = id
      BY DEF CatalogEntry
    <3> QED
      BY <1>7, <3>1
  <2> QED
    BY <2>1, <2>2
<1>11. ToSet(Given(ids)) = ToSet(in.skills)
  <2>1. ids \in Seq(Names) /\ DOMAIN ids = 1 .. k + m /\ \A i \in 1 .. k + m : ids[i] = b[i].id
    <3>0. \A i \in 1 .. k + m : b[i] \in Entry
      BY <1>7, <1>8
    <3>1. \A i \in 1 .. k + m : b[i].id \in Names
      BY <3>0 DEF Entry
    <3> QED
      BY <1>7, <1>8, <3>1
  <2> HIDE DEF ids
  <2>2. ToSet(Given(ids)) = ToSet(ids) \cap (ToSet(ids) \ {NoConn})
    BY <2>1, KeepSet DEF Given
  <2>3. ToSet(ids) = {ids[i] : i \in 1 .. k + m}
    BY <2>1 DEF ToSet
  <2>4. ASSUME NEW id \in ToSet(ids), id # NoConn PROVE id \in ToSet(in.skills)
    <3>1. PICK i \in 1 .. k + m : id = b[i].id
      BY <2>1, <2>3
    <3>2. CASE i \in 1 .. k
      <4>1. b[i].id = kept[i].id
        BY <1>7, <3>2
      <4>2. IF kept[i].id = NoConn THEN kept[i].name \in base.dirs ELSE kept[i].id \in ToSet(in.skills)
        BY <1>2, <3>2 DEF k
      <4> QED
        BY <2>4, <3>1, <4>1, <4>2
    <3>3. CASE \E j \in 1 .. m : i = k + j
      BY <1>10, <3>1, <3>3
    <3> QED
      BY <1>9, <3>1, <3>2, <3>3
  <2>5. ASSUME NEW id \in ToSet(in.skills) PROVE id \in ToSet(ids) /\ id # NoConn
    <3>1. id # NoConn
      BY BundleAssumption DEF BundleAssumption
    <3>2. CASE id \in KeptIds(kept)
      <4>1. PICK i \in 1 .. k : id = kept[i].id
        BY <1>6, <3>2
      <4>2. i \in 1 .. k + m /\ ids[i] = id
        BY <1>7, <1>9, <2>1, <4>1
      <4> QED
        BY <2>3, <3>1, <4>2
    <3>3. CASE id \notin KeptIds(kept)
      <4>1. PICK i \in 1 .. m : id = new[i]
        BY <1>4, <1>5, <3>3
      <4>2. k + i \in 1 .. k + m /\ ids[k + i] = id
        BY <1>9, <1>10, <2>1, <4>1
      <4> QED
        BY <2>3, <3>1, <4>2
    <3> QED
      BY <3>2, <3>3
  <2> QED
    BY <2>2, <2>4, <2>5
<1>12. ASSUME NEW i \in DOMAIN b, b[i].id = NoConn PROVE b[i].name \in base.dirs
  <2>1. i \in 1 .. k
    BY <1>8, <1>9, <1>10, <1>12
  <2> QED
    BY <1>2, <1>7, <1>12, <2>1 DEF k
<1>13. ASSUME SkillsOK(base.skills),
              \A i \in DOMAIN base.skills : base.skills[i].id = NoConn => base.skills[i].name \in base.dirs
       PROVE  Listed(b) = Listed(base.skills)
  <2> DEFINE prev == base.skills
             stays == {e \in ToSet(prev) : IF e.id = NoConn THEN e.name \in base.dirs
                                           ELSE e.id \in ToSet(in.skills)}
             own == {e \in ToSet(prev) : e.id = NoConn}
             old == RenewedSkills(kept)
             add == CatalogSkills(new)
             bundled == {e \in Entry : e.id = NoConn}
  <2>1. prev \in Seq(Entry)
    BY DEF Files
  <2>2. kept = Keep(prev, stays)
    BY <1>13 DEF kept, KeptSkills, PrevSkills
  <2>3. own \subseteq stays
    <3>1. ToSet(prev) = {prev[i] : i \in 1 .. Len(prev)} /\ DOMAIN prev = 1 .. Len(prev)
      BY <2>1, ElementsOf
    <3> QED
      BY <1>13, <3>1
  <2>4. b = old \o add
    BY RenderSkillsParts DEF b, kept, new
  <2>5. old \in Seq(Entry) /\ Len(old) = Len(kept)
        /\ \A i \in 1 .. Len(kept) : old[i].id = kept[i].id /\ (kept[i].id = NoConn => old[i] = kept[i])
    <3>0. DOMAIN kept = 1 .. k
      BY <1>2 DEF k
    <3>1. \A id \in DOMAIN Skills : CatalogEntry(id) \in Entry /\ CatalogEntry(id).id = id
      BY BundleAssumption DEF BundleAssumption, CatalogEntry, Entry
    <3>2. \A i \in 1 .. k : kept[i] \in Entry /\ (kept[i].id # NoConn => kept[i].id \in DOMAIN Skills)
      BY <1>2 DEF k
    <3>3. \A i \in 1 .. k : /\ old[i] \in Entry /\ old[i].id = kept[i].id
                            /\ kept[i].id = NoConn => old[i] = kept[i]
      BY <3>0, <3>1, <3>2 DEF RenewedSkills
    <3> QED
      BY <1>2, <3>0, <3>3 DEF RenewedSkills, k
  <2>6. add \in Seq(Entry) /\ ToSet(add) \cap bundled = {}
    <3>0. DOMAIN new = 1 .. m /\ m \in Nat
      BY <1>4 DEF m
    <3>1. \A i \in 1 .. m : add[i] \in Entry /\ add[i].id # NoConn
      <4>1. \A i \in 1 .. m : new[i] \in DOMAIN Skills /\ new[i] # NoConn
        BY <1>4, <1>5, BundleAssumption DEF BundleAssumption
      <4> QED
        BY <3>0, <4>1, BundleAssumption DEF BundleAssumption, CatalogEntry, CatalogSkills, Entry
    <3>2. add \in Seq(Entry) /\ Len(add) = m
      BY <3>0, <3>1 DEF CatalogSkills
    <3>3. ToSet(add) = {add[i] : i \in 1 .. m}
      <4> HIDE DEF add
      <4> QED
        BY <3>2, ElementsOf
    <3> QED
      BY <3>1, <3>2, <3>3
  <2> HIDE DEF stays, own, old, add, prev
  <2>7. Listed(b) = Keep(b, bundled)
    <3>0. b \in Seq(Entry)
      BY <1>7
    <3>1. ToSet(b) = {b[i] : i \in 1 .. Len(b)}
      BY <3>0, ElementsOf
    <3> DEFINE mine == {e \in ToSet(b) : e.id = NoConn}
    <3>2. \A i \in 1 .. Len(b) : (b[i] \in mine <=> b[i] \in bundled) /\ (b[i] \in mine => b[i] = b[i])
      BY <1>7, <3>1
    <3>3. Listed(b) = Keep(b, mine)
      BY DEF Listed
    <3> HIDE DEF mine, bundled
    <3> QED
      BY <1>7, <3>2, <3>3, KeepSame
  <2>8. Keep(b, bundled) = Keep(old, bundled) \o Keep(add, bundled)
    <3> HIDE DEF bundled
    <3> QED
      BY <2>4, <2>5, <2>6, KeepConcat
  <2>9. Keep(add, bundled) = << >>
    <3> HIDE DEF bundled
    <3> QED
      BY <2>6, KeepNone
  <2>10. Keep(old, bundled) \in Seq(Entry)
    <3> HIDE DEF bundled
    <3> QED
      BY <2>5, KeepSet
  <2>11. Keep(old, bundled) = Keep(kept, own)
    <3>0. kept \in Seq(Entry)
      BY <1>2
    <3>1. ToSet(kept) = ToSet(prev) \cap stays
      BY <2>1, <2>2, KeepSet
    <3>2. ToSet(kept) = {kept[i] : i \in 1 .. Len(kept)}
      BY <3>0, ElementsOf
    <3>3. \A i \in 1 .. Len(kept) :
             (old[i] \in bundled <=> kept[i] \in own) /\ (old[i] \in bundled => old[i] = kept[i])
      <4> TAKE i \in 1 .. Len(kept)
      <4>1. kept[i] \in ToSet(prev)
        BY <3>1, <3>2
      <4>2. old[i] \in Entry
        BY <2>5
      <4> QED
        BY <2>5, <4>1, <4>2 DEF own
    <3> HIDE DEF bundled
    <3> QED
      BY <1>2, <2>5, <3>3, KeepSame
  <2>12. Keep(kept, own) = Keep(prev, stays \cap own)
    BY <2>1, <2>2, KeepKeep
  <2>13. stays \cap own = own
    BY <2>3
  <2>14. Listed(base.skills) = Keep(prev, own)
    BY DEF Listed, prev, own
  <2>15. Keep(old, bundled) \o << >> = Keep(old, bundled)
    BY <2>10
  <2>16. Listed(b) = Keep(old, bundled)
    BY <2>7, <2>8, <2>9, <2>15
  <2>17. Keep(kept, own) = Listed(base.skills)
    BY <2>12, <2>13, <2>14
  <2> QED
    BY <2>11, <2>16, <2>17
<1> QED
  BY <1>7, <1>11, <1>12, <1>13 DEF SkillsSay, b

-----------------------------------------------------------------------------
\* A sequence has finitely many elements: as many as places, if none repeats.
LEMMA FiniteElements ==
  ASSUME NEW S, NEW s \in Seq(S)
  PROVE  /\ IsFiniteSet(ToSet(s)) /\ Cardinality(ToSet(s)) \in Nat
         /\ IsInjective(s) => Cardinality(ToSet(s)) = Len(s)
<1> DEFINE P == {t \in Seq(S) : IsFiniteSet(ToSet(t)) /\ (IsInjective(t) => Cardinality(ToSet(t)) = Len(t))}
<1>1. << >> \in P
  <2>1. ToSet(<< >>) = {} /\ << >> \in Seq(S) /\ Len(<< >>) = 0
    BY DEF ToSet
  <2> QED
    BY <2>1, FS_EmptySet
<1>2. ASSUME NEW t \in Seq(S), NEW x \in S, t \in P PROVE Append(t, x) \in P
  <2> DEFINE u == Append(t, x)
  <2>1. ToSet(u) = ToSet(t) \cup {x} /\ u \in Seq(S)
    BY ElementsAppend
  <2>2. /\ Len(u) = Len(t) + 1 /\ Len(t) \in Nat /\ DOMAIN u = 1 .. Len(t) + 1 /\ DOMAIN t = 1 .. Len(t)
        /\ u[Len(t) + 1] = x /\ \A i \in 1 .. Len(t) : u[i] = t[i]
    OBVIOUS
  <2> HIDE DEF u
  <2>3. IsFiniteSet(ToSet(t)) /\ (IsInjective(t) => Cardinality(ToSet(t)) = Len(t))
    BY <1>2
  <2>4. /\ IsFiniteSet(ToSet(u))
        /\ Cardinality(ToSet(u)) = IF x \in ToSet(t) THEN Cardinality(ToSet(t)) ELSE Cardinality(ToSet(t)) + 1
    BY <2>1, <2>3, FS_AddElement
  <2>5. ASSUME IsInjective(u) PROVE IsInjective(t) /\ x \notin ToSet(t)
    <3>1. ToSet(t) = {t[i] : i \in 1 .. Len(t)}
      BY ElementsOf
    <3>2. \A i \in 1 .. Len(t) : i \in DOMAIN u /\ i # Len(t) + 1 /\ Len(t) + 1 \in DOMAIN u
      BY <2>2
    <3>3. \A a, b \in DOMAIN u : u[a] = u[b] => a = b
      BY <2>5 DEF IsInjective
    <3>4. x \notin ToSet(t)
      BY <2>2, <3>1, <3>2, <3>3
    <3>5. IsInjective(t)
      BY <2>2, <3>2, <3>3 DEF IsInjective
    <3> QED
      BY <3>4, <3>5
  <2> QED
    BY <2>1, <2>2, <2>3, <2>4, <2>5 DEF u
<1>3. s \in P
  <2> HIDE DEF P
  <2> QED
    BY <1>1, <1>2, SeqInduction
<1>4. IsFiniteSet(ToSet(s)) /\ (IsInjective(s) => Cardinality(ToSet(s)) = Len(s))
  BY <1>3
<1> QED
  BY <1>4, FS_CardinalityType

\* A set of positions that has one has a last one.
LEMMA LastPosition ==
  ASSUME NEW n \in Nat, NEW S \in SUBSET (1 .. n), S # {}
  PROVE  \E i \in S : \A j \in S : j <= i
<1> DEFINE D == {n - i : i \in S}
<1>1. D \in SUBSET Nat /\ D # {}
  OBVIOUS
<1>2. PICK d \in D : \A e \in D : d <= e
  <2> HIDE DEF D
  <2> QED
    BY <1>1, LeastNat
<1>3. PICK i \in S : d = n - i
  OBVIOUS
<1>4. ASSUME NEW j \in S PROVE j <= i
  BY <1>2, <1>3
<1> QED
  BY <1>4

-----------------------------------------------------------------------------
(* mcp.json.                                                               *)

ServerNames == Seq(Names \cup Nat)

\* There is always a free name: one number more is tried than names are taken.
LEMMA FreeNameFree ==
  ASSUME NEW name \in ServerNames, NEW taken, IsFiniteSet(taken)
  PROVE  FreeName(name, taken) \in ServerNames /\ FreeName(name, taken) \notin taken
<1> DEFINE c == Cardinality(taken)
           free == {n \in 2 .. c + 2 : Append(name, n) \notin taken}
<1>1. c \in Nat
  BY FS_CardinalityType
<1>2. \A n \in Nat : Append(name, n) \in ServerNames
  BY DEF ServerNames
<1>3. \A i, j \in Nat : Append(name, i) = Append(name, j) => i = j
  <2> TAKE i, j \in Nat
  <2>1. Append(name, i)[Len(name) + 1] = i /\ Append(name, j)[Len(name) + 1] = j
    BY DEF ServerNames
  <2> QED
    BY <2>1
<1>4. free # {}
  <2> SUFFICES ASSUME \A n \in 2 .. c + 2 : Append(name, n) \in taken PROVE FALSE
    OBVIOUS
  <2> DEFINE f == [n \in 2 .. c + 2 |-> Append(name, n)]
  <2>1. f \in [2 .. c + 2 -> taken]
    OBVIOUS
  <2>2. IsFiniteSet(2 .. c + 2) /\ Cardinality(2 .. c + 2) = c + 1
    BY <1>1, FS_Interval
  <2>3. \E i, j \in 2 .. c + 2 : i # j /\ f[i] = f[j]
    <3> HIDE DEF f
    <3>1. c < c + 1
      BY <1>1
    <3> QED
      BY <2>1, <2>2, <3>1, FS_PigeonHole
  <2>4. \A i \in 2 .. c + 2 : i \in Nat
    BY <1>1
  <2> QED
    BY <1>3, <2>3, <2>4
<1>5. \E n \in free : \A m \in free : n <= m
  <2>1. free \in SUBSET Nat
    BY <1>1
  <2> HIDE DEF free
  <2> QED
    BY <1>4, <2>1, LeastNat
<1> DEFINE n == CHOOSE n \in free : \A m \in free : n <= m
<1>6. n \in free
  <2> HIDE DEF free
  <2> QED
    BY <1>5
<1> HIDE DEF n
<1>7. n \in Nat /\ Append(name, n) \notin taken
  BY <1>1, <1>6
<1>8. name \in taken => FreeName(name, taken) = Append(name, n)
  BY DEF FreeName, n
<1>9. name \notin taken => FreeName(name, taken) = name
  BY DEF FreeName
<1> QED
  BY <1>2, <1>7, <1>8, <1>9

\* The name a server is asked to have is a name.
LEMMA EntryNameType ==
  ASSUME NEW prev \in Seq(Server), NEW id \in DOMAIN Connectors
  PROVE  EntryName(prev, id) \in ServerNames
<1> DEFINE at == {i \in DOMAIN prev : prev[i].conn = id}
           last == CHOOSE i \in at : \A j \in at : j <= i
<1>1. CASE at = {}
  <2>1. Connectors[id].name \in Names
    BY BundleAssumption DEF BundleAssumption
  <2>2. EntryName(prev, id) = <<Connectors[id].name>>
    BY <1>1 DEF EntryName
  <2> QED
    BY <2>1, <2>2 DEF ServerNames
<1>2. CASE at # {}
  <2>1. at \in SUBSET (1 .. Len(prev)) /\ Len(prev) \in Nat
    OBVIOUS
  <2>2. last \in at
    <3> HIDE DEF at
    <3>1. \E i \in at : \A j \in at : j <= i
      BY <1>2, <2>1, LastPosition
    <3> QED
      BY <3>1
  <2>3. prev[last] \in Server
    <3> HIDE DEF last
    <3> QED
      BY <2>1, <2>2
  <2>4. EntryName(prev, id) = prev[last].name
    BY <1>2 DEF EntryName
  <2> HIDE DEF last
  <2> QED
    BY <2>3, <2>4 DEF Server, ServerNames
<1> QED
  BY <1>1, <1>2

\* A connector's entry is a server that can be reached.
LEMMA ConnectorServerType ==
  ASSUME NEW name \in ServerNames, NEW id \in DOMAIN Connectors
  PROVE  LET s == ConnectorServer(name, id)
         IN /\ s \in Server /\ s.name = name /\ s.conn = id /\ s.secret = Connectors[id].secret
            /\ s.url \/ s.command
<1>1. /\ Connectors[id].url \in Names /\ Connectors[id].secret \in BOOLEAN /\ id \in Names
  BY BundleAssumption DEF BundleAssumption
<1> QED
  BY <1>1 DEF ConnectorServer, Server, ServerNames

\* The form's connectors, one by one.
BoundBy(ids, prev, taken) ==
  LET bound[n \in 0 .. Len(ids)] ==
          IF n = 0 THEN << >>
          ELSE LET used == taken \cup ToSet(Project(bound[n - 1], LAMBDA s : s.name))
                   name == FreeName(EntryName(prev, ids[n]), used)
               IN Append(bound[n - 1], ConnectorServer(name, ids[n]))
  IN bound

NamesOf(servers) == {servers[i].name : i \in DOMAIN servers}

NextServer(v, ids, n, prev, taken) ==
  ConnectorServer(FreeName(EntryName(prev, ids[n]), taken \cup NamesOf(v)), ids[n])

\* Each of them is a server under a name that is not taken.
LEMMA NextServerType ==
  ASSUME NEW ids \in Seq(DOMAIN Connectors), NEW prev \in Seq(Server), NEW taken, IsFiniteSet(taken),
         NEW n \in 1 .. Len(ids), NEW v \in Seq(Server)
  PROVE  LET s == NextServer(v, ids, n, prev, taken)
         IN /\ s \in Server /\ s.conn = ids[n] /\ s.secret = Connectors[ids[n]].secret
            /\ s.url \/ s.command
            /\ s.name \notin taken /\ s.name \notin NamesOf(v)
<1> DEFINE name == FreeName(EntryName(prev, ids[n]), taken \cup NamesOf(v))
<1>1. ids[n] \in DOMAIN Connectors
  OBVIOUS
<1>2. IsFiniteSet(taken \cup NamesOf(v))
  <2> DEFINE t == [i \in DOMAIN v |-> v[i].name]
  <2>1. t \in Seq(ServerNames) /\ DOMAIN t = DOMAIN v
    <3>0. \A i \in 1 .. Len(v) : v[i] \in Server
      OBVIOUS
    <3>1. \A i \in 1 .. Len(v) : v[i].name \in ServerNames
      BY <3>0 DEF Server, ServerNames
    <3>2. DOMAIN v = 1 .. Len(v) /\ Len(v) \in Nat
      OBVIOUS
    <3> QED
      BY <3>1, <3>2
  <2>2. NamesOf(v) = ToSet(t)
    BY DEF NamesOf, ToSet
  <2>3. IsFiniteSet(ToSet(t))
    <3> HIDE DEF t
    <3> QED
      BY <2>1, FiniteElements
  <2> QED
    BY <2>2, <2>3, FS_Union
<1>3. name \in ServerNames /\ name \notin taken \cup NamesOf(v)
  BY <1>1, <1>2, EntryNameType, FreeNameFree
<1> HIDE DEF name
<1>4. NextServer(v, ids, n, prev, taken) = ConnectorServer(name, ids[n])
  BY DEF NextServer, name
<1> QED
  BY <1>1, <1>3, <1>4, ConnectorServerType

\* What the recursion says.
BoundFacts(ids, prev, taken, N, bound) ==
  /\ bound[0] = << >>
  /\ \A n \in 1 .. N : bound[n] = Append(bound[n - 1], NextServer(bound[n - 1], ids, n, prev, taken))

\* The recursive definition of BoundServers defines them.
LEMMA BoundDef ==
  ASSUME NEW ids \in Seq(DOMAIN Connectors), NEW prev \in Seq(Server), NEW taken, IsFiniteSet(taken)
  PROVE  /\ BoundFacts(ids, prev, taken, Len(ids), BoundBy(ids, prev, taken))
         /\ BoundServers(ids, prev, taken) = BoundBy(ids, prev, taken)[Len(ids)]
<1> DEFINE N == Len(ids)
           V == Seq(Server)
           Step1(v, n) == Append(v, NextServer(v, ids, n, prev, taken))
           Body(f) == [n \in 0 .. N |-> IF n = 0 THEN << >> ELSE Step1(f[n - 1], n)]
           G == [n \in 1 .. N |-> [v \in V |-> Step1(v, n)]]
           base == << >>
<1>1. N \in Nat /\ base \in V
  OBVIOUS
<1>2. \A n \in 1 .. N, v \in V : Step1(v, n) \in V
  <2> TAKE n \in 1 .. N, v \in V
  <2>1. NextServer(v, ids, n, prev, taken) \in Server
    BY NextServerType
  <2> QED
    BY <2>1, ElementsAppend
<1> HIDE DEF V, Step1, base, N
<1>3. G \in [1 .. N -> [V -> V]]
  BY <1>2
<1>4. PICK h \in [0 .. N -> V] : h[0] = base /\ \A n \in 1 .. N : h[n] = G[n][h[n - 1]]
  <2> HIDE DEF G
  <2>1. HasSolution(N, V, base, G)
    BY <1>1, <1>3, Iterates
  <2> QED
    BY <2>1 DEF HasSolution
<1>5. \A n \in 1 .. N : h[n] = Step1(h[n - 1], n)
  <2> TAKE n \in 1 .. N
  <2>1. h[n - 1] \in V
    BY <1>1, <1>4
  <2> QED
    BY <1>4, <2>1
<1>6. h = Body(h)
  <2>1. \A n \in 0 .. N : n = 0 \/ n \in 1 .. N
    BY <1>1
  <2>2. \A n \in 0 .. N : h[n] = Body(h)[n]
    BY <1>1, <1>4, <1>5, <2>1 DEF base
  <2> QED
    BY <1>4, <2>2
<1> DEFINE bound == BoundBy(ids, prev, taken)
<1>7. bound = Body(bound)
  <2>1. \E f : f = Body(f)
    BY <1>6
  <2>2. bound = CHOOSE f : f = Body(f)
    <3>1. \A v : ToSet(Project(v, LAMBDA s : s.name)) = NamesOf(v)
      BY DEF Project, NamesOf, ToSet
    <3> QED
      BY <3>1 DEF BoundBy, Step1, NextServer, N
  <2> QED
    BY <2>1, <2>2
<1>8. BoundServers(ids, prev, taken) = bound[N]
  BY DEF BoundServers, BoundBy, N
<1> HIDE DEF bound
<1>9. bound[0] = << >>
  BY <1>1, <1>7
<1>10. ASSUME NEW n \in 1 .. N PROVE bound[n] = Step1(bound[n - 1], n)
  <2>1. n \in 0 .. N /\ n # 0
    BY <1>1
  <2>2. Body(bound)[n] = Step1(bound[n - 1], n)
    BY <2>1
  <2> QED
    BY <1>7, <2>2
<1>11. BoundFacts(ids, prev, taken, N, bound)
  BY <1>9, <1>10 DEF BoundFacts, Step1
<1> QED
  BY <1>8, <1>11 DEF N, bound

\* The form's connectors, each once, in the form's order, under free names.
AllBound(ids, taken, n, bs) ==
  /\ bs \in Seq(Server) /\ Len(bs) = n
  /\ \A i \in 1 .. n :
       /\ bs[i].conn = ids[i] /\ bs[i].secret = Connectors[ids[i]].secret
       /\ bs[i].url \/ bs[i].command
       /\ bs[i].name \notin taken
       /\ \A j \in 1 .. n : bs[i].name = bs[j].name => i = j

\* BoundServers binds all of them.
LEMMA BoundServersAll ==
  ASSUME NEW ids \in Seq(DOMAIN Connectors), NEW prev \in Seq(Server), NEW taken, IsFiniteSet(taken)
  PROVE  AllBound(ids, taken, Len(ids), BoundServers(ids, prev, taken))
<1> DEFINE N == Len(ids)
           bound == BoundBy(ids, prev, taken)
           Q == {n \in 0 .. N : AllBound(ids, taken, n, bound[n])}
<1>1. N \in Nat
  OBVIOUS
<1>2. BoundFacts(ids, prev, taken, N, bound) /\ BoundServers(ids, prev, taken) = bound[N]
  BY BoundDef
<1> HIDE DEF bound
<1>3. 0 \in Q
  <2>1. bound[0] = << >>
    BY <1>2 DEF BoundFacts
  <2>2. << >> \in Seq(Server) /\ Len(<< >>) = 0 /\ 1 .. 0 = {}
    OBVIOUS
  <2>3. AllBound(ids, taken, 0, << >>)
    BY <2>2 DEF AllBound
  <2> QED
    BY <1>1, <2>1, <2>3
<1>4. ASSUME NEW n \in 0 .. N - 1, n \in Q PROVE n + 1 \in Q
  <2> DEFINE v == bound[n]
             s == NextServer(v, ids, n + 1, prev, taken)
             u == Append(v, s)
  <2>1. n + 1 \in 1 .. N /\ (n + 1) - 1 = n /\ n \in Nat /\ n + 1 \in 0 .. N
    BY <1>1
  <2>2. bound[n + 1] = u
    BY <1>2, <2>1 DEF BoundFacts
  <2>3. AllBound(ids, taken, n, v)
    BY <1>4
  <2> HIDE DEF v
  <2>4. v \in Seq(Server) /\ Len(v) = n
    BY <2>3 DEF AllBound
  <2>5. /\ s \in Server /\ s.conn = ids[n + 1] /\ s.secret = Connectors[ids[n + 1]].secret
        /\ s.url \/ s.command
        /\ s.name \notin taken /\ s.name \notin NamesOf(v)
    BY <2>1, <2>4, NextServerType
  <2> HIDE DEF s
  <2>6. /\ u \in Seq(Server) /\ Len(u) = n + 1 /\ u[n + 1] = s
        /\ \A i \in 1 .. n : u[i] = v[i]
    BY <2>4, <2>5
  <2>7. \A i \in 1 .. n : v[i].name # s.name
    <3>1. DOMAIN v = 1 .. n
      BY <2>4
    <3> QED
      BY <2>5, <3>1 DEF NamesOf
  <2> HIDE DEF u
  <2>8. \A i \in 1 .. n + 1 : i \in 1 .. n \/ i = n + 1
    BY <2>1
  <2>9. ASSUME NEW i \in 1 .. n + 1
        PROVE  /\ u[i].conn = ids[i] /\ u[i].secret = Connectors[ids[i]].secret
               /\ u[i].url \/ u[i].command
               /\ u[i].name \notin taken
    <3>1. CASE i \in 1 .. n
      BY <2>3, <2>6, <3>1 DEF AllBound
    <3>2. CASE i = n + 1
      BY <2>5, <2>6, <3>2
    <3> QED
      BY <2>8, <3>1, <3>2
  <2>10. ASSUME NEW i \in 1 .. n + 1, NEW j \in 1 .. n + 1, u[i].name = u[j].name PROVE i = j
    <3>1. CASE i \in 1 .. n /\ j \in 1 .. n
      BY <2>3, <2>6, <2>10, <3>1 DEF AllBound
    <3>2. CASE i = n + 1 \/ j = n + 1
      BY <2>6, <2>7, <2>8, <2>10, <3>2
    <3> QED
      BY <2>8, <3>1, <3>2
  <2>11. AllBound(ids, taken, n + 1, u)
    BY <2>6, <2>9, <2>10 DEF AllBound
  <2> QED
    BY <2>1, <2>2, <2>11
<1>5. N \in Q
  <2> HIDE DEF Q
  <2>1. 0 .. N \subseteq Q
    BY <1>1, <1>3, <1>4, SetInduction
  <2> QED
    BY <1>1, <2>1
<1> QED
  BY <1>2, <1>5

-----------------------------------------------------------------------------
\* The filters by fixed sets.
Loose == {s \in Server : s.conn = NoConn}

\* The entries that are bound to no connector.
LEMMA UnboundIs ==
  ASSUME NEW servers \in Seq(Server)
  PROVE  Unbound(servers) = Keep(servers, Loose) /\ Unbound(servers) \in Seq(Server)
<1> DEFINE mine == {s \in ToSet(servers) : s.conn = NoConn}
<1>1. ToSet(servers) = {servers[i] : i \in 1 .. Len(servers)}
  BY ElementsOf
<1>2. \A i \in 1 .. Len(servers) : servers[i] \in Server
  OBVIOUS
<1>3. \A i \in 1 .. Len(servers) :
         (servers[i] \in mine <=> servers[i] \in Loose) /\ (servers[i] \in mine => servers[i] = servers[i])
  BY <1>1, <1>2 DEF Loose
<1>4. Unbound(servers) = Keep(servers, mine)
  BY DEF Unbound
<1> HIDE DEF mine
<1>5. Keep(servers, mine) = Keep(servers, Loose)
  BY <1>3, KeepSame
<1>6. Keep(servers, mine) \in Seq(Server)
  BY KeepSet
<1> QED
  BY <1>4, <1>5, <1>6

\* The ids that are given.
LEMMA GivenIs ==
  ASSUME NEW ids \in Seq(Names)
  PROVE  Given(ids) = Keep(ids, Names \ {NoConn})
<1> DEFINE mine == ToSet(ids) \ {NoConn}
<1>1. ToSet(ids) = {ids[i] : i \in 1 .. Len(ids)}
  BY ElementsOf
<1>2. \A i \in 1 .. Len(ids) : ids[i] \in Names
  OBVIOUS
<1>3. \A i \in 1 .. Len(ids) :
         (ids[i] \in mine <=> ids[i] \in Names \ {NoConn}) /\ (ids[i] \in mine => ids[i] = ids[i])
  BY <1>1, <1>2
<1>4. Given(ids) = Keep(ids, mine)
  BY DEF Given
<1> HIDE DEF mine
<1> QED
  BY <1>3, <1>4, KeepSame

ConnsOf(servers) == [i \in DOMAIN servers |-> servers[i].conn]

\* The file says what the form said; entries that are not bound stay.
ServersSay(in, base, b) ==
  /\ b \in Seq(Server) /\ ServersOK(b)
  /\ Given(ConnsOf(b)) = in.conns
  /\ ServersOK(base.mcp) => Unbound(b) = Unbound(base.mcp)
  /\ \A i \in DOMAIN b : HasSecret(b[i]) => \/ \E c \in ToSet(in.conns) : Connectors[c].secret
                                            \/ \E j \in DOMAIN base.mcp : HasSecret(base.mcp[j])
  /\ b # << >> => in.conns # << >> \/ base.mcp # << >>

\* mcp.json can be read back: no name twice, and each server can be reached.
LEMMA ServersOKIs ==
  ASSUME NEW servers, NEW n \in Nat, DOMAIN servers = 1 .. n
  PROVE  ServersOK(servers) <=>
           /\ \A i, j \in 1 .. n : servers[i].name = servers[j].name => i = j
           /\ \A i \in 1 .. n : servers[i].url \/ servers[i].command
<1> DEFINE names == Project(servers, LAMBDA s : s.name)
<1>1. DOMAIN names = 1 .. n /\ \A i \in 1 .. n : names[i] = servers[i].name
  BY DEF Project
<1> HIDE DEF names
<1>2. IsInjective(names) <=> \A i, j \in 1 .. n : servers[i].name = servers[j].name => i = j
  BY <1>1 DEF IsInjective
<1> QED
  BY <1>2 DEF ServersOK, names

\* RenderServers does that.
LEMMA ServersRendered ==
  ASSUME NEW in \in Form, NEW base \in Files, ToSet(in.conns) \subseteq DOMAIN Connectors
  PROVE  ServersSay(in, base, RenderServers(in, base))
<1> DEFINE prev == IF ServersOK(base.mcp) THEN base.mcp ELSE << >>
           loose == Unbound(prev)
           names == ToSet(Project(loose, LAMBDA s : s.name))
           bound == BoundServers(in.conns, prev, names)
           b == RenderServers(in, base)
           k == Len(bound)
           m == Len(loose)
<1>1. prev \in Seq(Server) /\ ServersOK(prev)
  <2>1. ServersOK(<< >>)
    <3>1. \A i \in 1 .. 0 : FALSE
      OBVIOUS
    <3>2. DOMAIN << >> = 1 .. 0
      OBVIOUS
    <3> QED
      BY <3>1, <3>2, ServersOKIs
  <2>2. base.mcp \in Seq(Server)
    BY DEF Files
  <2> QED
    BY <2>1, <2>2
<1>2. b = bound \o loose
  BY DEF RenderServers
<1> HIDE DEF prev
<1>3. loose = Keep(prev, Loose) /\ loose \in Seq(Server)
  BY <1>1, UnboundIs
<1> HIDE DEF loose
<1>4. names = NamesOf(loose)
  BY DEF NamesOf, ToSet, Project
<1>5. IsFiniteSet(names)
  <2> DEFINE t == [i \in DOMAIN loose |-> loose[i].name]
  <2>0. \A i \in 1 .. Len(loose) : loose[i] \in Server
    BY <1>3
  <2>1. t \in Seq(ServerNames)
    <3>1. \A i \in 1 .. Len(loose) : loose[i].name \in ServerNames
      BY <2>0 DEF Server, ServerNames
    <3>2. DOMAIN loose = 1 .. Len(loose) /\ Len(loose) \in Nat
      BY <1>3
    <3> QED
      BY <3>1, <3>2
  <2>2. NamesOf(loose) = ToSet(t)
    BY DEF NamesOf, ToSet
  <2>3. IsFiniteSet(ToSet(t))
    <3> HIDE DEF t
    <3> QED
      BY <2>1, FiniteElements
  <2> QED
    BY <1>4, <2>2, <2>3
<1> HIDE DEF names
<1>6. in.conns \in Seq(DOMAIN Connectors) /\ in.conns \in Seq(Names)
  <2>1. in.conns \in Seq(Names)
    BY DEF Form
  <2>2. ToSet(in.conns) = {in.conns[i] : i \in 1 .. Len(in.conns)}
    BY <2>1, ElementsOf
  <2>3. \A i \in 1 .. Len(in.conns) : in.conns[i] \in DOMAIN Connectors
    BY <2>2
  <2> QED
    BY <2>1, <2>3
<1>7. AllBound(in.conns, names, Len(in.conns), bound)
  BY <1>1, <1>5, <1>6, BoundServersAll
<1> HIDE DEF bound
<1>8. bound \in Seq(Server) /\ k = Len(in.conns)
  BY <1>7 DEF AllBound
<1>9. b \in Seq(Server) /\ InARow(b, bound, k, loose, m)
  BY <1>2, <1>3, <1>8, ConcatPlaces
<1> HIDE DEF b, k, m
<1>10. /\ k \in Nat /\ m \in Nat /\ DOMAIN b = 1 .. k + m /\ Len(bound) = k /\ Len(loose) = m
       /\ \A i \in 1 .. k : b[i] = bound[i]
       /\ \A i \in 1 .. m : b[k + i] = loose[i]
  BY <1>9 DEF InARow
<1>11. \A i : i \in 1 .. k + m <=> i \in 1 .. k \/ \E j \in 1 .. m : i = k + j
  <2>1. k \in Nat /\ m \in Nat
    BY <1>10
  <2> QED
    BY <2>1, TwoParts
<1>12. \A i \in 1 .. k :
         /\ bound[i].conn = in.conns[i] /\ bound[i].secret = Connectors[in.conns[i]].secret
         /\ bound[i].url \/ bound[i].command
         /\ bound[i].name \notin names
         /\ \A j \in 1 .. k : bound[i].name = bound[j].name => i = j
  BY <1>7, <1>8 DEF AllBound
<1>13. PICK at \in [1 .. m -> 1 .. Len(prev)] :
         IsInjective(at) /\ \A i \in 1 .. m : loose[i] = prev[at[i]]
  <2>1. Places(loose, prev)
    BY <1>1, <1>3, KeepPlaces
  <2> QED
    BY <1>10, <2>1 DEF Places
<1>14. /\ \A i, j \in 1 .. Len(prev) : prev[i].name = prev[j].name => i = j
       /\ \A i \in 1 .. Len(prev) : prev[i].url \/ prev[i].command
  <2>1. DOMAIN prev = 1 .. Len(prev) /\ Len(prev) \in Nat
    BY <1>1
  <2> QED
    BY <1>1, <2>1, ServersOKIs
<1>15. /\ \A i \in 1 .. m : at[i] \in 1 .. Len(prev) /\ loose[i].name \in names
       /\ \A i, j \in 1 .. m : loose[i].name = loose[j].name => i = j
       /\ \A i \in 1 .. m : loose[i].url \/ loose[i].command
  <2>1. \A i \in 1 .. m : at[i] \in 1 .. Len(prev)
    BY <1>13
  <2>2. DOMAIN loose = 1 .. m
    BY <1>3, <1>10
  <2>3. \A i \in 1 .. m : loose[i].name \in names
    BY <1>4, <2>2 DEF NamesOf
  <2>4. \A i, j \in 1 .. m : at[i] = at[j] => i = j
    BY <1>13 DEF IsInjective
  <2> QED
    BY <1>13, <1>14, <2>1, <2>3, <2>4
<1>16. ServersOK(b)
  <2>1. ASSUME NEW i \in 1 .. k + m PROVE b[i].url \/ b[i].command
    <3>1. CASE i \in 1 .. k
      BY <1>10, <1>12, <3>1
    <3>2. CASE \E y \in 1 .. m : i = k + y
      <4>1. PICK y \in 1 .. m : i = k + y
        BY <3>2
      <4> QED
        BY <1>10, <1>15, <4>1
    <3> QED
      BY <1>11, <3>1, <3>2
  <2>2. ASSUME NEW i \in 1 .. k + m, NEW j \in 1 .. k + m, b[i].name = b[j].name PROVE i = j
    <3>0. ASSUME NEW x \in 1 .. k, NEW y \in 1 .. m PROVE b[x].name # b[k + y].name
      <4>1. b[x].name \notin names
        BY <1>10, <1>12
      <4>2. b[k + y].name \in names
        BY <1>10, <1>15
      <4> QED
        BY <4>1, <4>2
    <3>1. CASE i \in 1 .. k /\ j \in 1 .. k
      BY <1>10, <1>12, <2>2, <3>1
    <3>2. CASE i \in 1 .. k /\ \E y \in 1 .. m : j = k + y
      BY <2>2, <3>0, <3>2
    <3>3. CASE j \in 1 .. k /\ \E x \in 1 .. m : i = k + x
      BY <2>2, <3>0, <3>3
    <3>4. CASE (\E x \in 1 .. m : i = k + x) /\ \E y \in 1 .. m : j = k + y
      <4>1. PICK x \in 1 .. m : i = k + x
        BY <3>4
      <4>2. PICK y \in 1 .. m : j = k + y
        BY <3>4
      <4>3. b[i] = loose[x] /\ b[j] = loose[y]
        BY <1>10, <4>1, <4>2
      <4> QED
        BY <1>15, <2>2, <4>1, <4>2, <4>3
    <3> QED
      BY <1>11, <3>1, <3>2, <3>3, <3>4
  <2>3. k + m \in Nat /\ DOMAIN b = 1 .. k + m
    BY <1>10
  <2> QED
    BY <2>1, <2>2, <2>3, ServersOKIs
<1>17. \A i \in 1 .. m : loose[i] \in Loose
  <2>1. ToSet(loose) = ToSet(prev) \cap Loose
    BY <1>1, <1>3, KeepSet
  <2>2. ToSet(loose) = {loose[i] : i \in 1 .. Len(loose)}
    BY <1>3, ElementsOf
  <2> QED
    BY <1>10, <2>1, <2>2
<1>18. Given(ConnsOf(b)) = in.conns
  <2> DEFINE mine == ConnsOf(bound)
             none == ConnsOf(loose)
             conns == ConnsOf(b)
  <2>1. \A i \in 1 .. k : bound[i] \in Server
    BY <1>8, <1>10
  <2>2. mine = in.conns
    <3>1. DOMAIN bound = 1 .. k /\ DOMAIN in.conns = 1 .. k
      BY <1>6, <1>8, <1>10
    <3>2. \A i \in 1 .. k : mine[i] = in.conns[i]
      BY <1>12, <3>1 DEF ConnsOf
    <3>3. DOMAIN mine = 1 .. k
      BY <3>1 DEF ConnsOf
    <3>4. mine = [i \in 1 .. k |-> mine[i]]
      BY <3>1 DEF ConnsOf
    <3>5. in.conns = [i \in 1 .. k |-> in.conns[i]]
      <4> DEFINE ids == in.conns
      <4>1. ids \in Seq(Names) /\ DOMAIN ids = 1 .. k
        BY <1>6, <3>1
      <4> HIDE DEF ids
      <4>2. ids = [i \in 1 .. k |-> ids[i]]
        BY <4>1
      <4> QED
        BY <4>2 DEF ids
    <3> QED
      BY <3>2, <3>4, <3>5
  <2>3. none \in Seq(Names) /\ Len(none) = m /\ \A i \in 1 .. m : none[i] = NoConn
    <3>1. DOMAIN loose = 1 .. m
      BY <1>3, <1>10
    <3>2. \A i \in 1 .. m : none[i] = NoConn /\ NoConn \in Names
      BY <1>17, <3>1, BundleAssumption DEF BundleAssumption, ConnsOf, Loose
    <3> QED
      BY <1>10, <3>1, <3>2 DEF ConnsOf
  <2>4. conns = in.conns \o none /\ conns \in Seq(Names)
    <3> DEFINE cat == in.conns \o none
    <3>1. cat \in Seq(Names) /\ InARow(cat, in.conns, Len(in.conns), none, Len(none))
      <4> HIDE DEF none
      <4> QED
        BY <1>6, <2>3, ConcatPlaces
    <3> HIDE DEF cat, none
    <3>2. /\ DOMAIN cat = 1 .. k + m /\ \A i \in 1 .. k : cat[i] = in.conns[i]
          /\ \A i \in 1 .. m : cat[k + i] = NoConn
      BY <1>6, <1>8, <2>3, <3>1 DEF InARow
    <3>3. DOMAIN conns = 1 .. k + m /\ \A i \in 1 .. k + m : conns[i] = b[i].conn
      BY <1>10 DEF ConnsOf
    <3>4. ASSUME NEW i \in 1 .. k + m PROVE conns[i] = cat[i]
      <4>1. CASE i \in 1 .. k
        BY <1>10, <1>12, <3>2, <3>3, <4>1
      <4>2. CASE \E j \in 1 .. m : i = k + j
        BY <1>10, <1>17, <3>2, <3>3, <4>2 DEF Loose
      <4> QED
        BY <1>11, <4>1, <4>2
    <3>5. conns = cat
      <4>1. conns = [i \in 1 .. k + m |-> conns[i]]
        BY <3>3 DEF ConnsOf
      <4>2. cat = [i \in 1 .. k + m |-> cat[i]]
        BY <3>1, <3>2
      <4> QED
        BY <3>4, <4>1, <4>2
    <3> QED
      BY <3>1, <3>5 DEF cat
  <2> HIDE DEF none, conns
  <2> DEFINE real == Names \ {NoConn}
  <2>5. Given(conns) = Keep(conns, real)
    BY <2>4, GivenIs
  <2> HIDE DEF real
  <2>6. Keep(conns, real) = Keep(in.conns, real) \o Keep(none, real)
    BY <1>6, <2>3, <2>4, KeepConcat
  <2>7. Keep(in.conns, real) = in.conns
    <3>1. ToSet(in.conns) \subseteq real
      BY BundleAssumption DEF BundleAssumption, real
    <3> QED
      BY <1>6, <3>1, KeepAll
  <2>8. Keep(none, real) = << >>
    <3>1. ToSet(none) = {none[i] : i \in 1 .. m}
      BY <2>3, ElementsOf
    <3>2. ToSet(none) \cap real = {}
      BY <2>3, <3>1 DEF real
    <3> QED
      BY <2>3, <3>2, KeepNone
  <2>9. in.conns \o << >> = in.conns
    BY <1>6
  <2> QED
    BY <2>5, <2>6, <2>7, <2>8, <2>9 DEF conns
<1>19. Unbound(b) = loose
  <2>1. Unbound(b) = Keep(b, Loose)
    BY <1>9, UnboundIs
  <2>2. Keep(bound \o loose, Loose) = Keep(bound, Loose) \o Keep(loose, Loose)
    <3>1. bound \in Seq(Server) /\ loose \in Seq(Server)
      BY <1>3, <1>8
    <3> QED
      BY <3>1, KeepConcat
  <2>3. Keep(bound, Loose) = << >>
    <3>1. ToSet(bound) = {bound[i] : i \in 1 .. k}
      BY <1>8, <1>10, ElementsOf
    <3>2. \A i \in 1 .. k : in.conns[i] # NoConn
      <4>1. \A i \in 1 .. k : in.conns[i] \in DOMAIN Connectors
        BY <1>6, <1>8
      <4> QED
        BY <4>1, BundleAssumption DEF BundleAssumption
    <3>3. ToSet(bound) \cap Loose = {}
      BY <1>12, <3>1, <3>2 DEF Loose
    <3> QED
      BY <1>8, <3>3, KeepNone
  <2>4. Keep(loose, Loose) = loose
    <3>1. ToSet(loose) = {loose[i] : i \in 1 .. Len(loose)}
      BY <1>3, ElementsOf
    <3>2. ToSet(loose) \subseteq Loose
      BY <1>10, <1>17, <3>1
    <3> QED
      BY <1>3, <3>2, KeepAll
  <2>5. << >> \o loose = loose
    BY <1>3
  <2>6. b = bound \o loose
    BY <1>2 DEF b
  <2> QED
    BY <2>1, <2>2, <2>3, <2>4, <2>5, <2>6
<1>20. ServersOK(base.mcp) => loose = Unbound(base.mcp)
  BY DEF prev, loose
<1>21. ASSUME NEW i \in DOMAIN b, HasSecret(b[i])
       PROVE  \/ \E c \in ToSet(in.conns) : Connectors[c].secret
              \/ \E j \in DOMAIN base.mcp : HasSecret(base.mcp[j])
  <2>1. CASE i \in 1 .. k
    <3>1. Connectors[in.conns[i]].secret
      BY <1>10, <1>12, <1>21, <2>1 DEF HasSecret
    <3>2. in.conns[i] \in ToSet(in.conns)
      <4>1. ToSet(in.conns) = {in.conns[j] : j \in 1 .. Len(in.conns)}
        BY <1>6, ElementsOf
      <4> QED
        BY <1>8, <2>1, <4>1
    <3> QED
      BY <3>1, <3>2
  <2>2. CASE \E j \in 1 .. m : i = k + j
    <3>1. PICK j \in 1 .. m : i = k + j
      BY <2>2
    <3>2. HasSecret(prev[at[j]]) /\ at[j] \in 1 .. Len(prev)
      BY <1>10, <1>13, <1>15, <1>21, <3>1
    <3>3. DOMAIN prev = 1 .. Len(prev)
      BY <1>1
    <3>4. prev = base.mcp
      <4>1. prev # << >>
        BY <3>2, <3>3
      <4> QED
        BY <4>1 DEF prev
    <3> QED
      BY <3>2, <3>3, <3>4
  <2> QED
    BY <1>10, <1>11, <2>1, <2>2
<1>22. ASSUME b # << >> PROVE in.conns # << >> \/ base.mcp # << >>
  <2> SUFFICES ASSUME in.conns = << >>, base.mcp = << >> PROVE FALSE
    OBVIOUS
  <2>1. k = 0
    BY <1>8
  <2>2. prev = << >>
    BY DEF prev
  <2>3. m = 0
    <3>1. 1 .. Len(prev) = {}
      BY <2>2
    <3>2. 1 .. m = {}
      BY <1>15, <3>1
    <3>3. m \in Nat
      BY <1>10
    <3> QED
      BY <3>2, <3>3
  <2>4. Len(b) = 0
    BY <1>9, <2>1, <2>3 DEF InARow
  <2> QED
    BY <1>9, <1>22, <2>4, EmptySeq
<1> QED
  BY <1>9, <1>16, <1>18, <1>19, <1>20, <1>21, <1>22 DEF ServersSay, b

-----------------------------------------------------------------------------
(* Bundles.                                                                *)

\* What deriveBundle accepts.
LEMMA ProblemOK ==
  ASSUME NEW b
  PROVE  Problem(b) = "ok" <=>
           /\ ~(FileCount(b) > MaxFiles)
           /\ b.agents # 0
           /\ SkillsOK(b.skills)
           /\ \A i \in DOMAIN b.skills : b.skills[i].id = NoConn => b.skills[i].name \in b.dirs
           /\ ServersOK(b.mcp)
           /\ \A i \in DOMAIN b.mcp : ~HasSecret(b.mcp[i])
BY DEF Problem

\* Files that are stored: none, or a bundle that can be read back.
Readable(b) == b \in Files /\ (b = NoFiles \/ Problem(b) = "ok")

\* A profile without files has none.
LEMMA NoFilesReadable == Readable(NoFiles)
<1>1. << >> \in Seq(Entry) /\ << >> \in Seq(Server)
  OBVIOUS
<1> QED
  BY <1>1 DEF Readable, NoFiles, Files

\* What can be said of stored files, part by part.
LEMMA ReadableParts ==
  ASSUME NEW b, Readable(b)
  PROVE  /\ b \in Files /\ SkillsOK(b.skills) /\ ServersOK(b.mcp)
         /\ \A i \in DOMAIN b.skills : b.skills[i].id = NoConn => b.skills[i].name \in b.dirs
         /\ \A i \in DOMAIN b.mcp : ~HasSecret(b.mcp[i])
<1>1. CASE b = NoFiles
  <2>1. DOMAIN << >> = 1 .. 0 /\ \A i \in 1 .. 0 : FALSE
    OBVIOUS
  <2>2. ServersOK(<< >>)
    BY <2>1, ServersOKIs
  <2>3. SkillsOK(<< >>)
    BY <2>1 DEF SkillsOK
  <2>4. b.skills = << >> /\ b.mcp = << >>
    BY <1>1 DEF NoFiles
  <2> QED
    BY <2>1, <2>2, <2>3, <2>4 DEF Readable
<1>2. CASE Problem(b) = "ok"
  BY <1>2, ProblemOK DEF Readable
<1> QED
  BY <1>1, <1>2 DEF Readable

\* What the form sets, and what it leaves alone.
RenderedFields(in, base, b) ==
  /\ b \in Files
  /\ b.agents = in.text /\ b.soul = in.soul /\ b.json = TRUE
  /\ in.desc > 0 => b.desc = in.desc
  /\ b.dirs = base.dirs /\ b.other = base.other
  /\ b.skills = RenderSkills(in, base) /\ b.mcp = RenderServers(in, base)

Refers(in) == ToSet(in.skills) \subseteq DOMAIN Skills /\ ToSet(in.conns) \subseteq DOMAIN Connectors

\* The references are those the catalogs have.
LEMMA KnownRefers == ASSUME NEW in, RefsKnown(in) PROVE Refers(in)
BY DEF RefsKnown, CheckSkill, Refers

\* RenderBundle sets the fields of the form, and no other.
LEMMA RenderFields ==
  ASSUME NEW in \in Form, NEW base \in Files, Refers(in)
  PROVE  RenderedFields(in, base, RenderBundle(in, base))
<1>1. RenderSkills(in, base) \in Seq(Entry)
  BY SkillsRendered DEF SkillsSay, Refers
<1>2. RenderServers(in, base) \in Seq(Server)
  BY ServersRendered DEF ServersSay, Refers
<1> QED
  BY <1>1, <1>2 DEF RenderBundle, RenderedFields, Form, Files

\* The bundle says what the form said, whatever the files before.
SaysForm(in, d) ==
  /\ d.text = in.text /\ d.soul = in.soul /\ d.conns = in.conns
  /\ ToSet(d.skills) = ToSet(in.skills)

\* The bundle says it, whatever was stored before.
LEMMA RenderSays ==
  ASSUME NEW in \in Form, NEW base \in Files, Refers(in)
  PROVE  SaysForm(in, DeriveBundle(RenderBundle(in, base)))
<1> DEFINE b == RenderBundle(in, base)
<1>1. RenderedFields(in, base, b)
  BY RenderFields
<1>2. SkillsSay(in, base, b.skills) /\ ServersSay(in, base, b.mcp)
  BY <1>1, SkillsRendered, ServersRendered DEF RenderedFields, Refers
<1> HIDE DEF b
<1>3. /\ DeriveBundle(b).text = b.agents /\ DeriveBundle(b).soul = b.soul
      /\ DeriveBundle(b).skills = Given([i \in DOMAIN b.skills |-> b.skills[i].id])
      /\ DeriveBundle(b).conns = Given(ConnsOf(b.mcp))
  BY DEF DeriveBundle, Project, ConnsOf
<1> QED
  BY <1>1, <1>2, <1>3 DEF SaysForm, RenderedFields, SkillsSay, ServersSay, b

\* What the form has no field for stays as it was.
LEMMA RenderKeeps ==
  ASSUME NEW in \in Form, NEW base, Readable(base), Refers(in)
  PROVE  Unowned(RenderBundle(in, base)) = Unowned(base)
<1> DEFINE b == RenderBundle(in, base)
<1>1. /\ base \in Files /\ SkillsOK(base.skills) /\ ServersOK(base.mcp)
      /\ \A i \in DOMAIN base.skills : base.skills[i].id = NoConn => base.skills[i].name \in base.dirs
  BY ReadableParts
<1>2. RenderedFields(in, base, b)
  BY <1>1, RenderFields
<1>3. SkillsSay(in, base, b.skills) /\ ServersSay(in, base, b.mcp)
  BY <1>1, <1>2, SkillsRendered, ServersRendered DEF RenderedFields, Refers
<1> HIDE DEF b
<1>4. Listed(b.skills) = Listed(base.skills) /\ Unbound(b.mcp) = Unbound(base.mcp)
  BY <1>1, <1>3 DEF SkillsSay, ServersSay
<1>5. b.dirs = base.dirs /\ b.other = base.other
  BY <1>2 DEF RenderedFields
<1>6. DeriveBundle(b).unbound = DeriveBundle(base).unbound
  BY <1>4 DEF DeriveBundle
<1>7. DeriveBundle(b).inBundle = DeriveBundle(base).inBundle
  BY <1>4, <1>5 DEF DeriveBundle
<1> QED
  BY <1>5, <1>6, <1>7 DEF Unowned, b

\* What both files of the bundle need to be read back.
Sound(b) ==
  /\ SkillsOK(b.skills) /\ ServersOK(b.mcp)
  /\ \A i \in DOMAIN b.skills : b.skills[i].id = NoConn => b.skills[i].name \in b.dirs

NoSecrets(b) == \A i \in DOMAIN b.mcp : ~HasSecret(b.mcp[i])

\* They can be read back unless two skills have one name.
LEMMA RenderSound ==
  ASSUME NEW in \in Form, NEW base \in Files, Refers(in), IsInjective(in.skills),
         ~SkillsClash(in, base)
  PROVE  LET b == RenderBundle(in, base)
         IN /\ Sound(b)
            /\ NoSecrets(base) /\ (\A c \in ToSet(in.conns) : ~Connectors[c].secret) => NoSecrets(b)
<1> DEFINE b == RenderBundle(in, base)
           skills == RenderSkills(in, base)
           k == Len(KeptSkills(in, base))
           m == Len(NewSkills(in, base))
           kept == KeptSkills(in, base)
           new == NewSkills(in, base)
<1>1. base \in Files
  OBVIOUS
<1>2. RenderedFields(in, base, b)
  BY <1>1, RenderFields
<1>3. SkillsSay(in, base, skills) /\ ServersSay(in, base, b.mcp)
  BY <1>1, <1>2, SkillsRendered, ServersRendered DEF RenderedFields, Refers
<1>4. SkillAt(in, base, skills, k, m)
  BY <1>1, SkillPlaces DEF Refers
<1>5. kept \in Seq(Entry) /\ SkillsOK(kept)
  BY <1>1, KeptSkillsFacts
<1>6. in.skills \in Seq(Names)
  BY DEF Form
<1>7. /\ new \in Seq(Names) /\ IsInjective(new)
      /\ ToSet(new) = ToSet(in.skills) \cap (ToSet(in.skills) \ KeptIds(kept))
  BY <1>6, KeepInjective, KeepSet DEF NewSkills
<1> HIDE DEF b, skills, k, m, kept, new
<1>8. /\ k \in Nat /\ m \in Nat /\ skills \in Seq(Entry) /\ Len(skills) = k + m
      /\ k = Len(kept) /\ m = Len(new)
      /\ \A i \in 1 .. k : skills[i].id = kept[i].id
      /\ \A i \in 1 .. m : skills[k + i].id = new[i]
  <2>1. \A id : CatalogEntry(id).id = id
    BY DEF CatalogEntry
  <2> QED
    BY <1>4, <2>1 DEF SkillAt, kept, new
<1>9. DOMAIN skills = 1 .. k + m /\ DOMAIN kept = 1 .. k /\ DOMAIN new = 1 .. m
  BY <1>5, <1>7, <1>8
<1>10. \A i : i \in 1 .. k + m <=> i \in 1 .. k \/ \E j \in 1 .. m : i = k + j
  <2>1. k \in Nat /\ m \in Nat
    BY <1>8
  <2> QED
    BY <2>1, TwoParts
<1>11. \A i \in 1 .. k, j \in 1 .. m : skills[i].id # skills[k + j].id
  <2> TAKE i \in 1 .. k, j \in 1 .. m
  <2>1. skills[i].id \in KeptIds(kept)
    BY <1>8, <1>9 DEF KeptIds
  <2>2. new[j] \in ToSet(new)
    BY <1>9 DEF ToSet
  <2>3. skills[k + j].id \notin KeptIds(kept)
    BY <1>7, <1>8, <2>2
  <2> QED
    BY <2>1, <2>3
<1>12. ASSUME NEW i \in 1 .. k + m, NEW j \in 1 .. k + m, skills[i].id = skills[j].id, skills[i].id # NoConn
       PROVE  i = j
  <2>1. CASE i \in 1 .. k /\ j \in 1 .. k
    BY <1>5, <1>8, <1>9, <1>12, <2>1 DEF SkillsOK
  <2>2. CASE i \in 1 .. k /\ \E y \in 1 .. m : j = k + y
    BY <1>11, <1>12, <2>2
  <2>3. CASE j \in 1 .. k /\ \E x \in 1 .. m : i = k + x
    BY <1>11, <1>12, <2>3
  <2>4. CASE (\E x \in 1 .. m : i = k + x) /\ \E y \in 1 .. m : j = k + y
    <3>1. PICK x \in 1 .. m : i = k + x
      BY <2>4
    <3>2. PICK y \in 1 .. m : j = k + y
      BY <2>4
    <3>3. new[x] = new[y]
      BY <1>8, <1>12, <3>1, <3>2
    <3> QED
      BY <1>7, <1>9, <3>1, <3>2, <3>3 DEF IsInjective
  <2> QED
    BY <1>10, <2>1, <2>2, <2>3, <2>4
<1>13. \A i, j \in 1 .. k + m : skills[i].name = skills[j].name => i = j
  <2> DEFINE names == Project(skills, LAMBDA e : e.name)
  <2>1. IsInjective(names)
    BY DEF SkillsClash, skills
  <2>2. DOMAIN names = 1 .. k + m /\ \A i \in 1 .. k + m : names[i] = skills[i].name
    BY <1>9 DEF Project
  <2> HIDE DEF names
  <2> QED
    BY <2>1, <2>2 DEF IsInjective
<1>14. SkillsOK(skills)
  BY <1>9, <1>12, <1>13 DEF SkillsOK
<1>15. /\ b.skills = skills /\ b.agents = in.text /\ b.dirs = base.dirs
  BY <1>2 DEF RenderedFields, skills
<1>16. \A i \in DOMAIN b.skills : b.skills[i].id = NoConn => b.skills[i].name \in b.dirs
  BY <1>3, <1>15 DEF SkillsSay
<1>17. ServersOK(b.mcp)
  BY <1>3 DEF ServersSay
<1>18. NoSecrets(base) /\ (\A c \in ToSet(in.conns) : ~Connectors[c].secret) => NoSecrets(b)
  BY <1>3 DEF ServersSay, NoSecrets
<1>19. Sound(b)
  BY <1>14, <1>15, <1>16, <1>17 DEF Sound
<1> QED
  BY <1>18, <1>19 DEF b

\* The bundle can be read back, unless two skills have one name, a connector shows a
\* credential, or there are too many files.
LEMMA RenderReadable ==
  ASSUME NEW in \in Form, NEW base, Readable(base), Refers(in), in.text > 0, IsInjective(in.skills),
         ~SkillsClash(in, base), \A c \in ToSet(in.conns) : ~Connectors[c].secret,
         ~(FileCount(RenderBundle(in, base)) > MaxFiles)
  PROVE  Problem(RenderBundle(in, base)) = "ok"
<1> DEFINE b == RenderBundle(in, base)
<1>1. base \in Files /\ NoSecrets(base)
  BY ReadableParts DEF NoSecrets
<1>2. RenderedFields(in, base, b)
  BY <1>1, RenderFields
<1>3. Sound(b) /\ NoSecrets(b)
  BY <1>1, RenderSound
<1>4. ~(FileCount(b) > MaxFiles)
  OBVIOUS
<1> HIDE DEF b
<1>5. in.text \in Nat
  BY DEF Form
<1>6. b.agents # 0
  BY <1>2, <1>5 DEF RenderedFields
<1> QED
  BY <1>3, <1>4, <1>6, ProblemOK DEF Sound, NoSecrets, b

\* Whatever is stored, a form reads back as it was written.
LEMMA RoundTrip ==
  ASSUME NEW in \in Form, NEW base, Readable(base), ValidExpert(in), RefsKnown(in)
  PROVE  LET b == RenderBundle(in, base)
             d == DeriveBundle(b)
         IN \/ SkillsClash(in, base)
            \/ \E c \in ToSet(in.conns) : Connectors[c].secret
            \/ FileCount(b) > MaxFiles
            \/ /\ Problem(b) = "ok"
               /\ d.conns = in.conns /\ ToSet(d.skills) = ToSet(in.skills)
               /\ Unowned(b) = Unowned(base)
<1>1. Refers(in) /\ base \in Files
  BY KnownRefers DEF Readable
<1>2. in.text > 0 /\ IsInjective(in.skills)
  BY DEF ValidExpert, CheckRefList
<1>3. SaysForm(in, DeriveBundle(RenderBundle(in, base)))
  BY <1>1, RenderSays
<1>4. Unowned(RenderBundle(in, base)) = Unowned(base)
  BY <1>1, RenderKeeps
<1> QED
  BY <1>1, <1>2, <1>3, <1>4, RenderReadable DEF SaysForm

-----------------------------------------------------------------------------
(* Stored versions.                                                        *)

\* A row says of its files what they are, and can be read back. What the API has
\* written has a version before it, and a team is one that can be run.
RowOK(r) ==
  LET p == profiles[r]
  IN /\ p = [spec |-> p.spec, files |-> p.files, by |-> p.by]
     /\ Readable(p.files) /\ p.spec.sha = p.files
     /\ p.by = "api" =>
          /\ p.spec.kind \in {"expert", "team"}
          /\ r[2] > 1 => <<r[1], r[2] - 1>> \in DOMAIN profiles
          /\ p.spec.kind = "team" =>
               /\ TeamFromSpec(p.spec)
               /\ \A i \in DOMAIN p.spec.members : IsMember(r[1], p.spec.members[i].expert)

RowsOK ==
  /\ lastId \in Nat
  /\ DOMAIN profiles \subseteq (1 .. lastId) \X (1 .. MaxVersion)
  /\ \A r \in DOMAIN profiles : RowOK(r)

\* A row is added, or it was there and is the same.
Stores(ref, spec, files, by) ==
  /\ DOMAIN profiles' = DOMAIN profiles \cup {ref}
  /\ \A r \in DOMAIN profiles : profiles'[r] = profiles[r]
  /\ ref \notin DOMAIN profiles => profiles'[ref] = [spec |-> spec, files |-> files, by |-> by]
  /\ profiles'[ref].spec = spec /\ profiles'[ref].files = files

\* Registering never changes a row, for the digest stands for the files.
LEMMA RegisterKeeps ==
  ASSUME NEW ref, NEW spec, NEW files, NEW by, RowsOK, Accepts(ref, spec), spec.sha = files,
         Register(ref, spec, files, by)
  PROVE  Stores(ref, spec, files, by)
<1>1. DOMAIN profiles' = DOMAIN profiles \cup {ref}
  BY DEF Register
<1>2. ASSUME NEW r \in DOMAIN profiles, r # ref PROVE profiles'[r] = profiles[r]
  BY <1>2 DEF Register
<1>3. ASSUME ref \in DOMAIN profiles PROVE profiles'[ref] = profiles[ref] /\ profiles[ref].spec = spec
  <2> DEFINE p == profiles[ref]
  <2>1. p = [spec |-> p.spec, files |-> p.files, by |-> p.by] /\ p.spec.sha = p.files
    BY <1>3 DEF RowsOK, RowOK
  <2>2. p.spec = spec /\ p.files = files
    BY <1>3, <2>1 DEF Accepts
  <2>3. profiles'[ref] = [p EXCEPT !.files = IF @ = NoFiles THEN files ELSE @]
    BY <1>3 DEF Register
  <2> HIDE DEF p
  <2>4. [p EXCEPT !.files = IF @ = NoFiles THEN files ELSE @] = p
    BY <2>1, <2>2
  <2> QED
    BY <2>2, <2>3, <2>4 DEF p
<1>4. ref \notin DOMAIN profiles => profiles'[ref] = [spec |-> spec, files |-> files, by |-> by]
  BY DEF Register
<1>5. profiles'[ref].spec = spec /\ profiles'[ref].files = files
  <2>1. CASE ref \in DOMAIN profiles
    BY <1>3, <2>1 DEF RowsOK, RowOK
  <2>2. CASE ref \notin DOMAIN profiles
    BY <1>4, <2>2
  <2> QED
    BY <2>1, <2>2
<1>6. \A r \in DOMAIN profiles : profiles'[r] = profiles[r]
  BY <1>2, <1>3
<1> QED
  BY <1>1, <1>4, <1>5, <1>6 DEF Stores

\* What is written, and on top of what.
Writable(id, version, in, base) ==
  /\ in \in Form /\ in.kind \in {"expert", "team"} /\ (in.kind = "team" => in.source = NoConn)
  /\ base \in Files
  /\ id \in Nat \ {0} /\ version \in 1 .. MaxVersion
  /\ version > 1 => /\ <<id, version - 1>> \in DOMAIN profiles
                    /\ base = profiles[<<id, version - 1>>].files

\* The form is stored and the caller told so.
Wrote(id, version, in, base) ==
  /\ WriteProblem(id, in, base) = "ok"
  /\ Stores(<<id, version>>, SpecOf(in, base), FilesOf(in, base), "api")
  /\ answers' = answers \cup {[ref |-> <<id, version>>, form |-> in]}

\* writeExpert stores the form, or nothing.
LEMMA WriteCases ==
  ASSUME NEW id, NEW version, NEW in, NEW base, RowsOK, WriteExpert(id, version, in, base)
  PROVE  UNCHANGED <<profiles, answers>> \/ Wrote(id, version, in, base)
<1> DEFINE ok == /\ WriteProblem(id, in, base) = "ok"
                 /\ Accepts(<<id, version>>, SpecOf(in, base))
<1>1. CASE ok
  <2>1. /\ Register(<<id, version>>, SpecOf(in, base), FilesOf(in, base), "api")
        /\ answers' = answers \cup {[ref |-> <<id, version>>, form |-> in]}
    BY <1>1 DEF WriteExpert
  <2>2. SpecOf(in, base).sha = FilesOf(in, base)
    BY DEF SpecOf, FilesOf, TeamSpec, ExpertSpec
  <2>3. Stores(<<id, version>>, SpecOf(in, base), FilesOf(in, base), "api")
    BY <1>1, <2>1, <2>2, RegisterKeeps
  <2> QED
    BY <1>1, <2>1, <2>3 DEF Wrote
<1>2. CASE ~ok
  BY <1>2 DEF WriteExpert
<1> QED
  BY <1>1, <1>2

\* What passes the checks can be read back.
LEMMA WrittenFiles ==
  ASSUME NEW id, NEW in \in Form, NEW base \in Files, WriteProblem(id, in, base) = "ok"
  PROVE  /\ Readable(FilesOf(in, base))
         /\ in.kind # "team" => ValidExpert(in) /\ RefsKnown(in) /\ Refers(in)
         /\ in.kind = "team" => /\ ValidTeam(in)
                                /\ \A i \in DOMAIN in.members : IsMember(id, in.members[i].expert)
<1>1. CASE in.kind = "team"
  <2>1. FilesOf(in, base) = NoFiles
    BY <1>1 DEF FilesOf
  <2>2. ValidTeam(in) /\ \A i \in DOMAIN in.members : IsMember(id, in.members[i].expert)
    BY <1>1 DEF WriteProblem
  <2> QED
    BY <1>1, <2>1, <2>2, NoFilesReadable
<1>2. CASE in.kind # "team"
  <2>1. ValidExpert(in) /\ RefsKnown(in) /\ Problem(RenderBundle(in, base)) = "ok"
    BY <1>2 DEF WriteProblem
  <2>2. Refers(in)
    BY <2>1, KnownRefers
  <2>3. RenderBundle(in, base) \in Files
    BY <2>2, RenderFields DEF RenderedFields
  <2>4. FilesOf(in, base) = RenderBundle(in, base)
    BY <1>2 DEF FilesOf
  <2> QED
    BY <1>2, <2>1, <2>2, <2>3, <2>4 DEF Readable
<1> QED
  BY <1>1, <1>2

\* What is stored stays.
LEMMA RowStays ==
  ASSUME NEW r \in DOMAIN profiles, RowOK(r), DOMAIN profiles \subseteq DOMAIN profiles',
         \A q \in DOMAIN profiles : profiles'[q] = profiles[q]
  PROVE  RowOK(r)'
<1>1. profiles'[r] = profiles[r]
  OBVIOUS
<1>2. \A id, ref : IsMember(id, ref) => IsMember(id, ref)'
  BY DEF IsMember
<1> QED
  BY <1>1, <1>2 DEF RowOK

\* A version that is written is as every stored version is.
LEMMA RowsWritten ==
  ASSUME NEW id, NEW version, NEW in, NEW base, RowsOK, Writable(id, version, in, base),
         Wrote(id, version, in, base), lastId' \in Nat, lastId <= lastId', id <= lastId'
  PROVE  RowsOK'
<1> DEFINE ref == <<id, version>>
           spec == SpecOf(in, base)
           files == FilesOf(in, base)
<1>1. /\ DOMAIN profiles' = DOMAIN profiles \cup {ref}
      /\ \A r \in DOMAIN profiles : profiles'[r] = profiles[r]
      /\ ref \notin DOMAIN profiles => profiles'[ref] = [spec |-> spec, files |-> files, by |-> "api"]
  BY DEF Wrote, Stores
<1>2. DOMAIN profiles' \subseteq (1 .. lastId') \X (1 .. MaxVersion)
  BY <1>1 DEF RowsOK, Writable
<1>3. \A r \in DOMAIN profiles : RowOK(r)'
  BY <1>1, RowStays DEF RowsOK
<1>4. ASSUME ref \notin DOMAIN profiles PROVE RowOK(ref)'
  <2>1. profiles'[ref] = [spec |-> spec, files |-> files, by |-> "api"]
    BY <1>1, <1>4
  <2>2. Readable(files) /\ spec.sha = files
    BY WrittenFiles DEF Wrote, Writable, SpecOf, FilesOf, TeamSpec, ExpertSpec
  <2>3. spec.kind = in.kind
    BY DEF SpecOf, TeamSpec, ExpertSpec, Writable
  <2>4. version > 1 => <<id, version - 1>> \in DOMAIN profiles'
    BY <1>1 DEF Writable
  <2>5. ASSUME in.kind = "team"
        PROVE  /\ TeamFromSpec(spec)
               /\ \A i \in DOMAIN spec.members : IsMember(id, spec.members[i].expert)'
    <3>1. ValidTeam(in) /\ \A i \in DOMAIN in.members : IsMember(id, in.members[i].expert)
      BY <2>5, WrittenFiles DEF Wrote, Writable
    <3>2. spec.members = in.members /\ spec.leader = in.leader
      BY <2>5 DEF SpecOf, TeamSpec
    <3>3. \A x : IsMember(id, x) => IsMember(id, x)'
      BY <1>1 DEF IsMember
    <3> HIDE DEF spec
    <3>4. TeamFromSpec(spec)
      BY <3>1, <3>2 DEF ValidTeam, TeamFromSpec
    <3> QED
      BY <3>1, <3>2, <3>3, <3>4
  <2>6. ref[1] = id /\ ref[2] = version
    OBVIOUS
  <2> HIDE DEF spec, files, ref
  <2>7. in.kind \in {"expert", "team"}
    BY DEF Writable
  <2> QED
    BY <2>1, <2>2, <2>3, <2>4, <2>5, <2>6, <2>7 DEF RowOK
<1> QED
  BY <1>1, <1>2, <1>3, <1>4 DEF RowsOK

-----------------------------------------------------------------------------
(* What a caller was told.                                                 *)

AnswerOK(a) ==
  /\ a.ref \in DOMAIN profiles
  /\ LET s == ExpertFrom(a.ref)
     IN /\ s.kind = a.form.kind /\ s.text = a.form.text /\ s.soul = a.form.soul
        /\ s.conns = a.form.conns /\ ToSet(s.skills) = ToSet(a.form.skills)
        /\ s.members = a.form.members /\ s.leader = a.form.leader
        /\ s.source = a.form.source /\ (a.form.desc > 0 => s.desc = a.form.desc)

\* What a caller was told stays true.
LEMMA AnswerStays ==
  ASSUME NEW a, AnswerOK(a), a.ref \in DOMAIN profiles', profiles'[a.ref] = profiles[a.ref]
  PROVE  AnswerOK(a)'
BY DEF AnswerOK, ExpertFrom, Description

\* What a caller is told is true.
LEMMA AnswerWritten ==
  ASSUME NEW id, NEW version, NEW in, NEW base, Writable(id, version, in, base),
         Wrote(id, version, in, base)
  PROVE  AnswerOK([ref |-> <<id, version>>, form |-> in])'
<1> DEFINE ref == <<id, version>>
           spec == SpecOf(in, base)
           files == FilesOf(in, base)
           p == profiles'[ref]
<1>1. ref \in DOMAIN profiles' /\ p.spec = spec /\ p.files = files
  BY DEF Wrote, Stores
<1>2. /\ in \in Form /\ base \in Files /\ in.kind \in {"expert", "team"}
      /\ in.kind = "team" => in.source = NoConn
  BY DEF Writable
<1>3. WriteProblem(id, in, base) = "ok"
  BY DEF Wrote
<1>4. CASE in.kind = "team"
  <2>1. ValidTeam(in)
    BY <1>2, <1>3, <1>4, WrittenFiles
  <2>2. spec = TeamSpec(in)
    BY <1>4 DEF SpecOf
  <2>3. /\ spec.kind = "team" /\ spec.text = 0 /\ spec.soul = 0 /\ spec.desc = 0 /\ spec.skills = << >>
        /\ spec.conns = << >> /\ spec.leader = in.leader /\ spec.members = in.members
        /\ spec.source = NoConn
    BY <2>2 DEF TeamSpec
  <2>4. TeamFromSpec(spec)
    BY <2>1, <2>3 DEF ValidTeam, TeamFromSpec
  <2>5. /\ in.text = 0 /\ in.soul = 0 /\ in.desc = 0 /\ in.skills = << >> /\ in.conns = << >>
        /\ in.source = NoConn
    BY <1>2, <1>4, <2>1 DEF ValidTeam
  <2> HIDE DEF spec, files, ref
  <2> QED
    BY <1>1, <1>4, <2>3, <2>4, <2>5 DEF AnswerOK, ExpertFrom, Description, ref
<1>5. CASE in.kind = "expert"
  <2>1. ValidExpert(in) /\ Refers(in)
    BY <1>2, <1>3, <1>5, WrittenFiles
  <2>2. spec = ExpertSpec(in, files) /\ files = RenderBundle(in, base)
    BY <1>5 DEF SpecOf, FilesOf
  <2>3. SaysForm(in, DeriveBundle(files)) /\ RenderedFields(in, base, files)
    BY <1>2, <2>1, <2>2, RenderSays, RenderFields
  <2> HIDE DEF files
  <2>4. /\ spec.kind = "expert" /\ spec.desc = files.desc /\ spec.leader = NoConn
        /\ spec.members = << >> /\ spec.source = in.source
        /\ spec.text = in.text /\ spec.soul = in.soul /\ spec.conns = in.conns
        /\ ToSet(spec.skills) = ToSet(in.skills)
    BY <2>2, <2>3 DEF ExpertSpec, SaysForm
  <2>5. in.desc > 0 => files.desc = in.desc
    BY <2>3 DEF RenderedFields
  <2>6. in.leader = NoConn /\ in.members = << >>
    BY <2>1 DEF ValidExpert
  <2> HIDE DEF spec, ref
  <2> QED
    BY <1>1, <1>5, <2>4, <2>5, <2>6 DEF AnswerOK, ExpertFrom, Description, ref
<1> QED
  BY <1>2, <1>4, <1>5

-----------------------------------------------------------------------------
(* Edits.                                                                  *)

EditOK(r) ==
  LET next == <<r[1], r[2] + 1>>
  IN (/\ next \in DOMAIN profiles
      /\ profiles[next].by = "api"
      /\ profiles[next].spec.kind = "expert")
        => Unowned(profiles[next].files) = Unowned(profiles[r].files)

\* A version that is written keeps what the one before it had.
LEMMA EditWritten ==
  ASSUME NEW id, NEW version, NEW in, NEW base, RowsOK, Writable(id, version, in, base),
         Wrote(id, version, in, base), \A r \in DOMAIN profiles : EditOK(r),
         NEW r \in DOMAIN profiles'
  PROVE  EditOK(r)'
<1> DEFINE ref == <<id, version>>
           files == FilesOf(in, base)
           next == <<r[1], r[2] + 1>>
           old == profiles
           new == profiles'
<1>1. /\ DOMAIN new = DOMAIN old \cup {ref}
      /\ \A q \in DOMAIN old : new[q] = old[q]
      /\ new[ref].spec = SpecOf(in, base) /\ new[ref].files = files
  BY DEF Wrote, Stores
<1>2. /\ r = <<r[1], r[2]>> /\ r[1] \in Nat \ {0} /\ r[2] \in Nat \ {0}
  BY <1>1 DEF RowsOK, Writable
<1>3. SUFFICES ASSUME next \in DOMAIN new, new[next].by = "api", new[next].spec.kind = "expert"
               PROVE  Unowned(new[next].files) = Unowned(new[r].files)
  BY DEF EditOK
<1>4. CASE next \in DOMAIN old
  <2>1. new[next] = old[next]
    BY <1>1, <1>4
  <2>2. next[2] > 1 /\ <<next[1], next[2] - 1>> = r
    BY <1>2
  <2>3. old[next].by = "api"
    BY <1>3, <2>1
  <2>4. r \in DOMAIN old
    <3> HIDE DEF next, old, new
    <3>1. RowOK(next)
      BY <1>4 DEF RowsOK, old
    <3> QED
      BY <2>2, <2>3, <3>1 DEF RowOK, old
  <2>5. new[r] = old[r] /\ EditOK(r)
    BY <1>1, <2>4
  <2> QED
    BY <1>3, <1>4, <2>1, <2>5 DEF EditOK
<1>5. CASE next \notin DOMAIN old
  <2>1. next = ref
    BY <1>1, <1>3, <1>5
  <2>2. id = r[1] /\ version = r[2] + 1
    BY <2>1
  <2>3. version > 1 /\ <<id, version - 1>> = r
    BY <1>2, <2>2
  <2>4. r \in DOMAIN old /\ base = old[r].files
    BY <2>3 DEF Writable
  <2>5. Readable(base)
    BY <2>4 DEF RowsOK, RowOK
  <2>6. in.kind = "expert"
    <3>1. SpecOf(in, base).kind = "expert"
      BY <1>1, <1>3, <2>1
    <3> QED
      BY <3>1 DEF SpecOf, TeamSpec, Writable
  <2>7. files = RenderBundle(in, base) /\ Refers(in) /\ in \in Form
    BY <2>6, WrittenFiles DEF Wrote, Writable, FilesOf
  <2>8. Unowned(files) = Unowned(base)
    BY <2>5, <2>7, RenderKeeps
  <2>9. new[next].files = files /\ new[r].files = base
    BY <1>1, <2>1, <2>4
  <2> QED
    BY <2>8, <2>9
<1> QED
  BY <1>4, <1>5

-----------------------------------------------------------------------------
(* Teams.                                                                  *)

\* Every stored team can be chosen, in each of the three ways.
LEMMA RunnableTeams == RowsOK => TeamsRunnable
<1> SUFFICES ASSUME RowsOK, NEW r \in DOMAIN profiles, profiles[r].by = "api", profiles[r].spec.kind = "team",
                    NEW c \in {<<r, << >>>>, <<<< >>, r>>, <<LeaderExpert(profiles[r].spec), r>>}
             PROVE  ResolveTaskConfig([expert |-> c[1], team |-> c[2], skills |-> << >>, conns |-> << >>])
  BY DEF TeamsRunnable
<1> DEFINE spec == profiles[r].spec
           req == [expert |-> c[1], team |-> c[2], skills |-> << >>, conns |-> << >>]
<1>1. Resolves(r)
  BY DEF RowsOK, RowOK, Resolves
<1>2. r # << >>
  BY DEF RowsOK
<1>3. CheckRefList(req.skills) /\ CheckRefList(req.conns) /\ RefsKnown(req)
  <2>1. MaxRefs \in Nat
    BY BundleAssumption DEF BundleAssumption
  <2>2. req.skills = << >> /\ req.conns = << >>
    OBVIOUS
  <2>3. IsInjective(<< >>) /\ Len(<< >>) = 0
    BY DEF IsInjective
  <2>4. ToSet(<< >>) = {}
    BY DEF ToSet
  <2> HIDE DEF req
  <2> QED
    BY <2>1, <2>2, <2>3, <2>4 DEF CheckRefList, RefsKnown
<1>4. CheckExpert(r)
  BY DEF CheckExpert
<1>5. \/ req.expert = r /\ req.team = << >>
      \/ req.expert = << >> /\ req.team = r
      \/ req.expert = LeaderExpert(spec) /\ req.team = r
  OBVIOUS
<1>6. spec.kind = "team"
  OBVIOUS
<1>7. (IF req.team # << >> THEN req.team ELSE req.expert) = r
  BY <1>2, <1>5
<1> HIDE DEF req, spec
<1>8. ResolveTaskConfig(req)
  BY <1>1, <1>2, <1>3, <1>4, <1>5, <1>6, <1>7 DEF ResolveTaskConfig, spec
<1> QED
  BY <1>8 DEF req

-----------------------------------------------------------------------------
(* Importing an agent.                                                     *)

\* SetToSeq lists a finite set, each element once.
Lists(s, S) == s \in Seq(S) /\ IsInjective(s) /\ (S = {} => s = << >>)

\* SetToSeq lists a finite set.
LEMMA SetListed ==
  ASSUME NEW S, IsFiniteSet(S)
  PROVE  Lists(SetToSeq(S), S)
<1> DEFINE n == Cardinality(S)
<1>1. n \in Nat /\ ExistsBijection(1 .. n, S)
  BY FS_CardinalityType
<1>2. PICK f : f \in Bijection(1 .. n, S)
  BY <1>1 DEF ExistsBijection
<1>3. f \in [1 .. n -> S] /\ IsInjective(f)
  BY <1>2 DEF Bijection, Injection, Surjection, IsInjective
<1>4. SetToSeq(S) \in [1 .. n -> S] /\ IsInjective(SetToSeq(S))
  BY <1>3 DEF SetToSeq
<1> HIDE DEF n
<1>5. SetToSeq(S) \in Seq(S)
  BY <1>1, <1>4
<1>6. ASSUME S = {} PROVE SetToSeq(S) = << >>
  <2>1. Len(SetToSeq(S)) = 0
    <3>1. ~(1 \in 1 .. n)
      BY <1>4, <1>6
    <3>2. n = 0
      BY <1>1, <3>1
    <3> QED
      BY <1>4, <1>5, <3>2
  <2> QED
    BY <1>5, <2>1, EmptySeq
<1> QED
  BY <1>4, <1>5, <1>6 DEF Lists

\* The connectors an agent asks for by name.
LEMMA Matched ==
  ASSUME NEW names, IsFiniteSet(names)
  PROVE  MatchConnectors(names) \in Seq(DOMAIN Connectors) /\ IsInjective(MatchConnectors(names))
<1> DEFINE have == names \cap {Connectors[c].name : c \in DOMAIN Connectors}
           first(n) == CHOOSE c \in DOMAIN Connectors : Connectors[c].name = n
           T == {first(n) : n \in have}
           f == [n \in have |-> first(n)]
<1>1. IsFiniteSet(have)
  BY FS_Intersection
<1>2. T \subseteq DOMAIN Connectors
  OBVIOUS
<1> HIDE DEF have, first
<1>3. f \in Surjection(have, T)
  BY DEF Surjection
<1>4. IsFiniteSet(T)
  BY <1>1, <1>3, FS_Surjection
<1>5. MatchConnectors(names) = SetToSeq(T)
  BY DEF MatchConnectors, have, first
<1> HIDE DEF T
<1>6. Lists(SetToSeq(T), T)
  BY <1>4, SetListed
<1>7. SetToSeq(T) \in Seq(DOMAIN Connectors)
  BY <1>2, <1>6 DEF Lists
<1> QED
  BY <1>5, <1>6, <1>7 DEF Lists

\* What importMCP has at each point: no credential, no connector twice, and no more
\* of them than an expert may have, unless so many were asked for.
Imports(wanted) ==
  {acc \in [mcp : Seq(Server), ids : Seq(DOMAIN Connectors)] :
     /\ \A i \in DOMAIN acc.mcp : ~HasSecret(acc.mcp[i])
     /\ IsInjective(acc.ids)
     /\ Len(acc.ids) <= MaxRefs \/ Len(acc.ids) <= Len(wanted)}

\* One element more, which is new.
LEMMA InjectiveAppend ==
  ASSUME NEW S, NEW s \in Seq(S), IsInjective(s), NEW x \in S, x \notin ToSet(s)
  PROVE  IsInjective(Append(s, x))
<1> DEFINE t == Append(s, x)
           n == Len(s)
<1>1. n \in Nat /\ DOMAIN s = 1 .. n /\ DOMAIN t = 1 .. n + 1
  OBVIOUS
<1>2. t[n + 1] = x /\ \A i \in 1 .. n : t[i] = s[i]
  OBVIOUS
<1>3. \A i \in 1 .. n : s[i] # x
  BY ElementsOf
<1> HIDE DEF t, n
<1>4. \A i \in 1 .. n + 1 : i \in 1 .. n \/ i = n + 1
  BY <1>1
<1>5. \A i, j \in 1 .. n + 1 : t[i] = t[j] => i = j
  BY <1>1, <1>2, <1>3, <1>4 DEF IsInjective
<1> QED
  BY <1>1, <1>5 DEF IsInjective, t

\* Each server of the agent leaves it so.
LEMMA BindType ==
  ASSUME NEW wanted, Len(wanted) \in Nat, NEW acc \in Imports(wanted), NEW server \in Server
  PROVE  Bind(acc, server) \in Imports(wanted)
<1> DEFINE s == Scrub([server EXCEPT !.conn = NoConn])
           m == Matches(s, ToSet(acc.ids))
           c == CHOOSE c \in m : TRUE
           bound == [s EXCEPT !.conn = c]
<1>0. NoConn \in Names /\ DOMAIN Connectors \subseteq Names /\ MaxRefs \in Nat
  BY BundleAssumption DEF BundleAssumption
<1>1. s \in Server /\ ~HasSecret(s)
  <2> DEFINE v == [server EXCEPT !.conn = NoConn]
  <2>1. v \in Server
    BY <1>0 DEF Server
  <2> HIDE DEF v
  <2>2. Scrub(v) \in Server /\ Scrub(v).secret = FALSE
    BY <1>0, <2>1 DEF Server, Scrub
  <2> QED
    BY <2>2 DEF HasSecret, v
<1>2. /\ acc.mcp \in Seq(Server) /\ acc.ids \in Seq(DOMAIN Connectors)
      /\ acc \in [mcp : Seq(Server), ids : Seq(DOMAIN Connectors)]
      /\ \A i \in DOMAIN acc.mcp : ~HasSecret(acc.mcp[i])
      /\ IsInjective(acc.ids)
      /\ Len(acc.ids) <= MaxRefs \/ Len(acc.ids) <= Len(wanted)
  BY DEF Imports
<1>3. ASSUME m # {}
      PROVE  c \in DOMAIN Connectors /\ (c \in ToSet(acc.ids) \/ Cardinality(ToSet(acc.ids)) < MaxRefs)
  BY <1>3 DEF Matches
<1>4. Cardinality(ToSet(acc.ids)) = Len(acc.ids)
  BY <1>2, FiniteElements
<1>5. ASSUME NEW x \in Server, ~HasSecret(x)
      PROVE  /\ Append(acc.mcp, x) \in Seq(Server)
             /\ \A i \in DOMAIN Append(acc.mcp, x) : ~HasSecret(Append(acc.mcp, x)[i])
  <2> DEFINE t == Append(acc.mcp, x)
             n == Len(acc.mcp)
  <2>1. t \in Seq(Server)
    BY <1>2, <1>5, ElementsAppend
  <2>2. n \in Nat /\ DOMAIN acc.mcp = 1 .. n /\ DOMAIN t = 1 .. n + 1
    BY <1>2
  <2>3. t[n + 1] = x /\ \A i \in 1 .. n : t[i] = acc.mcp[i]
    BY <1>2
  <2> HIDE DEF t, n
  <2>4. \A i \in 1 .. n + 1 : i \in 1 .. n \/ i = n + 1
    BY <2>2
  <2>5. \A i \in DOMAIN t : ~HasSecret(t[i])
    BY <1>2, <1>5, <2>2, <2>3, <2>4
  <2> QED
    BY <2>1, <2>5 DEF t
<1>6. m # {} => bound \in Server /\ ~HasSecret(bound)
  BY <1>0, <1>1, <1>3 DEF Server, HasSecret
<1>7. Bind(acc, server) =
        IF ~s.url /\ ~s.command THEN acc
        ELSE IF m = {} THEN [acc EXCEPT !.mcp = Append(@, s)]
        ELSE [mcp |-> Append(acc.mcp, bound),
              ids |-> IF c \in ToSet(acc.ids) THEN acc.ids ELSE Append(acc.ids, c)]
  BY DEF Bind
<1> HIDE DEF s, m, c, bound
<1>8. CASE ~s.url /\ ~s.command
  BY <1>7, <1>8
<1>9. CASE ~(~s.url /\ ~s.command) /\ m = {}
  <2> DEFINE b == [acc EXCEPT !.mcp = Append(@, s)]
  <2>1. b.mcp = Append(acc.mcp, s) /\ b.ids = acc.ids
    BY <1>2
  <2>2. b \in [mcp : Seq(Server), ids : Seq(DOMAIN Connectors)]
    BY <1>1, <1>2, <1>5
  <2> HIDE DEF b
  <2>3. b \in Imports(wanted)
    BY <1>1, <1>2, <1>5, <2>1, <2>2 DEF Imports
  <2> QED
    BY <1>7, <1>9, <2>3 DEF b
<1>10. CASE ~(~s.url /\ ~s.command) /\ m # {}
  <2> DEFINE ids == IF c \in ToSet(acc.ids) THEN acc.ids ELSE Append(acc.ids, c)
             b == [mcp |-> Append(acc.mcp, bound), ids |-> ids]
  <2>1. c \in DOMAIN Connectors /\ (c \notin ToSet(acc.ids) => Len(acc.ids) < MaxRefs)
    BY <1>3, <1>4, <1>10
  <2>2. ids \in Seq(DOMAIN Connectors)
    BY <1>2, <2>1, ElementsAppend
  <2>3. IsInjective(ids)
    BY <1>2, <2>1, InjectiveAppend
  <2>4. Len(ids) <= MaxRefs \/ Len(ids) <= Len(wanted)
    <3>1. CASE c \in ToSet(acc.ids)
      BY <1>2, <3>1
    <3>2. CASE c \notin ToSet(acc.ids)
      <4>1. Len(Append(acc.ids, c)) = Len(acc.ids) + 1 /\ Len(acc.ids) \in Nat
        BY <1>2
      <4> QED
        BY <1>0, <2>1, <3>2, <4>1
    <3> QED
      BY <3>1, <3>2
  <2>5. /\ Append(acc.mcp, bound) \in Seq(Server)
        /\ \A i \in DOMAIN Append(acc.mcp, bound) : ~HasSecret(Append(acc.mcp, bound)[i])
    BY <1>5, <1>6, <1>10
  <2> HIDE DEF ids
  <2>6. b \in Imports(wanted)
    <3>1. b.mcp = Append(acc.mcp, bound) /\ b.ids = ids
      OBVIOUS
    <3>2. b \in [mcp : Seq(Server), ids : Seq(DOMAIN Connectors)]
      BY <2>2, <2>5
    <3> HIDE DEF b
    <3> QED
      BY <2>2, <2>3, <2>4, <2>5, <3>1, <3>2 DEF Imports
  <2> QED
    BY <1>7, <1>10, <2>6 DEF ids
<1> QED
  BY <1>8, <1>9, <1>10

\* The servers of the agent, one by one.
LEMMA Imported1 ==
  ASSUME NEW b \in Files, NEW wanted \in Seq(DOMAIN Connectors), IsInjective(wanted)
  PROVE  /\ ImportMCP(b, wanted) \in Imports(wanted)
         /\ b.mcp = << >> => ImportMCP(b, wanted) = [mcp |-> << >>, ids |-> wanted]
<1> DEFINE servers == IF ServersOK(b.mcp) THEN b.mcp ELSE << >>
           N == Len(servers)
           V == Imports(wanted)
           base == [mcp |-> << >>, ids |-> wanted]
           Bind1(v, n) == Bind(v, servers[n])
           Body(f) == [n \in 0 .. N |-> IF n = 0 THEN base ELSE Bind1(f[n - 1], n)]
           G == [n \in 1 .. N |-> [v \in V |-> Bind1(v, n)]]
           bound == CHOOSE f : f = Body(f)
<1>1. servers \in Seq(Server) /\ N \in Nat /\ Len(wanted) \in Nat
  <2>1. b.mcp \in Seq(Server)
    BY DEF Files
  <2> QED
    BY <2>1
<1>2. base \in V
  <2>1. base \in [mcp : Seq(Server), ids : Seq(DOMAIN Connectors)]
    OBVIOUS
  <2>2. base.mcp = << >> /\ base.ids = wanted
    OBVIOUS
  <2>3. Len(wanted) <= Len(wanted)
    BY <1>1
  <2>4. \A i \in DOMAIN << >> : FALSE
    OBVIOUS
  <2> HIDE DEF base
  <2> QED
    BY <2>1, <2>2, <2>3, <2>4 DEF Imports
<1>3. \A n \in 1 .. N, v \in V : Bind1(v, n) \in V
  <2> TAKE n \in 1 .. N, v \in V
  <2>1. servers[n] \in Server
    BY <1>1
  <2> HIDE DEF servers
  <2> QED
    BY <1>1, <2>1, BindType
<1>4. ImportMCP(b, wanted) = bound[N]
  BY DEF ImportMCP
<1>5. b.mcp = << >> => N = 0
  OBVIOUS
<1> HIDE DEF V, Bind1, base, N
<1>6. G \in [1 .. N -> [V -> V]]
  BY <1>3
<1>7. PICK h \in [0 .. N -> V] : h[0] = base /\ \A n \in 1 .. N : h[n] = G[n][h[n - 1]]
  <2> HIDE DEF G
  <2>1. HasSolution(N, V, base, G)
    BY <1>1, <1>2, <1>6, Iterates
  <2> QED
    BY <2>1 DEF HasSolution
<1>8. \A n \in 1 .. N : h[n] = Bind1(h[n - 1], n)
  <2> TAKE n \in 1 .. N
  <2>1. h[n - 1] \in V
    BY <1>1, <1>7
  <2> QED
    BY <1>7, <2>1
<1>9. h = Body(h)
  <2>1. \A n \in 0 .. N : n = 0 \/ n \in 1 .. N
    BY <1>1
  <2>2. \A n \in 0 .. N : h[n] = Body(h)[n]
    BY <1>1, <1>7, <1>8, <2>1
  <2> QED
    BY <1>7, <2>2
<1>10. bound = Body(bound)
  BY <1>9
<1> HIDE DEF bound
<1>11. bound[0] = base
  BY <1>1, <1>10
<1>12. ASSUME NEW n \in 1 .. N PROVE bound[n] = Bind1(bound[n - 1], n)
  <2>1. n \in 0 .. N /\ n # 0
    BY <1>1
  <2>2. Body(bound)[n] = Bind1(bound[n - 1], n)
    BY <2>1
  <2> QED
    BY <1>10, <2>2
<1> DEFINE Q == {n \in 0 .. N : bound[n] \in V}
<1>13. 0 \in Q
  BY <1>1, <1>2, <1>11
<1>14. \A n \in 0 .. N - 1 : n \in Q => n + 1 \in Q
  <2> TAKE n \in 0 .. N - 1
  <2>1. n + 1 \in 1 .. N /\ (n + 1) - 1 = n /\ n + 1 \in 0 .. N
    BY <1>1
  <2>2. bound[n + 1] = Bind1(bound[n], n + 1)
    BY <1>12, <2>1
  <2>3. n \in Q => Bind1(bound[n], n + 1) \in V
    BY <1>3, <2>1
  <2> QED
    BY <2>1, <2>2, <2>3
<1>15. N \in Q
  <2> HIDE DEF Q
  <2>1. 0 .. N \subseteq Q
    BY <1>1, <1>13, <1>14, SetInduction
  <2> QED
    BY <1>1, <2>1
<1>16. bound[N] \in Imports(wanted)
  BY <1>15 DEF V
<1>17. b.mcp = << >> => ImportMCP(b, wanted) = base
  BY <1>4, <1>5, <1>11
<1> QED
  BY <1>4, <1>16, <1>17 DEF base

\* The soul is cut before the instructions, which keep something.
LEMMA Fitted ==
  ASSUME NEW soul \in Nat, NEW text \in Nat
  PROVE  LET p == FitPrompt(soul, text)
         IN /\ p.soul \in Nat /\ p.text \in Nat /\ p.text + p.soul <= MaxPrompt
            /\ p.soul > 0 => soul > 0
            /\ text > 0 => p.text > 0
<1>1. MaxPrompt \in Nat /\ Reserve \in 1 .. MaxPrompt
  BY BundleAssumption DEF BundleAssumption
<1> DEFINE s == IF soul > MaxPrompt - Reserve THEN MaxPrompt - Reserve ELSE soul
           t == IF text > MaxPrompt - s THEN MaxPrompt - s ELSE text
<1>2. s \in Nat /\ s <= MaxPrompt - Reserve /\ (s > 0 => soul > 0)
  BY <1>1
<1>3. FitPrompt(soul, text).soul = s /\ FitPrompt(soul, text).text = t
  BY DEF FitPrompt
<1> HIDE DEF s
<1>4. t \in Nat /\ t + s <= MaxPrompt /\ (text > 0 => t > 0)
  BY <1>1, <1>2
<1> HIDE DEF t
<1> QED
  BY <1>2, <1>3, <1>4

\* The snapshot is the agent's files, but for some nobody reads.
LEMMA Snapshot ==
  ASSUME NEW b \in Files
  PROVE  LET s == SnapshotBundle(b)
         IN /\ s \in Files
            /\ s.other \subseteq b.other
            /\ s.agents = b.agents /\ s.soul = b.soul /\ s.skills = b.skills /\ s.dirs = b.dirs
            /\ s.mcp = b.mcp
<1> DEFINE other == {f \in {f \in b.other : Storable(f)} :
                       Cardinality({g \in {f2 \in b.other : Storable(f2)} : g.n < f.n})
                         < MaxFiles - FileCount([b EXCEPT !.other = {}])}
<1>1. SnapshotBundle(b) = [b EXCEPT !.other = other]
  BY DEF SnapshotBundle
<1>2. other \subseteq b.other
  OBVIOUS
<1> HIDE DEF other
<1>3. b.other \subseteq [n : Nat, text : BOOLEAN]
  BY DEF Files
<1> QED
  BY <1>1, <1>2, <1>3 DEF Files

\* The new expert's form and the files it is written from.
AgentFacts(a, i) ==
  LET b == SnapshotBundle(a.files)
      wanted == MatchConnectors(a.mcps)
  IN /\ i.form \in Form /\ i.form.kind = "expert" /\ i.form.source = a.id
     /\ i.form.skills = << >> /\ i.form.leader = NoConn /\ i.form.members = << >>
     /\ i.form.text + i.form.soul <= MaxPrompt
     /\ i.form.soul > 0 => b.soul > 0
     /\ i.form.text > 0 \/ (a.prompt = 0 /\ a.files.agents = 0)
     /\ i.form.conns \in Seq(DOMAIN Connectors) /\ IsInjective(i.form.conns)
     /\ Len(i.form.conns) <= MaxRefs \/ Len(i.form.conns) <= Len(wanted)
     /\ b \in Files /\ b.other \subseteq a.files.other /\ b.dirs = a.files.dirs
     /\ i.base \in Files /\ i.base.dirs = b.dirs /\ i.base.other = b.other
     /\ i.base.skills # << >> => b.skills # << >>
     /\ NoSecrets(i.base)
     /\ b.mcp = << >> => i.base.mcp = << >> /\ i.form.conns = wanted

\* ExpertFromAgent makes such a form and such files.
LEMMA AgentForm ==
  ASSUME NEW a \in Agents
  PROVE  AgentFacts(a, FromAgent(a))
<1> DEFINE b == SnapshotBundle(a.files)
           wanted == MatchConnectors(a.mcps)
           text == IF b.agents > 0 THEN b.agents ELSE AgentInstructions(a)
           p == FitPrompt(b.soul, text)
           m == ImportMCP(b, wanted)
           form == [kind |-> "expert", text |-> p.text, soul |-> p.soul,
                    desc |-> a.desc, skills |-> << >>, conns |-> m.ids,
                    source |-> a.id, leader |-> NoConn, members |-> << >>]
           base == [b EXCEPT !.agents = 0, !.soul = 0, !.json = FALSE,
                             !.mcp = m.mcp, !.skills = ImportSkills(b)]
<1>1. /\ a.files \in Files /\ a.prompt \in Nat /\ a.desc \in Nat /\ IsFiniteSet(a.mcps)
      /\ a.id \in Names
  BY ExpertsAssumption DEF ExpertsAssumption
<1>2. /\ MaxPrompt \in Nat /\ Reserve \in 1 .. MaxPrompt /\ NoConn \in Names
      /\ DOMAIN Connectors \subseteq Names
  BY BundleAssumption DEF BundleAssumption
<1>3. /\ b \in Files /\ b.other \subseteq a.files.other /\ b.dirs = a.files.dirs
      /\ b.agents = a.files.agents
  BY <1>1, Snapshot
<1>4. FromAgent(a) = [form |-> form, base |-> base]
  BY DEF FromAgent
<1> HIDE DEF b
<1>5. /\ b.agents \in Nat /\ b.soul \in Nat /\ b.skills \in Seq(Entry)
  BY <1>3 DEF Files
<1>6. text \in Nat /\ (text > 0 \/ (a.prompt = 0 /\ a.files.agents = 0))
  BY <1>1, <1>2, <1>3, <1>5 DEF AgentInstructions
<1> HIDE DEF text
<1>7. /\ p.soul \in Nat /\ p.text \in Nat /\ p.text + p.soul <= MaxPrompt
      /\ p.soul > 0 => b.soul > 0
      /\ text > 0 => p.text > 0
  BY <1>5, <1>6, Fitted
<1>8. wanted \in Seq(DOMAIN Connectors) /\ IsInjective(wanted)
  BY <1>1, Matched
<1> HIDE DEF wanted
<1>9. /\ m \in Imports(wanted)
      /\ b.mcp = << >> => m = [mcp |-> << >>, ids |-> wanted]
  BY <1>3, <1>8, Imported1
<1> HIDE DEF m, p
<1>10. /\ m.mcp \in Seq(Server) /\ m.ids \in Seq(DOMAIN Connectors)
       /\ \A i \in DOMAIN m.mcp : ~HasSecret(m.mcp[i])
       /\ IsInjective(m.ids)
       /\ Len(m.ids) <= MaxRefs \/ Len(m.ids) <= Len(wanted)
       /\ b.mcp = << >> => m.mcp = << >> /\ m.ids = wanted
  BY <1>9 DEF Imports
<1>11. ImportSkills(b) \in Seq(Entry) /\ (ImportSkills(b) # << >> => b.skills # << >>)
  <2>1. ImportSkills(b) = b.skills \/ ImportSkills(b) = << >>
    BY DEF ImportSkills
  <2>2. << >> \in Seq(Entry)
    OBVIOUS
  <2> QED
    BY <1>5, <2>1, <2>2
<1>12. form \in Form
  <2>1. m.ids \in Seq(Names)
    BY <1>2, <1>10
  <2>2. << >> \in Seq(Names) /\ << >> \in Seq([role : Names, expert : Nat \X Nat])
    OBVIOUS
  <2> QED
    BY <1>1, <1>2, <1>7, <2>1, <2>2 DEF Form
<1>13. base \in Files
  BY <1>3, <1>10, <1>11 DEF Files
<1>14. /\ base.mcp = m.mcp /\ base.skills = ImportSkills(b) /\ base.dirs = b.dirs /\ base.other = b.other
  BY <1>3 DEF Files
<1>15. /\ form.kind = "expert" /\ form.source = a.id /\ form.skills = << >> /\ form.leader = NoConn
       /\ form.members = << >> /\ form.text = p.text /\ form.soul = p.soul /\ form.conns = m.ids
  OBVIOUS
<1> HIDE DEF form, base
<1>16. NoSecrets(base)
  BY <1>10, <1>14 DEF NoSecrets
<1>17. FromAgent(a).form = form /\ FromAgent(a).base = base
  BY <1>4
<1>18. b = SnapshotBundle(a.files) /\ wanted = MatchConnectors(a.mcps)
  BY DEF b, wanted
<1> QED
  BY <1>3, <1>6, <1>7, <1>10, <1>11, <1>12, <1>13, <1>14, <1>15, <1>16, <1>17, <1>18 DEF AgentFacts

\* How many files the new expert has: those of the snapshot, and one more for each
\* file of the form the snapshot may not have.
LEMMA AgentFiles ==
  ASSUME NEW a \in Agents
  PROVE  LET i == FromAgent(a)
             n == FileCount(SnapshotBundle(a.files))
                    + (IF MatchConnectors(a.mcps) = << >> THEN 2 ELSE 3)
         IN /\ n \in Nat /\ FileCount(RenderBundle(i.form, i.base)) \in Nat
            /\ FileCount(RenderBundle(i.form, i.base)) <= n
<1> DEFINE i == FromAgent(a)
           in == i.form
           base == i.base
           b == SnapshotBundle(a.files)
           r == RenderBundle(in, base)
           wanted == MatchConnectors(a.mcps)
           more == IF wanted = << >> THEN {"agents", "json"} ELSE {"agents", "json", "mcp"}
           k == IF wanted = << >> THEN 2 ELSE 3
           had == FormFiles(b)
           has == FormFiles(r)
<1>1. AgentFacts(a, i)
  BY AgentForm
<1>2. IsFiniteSet(a.files.dirs) /\ IsFiniteSet(a.files.other)
  BY ExpertsAssumption DEF ExpertsAssumption
<1>3. IsFiniteSet(b.dirs) /\ IsFiniteSet(b.other)
  BY <1>1, <1>2, FS_Subset DEF AgentFacts
<1>4. Cardinality(b.dirs) \in Nat /\ Cardinality(b.other) \in Nat
  BY <1>3, FS_CardinalityType
<1>5. Refers(in) /\ in \in Form /\ base \in Files
  <2>1. in \in Form /\ base \in Files /\ in.skills = << >> /\ in.conns \in Seq(DOMAIN Connectors)
    BY <1>1 DEF AgentFacts
  <2> HIDE DEF in, base
  <2> QED
    BY <2>1, ElementsOf DEF Refers
<1>6. RenderedFields(in, base, r)
  BY <1>5, RenderFields
<1>7. ServersSay(in, base, r.mcp)
  BY <1>5, <1>6, ServersRendered DEF RenderedFields, Refers
<1>8. r.skills # << >> => base.skills # << >>
  <2> DEFINE kept == KeptSkills(in, base)
             new == NewSkills(in, base)
  <2>1. SkillAt(in, base, r.skills, Len(kept), Len(new))
    BY <1>5, <1>6, SkillPlaces DEF RenderedFields, Refers
  <2>2. in.skills = << >>
    BY <1>1 DEF AgentFacts
  <2>3. new = << >>
    BY <2>2, KeepEmpty DEF NewSkills
  <2>4. base.skills = << >> => kept = << >>
    <3>1. base.skills = << >> => PrevSkills(base) = << >>
      BY DEF PrevSkills
    <3> QED
      BY <3>1, KeepEmpty DEF KeptSkills
  <2> HIDE DEF kept, new
  <2>5. Len(r.skills) = Len(kept) + Len(new) /\ r.skills \in Seq(Entry)
    BY <2>1 DEF SkillAt
  <2>6. base.skills = << >> => Len(r.skills) = 0
    BY <2>3, <2>4, <2>5
  <2> QED
    BY <2>5, <2>6, EmptySeq
<1>9. had \subseteq {"agents", "soul", "skills", "mcp", "json"}
  BY DEF FormFiles
<1>10. has \subseteq had \cup more
  <2> HIDE DEF b, r, in, base, wanted
  <2>1. /\ r.soul = in.soul /\ (in.soul > 0 => b.soul > 0)
        /\ base.skills # << >> => b.skills # << >>
        /\ b.mcp = << >> => base.mcp = << >> /\ in.conns = wanted
    BY <1>1, <1>6 DEF AgentFacts, RenderedFields, b, in, base, wanted
  <2>2. r.mcp # << >> => b.mcp # << >> \/ wanted # << >>
    BY <1>7, <2>1 DEF ServersSay
  <2> QED
    BY <1>8, <2>1, <2>2 DEF FormFiles
<1> DEFINE all == {"agents", "soul", "skills", "mcp", "json"}
<1>11. IsFiniteSet(all)
  <2>1. IsFiniteSet({}) /\ \A S, x : IsFiniteSet(S) => IsFiniteSet(S \cup {x})
    BY FS_EmptySet, FS_AddElement
  <2>2. all = ((((({} \cup {"agents"}) \cup {"soul"}) \cup {"skills"}) \cup {"mcp"}) \cup {"json"})
    OBVIOUS
  <2> HIDE DEF all
  <2> QED
    BY <2>1, <2>2
<1>12. IsFiniteSet(had) /\ Cardinality(had) \in Nat
  BY <1>9, <1>11, FS_Subset, FS_CardinalityType
<1> HIDE DEF had, has, all
<1>13. \A S, x : IsFiniteSet(S) /\ Cardinality(S) \in Nat =>
         /\ IsFiniteSet(S \cup {x}) /\ Cardinality(S \cup {x}) \in Nat
         /\ Cardinality(S \cup {x}) <= Cardinality(S) + 1
  <2> SUFFICES ASSUME NEW S, NEW x, IsFiniteSet(S), Cardinality(S) \in Nat
               PROVE  /\ IsFiniteSet(S \cup {x}) /\ Cardinality(S \cup {x}) \in Nat
                      /\ Cardinality(S \cup {x}) <= Cardinality(S) + 1
    OBVIOUS
  <2>1. /\ IsFiniteSet(S \cup {x})
        /\ Cardinality(S \cup {x}) = IF x \in S THEN Cardinality(S) ELSE Cardinality(S) + 1
    BY FS_AddElement
  <2> QED
    BY <2>1
<1>14. /\ IsFiniteSet(had \cup more) /\ Cardinality(had \cup more) \in Nat
       /\ Cardinality(had \cup more) <= Cardinality(had) + k
  <2> DEFINE one == had \cup {"agents"}
             two == one \cup {"json"}
             three == two \cup {"mcp"}
  <2>1. IsFiniteSet(one) /\ Cardinality(one) \in Nat /\ Cardinality(one) <= Cardinality(had) + 1
    BY <1>12, <1>13
  <2> HIDE DEF one
  <2>2. IsFiniteSet(two) /\ Cardinality(two) \in Nat /\ Cardinality(two) <= Cardinality(had) + 2
    <3>1. IsFiniteSet(two) /\ Cardinality(two) \in Nat /\ Cardinality(two) <= Cardinality(one) + 1
      BY <1>13, <2>1
    <3> HIDE DEF two
    <3> QED
      BY <1>12, <2>1, <3>1
  <2> HIDE DEF two
  <2>3. IsFiniteSet(three) /\ Cardinality(three) \in Nat /\ Cardinality(three) <= Cardinality(had) + 3
    <3>1. IsFiniteSet(three) /\ Cardinality(three) \in Nat /\ Cardinality(three) <= Cardinality(two) + 1
      BY <1>13, <2>2
    <3> HIDE DEF three
    <3> QED
      BY <1>12, <2>2, <3>1
  <2>4. CASE wanted = << >>
    <3>1. had \cup more = two /\ k = 2
      BY <2>4 DEF one, two
    <3> QED
      BY <2>2, <3>1
  <2>5. CASE wanted # << >>
    <3>1. had \cup more = three /\ k = 3
      BY <2>5 DEF one, two
    <3> QED
      BY <2>3, <3>1
  <2> QED
    BY <2>4, <2>5
<1> HIDE DEF more
<1>15. Cardinality(has) \in Nat /\ Cardinality(has) <= Cardinality(had) + k
  <2>1. IsFiniteSet(has) /\ Cardinality(has) \in Nat /\ Cardinality(has) <= Cardinality(had \cup more)
    BY <1>10, <1>14, FS_Subset, FS_CardinalityType
  <2>2. k \in Nat
    OBVIOUS
  <2> HIDE DEF k
  <2> QED
    BY <1>12, <1>14, <2>1, <2>2
<1>16. r.dirs = b.dirs /\ r.other = b.other
  BY <1>1, <1>6 DEF AgentFacts, RenderedFields
<1>17. /\ FileCount(b) = Cardinality(b.dirs) + Cardinality(b.other) + Cardinality(had)
       /\ FileCount(r) = Cardinality(r.dirs) + Cardinality(r.other) + Cardinality(has)
  BY DEF FileCount, had, has
<1> HIDE DEF r, b, wanted
<1>18. k \in Nat
  OBVIOUS
<1> HIDE DEF k
<1>19. FileCount(b) + k \in Nat /\ FileCount(r) \in Nat /\ FileCount(r) <= FileCount(b) + k
  BY <1>4, <1>12, <1>15, <1>16, <1>17, <1>18
<1> QED
  BY <1>19 DEF k, r, b, wanted

RefusedOK(x) ==
  LET named == MatchConnectors(x.agent.mcps)
  IN \/ x.agent.prompt = 0 /\ x.agent.files.agents = 0
     \/ x.why = "invalid" /\ Len(named) > MaxRefs
     \/ x.why = "MCP_LITERAL_SECRET" /\ \E c \in DOMAIN Connectors : Connectors[c].secret
     \/ /\ x.why = "BUNDLE_TOO_MANY_FILES"
        /\ FileCount(SnapshotBundle(x.agent.files)) + (IF named = << >> THEN 2 ELSE 3) > MaxFiles

\* What an agent is refused for.
LEMMA AgentRefused ==
  ASSUME NEW id, NEW a \in Agents,
         WriteProblem(id, FromAgent(a).form, FromAgent(a).base) # "ok"
  PROVE  RefusedOK([agent |-> a, why |-> WriteProblem(id, FromAgent(a).form, FromAgent(a).base)])
<1> DEFINE in == FromAgent(a).form
           base == FromAgent(a).base
           why == WriteProblem(id, in, base)
           b == RenderBundle(in, base)
           named == MatchConnectors(a.mcps)
           n == FileCount(SnapshotBundle(a.files)) + (IF named = << >> THEN 2 ELSE 3)
<1>1. /\ in \in Form /\ in.kind = "expert"
      /\ in.skills = << >> /\ in.leader = NoConn /\ in.members = << >>
      /\ in.text + in.soul <= MaxPrompt
      /\ in.text > 0 \/ (a.prompt = 0 /\ a.files.agents = 0)
      /\ in.conns \in Seq(DOMAIN Connectors) /\ IsInjective(in.conns)
      /\ Len(in.conns) <= MaxRefs \/ Len(in.conns) <= Len(named)
      /\ base \in Files /\ NoSecrets(base)
  BY AgentForm DEF AgentFacts
<1>2. n \in Nat /\ FileCount(b) \in Nat /\ FileCount(b) <= n
  BY AgentFiles
<1>3. named \in Seq(DOMAIN Connectors)
  <2>1. IsFiniteSet(a.mcps)
    BY ExpertsAssumption DEF ExpertsAssumption
  <2> QED
    BY <2>1, Matched
<1>4. MaxRefs \in Nat /\ MaxFiles \in Nat
  BY BundleAssumption DEF BundleAssumption
<1> HIDE DEF in, base, named, n, b
<1>5. ToSet(in.conns) \subseteq DOMAIN Connectors /\ ToSet(in.skills) = {}
  BY <1>1, ElementsOf
<1>6. RefsKnown(in) /\ Refers(in)
  BY <1>5 DEF RefsKnown, Refers
<1>7. CheckRefList(in.skills)
  <2>1. IsInjective(<< >>) /\ Len(<< >>) = 0
    BY DEF IsInjective
  <2> QED
    BY <1>1, <1>4, <2>1 DEF CheckRefList
<1>8. CASE ~(in.text > 0)
  <2>1. a.prompt = 0 /\ a.files.agents = 0
    BY <1>1, <1>8
  <2> QED
    BY <2>1 DEF RefusedOK
<1>9. CASE in.text > 0 /\ ~(Len(in.conns) <= MaxRefs)
  <2>1. ~ValidExpert(in)
    BY <1>9 DEF ValidExpert, CheckRefList
  <2>2. why = "invalid"
    BY <1>1, <2>1 DEF WriteProblem
  <2>3. Len(named) > MaxRefs
    <3>1. Len(in.conns) \in Nat /\ Len(named) \in Nat
      BY <1>1, <1>3
    <3> QED
      BY <1>1, <1>4, <1>9, <3>1
  <2> QED
    BY <2>2, <2>3 DEF RefusedOK, in, base, named
<1>10. CASE in.text > 0 /\ Len(in.conns) <= MaxRefs
  <2>1. ValidExpert(in)
    BY <1>1, <1>7, <1>10 DEF ValidExpert, CheckRefList
  <2>2. why = Problem(b)
    BY <1>1, <1>6, <2>1 DEF WriteProblem, b
  <2>3. why # "ok"
    BY DEF in, base
  <2>4. IsInjective(in.skills)
    BY <1>7 DEF CheckRefList
  <2>5. ~SkillsClash(in, base)
    <3> DEFINE kept == KeptSkills(in, base)
               new == NewSkills(in, base)
               s == RenderSkills(in, base)
    <3>1. SkillAt(in, base, s, Len(kept), Len(new))
      BY <1>1, <1>6, SkillPlaces DEF Refers
    <3>2. new = << >>
      BY <1>1, KeepEmpty DEF NewSkills
    <3>3. kept \in Seq(Entry) /\ SkillsOK(kept) /\ \A i \in 1 .. Len(kept) : kept[i].id = NoConn
      <4>1. /\ kept \in Seq(Entry) /\ SkillsOK(kept)
            /\ \A i \in 1 .. Len(kept) :
                 IF kept[i].id = NoConn THEN kept[i].name \in base.dirs ELSE kept[i].id \in ToSet(in.skills)
        BY <1>1, KeptSkillsFacts
      <4> HIDE DEF kept
      <4> QED
        BY <1>5, <4>1
    <3> HIDE DEF kept, new, s
    <3>4. /\ s \in Seq(Entry) /\ Len(s) = Len(kept) + Len(new)
          /\ \A i \in 1 .. Len(kept) : kept[i].id = NoConn => s[i] = kept[i]
      BY <3>1 DEF SkillAt, kept, new
    <3>5. DOMAIN s = DOMAIN kept /\ \A i \in DOMAIN s : s[i] = kept[i]
      BY <3>2, <3>3, <3>4
    <3> DEFINE names == Project(s, LAMBDA e : e.name)
    <3>6. DOMAIN names = DOMAIN s /\ \A i \in DOMAIN s : names[i] = s[i].name
      BY DEF Project
    <3> HIDE DEF names
    <3>7. IsInjective(names)
      BY <3>3, <3>5, <3>6 DEF SkillsOK, IsInjective
    <3> QED
      BY <3>7 DEF SkillsClash, names, s
  <2>6. Sound(b)
    BY <1>1, <1>6, <2>4, <2>5, RenderSound DEF b
  <2>7. (\A c \in ToSet(in.conns) : ~Connectors[c].secret) => NoSecrets(b)
    BY <1>1, <1>6, <2>4, <2>5, RenderSound DEF b
  <2>8. b.agents # 0
    <3>1. b.agents = in.text
      BY <1>1, <1>6, RenderFields DEF RenderedFields, b
    <3>2. in.text \in Nat
      BY <1>1 DEF Form
    <3> QED
      BY <1>10, <3>1, <3>2
  <2>9. CASE FileCount(b) > MaxFiles
    <3>1. why = "BUNDLE_TOO_MANY_FILES"
      BY <2>2, <2>9 DEF Problem
    <3>2. n > MaxFiles
      BY <1>2, <1>4, <2>9
    <3> QED
      BY <3>1, <3>2 DEF RefusedOK, in, base, named, n
  <2>10. CASE ~(FileCount(b) > MaxFiles)
    <3>1. ~NoSecrets(b) /\ why = "MCP_LITERAL_SECRET"
      BY <2>2, <2>3, <2>6, <2>8, <2>10 DEF Problem, Sound, NoSecrets
    <3>2. \E c \in DOMAIN Connectors : Connectors[c].secret
      BY <1>5, <2>7, <3>1
    <3> QED
      BY <3>1, <3>2 DEF RefusedOK, in, base
  <2> QED
    BY <2>9, <2>10
<1> QED
  BY <1>8, <1>9, <1>10

-----------------------------------------------------------------------------
(* The inductive invariant.                                                *)

StoredInv ==
  /\ RowsOK
  /\ \A a \in answers : AnswerOK(a)
  /\ \A r \in DOMAIN profiles : EditOK(r)

\* Nothing that is stored is changed.
Grows ==
  /\ lastId' \in Nat /\ lastId <= lastId'
  /\ DOMAIN profiles \subseteq DOMAIN profiles'
  /\ \A r \in DOMAIN profiles : profiles'[r] = profiles[r]

\* A step that writes nothing.
LEMMA NoWriteStep ==
  ASSUME StoredInv, UNCHANGED <<profiles, answers>>, lastId' \in Nat, lastId <= lastId'
  PROVE  StoredInv' /\ Grows
<1>1. Grows
  BY DEF Grows
<1>2. RowsOK'
  <2>1. \A r \in DOMAIN profiles : RowOK(r)'
    BY RowStays DEF StoredInv, RowsOK
  <2>2. DOMAIN profiles \subseteq (1 .. lastId') \X (1 .. MaxVersion)
    BY DEF StoredInv, RowsOK
  <2> QED
    BY <2>1, <2>2 DEF RowsOK
<1>3. \A a \in answers' : AnswerOK(a)'
  BY AnswerStays DEF StoredInv, AnswerOK
<1>4. \A r \in DOMAIN profiles' : EditOK(r)'
  BY DEF StoredInv, EditOK
<1> QED
  BY <1>1, <1>2, <1>3, <1>4 DEF StoredInv

\* A step that writes a form.
LEMMA WriteStep ==
  ASSUME StoredInv, NEW id, NEW version, NEW in, NEW base, Writable(id, version, in, base),
         WriteExpert(id, version, in, base), lastId' \in Nat, lastId <= lastId', id <= lastId'
  PROVE  StoredInv' /\ Grows
<1>1. UNCHANGED <<profiles, answers>> \/ Wrote(id, version, in, base)
  BY WriteCases DEF StoredInv
<1>2. CASE UNCHANGED <<profiles, answers>>
  BY <1>2, NoWriteStep
<1>3. CASE Wrote(id, version, in, base)
  <2>1. Grows
    BY <1>3 DEF Wrote, Stores, Grows
  <2>2. RowsOK'
    BY <1>3, RowsWritten DEF StoredInv
  <2>3. \A a \in answers' : AnswerOK(a)'
    <3>1. \A a \in answers : AnswerOK(a)'
      BY <2>1, AnswerStays DEF StoredInv, AnswerOK, Grows
    <3>2. AnswerOK([ref |-> <<id, version>>, form |-> in])'
      BY <1>3, AnswerWritten
    <3> QED
      BY <1>3, <3>1, <3>2 DEF Wrote
  <2>4. \A r \in DOMAIN profiles' : EditOK(r)'
    BY <1>3, EditWritten DEF StoredInv
  <2> QED
    BY <2>1, <2>2, <2>3, <2>4 DEF StoredInv
<1> QED
  BY <1>1, <1>2, <1>3

\* A profile registered by hand has no files and says so.
LEMMA HandStep ==
  ASSUME StoredInv, NEW id \in 1 .. lastId, NEW v \in 1 .. MaxVersion, NEW s \in HandSpecs,
         RegisterProfile(<<id, v>>, s)
  PROVE  StoredInv' /\ Grows
<1> DEFINE ref == <<id, v>>
<1>1. UNCHANGED <<lastId, answers>> /\ Accepts(ref, s) /\ Register(ref, s, NoFiles, "hand")
  BY DEF RegisterProfile
<1>2. s.sha = NoFiles
  BY ExpertsAssumption DEF ExpertsAssumption
<1>3. Stores(ref, s, NoFiles, "hand")
  BY <1>1, <1>2, RegisterKeeps DEF StoredInv
<1>4. /\ DOMAIN profiles' = DOMAIN profiles \cup {ref}
      /\ \A r \in DOMAIN profiles : profiles'[r] = profiles[r]
      /\ ref \notin DOMAIN profiles => profiles'[ref] = [spec |-> s, files |-> NoFiles, by |-> "hand"]
  BY <1>3 DEF Stores
<1>5. RowsOK
  BY DEF StoredInv
<1>6. Grows
  BY <1>1, <1>4, <1>5 DEF Grows, RowsOK
<1>7. RowsOK'
  <2>1. DOMAIN profiles' \subseteq (1 .. lastId') \X (1 .. MaxVersion)
    BY <1>1, <1>4, <1>5 DEF RowsOK
  <2>2. \A r \in DOMAIN profiles : RowOK(r)'
    BY <1>4, <1>5, RowStays DEF RowsOK
  <2>3. ref \notin DOMAIN profiles => RowOK(ref)'
    BY <1>2, <1>4, NoFilesReadable DEF RowOK
  <2> HIDE DEF ref
  <2> QED
    BY <1>1, <1>4, <1>5, <2>1, <2>2, <2>3 DEF RowsOK
<1>8. \A a \in answers' : AnswerOK(a)'
  BY <1>1, <1>6, AnswerStays DEF StoredInv, AnswerOK, Grows
<1>9. ASSUME NEW r \in DOMAIN profiles' PROVE EditOK(r)'
  <2> DEFINE next == <<r[1], r[2] + 1>>
  <2>1. SUFFICES ASSUME next \in DOMAIN profiles', profiles'[next].by = "api",
                        profiles'[next].spec.kind = "expert"
                 PROVE  Unowned(profiles'[next].files) = Unowned(profiles'[r].files)
    BY DEF EditOK
  <2>2. r = <<r[1], r[2]>> /\ r[1] \in Nat /\ r[2] \in Nat \ {0}
    BY <1>4, <1>5 DEF RowsOK
  <2>3. next[2] > 1 /\ <<next[1], next[2] - 1>> = r
    BY <2>2
  <2>4. next \in DOMAIN profiles
    BY <1>4, <2>1
  <2>5. profiles'[next] = profiles[next]
    BY <1>4, <2>4
  <2>6. r \in DOMAIN profiles
    <3> HIDE DEF next
    <3>1. RowOK(next)
      BY <1>5, <2>4 DEF RowsOK
    <3> QED
      BY <2>1, <2>3, <2>5, <3>1 DEF RowOK
  <2>7. profiles'[r] = profiles[r] /\ EditOK(r)
    BY <1>4, <2>6 DEF StoredInv
  <2> QED
    BY <2>1, <2>4, <2>5, <2>7 DEF EditOK
<1> QED
  BY <1>6, <1>7, <1>8, <1>9 DEF StoredInv

\* A caller in the middle of a call: the version it read is still there.
CallFits(k, rows, last) ==
  \/ k = Idle
  \/ /\ k.op = "update"
     /\ k.id \in 1 .. last /\ k.version \in 2 .. MaxVersion
     /\ <<k.id, k.version - 1>> \in rows
     /\ k.form \in Form /\ k.form.kind \in {"expert", "team"} /\ k.form.source = NoConn
  \/ k \in [op : {"import"}, todo : Seq(DOMAIN Personas)]

CallOK(k) == CallFits(k, DOMAIN profiles, lastId)

\* What holds of a caller goes on to hold.
LEMMA CallStays ==
  ASSUME NEW k, CallOK(k), Grows, lastId \in Nat
  PROVE  CallFits(k, DOMAIN profiles', lastId')
BY DEF CallOK, CallFits, Grows

CallsOK == calls \in [Callers -> {calls[c] : c \in Callers}] /\ \A c \in Callers : CallOK(calls[c])

\* Callers who do nothing.
LEMMA CallsStay ==
  ASSUME CallsOK, Grows, lastId \in Nat, UNCHANGED calls
  PROVE  CallsOK'
BY CallStays DEF CallsOK, CallOK

\* One caller goes on.
LEMMA CallChanged ==
  ASSUME CallsOK, Grows, lastId \in Nat, NEW c \in Callers, NEW k,
         CallFits(k, DOMAIN profiles', lastId'),
         calls' = [calls EXCEPT ![c] = k]
  PROVE  CallsOK'
<1>1. calls' \in [Callers -> {calls'[d] : d \in Callers}]
  BY DEF CallsOK
<1>2. \A d \in Callers : calls'[d] = IF d = c THEN k ELSE calls[d]
  BY DEF CallsOK
<1>3. \A d \in Callers : CallFits(calls[d], DOMAIN profiles', lastId')
  BY CallStays DEF CallsOK
<1> QED
  BY <1>1, <1>2, <1>3 DEF CallsOK, CallOK

PersonasOK == personas \in Seq(DOMAIN Personas) /\ IsInjective(personas)

ExpertsInv ==
  /\ StoredInv /\ CallsOK /\ PersonasOK
  /\ \A x \in refused : RefusedOK(x)

\* What a first version is written on.
LEMMA NoFilesFiles == NoFiles \in Files /\ MaxVersion \in Nat \ {0} /\ 1 \in 1 .. MaxVersion
BY NoFilesReadable, ExpertsAssumption DEF Readable, ExpertsAssumption

\* CreateExpert.
LEMMA CreateStep ==
  ASSUME ExpertsInv, NEW in \in Forms, CreateExpert(in)
  PROVE  ExpertsInv' /\ Grows
<1> DEFINE i == [in EXCEPT !.kind = IF @ = "" THEN "expert" ELSE @]
<1>1. in \in Form /\ in.source = NoConn
  BY ExpertsAssumption DEF ExpertsAssumption
<1>2. i \in Form /\ i.kind \in {"expert", "team"} /\ i.source = NoConn
  BY <1>1 DEF Form
<1>3. lastId \in Nat /\ StoredInv
  BY DEF ExpertsInv, StoredInv, RowsOK
<1>4. /\ lastId' = lastId + 1 /\ WriteExpert(lastId + 1, 1, i, NoFiles)
      /\ UNCHANGED <<personas, calls, refused>>
  BY DEF CreateExpert
<1> HIDE DEF i
<1>5. Writable(lastId + 1, 1, i, NoFiles)
  BY <1>2, <1>3, NoFilesFiles DEF Writable
<1>6. StoredInv' /\ Grows
  BY <1>3, <1>4, <1>5, WriteStep
<1>7. CallsOK'
  BY <1>3, <1>4, <1>6, CallsStay DEF ExpertsInv
<1> QED
  BY <1>4, <1>6, <1>7 DEF ExpertsInv, PersonasOK, RefusedOK

\* The latest version is one of the versions.
LEMMA LatestVersion ==
  ASSUME NEW id, Versions(id) # {}
  PROVE  /\ Latest(id) \in Versions(id) /\ \A w \in Versions(id) : w <= Latest(id)
<1>1. MaxVersion \in Nat /\ Versions(id) \in SUBSET (1 .. MaxVersion)
  BY ExpertsAssumption DEF ExpertsAssumption, Versions
<1>2. \E v \in Versions(id) : \A w \in Versions(id) : w <= v
  BY <1>1, LastPosition
<1> QED
  BY <1>2 DEF Latest

\* The first half of UpdateExpert.
LEMMA UpdateStep ==
  ASSUME ExpertsInv, NEW c \in Callers, NEW id \in 1 .. lastId, NEW in \in Forms, UpdateExpert(c, id, in)
  PROVE  ExpertsInv' /\ Grows
<1> DEFINE v == Latest(id)
           kind == profiles[<<id, v>>].spec.kind
           form == [in EXCEPT !.kind = kind]
           k == [op |-> "update", id |-> id, version |-> v + 1, form |-> form]
<1>1. in \in Form /\ in.source = NoConn
  BY ExpertsAssumption DEF ExpertsAssumption
<1>2. /\ Versions(id) # {} /\ v < MaxVersion
      /\ calls' = [calls EXCEPT ![c] = k]
      /\ UNCHANGED <<profiles, lastId, personas, answers, refused>>
  BY DEF UpdateExpert
<1>3. v \in 1 .. MaxVersion /\ <<id, v>> \in DOMAIN profiles /\ kind \in {"expert", "team"}
  BY <1>2, LatestVersion DEF Versions
<1>4. lastId \in Nat /\ StoredInv /\ MaxVersion \in Nat
  BY NoFilesFiles DEF ExpertsInv, StoredInv, RowsOK
<1> HIDE DEF kind, v
<1>5. form \in Form /\ form.kind \in {"expert", "team"} /\ form.source = NoConn
  BY <1>1, <1>3 DEF Form
<1>6. StoredInv' /\ Grows
  BY <1>2, <1>4, NoWriteStep
<1> HIDE DEF form
<1>7. CallFits(k, DOMAIN profiles', lastId')
  <2>1. v + 1 \in 2 .. MaxVersion /\ (v + 1) - 1 = v
    BY <1>2, <1>3, <1>4
  <2>2. k.op = "update" /\ k.id = id /\ k.version = v + 1 /\ k.form = form
    OBVIOUS
  <2> HIDE DEF k
  <2> QED
    BY <1>2, <1>3, <1>5, <2>1, <2>2 DEF CallOK, CallFits
<1> HIDE DEF k
<1>8. CallsOK'
  BY <1>2, <1>4, <1>6, <1>7, CallChanged DEF ExpertsInv
<1> QED
  BY <1>2, <1>6, <1>8 DEF ExpertsInv, PersonasOK, RefusedOK

\* A caller who has finished.
LEMMA IdleOK == CallFits(Idle, DOMAIN profiles', lastId')
BY DEF CallFits

\* The version an update was read from is there, and it writes the next.
LEMMA WritableUpdate ==
  ASSUME RowsOK, CallsOK, NEW c \in Callers, UpdateWrites(c)
  PROVE  LET u == calls[c]
         IN /\ Writable(u.id, u.version, u.form, BaseFiles(u.id, u.version))
            /\ u.version # 1 /\ u.id <= lastId
<1> DEFINE u == calls[c]
           base == BaseFiles(u.id, u.version)
<1>1. u.op = "update"
  BY DEF UpdateWrites
<1>2. /\ u.id \in 1 .. lastId /\ u.version \in 2 .. MaxVersion
      /\ <<u.id, u.version - 1>> \in DOMAIN profiles
      /\ u.form \in Form /\ u.form.kind \in {"expert", "team"} /\ u.form.source = NoConn
  <2>1. CallOK(u)
    BY DEF CallsOK
  <2> HIDE DEF u
  <2> QED
    BY <1>1, <2>1 DEF CallOK, CallFits, Idle
<1>3. base = profiles[<<u.id, u.version - 1>>].files
  BY <1>2 DEF BaseFiles
<1>4. base \in Files
  BY <1>2, <1>3 DEF RowsOK, RowOK, Readable
<1>5. MaxVersion \in Nat /\ lastId \in Nat
  BY NoFilesFiles DEF RowsOK
<1> HIDE DEF base, u
<1>6. Writable(u.id, u.version, u.form, base)
  BY <1>2, <1>3, <1>4, <1>5 DEF Writable
<1> QED
  BY <1>2, <1>5, <1>6 DEF u, base

\* The second half of UpdateExpert.
LEMMA UpdateWritesStep ==
  ASSUME ExpertsInv, NEW c \in Callers, UpdateWrites(c)
  PROVE  ExpertsInv' /\ Grows
<1> DEFINE u == calls[c]
           base == BaseFiles(u.id, u.version)
<1>1. /\ WriteExpert(u.id, u.version, u.form, base)
      /\ calls' = [calls EXCEPT ![c] = Idle] /\ UNCHANGED <<lastId, personas, refused>>
  BY DEF UpdateWrites
<1>2. lastId \in Nat /\ RowsOK /\ StoredInv /\ CallsOK
  BY DEF ExpertsInv, StoredInv, RowsOK
<1>3. Writable(u.id, u.version, u.form, base) /\ u.id <= lastId
  BY <1>2, WritableUpdate
<1> HIDE DEF base, u
<1>4. StoredInv' /\ Grows
  BY <1>1, <1>2, <1>3, WriteStep
<1>5. CallsOK'
  BY <1>1, <1>2, <1>4, IdleOK, CallChanged
<1> QED
  BY <1>1, <1>4, <1>5 DEF ExpertsInv, PersonasOK, RefusedOK

\* POST /v1/profiles.
LEMMA HandWriteStep ==
  ASSUME ExpertsInv, NEW id \in 1 .. lastId, NEW v \in 1 .. MaxVersion, NEW s \in HandSpecs,
         RegisterProfile(<<id, v>>, s)
  PROVE  ExpertsInv' /\ Grows
<1>1. UNCHANGED <<lastId, personas, calls, refused>>
  BY DEF RegisterProfile
<1>2. StoredInv' /\ Grows /\ lastId \in Nat
  BY HandStep DEF ExpertsInv, StoredInv, RowsOK
<1>3. CallsOK'
  BY <1>1, <1>2, CallsStay DEF ExpertsInv
<1> QED
  BY <1>1, <1>2, <1>3 DEF ExpertsInv, PersonasOK, RefusedOK

\* The import of an agent.
LEMMA ImportAgentStep ==
  ASSUME ExpertsInv, NEW a \in Agents, ImportAgent(a)
  PROVE  ExpertsInv' /\ Grows
<1> DEFINE in == FromAgent(a).form
           base == FromAgent(a).base
           why == WriteProblem(lastId + 1, in, base)
<1>1. /\ lastId' = lastId + 1 /\ WriteExpert(lastId + 1, 1, in, base)
      /\ refused' = IF why = "ok" THEN refused ELSE refused \cup {[agent |-> a, why |-> why]}
      /\ UNCHANGED <<personas, calls>>
  BY DEF ImportAgent
<1>2. lastId \in Nat /\ StoredInv
  BY DEF ExpertsInv, StoredInv, RowsOK
<1>3. in \in Form /\ in.kind = "expert" /\ base \in Files
  BY AgentForm DEF AgentFacts
<1>4. why # "ok" => RefusedOK([agent |-> a, why |-> why])
  BY AgentRefused
<1> HIDE DEF in, base, why
<1>5. Writable(lastId + 1, 1, in, base)
  BY <1>2, <1>3, NoFilesFiles DEF Writable
<1>6. StoredInv' /\ Grows
  BY <1>1, <1>2, <1>5, WriteStep
<1>7. CallsOK'
  BY <1>1, <1>2, <1>6, CallsStay DEF ExpertsInv
<1>8. \A x \in refused' : RefusedOK(x)
  BY <1>1, <1>4 DEF ExpertsInv
<1> QED
  BY <1>1, <1>6, <1>7, <1>8 DEF ExpertsInv, PersonasOK

\* CreatePersona, and reading what is there, write nothing.
LEMMA QuietStep ==
  ASSUME ExpertsInv, UNCHANGED <<profiles, answers, lastId, refused>>
  PROVE  StoredInv' /\ Grows /\ \A x \in refused' : RefusedOK(x)
<1>1. StoredInv /\ lastId \in Nat
  BY DEF ExpertsInv, StoredInv, RowsOK
<1>2. StoredInv' /\ Grows
  BY <1>1, NoWriteStep
<1> QED
  BY <1>2 DEF ExpertsInv

\* One element before the others, which is new.
LEMMA InjectiveCons ==
  ASSUME NEW S, NEW s \in Seq(S), IsInjective(s), NEW x \in S, x \notin ToSet(s)
  PROVE  <<x>> \o s \in Seq(S) /\ IsInjective(<<x>> \o s)
<1> DEFINE t == <<x>> \o s
           n == Len(s)
<1>1. <<x>> \in Seq(S) /\ Len(<<x>>) = 1 /\ <<x>>[1] = x
  OBVIOUS
<1>2. t \in Seq(S) /\ n \in Nat /\ DOMAIN s = 1 .. n /\ Len(t) = n + 1
  BY <1>1
<1>3. t[1] = x /\ \A i \in 2 .. n + 1 : t[i] = s[i - 1] /\ i - 1 \in 1 .. n
  BY <1>1
<1>4. \A i \in 1 .. n : s[i] # x
  BY ElementsOf
<1> HIDE DEF t, n
<1>5. \A i \in 1 .. n + 1 : i = 1 \/ i \in 2 .. n + 1
  BY <1>2
<1>6. \A i, j \in 1 .. n + 1 : t[i] = t[j] => i = j
  <2> TAKE i, j \in 1 .. n + 1
  <2>1. CASE i \in 2 .. n + 1 /\ j \in 2 .. n + 1
    <3>1. i - 1 \in 1 .. n /\ j - 1 \in 1 .. n /\ t[i] = s[i - 1] /\ t[j] = s[j - 1]
      BY <1>3, <2>1
    <3>2. s[i - 1] = s[j - 1] => i - 1 = j - 1
      BY <1>2, <3>1 DEF IsInjective
    <3> QED
      BY <1>2, <2>1, <3>1, <3>2
  <2>2. CASE i = 1 \/ j = 1
    BY <1>3, <1>4, <1>5, <2>2
  <2> QED
    BY <1>5, <2>1, <2>2
<1>7. DOMAIN t = 1 .. n + 1
  BY <1>2
<1> QED
  BY <1>2, <1>6, <1>7 DEF IsInjective, t

\* CreatePersona.
LEMMA CreatePersonaStep ==
  ASSUME ExpertsInv, NEW p \in DOMAIN Personas, CreatePersona(p)
  PROVE  ExpertsInv' /\ Grows
<1>1. /\ p \notin ToSet(personas) /\ personas' = <<p>> \o personas
      /\ UNCHANGED <<profiles, lastId, calls, answers, refused>>
  BY DEF CreatePersona
<1>2. StoredInv' /\ Grows /\ (\A x \in refused' : RefusedOK(x)) /\ lastId \in Nat
  BY <1>1, QuietStep DEF ExpertsInv, StoredInv, RowsOK
<1>3. CallsOK'
  BY <1>1, <1>2, CallsStay DEF ExpertsInv
<1>4. PersonasOK'
  BY <1>1, InjectiveCons DEF ExpertsInv, PersonasOK
<1> QED
  BY <1>2, <1>3, <1>4 DEF ExpertsInv

\* ImportPersonas reads what there is.
LEMMA ImportPersonasStep ==
  ASSUME ExpertsInv, NEW c \in Callers, ImportPersonas(c)
  PROVE  ExpertsInv' /\ Grows
<1> DEFINE todo == Keep(personas, ToSet(personas) \ Imported)
           k == [op |-> "import", todo |-> todo]
<1>1. /\ calls' = [calls EXCEPT ![c] = k]
      /\ UNCHANGED <<profiles, lastId, personas, answers, refused>>
  BY DEF ImportPersonas
<1>2. StoredInv' /\ Grows /\ (\A x \in refused' : RefusedOK(x)) /\ lastId \in Nat /\ CallsOK
  BY <1>1, QuietStep DEF ExpertsInv, StoredInv, RowsOK
<1>3. todo \in Seq(DOMAIN Personas)
  BY KeepSet DEF ExpertsInv, PersonasOK
<1> HIDE DEF todo
<1>4. CallFits(k, DOMAIN profiles', lastId')
  BY <1>3 DEF CallOK, CallFits
<1> HIDE DEF k
<1>5. CallsOK'
  BY <1>1, <1>2, <1>4, CallChanged
<1> QED
  BY <1>1, <1>2, <1>5 DEF ExpertsInv, PersonasOK

\* An assistant is imported as a single expert.
LEMMA PersonaFormType ==
  ASSUME NEW p \in DOMAIN Personas
  PROVE  PersonaForm(p) \in Form /\ PersonaForm(p).kind = "expert" /\ PersonaForm(p).source = p
<1>1. /\ Personas[p].text \in Nat /\ Personas[p].conns \in Seq(Names)
      /\ p \in Names
  BY ExpertsAssumption DEF ExpertsAssumption
<1>2. Keep(Personas[p].conns, DOMAIN Connectors) \in Seq(Names)
  BY <1>1, KeepSet
<1>3. NoConn \in Names
  BY BundleAssumption DEF BundleAssumption
<1>4. << >> \in Seq(Names) /\ << >> \in Seq([role : Names, expert : Nat \X Nat])
  OBVIOUS
<1> QED
  BY <1>1, <1>2, <1>3, <1>4 DEF PersonaForm, Form

\* One assistant of an import.
LEMMA ImportOneStep ==
  ASSUME ExpertsInv, NEW c \in Callers, ImportOne(c)
  PROVE  ExpertsInv' /\ Grows
<1> DEFINE k == calls[c]
<1>1. /\ k.op = "import" /\ UNCHANGED <<personas, refused>>
  BY DEF ImportOne
<1>2. lastId \in Nat /\ StoredInv /\ CallsOK
  BY DEF ExpertsInv, StoredInv, RowsOK
<1>3. k \in [op : {"import"}, todo : Seq(DOMAIN Personas)]
  <2>1. CallOK(k)
    BY <1>2 DEF CallsOK
  <2> HIDE DEF k
  <2> QED
    BY <1>1, <2>1 DEF CallOK, CallFits, Idle
<1>4. CASE k.todo = << >>
  <2>1. calls' = [calls EXCEPT ![c] = Idle] /\ UNCHANGED <<profiles, answers, lastId>>
    BY <1>4 DEF ImportOne
  <2>2. StoredInv' /\ Grows /\ \A x \in refused' : RefusedOK(x)
    BY <1>1, <2>1, QuietStep
  <2>3. CallsOK'
    BY <1>2, <2>1, <2>2, IdleOK, CallChanged
  <2> QED
    BY <1>1, <2>2, <2>3 DEF ExpertsInv, PersonasOK
<1>5. CASE k.todo # << >>
  <2> DEFINE p == Head(k.todo)
             f == PersonaForm(p)
             rest == [op |-> "import", todo |-> Tail(k.todo)]
             next == IF WriteProblem(lastId + 1, f, NoFiles) = "ok" THEN rest ELSE Idle
  <2>1. /\ lastId' = lastId + 1 /\ WriteExpert(lastId + 1, 1, f, NoFiles)
        /\ calls' = [calls EXCEPT ![c] = next]
    BY <1>5 DEF ImportOne
  <2>2. p \in DOMAIN Personas
    BY <1>3, <1>5
  <2>3. f \in Form /\ f.kind = "expert"
    BY <2>2, PersonaFormType
  <2>4. rest \in [op : {"import"}, todo : Seq(DOMAIN Personas)]
    <3>1. Tail(k.todo) \in Seq(DOMAIN Personas)
      BY <1>3, <1>5, HeadTailProperties
    <3> HIDE DEF k
    <3> QED
      BY <1>3, <3>1
  <2> HIDE DEF rest, f, p, k
  <2>5. CallFits(next, DOMAIN profiles', lastId')
    BY <2>4, IdleOK DEF CallOK, CallFits
  <2> HIDE DEF next
  <2>6. Writable(lastId + 1, 1, f, NoFiles)
    BY <1>2, <2>3, NoFilesFiles DEF Writable
  <2>7. StoredInv' /\ Grows
    BY <1>2, <2>1, <2>6, WriteStep
  <2>8. CallsOK'
    BY <1>2, <2>1, <2>5, <2>7, CallChanged
  <2> QED
    BY <1>1, <2>7, <2>8 DEF ExpertsInv, PersonasOK
<1> QED
  BY <1>4, <1>5

\* The invariant holds of an empty tenant.
LEMMA ExpertsInit == Init => ExpertsInv
<1> SUFFICES ASSUME Init PROVE ExpertsInv
  OBVIOUS
<1>1. profiles = << >> /\ DOMAIN << >> = 1 .. 0 /\ \A r \in 1 .. 0 : FALSE
  BY DEF Init
<1>2. DOMAIN profiles = {}
  BY <1>1
<1>3. StoredInv
  BY <1>2 DEF Init, StoredInv, RowsOK
<1>4. CallsOK
  BY DEF Init, CallsOK, CallOK, CallFits
<1>5. PersonasOK
  BY DEF Init, PersonasOK, IsInjective
<1> QED
  BY <1>3, <1>4, <1>5 DEF Init, ExpertsInv

\* Every step keeps the invariant.
LEMMA ExpertsStep == ExpertsInv /\ [Next]_vars => ExpertsInv' /\ Grows
<1> SUFFICES ASSUME ExpertsInv, [Next]_vars PROVE ExpertsInv' /\ Grows
  OBVIOUS
<1>1. CASE UNCHANGED vars
  <2>1. UNCHANGED <<profiles, answers, lastId, refused, personas, calls>>
    BY <1>1 DEF vars
  <2>2. StoredInv' /\ Grows /\ (\A x \in refused' : RefusedOK(x)) /\ lastId \in Nat
    BY <2>1, QuietStep DEF ExpertsInv, StoredInv, RowsOK
  <2>3. CallsOK'
    BY <2>1, <2>2, CallsStay DEF ExpertsInv
  <2> QED
    BY <2>1, <2>2, <2>3 DEF ExpertsInv, PersonasOK
<1>2. CASE Next
  BY <1>2, CreateStep, UpdateStep, UpdateWritesStep, ImportPersonasStep, ImportOneStep,
     HandWriteStep, ImportAgentStep, CreatePersonaStep DEF Next
<1> QED
  BY <1>1, <1>2

\* A caller who was told that a version is stored reads back what the form said.
THEOREM AnswersHoldTheorem == Spec => []AnswersHold
<1>1. ExpertsInv => AnswersHold
  BY DEF ExpertsInv, StoredInv, AnswersHold, AnswerOK
<1> QED
  BY <1>1, ExpertsInit, ExpertsStep, PTL DEF Spec

\* An edit of the form loses nothing that the form has no field for.
THEOREM EditKeepsTheorem == Spec => []EditKeeps
<1>1. ExpertsInv => EditKeeps
  BY DEF ExpertsInv, StoredInv, EditKeeps, EditOK
<1> QED
  BY <1>1, ExpertsInit, ExpertsStep, PTL DEF Spec

\* A team that was stored can be run at any later time.
THEOREM TeamsRunnableTheorem == Spec => []TeamsRunnable
<1>1. ExpertsInv => TeamsRunnable
  BY RunnableTeams DEF ExpertsInv, StoredInv
<1> QED
  BY <1>1, ExpertsInit, ExpertsStep, PTL DEF Spec

\* On top of every stored version a valid form is rendered to a bundle that says
\* what the form said.
THEOREM FormRoundTripTheorem == Spec => []FormRoundTrip
<1>1. ExpertsInv => FormRoundTrip
  <2> SUFFICES ASSUME ExpertsInv, NEW r \in DOMAIN profiles, NEW in \in Forms,
                      ValidExpert(in), RefsKnown(in)
               PROVE  LET base == profiles[r].files
                          b == RenderBundle(in, base)
                          d == DeriveBundle(b)
                      IN \/ SkillsClash(in, base)
                         \/ \E c \in ToSet(in.conns) : Connectors[c].secret
                         \/ FileCount(b) > MaxFiles
                         \/ /\ Problem(b) = "ok"
                            /\ d.conns = in.conns /\ ToSet(d.skills) = ToSet(in.skills)
                            /\ Unowned(b) = Unowned(base)
    BY DEF FormRoundTrip
  <2>1. in \in Form
    BY ExpertsAssumption DEF ExpertsAssumption
  <2>2. Readable(profiles[r].files)
    BY DEF ExpertsInv, StoredInv, RowsOK, RowOK
  <2> QED
    BY <2>1, <2>2, RoundTrip
<1> QED
  BY <1>1, ExpertsInit, ExpertsStep, PTL DEF Spec

\* An agent is refused only for the reasons ImportFits names.
THEOREM ImportFitsTheorem == Spec => []ImportFits
<1>1. ExpertsInv => ImportFits
  BY DEF ExpertsInv, ImportFits, RefusedOK
<1> QED
  BY <1>1, ExpertsInit, ExpertsStep, PTL DEF Spec

-----------------------------------------------------------------------------
(* Importing the assistants.                                               *)

\* The experts made from an assistant.
Importers(p) ==
  {id \in 1 .. lastId : /\ <<id, 1>> \in DOMAIN profiles
                        /\ profiles[<<id, 1>>].by = "api"
                        /\ profiles[<<id, 1>>].spec.source = p}

Alone ==
  /\ ~overlap
  /\ \A r \in DOMAIN profiles :
       (<<r[1], 1>> \in DOMAIN profiles /\ profiles[<<r[1], 1>>].spec.source \in DOMAIN Personas)
         => r[2] = 1

Importing(c) == calls[c].op = "import"

\* No assistant twice, and none of them imported.
Undone(todo) == IsInjective(todo) /\ \A k \in DOMAIN todo : Importers(todo[k]) = {}

\* ImportedOnceAlone is not inductive: what an import still has to do must not have
\* been done by then, which only holds if no other import runs.
ImportsOK ==
  /\ ~overlap => \A c, d \in Callers : Importing(c) /\ Importing(d) => c = d
  /\ Alone =>
       /\ \A p \in DOMAIN Personas : \A i, j \in Importers(p) : i = j
       /\ \A c \in Callers : Importing(c) =>
            Undone(calls[c].todo)

NoneImported == \A p \in DOMAIN Personas : Importers(p)' \subseteq Importers(p)

\* What disturbs the imports disturbs them for good.
LEMMA AloneBefore ==
  ASSUME Grows, Alone', overlap => overlap'
  PROVE  Alone
BY DEF Alone, Grows

\* A write imports an assistant only as a first version with that source.
LEMMA WriteImports ==
  ASSUME RowsOK, NEW id, NEW version, NEW in, NEW base, Writable(id, version, in, base),
         WriteExpert(id, version, in, base), NEW p \in DOMAIN Personas
  PROVE  Importers(p)' \subseteq Importers(p) \cup (IF version = 1 /\ in.source = p THEN {id} ELSE {})
<1>1. UNCHANGED <<profiles, answers>> \/ Wrote(id, version, in, base)
  BY WriteCases
<1>2. \A j : <<j, 1>> \in DOMAIN profiles => j \in 1 .. lastId
  BY DEF RowsOK
<1>3. CASE UNCHANGED <<profiles, answers>>
  BY <1>2, <1>3 DEF Importers
<1>4. CASE Wrote(id, version, in, base)
  <2>1. /\ DOMAIN profiles' = DOMAIN profiles \cup {<<id, version>>}
        /\ \A r \in DOMAIN profiles : profiles'[r] = profiles[r]
        /\ profiles'[<<id, version>>].spec = SpecOf(in, base)
    BY <1>4 DEF Wrote, Stores
  <2>2. SpecOf(in, base).source = in.source
    BY DEF SpecOf, TeamSpec, ExpertSpec, Writable
  <2> SUFFICES ASSUME NEW j \in Importers(p)', j \notin Importers(p)
               PROVE  version = 1 /\ in.source = p /\ j = id
    OBVIOUS
  <2>3. <<j, 1>> \in DOMAIN profiles' /\ profiles'[<<j, 1>>].by = "api" /\ profiles'[<<j, 1>>].spec.source = p
    BY DEF Importers
  <2>4. <<j, 1>> \notin DOMAIN profiles
    BY <1>2, <2>1, <2>3 DEF Importers
  <2>5. <<j, 1>> = <<id, version>>
    BY <2>1, <2>3, <2>4
  <2>6. j = id /\ version = 1
    BY <2>5
  <2> QED
    BY <2>1, <2>2, <2>3, <2>5, <2>6
<1> QED
  BY <1>1, <1>3, <1>4

\* Without a write nothing is imported.
LEMMA SameImports ==
  ASSUME RowsOK, UNCHANGED profiles
  PROVE  NoneImported
<1>1. \A j : <<j, 1>> \in DOMAIN profiles => j \in 1 .. lastId
  BY DEF RowsOK
<1> QED
  BY <1>1 DEF NoneImported, Importers

\* The list of an import under way.
LEMMA TodoType ==
  ASSUME CallsOK, NEW c \in Callers, Importing(c)
  PROVE  calls[c] \in [op : {"import"}, todo : Seq(DOMAIN Personas)]
<1> DEFINE k == calls[c]
<1>1. CallOK(k) /\ k.op = "import"
  BY DEF CallsOK, Importing
<1> HIDE DEF k
<1>2. k \in [op : {"import"}, todo : Seq(DOMAIN Personas)]
  BY <1>1 DEF CallOK, CallFits, Idle
<1> QED
  BY <1>2 DEF k

\* What is still to do, as long as nothing is imported.
LEMMA UndoneStays ==
  ASSUME NoneImported, NEW todo \in Seq(DOMAIN Personas), Undone(todo)
  PROVE  Undone(todo)'
BY DEF NoneImported, Undone

\* Steps that import nothing.
LEMMA QuietImports ==
  ASSUME ImportsOK, Grows, NoneImported, CallsOK, UNCHANGED overlap,
         \A c \in Callers : Importing(c)' => Importing(c) /\ calls'[c].todo = calls[c].todo
  PROVE  ImportsOK'
<1>1. ~overlap' => \A c, d \in Callers : Importing(c)' /\ Importing(d)' => c = d
  BY DEF ImportsOK
<1>2. Alone' => Alone
  BY AloneBefore
<1>3. Alone' => \A p \in DOMAIN Personas : \A i, j \in Importers(p)' : i = j
  BY <1>2 DEF ImportsOK, NoneImported
<1>4. ASSUME Alone', NEW c \in Callers, Importing(c)' PROVE Undone(calls[c].todo)'
  <2>1. PICK t : t = calls[c].todo
    OBVIOUS
  <2>2. Importing(c) /\ t = calls'[c].todo
    BY <1>4, <2>1
  <2>3. Undone(t)
    BY <1>2, <1>4, <2>1, <2>2 DEF ImportsOK
  <2>4. t \in Seq(DOMAIN Personas)
    BY <2>1, <2>2, TodoType
  <2>5. Undone(t)'
    BY <2>3, <2>4, UndoneStays
  <2> QED
    BY <2>2, <2>5 DEF Undone
<1> QED
  BY <1>1, <1>3, <1>4 DEF ImportsOK

\* A call reads what is there: the latest versions are the first ones.
LEMMA ReadImports ==
  ASSUME ExpertsInv, ImportsOK, NEW c \in Callers, ImportPersonas(c)
  PROVE  ImportsOK'
<1> DEFINE todo == Keep(personas, ToSet(personas) \ Imported)
           k == [op |-> "import", todo |-> todo]
<1>1. /\ calls' = [calls EXCEPT ![c] = k]
      /\ overlap' = (overlap \/ \E d \in Callers : Importing(d))
      /\ UNCHANGED <<profiles, lastId>>
  BY DEF ImportPersonas, Importing
<1>2. RowsOK /\ CallsOK /\ personas \in Seq(DOMAIN Personas) /\ IsInjective(personas)
  BY DEF ExpertsInv, StoredInv, PersonasOK
<1>3. \A d \in Callers : calls'[d] = IF d = c THEN k ELSE calls[d]
  BY <1>1, <1>2 DEF CallsOK
<1>4. k.op = "import" /\ k.todo = todo
  OBVIOUS
<1>5. \A d, e \in Callers : ~overlap' /\ Importing(d)' /\ Importing(e)' => d = e
  <2> HIDE DEF k
  <2>1. \A d \in Callers : ~overlap' /\ Importing(d)' => d = c
    BY <1>1, <1>3 DEF Importing
  <2> QED
    BY <2>1
<1>6. /\ todo \in Seq(DOMAIN Personas) /\ IsInjective(todo)
      /\ ToSet(todo) = ToSet(personas) \cap (ToSet(personas) \ Imported)
  BY <1>2, KeepSet, KeepInjective
<1>7. Grows /\ NoneImported
  BY <1>1, <1>2, SameImports DEF Grows, RowsOK
<1>8. Alone' => Alone
  BY <1>1, <1>7, AloneBefore
<1> HIDE DEF todo
<1>9. ASSUME Alone, NEW i \in DOMAIN todo PROVE Importers(todo[i]) = {}
  <2> SUFFICES ASSUME NEW id \in Importers(todo[i]) PROVE FALSE
    OBVIOUS
  <2>1. todo[i] \in DOMAIN Personas /\ todo[i] \notin Imported
    <3>1. todo[i] \in ToSet(todo)
      BY <1>6 DEF ToSet
    <3>2. ToSet(todo) \subseteq DOMAIN Personas
      BY <1>6, ElementsOf
    <3> QED
      BY <1>6, <3>1, <3>2
  <2>2. /\ id \in 1 .. lastId /\ <<id, 1>> \in DOMAIN profiles
        /\ profiles[<<id, 1>>].by = "api" /\ profiles[<<id, 1>>].spec.source = todo[i]
    BY DEF Importers
  <2>3. profiles[<<id, 1>>].spec.kind \in {"expert", "team"}
    BY <1>2, <2>2 DEF RowsOK, RowOK
  <2>4. 1 \in Versions(id)
    BY <2>2, <2>3, NoFilesFiles DEF Versions
  <2>5. \A v \in Versions(id) : v = 1
    <3> TAKE v \in Versions(id)
    <3>1. <<id, v>> \in DOMAIN profiles /\ <<id, v>>[1] = id /\ <<id, v>>[2] = v
      BY DEF Versions
    <3> QED
      BY <1>9, <2>1, <2>2, <3>1 DEF Alone
  <2>6. Latest(id) = 1
    BY <2>4, <2>5, LatestVersion
  <2>7. todo[i] \in Imported
    BY <2>2, <2>4, <2>6 DEF Imported
  <2> QED
    BY <2>1, <2>7
<1>10. ASSUME Alone', NEW d \in Callers, Importing(d)' PROVE Undone(calls[d].todo)'
  <2>1. PICK t : t = IF d = c THEN todo ELSE calls[d].todo
    OBVIOUS
  <2>2. t = calls'[d].todo
    BY <1>3, <1>4, <2>1
  <2>3. Undone(t) /\ t \in Seq(DOMAIN Personas)
    <3>1. CASE d = c
      BY <1>6, <1>8, <1>9, <1>10, <2>1, <3>1 DEF Undone
    <3>2. CASE d # c
      <4>1. Importing(d)
        BY <1>3, <1>10, <3>2 DEF Importing
      <4>2. calls[d].todo \in Seq(DOMAIN Personas)
        BY <1>2, <4>1, TodoType
      <4> QED
        BY <1>8, <1>10, <2>1, <3>2, <4>1, <4>2 DEF ImportsOK
    <3> QED
      BY <3>1, <3>2
  <2>4. Undone(t)'
    BY <1>7, <2>3, UndoneStays
  <2> QED
    BY <2>2, <2>4 DEF Undone
<1>11. Alone' => \A p \in DOMAIN Personas : \A i, j \in Importers(p)' : i = j
  BY <1>7, <1>8 DEF ImportsOK, NoneImported
<1> QED
  BY <1>5, <1>10, <1>11 DEF ImportsOK

\* One assistant is imported, and is not on the list any more.
LEMMA OneImport ==
  ASSUME ExpertsInv, ImportsOK, NEW c \in Callers, ImportOne(c)
  PROVE  ImportsOK'
<1> DEFINE k == calls[c]
<1>1. k.op = "import" /\ UNCHANGED overlap
  BY DEF ImportOne
<1>2. lastId \in Nat /\ RowsOK /\ CallsOK
  BY DEF ExpertsInv, StoredInv, RowsOK
<1>3. k \in [op : {"import"}, todo : Seq(DOMAIN Personas)]
  BY <1>1, <1>2, TodoType DEF Importing
<1>4. Grows
  BY ImportOneStep
<1>5. ASSUME calls' = [calls EXCEPT ![c] = Idle], UNCHANGED <<profiles, answers>> PROVE ImportsOK'
  <2>1. NoneImported
    BY <1>2, <1>5, SameImports
  <2>2. \A d \in Callers : Importing(d)' => Importing(d) /\ calls'[d].todo = calls[d].todo
    BY <1>2, <1>5 DEF CallsOK, Importing, Idle
  <2> QED
    BY <1>1, <1>2, <1>4, <2>1, <2>2, QuietImports
<1>6. CASE k.todo = << >>
  BY <1>5, <1>6 DEF ImportOne
<1>7. CASE k.todo # << >>
  <2> DEFINE p == Head(k.todo)
             f == PersonaForm(p)
             rest == [op |-> "import", todo |-> Tail(k.todo)]
             ok == WriteProblem(lastId + 1, f, NoFiles) = "ok"
  <2>1. /\ lastId' = lastId + 1 /\ WriteExpert(lastId + 1, 1, f, NoFiles)
        /\ calls' = [calls EXCEPT ![c] = IF ok THEN rest ELSE Idle]
    BY <1>7 DEF ImportOne
  <2>2. /\ p \in DOMAIN Personas /\ Tail(k.todo) \in Seq(DOMAIN Personas) /\ p = k.todo[1]
        /\ DOMAIN k.todo = 1 .. Len(k.todo) /\ Len(k.todo) \in Nat /\ 1 \in DOMAIN k.todo
        /\ DOMAIN Tail(k.todo) = 1 .. Len(k.todo) - 1
        /\ \A i \in 1 .. Len(k.todo) - 1 : Tail(k.todo)[i] = k.todo[i + 1]
    <3> DEFINE s == k.todo
    <3>1. s \in Seq(DOMAIN Personas) /\ s # << >>
      BY <1>3, <1>7
    <3> HIDE DEF s
    <3>2. /\ Head(s) \in DOMAIN Personas /\ Tail(s) \in Seq(DOMAIN Personas)
          /\ Len(Tail(s)) = Len(s) - 1 /\ \A i \in 1 .. Len(Tail(s)) : Tail(s)[i] = s[i + 1]
      BY <3>1, HeadTailProperties
    <3>3. Head(s) = s[1] /\ Len(s) \in Nat /\ Len(s) # 0 /\ DOMAIN s = 1 .. Len(s)
      BY <3>1, EmptySeq
    <3> QED
      BY <3>2, <3>3 DEF s
  <2>3. f \in Form /\ f.kind = "expert" /\ f.source = p
    BY <2>2, PersonaFormType
  <2> HIDE DEF f
  <2>4. Writable(lastId + 1, 1, f, NoFiles)
    BY <1>2, <2>3, NoFilesFiles DEF Writable
  <2>5. \A q \in DOMAIN Personas :
          Importers(q)' \subseteq Importers(q) \cup (IF q = p THEN {lastId + 1} ELSE {})
    BY <1>2, <2>1, <2>3, <2>4, WriteImports
  <2>6. CASE ~ok
    <3>1. UNCHANGED <<profiles, answers>>
      BY <2>1, <2>6 DEF WriteExpert
    <3>2. calls' = [calls EXCEPT ![c] = Idle]
      BY <2>1, <2>6
    <3> QED
      BY <1>5, <3>1, <3>2
  <2>7. CASE ok
    <3>1. calls' = [calls EXCEPT ![c] = rest]
      BY <2>1, <2>7
    <3> HIDE DEF ok, p
    <3>2. \A d \in Callers : calls'[d] = IF d = c THEN rest ELSE calls[d]
      BY <1>2, <3>1 DEF CallsOK
    <3>3. Importing(c) /\ rest.todo = Tail(k.todo)
      BY <1>1 DEF Importing
    <3>4. ~overlap' => \A d, e \in Callers : Importing(d)' /\ Importing(e)' => d = e
      <4>1. \A d \in Callers : Importing(d)' => Importing(d)
        BY <3>2, <3>3 DEF Importing
      <4> QED
        BY <1>1, <4>1 DEF ImportsOK
    <3>5. ASSUME Alone'
          PROVE  /\ \A q \in DOMAIN Personas : \A i, j \in Importers(q)' : i = j
                 /\ \A d \in Callers : Importing(d)' => Undone(calls[d].todo)'
      <4>1. Alone /\ ~overlap
        BY <1>1, <1>4, <3>5, AloneBefore DEF Alone
      <4>2. Undone(k.todo)
        BY <3>3, <4>1 DEF ImportsOK
      <4>3. Importers(p) = {}
        BY <2>2, <4>2 DEF Undone
      <4>4. \A q \in DOMAIN Personas : \A i, j \in Importers(q)' : i = j
        <5> TAKE q \in DOMAIN Personas
        <5>1. \A i, j \in Importers(q) : i = j
          BY <4>1 DEF ImportsOK
        <5>2. CASE q = p
          BY <2>5, <4>3, <5>2
        <5>3. CASE q # p
          BY <2>5, <5>1, <5>3
        <5> QED
          BY <5>2, <5>3
      <4>5. ASSUME NEW d \in Callers, Importing(d)' PROVE Undone(calls[d].todo)'
        <5>1. d = c
          <6>1. Importing(d)
            BY <3>2, <3>3, <4>5 DEF Importing
          <6> QED
            BY <3>3, <4>1, <6>1 DEF ImportsOK
        <5>2. PICK t : t = Tail(k.todo)
          OBVIOUS
        <5>3. t = calls'[d].todo
          BY <3>2, <3>3, <5>1, <5>2
        <5>4. IsInjective(t)
          <6> SUFFICES ASSUME NEW i \in DOMAIN t, NEW j \in DOMAIN t, t[i] = t[j] PROVE i = j
            BY DEF IsInjective
          <6>1. i \in 1 .. Len(k.todo) - 1 /\ j \in 1 .. Len(k.todo) - 1
            BY <2>2, <5>2
          <6>2. i + 1 \in DOMAIN k.todo /\ j + 1 \in DOMAIN k.todo
            BY <2>2, <6>1
          <6>3. t[i] = k.todo[i + 1] /\ t[j] = k.todo[j + 1]
            BY <2>2, <5>2, <6>1
          <6>4. k.todo[i + 1] = k.todo[j + 1] => i + 1 = j + 1
            BY <4>2, <6>2 DEF Undone, IsInjective
          <6>5. i + 1 = j + 1
            BY <6>3, <6>4
          <6>6. i \in Int /\ j \in Int
            BY <2>2, <6>1
          <6> QED
            BY <6>5, <6>6
        <5>5. ASSUME NEW i \in DOMAIN t PROVE Importers(t[i])' = {}
          <6>1. i \in 1 .. Len(k.todo) - 1 /\ i + 1 \in DOMAIN k.todo /\ t[i] = k.todo[i + 1]
            BY <2>2, <5>2
          <6>2. Importers(t[i]) = {}
            BY <4>2, <6>1 DEF Undone
          <6>3. t[i] \in DOMAIN Personas
            <7>1. t \in Seq(DOMAIN Personas)
              BY <2>2, <5>2
            <7> QED
              BY <7>1
          <6>4. t[i] # p
            BY <2>2, <4>2, <6>1 DEF Undone, IsInjective
          <6> QED
            BY <2>5, <6>2, <6>3, <6>4
        <5>6. Undone(t)'
          BY <5>4, <5>5 DEF Undone
        <5> QED
          BY <5>3, <5>6 DEF Undone
      <4> QED
        BY <4>4, <4>5
    <3> QED
      BY <3>4, <3>5 DEF ImportsOK
  <2> QED
    BY <2>6, <2>7
<1> QED
  BY <1>6, <1>7

\* Every other step imports nothing.
LEMMA OtherImports ==
  ASSUME ExpertsInv, ImportsOK, Grows, UNCHANGED <<calls, overlap>>, NoneImported
  PROVE  ImportsOK'
BY QuietImports DEF ExpertsInv, Importing

\* Every step keeps the part about imports.
LEMMA ImportsStep == ExpertsInv /\ ImportsOK /\ [Next]_vars => ImportsOK'
<1> SUFFICES ASSUME ExpertsInv, ImportsOK, [Next]_vars PROVE ImportsOK'
  OBVIOUS
<1>1. Grows
  BY ExpertsStep
<1>2. RowsOK /\ lastId \in Nat /\ CallsOK
  BY DEF ExpertsInv, StoredInv, RowsOK
<1>3. NoConn \notin DOMAIN Personas
  BY ExpertsAssumption DEF ExpertsAssumption
<1>4. ASSUME NEW in \in Forms, CreateExpert(in) PROVE ImportsOK'
  <2> DEFINE i == [in EXCEPT !.kind = IF @ = "" THEN "expert" ELSE @]
  <2>1. in \in Form /\ in.source = NoConn
    BY ExpertsAssumption DEF ExpertsAssumption
  <2>2. i \in Form /\ i.kind \in {"expert", "team"} /\ i.source = NoConn
    BY <2>1 DEF Form
  <2>3. WriteExpert(lastId + 1, 1, i, NoFiles) /\ UNCHANGED <<calls, overlap>>
    BY <1>4 DEF CreateExpert
  <2> HIDE DEF i
  <2>4. Writable(lastId + 1, 1, i, NoFiles)
    BY <1>2, <2>2, NoFilesFiles DEF Writable
  <2>5. NoneImported
    BY <1>2, <1>3, <2>2, <2>3, <2>4, WriteImports DEF NoneImported
  <2> QED
    BY <1>1, <2>3, <2>5, OtherImports
<1>5. ASSUME NEW c \in Callers, NEW id \in 1 .. lastId, NEW in \in Forms, UpdateExpert(c, id, in)
      PROVE  ImportsOK'
  <2>1. UNCHANGED <<profiles, overlap>>
    BY <1>5 DEF UpdateExpert
  <2>2. \A d \in Callers : Importing(d)' => Importing(d) /\ calls'[d].todo = calls[d].todo
    BY <1>2, <1>5 DEF UpdateExpert, CallsOK, Importing
  <2> QED
    BY <1>1, <1>2, <2>1, <2>2, SameImports, QuietImports
<1>6. ASSUME NEW c \in Callers, UpdateWrites(c) PROVE ImportsOK'
  <2> DEFINE u == calls[c]
             base == BaseFiles(u.id, u.version)
  <2>1. u.op = "update" /\ WriteExpert(u.id, u.version, u.form, base) /\ UNCHANGED overlap
    BY <1>6 DEF UpdateWrites
  <2>2. Writable(u.id, u.version, u.form, base) /\ u.version # 1
    BY <1>2, <1>6, WritableUpdate
  <2>3. NoneImported
    BY <1>2, <2>1, <2>2, WriteImports DEF NoneImported
  <2>4. \A d \in Callers : Importing(d)' => Importing(d) /\ calls'[d].todo = calls[d].todo
    BY <1>2, <1>6 DEF UpdateWrites, CallsOK, Importing, Idle
  <2> QED
    BY <1>1, <1>2, <2>1, <2>3, <2>4, QuietImports
<1>7. ASSUME NEW id \in 1 .. lastId, NEW v \in 1 .. MaxVersion, NEW s \in HandSpecs,
             RegisterProfile(<<id, v>>, s)
      PROVE  ImportsOK'
  <2>1. UNCHANGED <<lastId, calls, overlap>> /\ Register(<<id, v>>, s, NoFiles, "hand")
    BY <1>7 DEF RegisterProfile
  <2>2. \A j : <<j, 1>> \in DOMAIN profiles' =>
          <<j, 1>> \in DOMAIN profiles \/ profiles'[<<j, 1>>].by = "hand"
    BY <2>1 DEF Register
  <2>3. NoneImported
    BY <1>1, <2>1, <2>2 DEF NoneImported, Importers, Grows
  <2> QED
    BY <1>1, <2>1, <2>3, OtherImports
<1>8. ASSUME NEW a \in Agents, ImportAgent(a) PROVE ImportsOK'
  <2> DEFINE in == FromAgent(a).form
             base == FromAgent(a).base
  <2>1. WriteExpert(lastId + 1, 1, in, base) /\ UNCHANGED <<calls, overlap>>
    BY <1>8 DEF ImportAgent
  <2>2. in \in Form /\ in.kind = "expert" /\ base \in Files /\ in.source = a.id
    BY AgentForm DEF AgentFacts
  <2>3. a.id \notin DOMAIN Personas
    BY ExpertsAssumption DEF ExpertsAssumption
  <2> HIDE DEF in, base
  <2>4. Writable(lastId + 1, 1, in, base)
    BY <1>2, <2>2, NoFilesFiles DEF Writable
  <2>5. NoneImported
    BY <1>2, <2>1, <2>2, <2>3, <2>4, WriteImports DEF NoneImported
  <2> QED
    BY <1>1, <2>1, <2>5, OtherImports
<1>9. ASSUME NEW p \in DOMAIN Personas, CreatePersona(p) PROVE ImportsOK'
  <2>1. UNCHANGED <<profiles, calls, overlap>>
    BY <1>9 DEF CreatePersona
  <2> QED
    BY <1>1, <1>2, <2>1, SameImports, OtherImports
<1>10. ASSUME UNCHANGED vars PROVE ImportsOK'
  <2>1. UNCHANGED <<profiles, calls, overlap>>
    BY <1>10 DEF vars
  <2> QED
    BY <1>1, <1>2, <2>1, SameImports, OtherImports
<1> QED
  BY <1>4, <1>5, <1>6, <1>7, <1>8, <1>9, <1>10, ReadImports, OneImport DEF Next

\* At most one expert is made from an assistant.
LEMMA OneImporter == RowsOK /\ ImportsOK => ImportedOnceAlone
<1> SUFFICES ASSUME RowsOK, ImportsOK, Alone, NEW p \in DOMAIN Personas
             PROVE  Cardinality(Importers(p)) <= 1
  BY DEF ImportedOnceAlone, ImportedOnce, Alone, Importers
<1>1. \A i, j \in Importers(p) : i = j
  BY DEF ImportsOK
<1>2. CASE Importers(p) = {}
  <2>1. Cardinality(Importers(p)) = 0
    BY <1>2, FS_EmptySet
  <2> QED
    BY <2>1
<1>3. CASE Importers(p) # {}
  <2>1. PICK i : Importers(p) = {i}
    BY <1>1, <1>3
  <2>2. Cardinality(Importers(p)) = 1
    BY <2>1, FS_Singleton
  <2> QED
    BY <2>2
<1> QED
  BY <1>2, <1>3

\* As long as no imported expert has a second version and no two imports overlap,
\* each assistant becomes an expert at most once.
THEOREM ImportedOnceAloneTheorem == Spec => []ImportedOnceAlone
<1>1. Init => ImportsOK
  <2> SUFFICES ASSUME Init PROVE ImportsOK
    OBVIOUS
  <2>1. \A p : Importers(p) = {}
    BY DEF Init, Importers
  <2>2. \A c \in Callers : ~Importing(c)
    BY DEF Init, Importing, Idle
  <2> QED
    BY <2>1, <2>2 DEF ImportsOK
<1>2. ExpertsInv /\ ImportsOK => ImportedOnceAlone
  BY OneImporter DEF ExpertsInv, StoredInv
<1> QED
  BY <1>1, <1>2, ExpertsInit, ExpertsStep, ImportsStep, PTL DEF Spec
=============================================================================
