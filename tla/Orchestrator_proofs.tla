------------------------- MODULE Orchestrator_proofs -------------------------
(***************************************************************************)
(* For any specifications that are not refused, plans, faults and verdicts: *)
(* lifecycle groups keep their failures to themselves, no worker is lost or *)
(* doubled, the jobs of a stage name the items that it asks for, and the    *)
(* summary of a run says of it what it was.                                 *)
(*                                                                         *)
(* Lists are flattened, items are placed in jobs and rows are added up by   *)
(* recursion over numbers and sets.  The induction that says what comes of  *)
(* it is had from the least element of a set of numbers (Least).            *)
(***************************************************************************)
EXTENDS Orchestrator, TLAPS, FiniteSetTheorems

-----------------------------------------------------------------------------
(* Induction, and lists that are flattened.                                 *)

Below == {p \in Nat \X Nat : p[1] < p[2]}

\* Among numbers there is a least one.
LEMMA Least ==
  ASSUME NEW T \in SUBSET Nat, T # {}
  PROVE  \E n \in T : \A m \in T : ~(m < n)
<1>1. OpToRel(<, Nat) = Below
  BY DEF OpToRel, Below
<1>2. IsWellFoundedOn(Below, Nat)
  BY <1>1, NatLessThanWellFounded
<1>3. \E n \in T : \A m \in T : ~(<<m, n>> \in Below)
  BY <1>2, WFMin
<1> QED
  BY <1>3 DEF Below

\* What holds of zero and goes on to the next number holds of every number.
LEMMA Induct ==
  ASSUME NEW P \in SUBSET Nat, 0 \in P, \A n \in P : n + 1 \in P
  PROVE  P = Nat
<1>1. SUFFICES ASSUME Nat \ P # {} PROVE FALSE
  OBVIOUS
<1>2. PICK n \in Nat \ P : \A m \in Nat \ P : ~(m < n)
  BY <1>1, Least
<1>3. n # 0
  BY <1>2
<1>4. n - 1 \in Nat \ P
  BY <1>2, <1>3
<1> QED
  BY <1>2, <1>3, <1>4


\* What the recursive function of FlattenSeq says of the first n of its sequences.
Flattens(s, n, f) == f = [k \in 1..n |-> IF k = 1 THEN s[k] ELSE f[k - 1] \o s[k]]

LEMMA FlattensExists ==
  ASSUME NEW S, NEW s \in Seq(Seq(S)), NEW n \in 1..Len(s)
  PROVE  \E f : Flattens(s, n, f)
<1> DEFINE P == {m \in Nat : m <= Len(s) => \E f \in [1..m -> Seq(S)] : Flattens(s, m, f)}
<1>1. 0 \in P
  <2> DEFINE f == [k \in 1..0 |-> <<>>]
  <2>1. f \in [1..0 -> Seq(S)] /\ Flattens(s, 0, f)
    BY DEF Flattens
  <2> QED
    BY <2>1
<1>2. ASSUME NEW m \in P PROVE m + 1 \in P
  <2>1. SUFFICES ASSUME m + 1 <= Len(s)
                 PROVE  \E f \in [1..(m + 1) -> Seq(S)] : Flattens(s, m + 1, f)
    OBVIOUS
  <2>2. m \in Nat /\ Len(s) \in Nat
    OBVIOUS
  <2>3. PICK f \in [1..m -> Seq(S)] : Flattens(s, m, f)
    BY <2>1, <2>2
  <2> DEFINE g == [k \in 1..(m + 1) |-> IF k = 1 THEN s[k] ELSE f[k - 1] \o s[k]]
  <2>4. \A k \in 1..(m + 1) : k # 1 => k - 1 \in 1..m
    BY <2>2
  <2>5. \A k \in 1..(m + 1) : s[k] \in Seq(S)
    BY <2>1, <2>2
  <2>6. g \in [1..(m + 1) -> Seq(S)]
    BY <2>4, <2>5
  <2>7. \A k \in 1..m : g[k] = f[k]
    <3>1. \A k \in 1..m : f[k] = IF k = 1 THEN s[k] ELSE f[k - 1] \o s[k]
      BY <2>3 DEF Flattens
    <3>2. \A k \in 1..m : k \in 1..(m + 1)
      BY <2>2
    <3> QED
      BY <3>1, <3>2
  <2>8. \A k \in 1..(m + 1) : g[k] = IF k = 1 THEN s[k] ELSE g[k - 1] \o s[k]
    BY <2>4, <2>7
  <2>9. Flattens(s, m + 1, g)
    BY <2>8 DEF Flattens
  <2> QED
    BY <2>6, <2>9
<1> HIDE DEF P
<1>3. P = Nat
  <2>1. P \in SUBSET Nat
    BY DEF P
  <2> QED
    BY <1>1, <1>2, <2>1, Induct
<1>4. n \in P /\ n <= Len(s)
  BY <1>3
<1> QED
  BY <1>4 DEF P

\* The flattened list grows by one sequence after the other.
LEMMA FlattenSteps ==
  ASSUME NEW S, NEW s \in Seq(Seq(S))
  PROVE  \E f : /\ f[0] = <<>> /\ FlattenSeq(s) = f[Len(s)]
                /\ \A k \in 1..Len(s) : f[k] = f[k - 1] \o s[k]
                /\ \A k \in 0..Len(s) : f[k] \in Seq(S)
<1> DEFINE n == Len(s)
<1>0. n \in Nat /\ (\A k \in 1..n : s[k] \in Seq(S))
  OBVIOUS
<1>1. CASE n = 0
  <2>1. s = <<>> /\ FlattenSeq(s) = s
    BY <1>1 DEF FlattenSeq
  <2> DEFINE f == [k \in 0..0 |-> <<>>]
  <2>2. f[0] = <<>> /\ FlattenSeq(s) = f[n]
    BY <1>1, <2>1
  <2>3. (\A k \in 1..n : FALSE) /\ (\A k \in 0..n : k = 0) /\ <<>> \in Seq(S)
    BY <1>1
  <2> HIDE DEF f
  <2> QED
    BY <2>2, <2>3
<1>2. CASE n # 0
  <2> DEFINE h == CHOOSE f : Flattens(s, n, f)
  <2>1. FlattenSeq(s) = h[n]
    BY <1>2 DEF FlattenSeq, Flattens
  <2>2. Flattens(s, n, h)
    BY <1>0, <1>2, FlattensExists
  <2> HIDE DEF h
  <2> DEFINE f == [k \in 0..n |-> IF k = 0 THEN <<>> ELSE h[k]]
             P == {k \in Nat : k <= n => f[k] \in Seq(S)}
  <2>3. f[0] = <<>> /\ f[n] = h[n]
    BY <1>0, <1>2
  <2>4. \A k \in 1..n : f[k] = IF k = 1 THEN s[k] ELSE f[k - 1] \o s[k]
    <3>1. \A k \in 1..n : h[k] = IF k = 1 THEN s[k] ELSE h[k - 1] \o s[k]
      BY <2>2 DEF Flattens
    <3>2. \A k \in 1..n : f[k] = h[k] /\ (k # 1 => f[k - 1] = h[k - 1])
      BY <1>0
    <3> HIDE DEF f
    <3> QED
      BY <3>1, <3>2
  <2>5. \A k \in 1..n : f[k] = f[k - 1] \o s[k]
    <3> SUFFICES ASSUME NEW k \in 1..n PROVE f[k] = f[k - 1] \o s[k]
      OBVIOUS
    <3>1. <<>> \o s[k] = s[k]
      BY <1>0
    <3>2. f[k] = IF k = 1 THEN s[k] ELSE f[k - 1] \o s[k]
      BY <2>4
    <3> HIDE DEF f
    <3>3. CASE k = 1
      <4>1. f[k - 1] = <<>>
        BY <2>3, <3>3
      <4> QED
        BY <3>1, <3>2, <3>3, <4>1
    <3> QED
      BY <3>2, <3>3
  <2> HIDE DEF f
  <2>6. 0 \in P
    <3>1. <<>> \in Seq(S)
      OBVIOUS
    <3> QED
      BY <2>3, <3>1
  <2>7. ASSUME NEW k \in P PROVE k + 1 \in P
    <3>1. SUFFICES ASSUME k + 1 <= n PROVE f[k + 1] \in Seq(S)
      OBVIOUS
    <3>2. k \in Nat /\ k <= n /\ k + 1 \in 1..n /\ (k + 1) - 1 = k
      BY <1>0, <3>1
    <3>3. f[k] \in Seq(S) /\ s[k + 1] \in Seq(S)
      BY <1>0, <3>2
    <3>4. f[k + 1] = f[k] \o s[k + 1]
      BY <2>5, <3>2
    <3> QED
      BY <3>3, <3>4
  <2> HIDE DEF P
  <2>8. P = Nat
    <3>1. P \in SUBSET Nat
      BY DEF P
    <3> QED
      BY <2>6, <2>7, <3>1, Induct
  <2>9. \A k \in 0..n : f[k] \in Seq(S)
    BY <1>0, <2>8 DEF P
  <2> QED
    BY <2>1, <2>3, <2>5, <2>9
<1> QED
  BY <1>1, <1>2

LEMMA FlattenIsList ==
  ASSUME NEW S, NEW s \in Seq(Seq(S))
  PROVE  FlattenSeq(s) \in Seq(S)
<1>1. Len(s) \in 0..Len(s)
  OBVIOUS
<1> QED
  BY <1>1, FlattenSteps

-----------------------------------------------------------------------------
(* A plan is a list of stages.                                              *)

LEMMA ListIsSeq ==
  ASSUME NEW s, IsList(s)
  PROVE  /\ s \in Seq(Range(s)) /\ Len(s) \in Nat /\ DOMAIN s = 1..Len(s)
         /\ \A k \in DOMAIN s : s[k] \in Range(s)
  BY DEF IsList, Range

LEMMA SeqIsList ==
  ASSUME NEW S, NEW s \in Seq(S)
  PROVE  IsList(s)
  BY DEF IsList, Range

\* A list made of a list, element by element.
LEMMA Mapped ==
  ASSUME NEW S, NEW n \in Nat, NEW f, DOMAIN f = 1..n, f = [k \in DOMAIN f |-> f[k]],
         \A k \in 1..n : f[k] \in S
  PROVE  f \in Seq(S) /\ Len(f) = n
  OBVIOUS

LEMMA SelectedIsList ==
  ASSUME NEW s, NEW st, IsList(s.inventory)
  PROVE  Selected(s, st) \in Seq(Range(s.inventory))
<1> DEFINE seq == s.inventory
           R == Range(seq)
           f == [k \in DOMAIN seq |-> IF Selects(st.targets, seq[k]) THEN <<seq[k]>> ELSE <<>>]
<1>1. seq \in Seq(R) /\ Len(seq) \in Nat /\ DOMAIN seq = 1..Len(seq) /\ \A k \in DOMAIN seq : seq[k] \in R
  BY ListIsSeq
<1>2. Selected(s, st) = FlattenSeq(f)
  BY DEF Selected, Kept
<1> HIDE DEF R
<1>3. ASSUME NEW k \in 1..Len(seq) PROVE f[k] \in Seq(R)
  <2>1. f[k] = IF Selects(st.targets, seq[k]) THEN <<seq[k]>> ELSE <<>>
    BY <1>1
  <2>2. seq[k] \in R
    BY <1>1
  <2>3. <<>> \in Seq(R) /\ <<seq[k]>> \in Seq(R)
    BY <2>2
  <2> QED
    BY <2>1, <2>3
<1>6. DOMAIN f = 1..Len(seq) /\ f = [k \in DOMAIN f |-> f[k]]
  BY <1>1
<1> HIDE DEF f
<1>4. f \in Seq(Seq(R))
  BY <1>1, <1>3, <1>6, Mapped
<1>5. FlattenSeq(f) \in Seq(R)
  BY <1>4, FlattenIsList
<1> QED
  BY <1>2, <1>5 DEF R

LEMMA PlanStageIsList ==
  ASSUME NEW s, NEW st, IsList(s.inventory)
  PROVE  PlanStage(s, st) \in Seq(Range(PlanStage(s, st)))
<1> DEFINE targets == ResolveTargets(s, st)
<1>1. \E n \in Nat : DOMAIN targets = 1..n
  <2>1. Len(Selected(s, st)) \in Nat /\ DOMAIN Selected(s, st) = 1..Len(Selected(s, st))
    BY SelectedIsList
  <2>2. DOMAIN targets = DOMAIN Selected(s, st) \/ targets = <<Local>>
    BY DEF ResolveTargets
  <2>3. DOMAIN <<Local>> = 1..1
    OBVIOUS
  <2> QED
    BY <2>1, <2>2, <2>3
<1>2. PICK n \in Nat : DOMAIN targets = 1..n
  BY <1>1
<1>3. DOMAIN PlanStage(s, st) = 1..n /\ PlanStage(s, st) = [k \in 1..n |-> PlanStage(s, st)[k]]
  BY <1>2 DEF PlanStage
<1>4. \A k \in 1..n : PlanStage(s, st)[k] \in Range(PlanStage(s, st))
  BY <1>3 DEF Range
<1> QED
  BY <1>3, <1>4, Mapped

Planned(s) == UNION {Range(PlanStage(s, StagesOf(s)[k])) : k \in DOMAIN StagesOf(s)}

\* compile_run_plan: what it makes of a specification is a list, each element of which is
\* a stage of the specification with its settings resolved.
THEOREM PlanIsList ==
  ASSUME NEW s \in Specs
  PROVE  CompileRunPlan(s) \in Seq(Planned(s))
<1> DEFINE f == [k \in DOMAIN StagesOf(s) |-> PlanStage(s, StagesOf(s)[k])]
<1>1. IsList(s.inventory) /\ IsList(StagesOf(s))
  BY SpecAssumption
<1>2. Len(StagesOf(s)) \in Nat /\ DOMAIN StagesOf(s) = 1..Len(StagesOf(s))
  BY <1>1, ListIsSeq
<1>3. ASSUME NEW k \in DOMAIN StagesOf(s) PROVE f[k] \in Seq(Planned(s))
  <2>1. f[k] = PlanStage(s, StagesOf(s)[k])
    OBVIOUS
  <2>2. f[k] \in Seq(Range(f[k]))
    BY <1>1, <2>1, PlanStageIsList
  <2>3. Range(f[k]) \subseteq Planned(s)
    BY <2>1 DEF Planned
  <2> HIDE DEF f
  <2> QED
    BY <2>2, <2>3
<1>4. f \in Seq(Seq(Planned(s)))
  BY <1>2, <1>3, Mapped
<1>5. CompileRunPlan(s) = FlattenSeq(f)
  BY DEF CompileRunPlan
<1> HIDE DEF f
<1> QED
  BY <1>4, <1>5, FlattenIsList

\* What the planner of the jobs may count on.
StageCounts(s, p) ==
  /\ IsList(p.manifest) /\ \A g \in DOMAIN p.manifest : IsList(p.manifest[g])
  /\ p.split \in Nat \ {0} /\ p.repeats \in Nat /\ p.chunk_size \in Nat \ {0}
  /\ p.suite \in DOMAIN s.suites

LEMMA PlannedCounts ==
  ASSUME NEW s \in Specs, Compiles(s), NEW p \in Planned(s)
  PROVE  StageCounts(s, p)
<1>1. PICK k \in DOMAIN StagesOf(s) : p \in Range(PlanStage(s, StagesOf(s)[k]))
  BY DEF Planned
<1> DEFINE st == StagesOf(s)[k]
<1>2. StageIsTyped(s, st) /\ StageIsValid(s, st) /\ s.override \in DOMAIN s.suites \cup {""}
  BY SpecAssumption DEF Compiles
<1>3. /\ p.manifest = st.manifest /\ p.split = st.split /\ p.repeats = st.repeats
      /\ p.chunk_size = Setting(s, st, "chunk_size") /\ p.suite = st.suite
  BY <1>1 DEF PlanStage, Range
<1>4. Setting(s, st, "chunk_size") \in Int /\ Setting(s, st, "chunk_size") >= 1
  BY <1>2 DEF StageIsTyped, StageIsValid, Setting
<1> HIDE DEF st
<1>5. p.chunk_size \in Nat \ {0}
  BY <1>3, <1>4
<1>6. /\ IsList(p.manifest) /\ \A g \in DOMAIN p.manifest : IsList(p.manifest[g])
      /\ p.split \in Nat \ {0} /\ p.repeats \in Nat /\ p.suite \in DOMAIN s.suites
  BY <1>2, <1>3 DEF StageIsTyped
<1> QED
  BY <1>5, <1>6 DEF StageCounts

-----------------------------------------------------------------------------
(* Groups of a split, and chunks.                                           *)

\* Numbers of which each smaller one is among them too.
LEMMA InitialSegment ==
  ASSUME NEW n \in Nat, NEW D \in SUBSET (1..n),
         \A x \in D : \A y \in 1..n : y <= x => y \in D
  PROVE  Cardinality(D) \in 0..n /\ D = 1..Cardinality(D)
<1> DEFINE T == {x \in Nat : x + 1 \notin D}
<1>1. n \in T
  OBVIOUS
<1>2. PICK m \in T : \A x \in T : ~(x < m)
  <2>1. T \in SUBSET Nat /\ T # {}
    BY <1>1
  <2> HIDE DEF T
  <2> QED
    BY <2>1, Least
<1>3. m \in Nat /\ m + 1 \notin D /\ m <= n
  BY <1>1, <1>2
<1>4. ASSUME NEW y \in 1..m PROVE y \in D
  <2>1. y - 1 \in Nat /\ y - 1 < m /\ (y - 1) + 1 = y
    BY <1>3
  <2> QED
    BY <1>2, <2>1
<1>5. ASSUME NEW x \in D PROVE x \in 1..m
  <2>1. ASSUME x > m PROVE FALSE
    <3>1. m + 1 <= x /\ m + 1 \in 1..n
      BY <1>3, <2>1
    <3> QED
      BY <1>3, <3>1
  <2> QED
    BY <1>3, <2>1
<1>6. D = 1..m
  BY <1>4, <1>5
<1>7. Cardinality(1..m) = m
  BY <1>3, FS_Interval
<1> QED
  BY <1>3, <1>6, <1>7

LEMMA Product ==
  ASSUME NEW x \in Nat, NEW y \in Nat, NEW c \in Nat \ {0}
  PROVE  x * c \in Nat /\ x <= x * c /\ (x <= y => x * c <= y * c)
                       /\ (x < y => x * c + c <= y * c)
<1>1. x * c \in Nat /\ x <= x * c
  BY SMT
<1>2. x <= y => x * c <= y * c
  BY SMT
<1>3. x < y => x * c + c <= y * c
  BY SMT
<1> QED
  BY <1>1, <1>2, <1>3

Share(n, c, g) == Cardinality({k \in 1..n : (k - 1) * c + g <= n})

\* How many of n items the g-th of c groups has.
LEMMA ShareIs ==
  ASSUME NEW n \in Nat, NEW c \in Nat \ {0}, NEW g \in 1..c
  PROVE  /\ Share(n, c, g) \in Nat
         /\ \A k \in Nat \ {0} : k \in 1..Share(n, c, g) <=> (k - 1) * c + g <= n
<1> DEFINE D == {k \in 1..n : (k - 1) * c + g <= n}
<1>0. g \in Nat \ {0} /\ g <= c
  OBVIOUS
<1>1. D \in SUBSET (1..n)
  OBVIOUS
<1>2. ASSUME NEW x \in D, NEW y \in 1..n, y <= x PROVE y \in D
  <2>1. x \in Nat \ {0} /\ y \in Nat \ {0} /\ (x - 1) * c + g <= n
    OBVIOUS
  <2>2. x - 1 \in Nat /\ y - 1 \in Nat /\ y - 1 <= x - 1
    BY <1>2, <2>1
  <2>3. (y - 1) * c <= (x - 1) * c /\ (y - 1) * c \in Nat /\ (x - 1) * c \in Nat
    BY <2>2, Product
  <2>4. (y - 1) * c + g <= n
    BY <1>0, <2>1, <2>3
  <2> QED
    BY <2>4
<1>3. ASSUME NEW k \in Nat \ {0}, (k - 1) * c + g <= n PROVE k \in 1..n
  <2>1. k - 1 \in Nat
    OBVIOUS
  <2>2. k - 1 <= (k - 1) * c /\ (k - 1) * c \in Nat
    BY <2>1, Product
  <2> QED
    BY <1>0, <1>3, <2>2
<1>4. \A k \in Nat \ {0} : k \in D <=> (k - 1) * c + g <= n
  BY <1>3
<1> HIDE DEF D
<1>5. Cardinality(D) \in 0..n /\ D = 1..Cardinality(D)
  BY <1>1, <1>2, InitialSegment
<1>6. Share(n, c, g) = Cardinality(D)
  BY DEF Share, D
<1> QED
  BY <1>4, <1>5, <1>6

\* The items of the groups are items.
LEMMA CountSplitIsList ==
  ASSUME NEW items, IsList(items), NEW c \in Nat \ {0}
  PROVE  /\ CountSplit(items, c) \in Seq(Seq(Range(items)))
         /\ Len(CountSplit(items, c)) = c
         /\ \A g \in 1..c :
              /\ Len(CountSplit(items, c)[g]) = Share(Len(items), c, g)
              /\ \A k \in 1..Share(Len(items), c, g) :
                   /\ CountSplit(items, c)[g][k] = items[(k - 1) * c + g]
                   /\ (k - 1) * c + g \in DOMAIN items
<1> DEFINE n == Len(items)
           R == Range(items)
           f == CountSplit(items, c)
<1>1. n \in Nat /\ DOMAIN items = 1..n /\ \A k \in DOMAIN items : items[k] \in R
  BY ListIsSeq
<1>2. ASSUME NEW g \in 1..c
      PROVE  /\ f[g] \in Seq(R) /\ Len(f[g]) = Share(n, c, g)
             /\ \A k \in 1..Share(n, c, g) :
                  f[g][k] = items[(k - 1) * c + g] /\ (k - 1) * c + g \in DOMAIN items
  <2> DEFINE m == Share(n, c, g)
  <2>1. f[g] = [k \in 1..m |-> items[(k - 1) * c + g]]
    BY DEF CountSplit, Share
  <2>2. m \in Nat
    BY <1>1, ShareIs
  <2>3. ASSUME NEW k \in 1..m PROVE (k - 1) * c + g \in 1..n
    <3>1. k \in Nat \ {0} /\ k - 1 \in Nat /\ g \in Nat \ {0}
      BY <2>2
    <3>2. (k - 1) * c \in Nat
      BY <3>1, Product
    <3>3. (k - 1) * c + g <= n
      BY <1>1, <2>3, <3>1, ShareIs
    <3> QED
      BY <1>1, <3>1, <3>2, <3>3
  <2> HIDE DEF m, f
  <2>4. \A k \in 1..m : f[g][k] = items[(k - 1) * c + g] /\ (k - 1) * c + g \in DOMAIN items
    BY <1>1, <2>1, <2>3
  <2>5. f[g] \in Seq(R) /\ Len(f[g]) = m
    <3>1. DOMAIN f[g] = 1..m /\ f[g] = [k \in DOMAIN f[g] |-> f[g][k]]
      BY <2>1
    <3>2. \A k \in 1..m : f[g][k] \in R
      BY <1>1, <2>4
    <3> HIDE DEF R
    <3> QED
      BY <2>2, <3>1, <3>2, Mapped
  <2> QED
    BY <2>4, <2>5 DEF m
<1>3. DOMAIN f = 1..c /\ f = [g \in DOMAIN f |-> f[g]]
  BY DEF CountSplit
<1> HIDE DEF f, R
<1>4. f \in Seq(Seq(R)) /\ Len(f) = c
  BY <1>2, <1>3, Mapped
<1> QED
  BY <1>2, <1>4 DEF f, R

LEMMA Division ==
  ASSUME NEW n \in Nat, NEW c \in Nat \ {0}
  PROVE  n \div c \in Nat /\ (n \div c) * c \in Nat /\ (n \div c) * c <= n /\ n < (n \div c) * c + c
<1>1. n \div c \in Nat /\ (n \div c) * c <= n /\ n < (n \div c) * c + c
  BY SMT
<1> QED
  BY <1>1, Product

NumberOfChunks(n, size) == (n + size - 1) \div size

\* The chunks are those that begin before the end.
LEMMA ChunksBegin ==
  ASSUME NEW n \in Nat, NEW size \in Nat \ {0}
  PROVE  /\ NumberOfChunks(n, size) \in Nat
         /\ \A x \in Nat : x < NumberOfChunks(n, size) <=> x * size < n
<1> DEFINE m == n + size - 1
           q == m \div size
<1>1. m \in Nat
  OBVIOUS
<1> HIDE DEF m
<1>2. q \in Nat /\ q * size \in Nat /\ q * size <= m /\ m < q * size + size
  BY <1>1, Division
<1>3. NumberOfChunks(n, size) = q
  BY DEF NumberOfChunks, m
<1> HIDE DEF q
<1>4. ASSUME NEW x \in Nat, x < q PROVE x * size < n
  <2>1. x * size + size <= q * size /\ x * size \in Nat
    BY <1>2, <1>4, Product
  <2> QED
    BY <1>2, <2>1 DEF m
<1>5. ASSUME NEW x \in Nat, x * size < n PROVE x < q
  <2>1. ASSUME q <= x PROVE FALSE
    <3>1. q * size <= x * size /\ x * size \in Nat
      BY <1>2, <2>1, Product
    <3> QED
      BY <1>2, <1>5, <3>1 DEF m
  <2> QED
    BY <1>2, <2>1
<1> QED
  BY <1>2, <1>3, <1>4, <1>5

ChunkSize(n, size, k) == IF k * size < n THEN size ELSE n - (k - 1) * size

\* A segment of a list.
LEMMA Segment ==
  ASSUME NEW R, NEW items \in Seq(R), NEW a \in Nat, NEW b \in Nat, a < b, b <= Len(items)
  PROVE  /\ SubSeq(items, a + 1, b) \in Seq(R) /\ Len(SubSeq(items, a + 1, b)) = b - a
         /\ \A j \in 1..(b - a) : SubSeq(items, a + 1, b)[j] = items[a + j]
<1>1. \A k \in (a + 1)..b : k \in 1..Len(items)
  OBVIOUS
<1>2. /\ SubSeq(items, a + 1, b) \in Seq(R)
      /\ Len(SubSeq(items, a + 1, b)) = b - a
  BY <1>1
<1>3. \A j \in 1..(b - a) : SubSeq(items, a + 1, b)[j] = items[(a + 1) + j - 1]
  BY <1>1
<1>4. \A j \in 1..(b - a) : (a + 1) + j - 1 = a + j
  OBVIOUS
<1> QED
  BY <1>2, <1>3, <1>4

LEMMA ChunksAreLists ==
  ASSUME NEW items, IsList(items), NEW size \in Nat \ {0}
  PROVE  LET f == Chunks(items, size)
             n == Len(items)
             m == NumberOfChunks(n, size)
         IN /\ f \in Seq(Seq(Range(items))) /\ Len(f) = m
            /\ \A k \in 1..m :
                 /\ Len(f[k]) = ChunkSize(n, size, k) /\ Len(f[k]) \in 1..size
                 /\ \A j \in 1..Len(f[k]) :
                      f[k][j] = items[(k - 1) * size + j] /\ (k - 1) * size + j \in DOMAIN items
<1> DEFINE f == Chunks(items, size)
           n == Len(items)
           m == NumberOfChunks(n, size)
           R == Range(items)
<1>1. n \in Nat /\ DOMAIN items = 1..n /\ items \in Seq(R) /\ m \in Nat
  BY ListIsSeq, ChunksBegin
<1>2. DOMAIN f = 1..m /\ f = [k \in DOMAIN f |-> f[k]]
  BY DEF Chunks, NumberOfChunks
<1>3. ASSUME NEW k \in 1..m
      PROVE  /\ f[k] \in Seq(R)
             /\ Len(f[k]) = ChunkSize(n, size, k) /\ Len(f[k]) \in 1..size
             /\ \A j \in 1..Len(f[k]) :
                  f[k][j] = items[(k - 1) * size + j] /\ (k - 1) * size + j \in DOMAIN items
  <2> DEFINE a == (k - 1) * size
             b == IF k * size < n THEN k * size ELSE n
  <2>1. f[k] = SubSeq(items, a + 1, b)
    BY <1>2 DEF Chunks, NumberOfChunks
  <2>2. k - 1 \in Nat /\ k \in Nat /\ a \in Nat /\ k * size \in Nat /\ k * size = a + size
    <3>1. k - 1 \in Nat /\ k \in Nat
      BY <1>1
    <3>2. k * size = (k - 1) * size + size
      BY <3>1
    <3> QED
      BY <3>1, <3>2, Product
  <2>3. a < n
    <3>1. k - 1 \in Nat /\ k - 1 < NumberOfChunks(n, size) /\ n \in Nat
      BY <1>1, <2>2
    <3> HIDE DEF n
    <3> QED
      BY <3>1, ChunksBegin
  <2>4. ChunkSize(n, size, k) = IF k * size < n THEN size ELSE n - a
    BY DEF ChunkSize
  <2> HIDE DEF a, f, R, n, m
  <2>5. b \in 1..n /\ a + 1 <= b /\ b <= a + size /\ b - a = ChunkSize(n, size, k)
    BY <1>1, <2>2, <2>3, <2>4
  <2> HIDE DEF b
  <2>6. DOMAIN items = 1..n /\ n = Len(items)
    BY <1>1 DEF n
  <2>7. /\ SubSeq(items, a + 1, b) \in Seq(R) /\ Len(SubSeq(items, a + 1, b)) = b - a
        /\ \A j \in 1..(b - a) : SubSeq(items, a + 1, b)[j] = items[a + j]
    <3>1. items \in Seq(R) /\ a \in Nat /\ b \in Nat /\ a < b /\ b <= Len(items)
      BY <1>1, <2>2, <2>5, <2>6
    <3> QED
      BY <3>1, Segment
  <2>8. \A j \in 1..(b - a) : a + j \in 1..n
    BY <1>1, <2>2, <2>5
  <2>9. b - a \in 1..size
    BY <1>1, <2>2, <2>5
  <2> QED
    BY <1>1, <2>1, <2>5, <2>7, <2>8, <2>9 DEF a
<1> HIDE DEF f, m, n, R
<1>4. f \in Seq(Seq(R)) /\ Len(f) = m
  BY <1>1, <1>2, <1>3, Mapped
<1> QED
  BY <1>3, <1>4 DEF f, m, n, R

-----------------------------------------------------------------------------
(* Sums over sets.                                                          *)

One(s)  == CHOOSE x \in s : TRUE
Rest(s) == s \ {One(s)}

LEMMA OneAndRest ==
  ASSUME NEW S, IsFiniteSet(S), NEW s \in SUBSET S, s # {}
  PROVE  /\ One(s) \in s /\ Rest(s) \in SUBSET S
         /\ Cardinality(s) \in Nat /\ Cardinality(Rest(s)) = Cardinality(s) - 1
         /\ Cardinality(s) # 0
<1>1. One(s) \in s
  BY DEF One
<1>2. IsFiniteSet(s)
  BY FS_Subset
<1> QED
  BY <1>1, <1>2, FS_CardinalityType, FS_RemoveElement, FS_EmptySet DEF Rest

\* What holds of the empty set, and of a set when it holds of what is left of it
\* without the element that is chosen first, holds of every part of a finite set.
LEMMA InductSets ==
  ASSUME NEW S, IsFiniteSet(S), NEW P \in SUBSET SUBSET S, {} \in P,
         \A s \in SUBSET S : s # {} /\ Rest(s) \in P => s \in P
  PROVE  P = SUBSET S
<1> DEFINE T == {Cardinality(s) : s \in (SUBSET S) \ P}
<1>1. SUFFICES ASSUME (SUBSET S) \ P # {} PROVE FALSE
  OBVIOUS
<1>2. T \in SUBSET Nat /\ T # {}
  BY <1>1, FS_Subset, FS_CardinalityType
<1> HIDE DEF T
<1>3. PICK n \in T : \A m \in T : ~(m < n)
  BY <1>2, Least
<1>4. PICK s \in (SUBSET S) \ P : n = Cardinality(s)
  BY <1>3 DEF T
<1>5. s # {} /\ s \in SUBSET S
  BY <1>4
<1>6. /\ Rest(s) \in SUBSET S /\ Cardinality(s) \in Nat
      /\ Cardinality(Rest(s)) = Cardinality(s) - 1
  BY <1>5, OneAndRest
<1>7. Rest(s) \notin P
  BY <1>4, <1>5
<1>8. Cardinality(Rest(s)) \in T
  BY <1>6, <1>7 DEF T
<1> QED
  BY <1>3, <1>4, <1>6, <1>8

\* A sum over a finite set is what its recursive definition says.
SumsOver(f, D, g) ==
  g = [s \in D |-> IF s = {} THEN 0 ELSE f[One(s)] + g[Rest(s)]]

LEMMA SumsExist ==
  ASSUME NEW S, IsFiniteSet(S), NEW f \in [S -> Nat]
  PROVE  \E g \in [SUBSET S -> Nat] : SumsOver(f, SUBSET S, g)
<1> DEFINE Sub(n) == {s \in SUBSET S : Cardinality(s) <= n}
           P == {n \in Nat : \E g \in [Sub(n) -> Nat] : SumsOver(f, Sub(n), g)}
<1>0. \A s \in SUBSET S : Cardinality(s) \in Nat /\ (Cardinality(s) <= 0 => s = {})
  BY FS_Subset, FS_CardinalityType, FS_EmptySet
<1>1. 0 \in P
  <2> DEFINE g == [s \in Sub(0) |-> 0]
  <2>1. g \in [Sub(0) -> Nat]
    OBVIOUS
  <2>2. SumsOver(f, Sub(0), g)
    BY <1>0 DEF SumsOver
  <2> QED
    BY <2>1, <2>2
<1>2. ASSUME NEW n \in P PROVE n + 1 \in P
  <2>1. PICK g \in [Sub(n) -> Nat] : SumsOver(f, Sub(n), g)
    OBVIOUS
  <2> DEFINE h == [s \in Sub(n + 1) |-> IF s = {} THEN 0 ELSE f[One(s)] + g[Rest(s)]]
  <2>2. ASSUME NEW s \in Sub(n + 1), s # {} PROVE One(s) \in S /\ Rest(s) \in Sub(n)
    <3>1. n \in Nat /\ s \in SUBSET S /\ Cardinality(s) <= n + 1
      OBVIOUS
    <3>2. /\ One(s) \in s /\ Rest(s) \in SUBSET S /\ Cardinality(s) \in Nat
          /\ Cardinality(Rest(s)) = Cardinality(s) - 1
      BY <2>2, <3>1, OneAndRest
    <3>3. Cardinality(Rest(s)) <= n
      BY <3>1, <3>2
    <3> QED
      BY <3>1, <3>2, <3>3
  <2>3. h \in [Sub(n + 1) -> Nat]
    BY <2>2
  <2>4. Sub(n) \subseteq Sub(n + 1)
    BY <1>0
  <2>5. \A s \in Sub(n) : h[s] = g[s]
    BY <2>1, <2>4 DEF SumsOver
  <2>6. \A s \in Sub(n + 1) : h[s] = IF s = {} THEN 0 ELSE f[One(s)] + h[Rest(s)]
    BY <2>2, <2>5
  <2>7. SumsOver(f, Sub(n + 1), h)
    BY <2>6 DEF SumsOver
  <2>8. n + 1 \in Nat
    OBVIOUS
  <2> QED
    BY <2>3, <2>7, <2>8
<1> HIDE DEF P
<1>3. P = Nat
  <2>1. P \in SUBSET Nat
    BY DEF P
  <2> QED
    BY <1>1, <1>2, <2>1, Induct
<1>4. Cardinality(S) \in P
  BY <1>3, FS_CardinalityType
<1>5. Sub(Cardinality(S)) = SUBSET S
  BY FS_Subset
<1> QED
  BY <1>4, <1>5 DEF P

LEMMA SumsAreNumbers ==
  ASSUME NEW S, IsFiniteSet(S), NEW f \in [S -> Nat], NEW g, SumsOver(f, SUBSET S, g)
  PROVE  g \in [SUBSET S -> Nat]
<1> DEFINE P == {s \in SUBSET S : g[s] \in Nat}
<1>1. g[{}] = 0 /\ \A s \in SUBSET S : s # {} => g[s] = f[One(s)] + g[Rest(s)]
  BY DEF SumsOver
<1>2. {} \in P
  BY <1>1
<1>3. ASSUME NEW s \in SUBSET S, s # {}, Rest(s) \in P PROVE s \in P
  <2>1. One(s) \in S
    BY <1>3, OneAndRest
  <2> QED
    BY <1>1, <1>3, <2>1
<1>4. P \in SUBSET SUBSET S
  OBVIOUS
<1> HIDE DEF P
<1>5. P = SUBSET S
  BY <1>2, <1>3, <1>4, InductSets
<1>6. \A s \in SUBSET S : g[s] \in Nat
  BY <1>5 DEF P
<1> QED
  BY <1>6 DEF SumsOver

Column(rows, count) == [k \in DOMAIN rows |-> rows[k][count]]
PassedIn(rows)      == [k \in DOMAIN rows |-> Passed(rows[k].jobs)]

\* What the total of a column adds up.
LEMMA TotalSums ==
  ASSUME NEW rows, NEW count, IsFiniteSet(DOMAIN rows),
         Column(rows, count) \in [DOMAIN rows -> Nat]
  PROVE  \E g \in [SUBSET DOMAIN rows -> Nat] :
           /\ SumsOver(Column(rows, count), SUBSET DOMAIN rows, g)
           /\ Total(rows, count) = g[DOMAIN rows]
<1> DEFINE D == DOMAIN rows
           f == Column(rows, count)
           Adds(g) == g = [s \in SUBSET D |->
             IF s = {} THEN 0 ELSE rows[One(s)][count] + g[Rest(s)]]
           h == CHOOSE g : Adds(g)
<1>1. Total(rows, count) = h[D]
  BY DEF Total, MapThenSumSet, MapThenFoldSet, One, Rest
<1>2. \A s \in SUBSET D : s # {} => One(s) \in D
  BY OneAndRest
<1>3. \A g : Adds(g) <=> SumsOver(f, SUBSET D, g)
  BY <1>2 DEF SumsOver, Column
<1> HIDE DEF Adds, f
<1>4. \E g : Adds(g)
  <2> f \in [D -> Nat]
    BY DEF f
  <2>1. \E g \in [SUBSET D -> Nat] : SumsOver(f, SUBSET D, g)
    BY SumsExist
  <2> QED
    BY <1>3, <2>1
<1>5. SumsOver(f, SUBSET D, h)
  BY <1>3, <1>4
<1> HIDE DEF h
<1> QED
  BY <1>1, <1>5, SumsAreNumbers DEF f

LEMMA PassedSums ==
  ASSUME NEW rows, IsFiniteSet(DOMAIN rows),
         PassedIn(rows) \in [DOMAIN rows -> Nat]
  PROVE  \E g \in [SUBSET DOMAIN rows -> Nat] :
           /\ SumsOver(PassedIn(rows), SUBSET DOMAIN rows, g)
           /\ MapThenSumSet(LAMBDA k : Passed(rows[k].jobs), DOMAIN rows) = g[DOMAIN rows]
<1> DEFINE D == DOMAIN rows
           f == PassedIn(rows)
           Adds(g) == g = [s \in SUBSET D |->
             IF s = {} THEN 0 ELSE Passed(rows[One(s)].jobs) + g[Rest(s)]]
           h == CHOOSE g : Adds(g)
<1>1. MapThenSumSet(LAMBDA k : Passed(rows[k].jobs), DOMAIN rows) = h[D]
  BY DEF MapThenSumSet, MapThenFoldSet, One, Rest
<1>2. \A s \in SUBSET D : s # {} => One(s) \in D
  BY OneAndRest
<1>3. \A g : Adds(g) <=> SumsOver(f, SUBSET D, g)
  BY <1>2 DEF SumsOver, PassedIn
<1> HIDE DEF Adds, f
<1>4. \E g : Adds(g)
  <2> f \in [D -> Nat]
    BY DEF f
  <2>1. \E g \in [SUBSET D -> Nat] : SumsOver(f, SUBSET D, g)
    BY SumsExist
  <2> QED
    BY <1>3, <2>1
<1>5. SumsOver(f, SUBSET D, h)
  BY <1>3, <1>4
<1> HIDE DEF h
<1> QED
  BY <1>1, <1>5, SumsAreNumbers DEF f

\* A sum is no more than two others if each of its terms is.
LEMMA SumsCompare ==
  ASSUME NEW S, IsFiniteSet(S),
         NEW f \in [S -> Nat], NEW a \in [S -> Nat], NEW b \in [S -> Nat],
         \A k \in S : f[k] <= a[k] + b[k],
         NEW sf \in [SUBSET S -> Nat], SumsOver(f, SUBSET S, sf),
         NEW sa \in [SUBSET S -> Nat], SumsOver(a, SUBSET S, sa),
         NEW sb \in [SUBSET S -> Nat], SumsOver(b, SUBSET S, sb)
  PROVE  sf[S] <= sa[S] + sb[S]
<1> DEFINE P == {s \in SUBSET S : sf[s] <= sa[s] + sb[s]}
<1>1. /\ sf[{}] = 0 /\ \A s \in SUBSET S : s # {} => sf[s] = f[One(s)] + sf[Rest(s)]
      /\ sa[{}] = 0 /\ \A s \in SUBSET S : s # {} => sa[s] = a[One(s)] + sa[Rest(s)]
      /\ sb[{}] = 0 /\ \A s \in SUBSET S : s # {} => sb[s] = b[One(s)] + sb[Rest(s)]
  BY DEF SumsOver
<1>2. {} \in P
  BY <1>1
<1>3. ASSUME NEW s \in SUBSET S, s # {}, Rest(s) \in P PROVE s \in P
  <2>1. One(s) \in S /\ Rest(s) \in SUBSET S
    BY <1>3, OneAndRest
  <2>2. /\ f[One(s)] \in Nat /\ a[One(s)] \in Nat /\ b[One(s)] \in Nat
        /\ f[One(s)] <= a[One(s)] + b[One(s)]
        /\ sf[Rest(s)] \in Nat /\ sa[Rest(s)] \in Nat /\ sb[Rest(s)] \in Nat
        /\ sf[Rest(s)] <= sa[Rest(s)] + sb[Rest(s)]
    BY <1>3, <2>1
  <2>3. sf[s] <= sa[s] + sb[s]
    BY <1>1, <1>3, <2>2
  <2> QED
    BY <2>3
<1>4. P \in SUBSET SUBSET S
  OBVIOUS
<1> HIDE DEF P
<1>5. P = SUBSET S
  BY <1>2, <1>3, <1>4, InductSets
<1> QED
  BY <1>5 DEF P

\* Rows that count no more jobs than failed and passed.
Counted(row) ==
  /\ row.total \in Nat /\ row.failed \in Nat /\ row.timed_out \in Nat
  /\ Passed(row.jobs) \in Nat
  /\ row.total <= row.failed + Passed(row.jobs)

LEMMA TotalsAreTrue ==
  ASSUME NEW rows, IsFiniteSet(DOMAIN rows), \A k \in DOMAIN rows : Counted(rows[k])
  PROVE  TotalsOf(rows).jobs_passed <= MapThenSumSet(LAMBDA k : Passed(rows[k].jobs), DOMAIN rows)
<1> DEFINE D == DOMAIN rows
           t == Column(rows, "total")
           f == Column(rows, "failed")
           m == Column(rows, "timed_out")
           p == PassedIn(rows)
           sum == MapThenSumSet(LAMBDA k : Passed(rows[k].jobs), DOMAIN rows)
<1>1. t \in [D -> Nat] /\ f \in [D -> Nat]
  BY DEF Counted, Column
<1>2. m \in [D -> Nat]
  BY DEF Counted, Column
<1>12. p \in [D -> Nat]
  BY DEF Counted, PassedIn
<1>13. \A k \in D : t[k] <= f[k] + p[k]
  BY DEF Counted, Column, PassedIn
<1>3. PICK gt \in [SUBSET D -> Nat] : SumsOver(t, SUBSET D, gt) /\ Total(rows, "total") = gt[D]
  BY <1>1, TotalSums
<1>4. PICK gf \in [SUBSET D -> Nat] : SumsOver(f, SUBSET D, gf) /\ Total(rows, "failed") = gf[D]
  BY <1>1, TotalSums
<1>5. PICK gm \in [SUBSET D -> Nat] : SumsOver(m, SUBSET D, gm) /\ Total(rows, "timed_out") = gm[D]
  BY <1>2, TotalSums
<1>6. PICK gp \in [SUBSET D -> Nat] : SumsOver(p, SUBSET D, gp) /\ sum = gp[D]
  BY <1>12, PassedSums
<1> HIDE DEF t, f, m, p, sum
<1>7. gt[D] <= gf[D] + gp[D]
  BY <1>1, <1>12, <1>13, <1>3, <1>4, <1>6, SumsCompare
<1>8. D \in SUBSET D
  OBVIOUS
<1> DEFINE left == Total(rows, "total") - Total(rows, "failed") - Total(rows, "timed_out")
<1>11. TotalsOf(rows).jobs_passed = IF left > 0 THEN left ELSE 0
  BY DEF TotalsOf
<1>10. (IF left > 0 THEN left ELSE 0) <= sum
  BY <1>3, <1>4, <1>5, <1>6, <1>7, <1>8
<1> QED
  BY <1>10, <1>11 DEF sum

-----------------------------------------------------------------------------
(* How often the jobs name an item.                                         *)

LEMMA SameNumber ==
  ASSUME NEW S, NEW T, IsFiniteSet(S), NEW f \in [S -> T],
         \A x, y \in S : f[x] = f[y] => x = y,
         \A t \in T : \E x \in S : f[x] = t
  PROVE  IsFiniteSet(T) /\ Cardinality(T) = Cardinality(S)
<1>1. f \in Bijection(S, T)
  BY DEF Bijection, Injection, Surjection, IsInjective
<1>2. ExistsBijection(S, T)
  BY <1>1 DEF ExistsBijection
<1> QED
  BY <1>2, FS_Bijection

LEMMA Disjoint ==
  ASSUME NEW S, NEW T, IsFiniteSet(S), IsFiniteSet(T), S \cap T = {}
  PROVE  IsFiniteSet(S \cup T) /\ Cardinality(S \cup T) = Cardinality(S) + Cardinality(T)
<1>1. Cardinality(S) \in Nat /\ Cardinality(T) \in Nat /\ Cardinality({}) = 0
  BY FS_CardinalityType, FS_EmptySet
<1>2. IsFiniteSet(S \cup T) /\ Cardinality(S \cup T) = Cardinality(S) + Cardinality(T) - Cardinality({})
  BY FS_Union
<1> QED
  BY <1>1, <1>2

\* Where an item stands in the jobs.
NamedAt(job, x)  == {n \in DOMAIN job : job[n] = x}
PlacesIn(J, D, x) == UNION {{<<j, n>> : n \in NamedAt(J[j], x)} : j \in D}
Places(J, x)     == PlacesIn(J, DOMAIN J, x)

LEMMA NamedIsFinite ==
  ASSUME NEW job, IsList(job), NEW x
  PROVE  IsFiniteSet(NamedAt(job, x)) /\ Cardinality(NamedAt(job, x)) \in Nat
<1>1. Len(job) \in Nat /\ DOMAIN job = 1..Len(job)
  BY ListIsSeq
<1>2. IsFiniteSet(1..Len(job)) /\ NamedAt(job, x) \in SUBSET (1..Len(job))
  BY <1>1, FS_Interval DEF NamedAt
<1> QED
  BY <1>2, FS_Subset, FS_CardinalityType

LEMMA OneJob ==
  ASSUME NEW j, NEW N, IsFiniteSet(N)
  PROVE  LET P == {<<j, n>> : n \in N}
         IN IsFiniteSet(P) /\ Cardinality(P) = Cardinality(N)
<1> DEFINE P == {<<j, n>> : n \in N}
           f == [n \in N |-> <<j, n>>]
<1>1. f \in [N -> P] /\ (\A x, y \in N : f[x] = f[y] => x = y) /\ (\A t \in P : \E x \in N : f[x] = t)
  OBVIOUS
<1> HIDE DEF P, f
<1>2. IsFiniteSet(P) /\ Cardinality(P) = Cardinality(N)
  BY <1>1, SameNumber
<1> QED
  BY <1>2 DEF P

\* The sum over the jobs counts the places.
LEMMA SumIsCount ==
  ASSUME NEW J, IsList(J), \A j \in DOMAIN J : IsList(J[j]), NEW x
  PROVE  /\ IsFiniteSet(Places(J, x)) /\ Cardinality(Places(J, x)) \in Nat
         /\ MapThenSumSet(LAMBDA j : Named(J[j], x), DOMAIN J) = Cardinality(Places(J, x))
<1> DEFINE D == DOMAIN J
           f == [j \in D |-> Cardinality(NamedAt(J[j], x))]
           Adds(g) == g = [s \in SUBSET D |-> IF s = {} THEN 0 ELSE Named(J[One(s)], x) + g[Rest(s)]]
           h == CHOOSE g : Adds(g)
           P == {s \in SUBSET D : IsFiniteSet(PlacesIn(J, s, x)) /\ h[s] = Cardinality(PlacesIn(J, s, x))}
<1>1. MapThenSumSet(LAMBDA j : Named(J[j], x), DOMAIN J) = h[D]
  BY DEF MapThenSumSet, MapThenFoldSet, One, Rest
<1>2. IsFiniteSet(D)
  BY ListIsSeq, FS_Interval
<1>3. \A s \in SUBSET D : s # {} => One(s) \in D
  BY <1>2, OneAndRest
<1>4. \A j \in D : Named(J[j], x) = f[j] /\ f[j] = Cardinality(NamedAt(J[j], x))
  BY DEF Named, NamedAt
<1>5. f \in [D -> Nat]
  BY NamedIsFinite
<1> HIDE DEF f
<1>6. \A g : Adds(g) <=> SumsOver(f, SUBSET D, g)
  BY <1>3, <1>4 DEF SumsOver
<1> HIDE DEF Adds
<1>7. \E g : Adds(g)
  <2>1. \E g \in [SUBSET D -> Nat] : SumsOver(f, SUBSET D, g)
    BY <1>2, <1>5, SumsExist
  <2> QED
    BY <1>6, <2>1
<1>8. SumsOver(f, SUBSET D, h)
  BY <1>6, <1>7
<1> HIDE DEF h, D
<1>9. h[{}] = 0 /\ \A s \in SUBSET D : s # {} => h[s] = f[One(s)] + h[Rest(s)]
  BY <1>8 DEF SumsOver
<1>10. {} \in P
  <2>1. PlacesIn(J, {}, x) = {}
    BY DEF PlacesIn
  <2> QED
    BY <1>9, <2>1, FS_EmptySet
<1>11. ASSUME NEW s \in SUBSET D, s # {}, Rest(s) \in P PROVE s \in P
  <2> DEFINE j == One(s)
             A == {<<j, n>> : n \in NamedAt(J[j], x)}
             B == PlacesIn(J, Rest(s), x)
  <2>1. j \in s /\ j \in D /\ s = Rest(s) \cup {j} /\ j \notin Rest(s)
    BY <1>2, <1>11, OneAndRest DEF Rest
  <2> HIDE DEF j
  <2>2. IsFiniteSet(NamedAt(J[j], x))
    BY <2>1, NamedIsFinite DEF D
  <2>3. IsFiniteSet(A) /\ Cardinality(A) = f[j]
    <3> DEFINE N == NamedAt(J[j], x)
    <3>1. f[j] = Cardinality(N)
      BY <1>4, <2>1
    <3>2. IsFiniteSet(N)
      BY <2>2
    <3> HIDE DEF N
    <3>3. IsFiniteSet({<<j, n>> : n \in N}) /\ Cardinality({<<j, n>> : n \in N}) = Cardinality(N)
      BY <3>2, OneJob
    <3> QED
      BY <3>1, <3>3 DEF N
  <2>4. IsFiniteSet(B) /\ h[Rest(s)] = Cardinality(B)
    BY <1>11
  <2>5. PlacesIn(J, s, x) = A \cup B
    BY <2>1 DEF PlacesIn
  <2>6. A \cap B = {}
    BY <2>1 DEF PlacesIn
  <2> HIDE DEF A, B
  <2>7. IsFiniteSet(A \cup B) /\ Cardinality(A \cup B) = Cardinality(A) + Cardinality(B)
    BY <2>3, <2>4, <2>6, Disjoint
  <2>8. h[s] = f[j] + h[Rest(s)]
    BY <1>9, <1>11 DEF j
  <2> QED
    BY <2>3, <2>4, <2>5, <2>7, <2>8
<1>12. P \in SUBSET SUBSET D
  OBVIOUS
<1> HIDE DEF P
<1>13. P = SUBSET D
  BY <1>2, <1>10, <1>11, <1>12, InductSets
<1>14. IsFiniteSet(PlacesIn(J, D, x)) /\ h[D] = Cardinality(PlacesIn(J, D, x))
  BY <1>13 DEF P
<1> QED
  BY <1>1, <1>14, FS_CardinalityType DEF Places, D

Count(J, x) == Cardinality(Places(J, x))

LEMMA PlacesAre ==
  ASSUME NEW J, NEW x
  PROVE  /\ \A j \in DOMAIN J : \A n \in DOMAIN J[j] : J[j][n] = x => <<j, n>> \in Places(J, x)
         /\ \A p \in Places(J, x) : /\ p = <<p[1], p[2]>> /\ p[1] \in DOMAIN J
                                    /\ p[2] \in DOMAIN J[p[1]] /\ J[p[1]][p[2]] = x
  BY DEF Places, PlacesIn, NamedAt

LEMMA PlacesAreFinite ==
  ASSUME NEW R, NEW J \in Seq(Seq(R)), NEW x
  PROVE  IsFiniteSet(Places(J, x)) /\ Count(J, x) \in Nat
<1>1. IsList(J)
  BY SeqIsList
<1>2. \A j \in DOMAIN J : J[j] \in Seq(R)
  OBVIOUS
<1>3. \A j \in DOMAIN J : IsList(J[j])
  BY <1>2, SeqIsList
<1> QED
  BY <1>1, <1>3, SumIsCount DEF Count

LEMMA CountEmpty ==
  ASSUME NEW x
  PROVE  Count(<<>>, x) = 0 /\ Count(<< <<>> >>, x) = 0
<1>1. Places(<<>>, x) = {} /\ Places(<< <<>> >>, x) = {}
  BY DEF Places, PlacesIn, NamedAt
<1> QED
  BY <1>1, FS_EmptySet DEF Count

LEMMA CountConcat ==
  ASSUME NEW R, NEW J \in Seq(Seq(R)), NEW K \in Seq(Seq(R)), NEW x
  PROVE  Count(J \o K, x) = Count(J, x) + Count(K, x)
<1> DEFINE A == Places(J, x)
           B == Places(K, x)
           L == Len(J)
           f == [p \in B |-> <<p[1] + L, p[2]>>]
           C == {f[p] : p \in B}
           U == J \o K
<1>1. IsFiniteSet(A) /\ IsFiniteSet(B)
  BY PlacesAreFinite
<1>2. L \in Nat /\ DOMAIN J = 1..L /\ Len(K) \in Nat /\ DOMAIN K = 1..Len(K)
  OBVIOUS
<1>3. /\ DOMAIN U = 1..(L + Len(K)) /\ (\A j \in 1..L : U[j] = J[j])
      /\ \A j \in 1..Len(K) : U[j + L] = K[j]
  <2>1. \A j \in 1..Len(K) : U[L + j] = K[j] /\ L + j = j + L
    BY <1>2
  <2>2. DOMAIN U = 1..(L + Len(K)) /\ \A j \in 1..L : U[j] = J[j]
    BY <1>2
  <2> QED
    BY <2>1, <2>2
<1> HIDE DEF U, L
<1>4. A \subseteq Places(U, x)
  <2> SUFFICES ASSUME NEW p \in A PROVE p \in Places(U, x)
    OBVIOUS
  <2>1. /\ p = <<p[1], p[2]>> /\ p[1] \in 1..L /\ p[2] \in DOMAIN J[p[1]] /\ J[p[1]][p[2]] = x
    BY <1>2, PlacesAre
  <2>2. p[1] \in DOMAIN U /\ U[p[1]] = J[p[1]]
    BY <1>2, <1>3, <2>1
  <2> QED
    BY <2>1, <2>2, PlacesAre
<1>5. C \subseteq Places(U, x)
  <2> SUFFICES ASSUME NEW p \in B PROVE f[p] \in Places(U, x)
    OBVIOUS
  <2>1. /\ p[1] \in 1..Len(K) /\ p[2] \in DOMAIN K[p[1]] /\ K[p[1]][p[2]] = x
    BY <1>2, PlacesAre
  <2>2. p[1] + L \in DOMAIN U /\ U[p[1] + L] = K[p[1]] /\ f[p] = <<p[1] + L, p[2]>>
    BY <1>2, <1>3, <2>1
  <2> QED
    BY <2>1, <2>2, PlacesAre
<1>6. Places(U, x) \subseteq A \cup C
  <2> SUFFICES ASSUME NEW p \in Places(U, x) PROVE p \in A \cup C
    OBVIOUS
  <2>1. /\ p = <<p[1], p[2]>> /\ p[1] \in DOMAIN U /\ p[2] \in DOMAIN U[p[1]] /\ U[p[1]][p[2]] = x
    BY PlacesAre
  <2>2. CASE p[1] \in 1..L
    <3>1. p[1] \in DOMAIN J /\ U[p[1]] = J[p[1]]
      BY <1>2, <1>3, <2>2
    <3>2. <<p[1], p[2]>> \in A
      BY <2>1, <3>1, PlacesAre
    <3> QED
      BY <2>1, <3>2
  <2>3. CASE p[1] \notin 1..L
    <3> DEFINE j == p[1] - L
               q == <<j, p[2]>>
    <3>1. j \in 1..Len(K) /\ j + L = p[1]
      BY <1>2, <1>3, <2>1, <2>3
    <3>2. U[p[1]] = K[j]
      BY <1>3, <3>1
    <3>3. q \in B
      BY <1>2, <2>1, <3>1, <3>2, PlacesAre
    <3>4. f[q] = p
      BY <2>1, <3>1, <3>3
    <3> QED
      BY <3>3, <3>4
  <2> QED
    BY <2>2, <2>3
<1>7. A \cap C = {}
  <2> SUFFICES ASSUME NEW p \in B, f[p] \in A PROVE FALSE
    OBVIOUS
  <2>1. p[1] \in 1..Len(K) /\ f[p][1] = p[1] + L
    BY <1>2, PlacesAre
  <2>2. f[p][1] \in 1..L
    BY <1>2, PlacesAre
  <2> QED
    BY <1>2, <2>1, <2>2
<1>8. IsFiniteSet(C) /\ Cardinality(C) = Cardinality(B)
  <2>1. \A p, q \in B : f[p] = f[q] => p = q
    <3> SUFFICES ASSUME NEW p \in B, NEW q \in B, f[p] = f[q] PROVE p = q
      OBVIOUS
    <3>1. /\ p = <<p[1], p[2]>> /\ q = <<q[1], q[2]>> /\ p[1] \in 1..Len(K) /\ q[1] \in 1..Len(K)
          /\ p[1] + L = q[1] + L /\ p[2] = q[2]
      BY <1>2, PlacesAre
    <3>2. p[1] = q[1]
      BY <1>2, <3>1
    <3> QED
      BY <3>1, <3>2
  <2>2. f \in [B -> C] /\ \A t \in C : \E p \in B : f[p] = t
    OBVIOUS
  <2> HIDE DEF f, C, B
  <2> QED
    BY <1>1, <2>1, <2>2, SameNumber
<1>9. Places(U, x) = A \cup C
  BY <1>4, <1>5, <1>6
<1> HIDE DEF A, B, C
<1>10. Cardinality(A \cup C) = Cardinality(A) + Cardinality(B)
  BY <1>1, <1>7, <1>8, Disjoint
<1> QED
  BY <1>9, <1>10 DEF Count, A, B, U

\* Repeated jobs name each item as many times more.
LEMMA CountRepeated ==
  ASSUME NEW R, NEW T, T \subseteq Seq(R), NEW J \in Seq(T), NEW rounds \in Nat, NEW x
  PROVE  /\ Repeated(J, rounds) \in Seq(T)
         /\ Count(Repeated(J, rounds), x) = rounds * Count(J, x)
<1> DEFINE s == [r \in 1..rounds |-> J]
           n == Len(s)
<1>1. s \in Seq(Seq(T)) /\ n = rounds /\ \A k \in 1..rounds : s[k] = J
  OBVIOUS
<1>2. Repeated(J, rounds) = FlattenSeq(s)
  BY DEF Repeated
<1> HIDE DEF s
<1>3. PICK f : /\ f[0] = <<>> /\ FlattenSeq(s) = f[n]
               /\ \A k \in 1..n : f[k] = f[k - 1] \o s[k]
               /\ \A k \in 0..n : f[k] \in Seq(T)
  BY <1>1, FlattenSteps
<1> HIDE DEF n
<1> DEFINE c == Count(J, x)
           P == {k \in Nat : k <= rounds => Count(f[k], x) = k * c}
<1>4. c \in Nat
  <2>1. J \in Seq(Seq(R))
    OBVIOUS
  <2> QED
    BY <2>1, PlacesAreFinite
<1> HIDE DEF c
<1>5. 0 \in P
  BY <1>3, <1>4, CountEmpty
<1>6. ASSUME NEW k \in P PROVE k + 1 \in P
  <2>1. SUFFICES ASSUME k + 1 <= rounds PROVE Count(f[k + 1], x) = (k + 1) * c
    OBVIOUS
  <2>2. k \in Nat /\ k \in 0..n /\ k + 1 \in 1..n /\ (k + 1) - 1 = k
    BY <1>1, <2>1
  <2>3. f[k + 1] = f[k] \o J /\ f[k] \in Seq(T)
    BY <1>1, <1>3, <2>2
  <2>4. f[k] \in Seq(Seq(R)) /\ J \in Seq(Seq(R))
    BY <2>3
  <2>5. Count(f[k + 1], x) = Count(f[k], x) + c
    BY <2>3, <2>4, CountConcat DEF c
  <2>6. Count(f[k], x) = k * c
    BY <2>1, <2>2
  <2>7. k * c + c = (k + 1) * c
    BY <1>4, <2>2
  <2> QED
    BY <2>5, <2>6, <2>7
<1> HIDE DEF P
<1>7. P = Nat
  <2>1. P \in SUBSET Nat
    BY DEF P
  <2> QED
    BY <1>5, <1>6, <2>1, Induct
<1>8. Count(f[rounds], x) = rounds * c
  BY <1>7 DEF P
<1> QED
  BY <1>1, <1>2, <1>3, <1>8 DEF c

Filled(groups) == {g \in Range(groups) : g # <<>>}

\* The groups that are not empty name what all of them name.
LEMMA CountKept ==
  ASSUME NEW R, NEW groups \in Seq(Seq(R)), NEW x
  PROVE  /\ Kept(groups, LAMBDA g : g # <<>>) \in Seq(Filled(groups))
         /\ Count(Kept(groups, LAMBDA g : g # <<>>), x) = Count(groups, x)
<1> DEFINE T == Filled(groups)
           s == [k \in DOMAIN groups |-> IF groups[k] # <<>> THEN <<groups[k]>> ELSE <<>>]
           n == Len(groups)
           K == Kept(groups, LAMBDA g : g # <<>>)
<1>1. K = FlattenSeq(s)
  BY DEF Kept
<1>2. n \in Nat /\ DOMAIN groups = 1..n /\ (\A k \in 1..n : groups[k] \in Seq(R) /\ groups[k] \in Range(groups))
  BY DEF Range
<1>3. T \subseteq Seq(R)
  BY <1>2 DEF Filled, Range
<1>4. ASSUME NEW k \in 1..n PROVE s[k] \in Seq(T)
  <2>1. s[k] = IF groups[k] # <<>> THEN <<groups[k]>> ELSE <<>>
    BY <1>2
  <2>2. groups[k] # <<>> => groups[k] \in T
    BY <1>2 DEF Filled
  <2> HIDE DEF T, s
  <2> QED
    BY <2>1, <2>2
<1>5. s \in Seq(Seq(T)) /\ Len(s) = n
  <2>1. DOMAIN s = 1..n /\ s = [k \in DOMAIN s |-> s[k]]
    BY <1>2
  <2> HIDE DEF s, T
  <2> QED
    BY <1>2, <1>4, <2>1, Mapped
<1>6. \A k \in 1..n : s[k] = IF groups[k] # <<>> THEN <<groups[k]>> ELSE <<>>
  BY <1>2
<1> HIDE DEF s, K, T
<1> HIDE DEF n
<1>14. PICK f : /\ f[0] = <<>> /\ FlattenSeq(s) = f[Len(s)]
                /\ \A k \in 1..Len(s) : f[k] = f[k - 1] \o s[k]
                /\ \A k \in 0..Len(s) : f[k] \in Seq(T)
  BY <1>5, FlattenSteps
<1>7. /\ f[0] = <<>> /\ FlattenSeq(s) = f[n]
      /\ \A k \in 1..n : f[k] = f[k - 1] \o s[k]
      /\ \A k \in 0..n : f[k] \in Seq(T)
  BY <1>5, <1>14
<1> DEFINE U(k) == SubSeq(groups, 1, k)
           P == {k \in Nat : k <= n => Count(f[k], x) = Count(U(k), x)}
<1>8. n = Len(groups) /\ U(0) = <<>> /\ U(n) = groups
  BY DEF n
<1>9. 0 \in P
  BY <1>7, <1>8
<1>10. ASSUME NEW k \in P PROVE k + 1 \in P
  <2>1. SUFFICES ASSUME k + 1 <= n PROVE Count(f[k + 1], x) = Count(U(k + 1), x)
    OBVIOUS
  <2>2. k \in Nat /\ k \in 0..n /\ k + 1 \in 1..n /\ (k + 1) - 1 = k
    BY <1>2, <2>1
  <2> DEFINE g == groups[k + 1]
  <2>3. f[k + 1] = f[k] \o s[k + 1] /\ f[k] \in Seq(T) /\ s[k + 1] \in Seq(T)
    BY <1>4, <1>7, <2>2
  <2>4. f[k] \in Seq(Seq(R)) /\ s[k + 1] \in Seq(Seq(R)) /\ <<g>> \in Seq(Seq(R)) /\ U(k) \in Seq(Seq(R))
    BY <1>2, <1>3, <1>8, <2>2, <2>3
  <2>5. U(k + 1) = U(k) \o <<g>>
    BY <1>2, <1>8, <2>2
  <2>6. s[k + 1] = IF g # <<>> THEN <<g>> ELSE <<>>
    BY <1>6, <2>2
  <2> DEFINE v == <<g>>
             u == U(k)
  <2> HIDE DEF g, U
  <2>7. Count(s[k + 1], x) = Count(<<g>>, x)
    BY <2>6, CountEmpty
  <2>8. Count(f[k + 1], x) = Count(f[k], x) + Count(s[k + 1], x)
    BY <2>3, <2>4, CountConcat
  <2>9. Count(U(k + 1), x) = Count(U(k), x) + Count(<<g>>, x)
    <3>1. U(k + 1) = u \o v /\ u \in Seq(Seq(R)) /\ v \in Seq(Seq(R))
      BY <2>4, <2>5
    <3> HIDE DEF u, v
    <3>2. Count(u \o v, x) = Count(u, x) + Count(v, x)
      BY <3>1, CountConcat
    <3> QED
      BY <3>1, <3>2 DEF u, v
  <2>10. Count(f[k], x) = Count(U(k), x)
    BY <2>1, <2>2
  <2> QED
    BY <2>7, <2>8, <2>9, <2>10
<1> HIDE DEF P
<1>11. P = Nat
  <2>1. P \in SUBSET Nat
    BY DEF P
  <2> QED
    BY <1>9, <1>10, <2>1, Induct
<1>12. Count(f[n], x) = Count(groups, x)
  <2>1. n \in P /\ n <= n
    BY <1>2, <1>11
  <2>2. Count(f[n], x) = Count(U(n), x)
    BY <2>1 DEF P
  <2> QED
    BY <1>8, <2>2
<1>13. f[n] \in Seq(T)
  BY <1>2, <1>7
<1> QED
  BY <1>1, <1>7, <1>12, <1>13 DEF K, T

\* Dealing the items out names each as often as it stands among them.
LEMMA CountOfSplit ==
  ASSUME NEW items, IsList(items), NEW c \in Nat \ {0}, NEW x
  PROVE  Count(CountSplit(items, c), x) = Cardinality(NamedAt(items, x))
<1> DEFINE J == CountSplit(items, c)
           n == Len(items)
           S == Places(J, x)
           T == NamedAt(items, x)
           f == [p \in S |-> (p[2] - 1) * c + p[1]]
<1>1. n \in Nat /\ DOMAIN items = 1..n
  BY ListIsSeq
<1>2. /\ J \in Seq(Seq(Range(items))) /\ DOMAIN J = 1..c
      /\ \A g \in 1..c : /\ DOMAIN J[g] = 1..Share(n, c, g)
                         /\ \A k \in 1..Share(n, c, g) :
                              J[g][k] = items[(k - 1) * c + g] /\ (k - 1) * c + g \in DOMAIN items
  BY CountSplitIsList
<1>3. IsFiniteSet(S)
  BY <1>2, PlacesAreFinite
<1>4. ASSUME NEW p \in S
      PROVE  /\ p = <<p[1], p[2]>> /\ p[1] \in 1..c /\ p[2] \in Nat \ {0}
             /\ (p[2] - 1) * c \in Nat /\ (p[2] - 1) * c + p[1] \in T
  <2>1. /\ p = <<p[1], p[2]>> /\ p[1] \in 1..c /\ p[2] \in 1..Share(n, c, p[1]) /\ J[p[1]][p[2]] = x
    <3>1. /\ p = <<p[1], p[2]>> /\ p[1] \in DOMAIN J
          /\ p[2] \in DOMAIN J[p[1]] /\ J[p[1]][p[2]] = x
      BY PlacesAre
    <3> HIDE DEF J, n
    <3> QED
      BY <1>2, <3>1
  <2>2. p[2] \in Nat \ {0}
    BY <1>1, <2>1, ShareIs
  <2>3. p[2] - 1 \in Nat
    BY <2>2
  <2> QED
    BY <1>2, <2>1, <2>2, <2>3, Product DEF NamedAt
<1>5. f \in [S -> T]
  BY <1>4
<1>6. ASSUME NEW p \in S, NEW q \in S, f[p] = f[q] PROVE p = q
  <2> DEFINE a == p[2] - 1
             b == q[2] - 1
  <2>1. /\ p = <<p[1], p[2]>> /\ q = <<q[1], q[2]>> /\ p[1] \in 1..c /\ q[1] \in 1..c
        /\ a \in Nat /\ b \in Nat /\ a * c \in Nat /\ b * c \in Nat
        /\ p[2] = a + 1 /\ q[2] = b + 1 /\ a * c + p[1] = b * c + q[1]
    BY <1>4, <1>6
  <2> HIDE DEF a, b
  <2>2. ~(a < b)
    <3>1. a < b => a * c + c <= b * c
      BY <2>1, Product
    <3> QED
      BY <2>1, <3>1
  <2>3. ~(b < a)
    <3>1. b < a => b * c + c <= a * c
      BY <2>1, Product
    <3> QED
      BY <2>1, <3>1
  <2>4. a = b
    BY <2>1, <2>2, <2>3
  <2> QED
    BY <2>1, <2>4
<1>7. ASSUME NEW t \in T PROVE \E p \in S : f[p] = t
  <2>1. t \in 1..n /\ items[t] = x /\ t - 1 \in Nat
    BY <1>1 DEF NamedAt
  <2> DEFINE d == (t - 1) \div c
             g == t - d * c
  <2>2. d \in Nat /\ d * c \in Nat /\ d * c <= t - 1 /\ t - 1 < d * c + c
    BY <2>1, Division
  <2>3. g \in 1..c /\ d + 1 \in Nat \ {0} /\ (d + 1) - 1 = d /\ d * c + g = t
    BY <2>1, <2>2
  <2> HIDE DEF d, g
  <2>4. d + 1 \in 1..Share(n, c, g)
    <3>1. d + 1 \in Nat \ {0} /\ ((d + 1) - 1) * c + g <= n /\ n \in Nat /\ g \in 1..c
      BY <1>1, <2>1, <2>3
    <3> HIDE DEF n
    <3> QED
      BY <3>1, ShareIs
  <2>5. J[g][d + 1] = x
    BY <1>2, <2>1, <2>3, <2>4
  <2>6. <<g, d + 1>> \in S
    <3> DEFINE k == d + 1
    <3>1. g \in 1..c /\ k \in 1..Share(n, c, g) /\ J[g][k] = x
      BY <2>3, <2>4, <2>5
    <3> HIDE DEF k, J, n
    <3>2. g \in DOMAIN J /\ k \in DOMAIN J[g]
      BY <1>2, <3>1
    <3>3. <<g, k>> \in Places(J, x)
      BY <3>1, <3>2, PlacesAre
    <3> QED
      BY <3>3 DEF k
  <2>7. f[<<g, d + 1>>] = t
    BY <2>3, <2>6
  <2> QED
    BY <2>6, <2>7
<1> HIDE DEF f, S, T
<1>8. Cardinality(T) = Cardinality(S)
  BY <1>3, <1>5, <1>6, <1>7, SameNumber
<1> QED
  BY <1>8 DEF Count, S, T

\* So do chunks.
LEMMA CountOfChunks ==
  ASSUME NEW items, IsList(items), NEW c \in Nat \ {0}, NEW x
  PROVE  Count(Chunks(items, c), x) = Cardinality(NamedAt(items, x))
<1> DEFINE J == Chunks(items, c)
           n == Len(items)
           m == NumberOfChunks(n, c)
           S == Places(J, x)
           T == NamedAt(items, x)
           f == [p \in S |-> (p[1] - 1) * c + p[2]]
<1>1. n \in Nat /\ DOMAIN items = 1..n /\ m \in Nat
  BY ListIsSeq, ChunksBegin
<1>2. /\ J \in Seq(Seq(Range(items))) /\ Len(J) = m
      /\ \A k \in 1..m :
           /\ Len(J[k]) = ChunkSize(n, c, k) /\ Len(J[k]) \in 1..c
           /\ \A j \in 1..Len(J[k]) :
                J[k][j] = items[(k - 1) * c + j] /\ (k - 1) * c + j \in DOMAIN items
  BY ChunksAreLists
<1> HIDE DEF J, m
<1>3. DOMAIN J = 1..m /\ \A k \in 1..m : DOMAIN J[k] = 1..Len(J[k])
  BY <1>2
<1>4. IsFiniteSet(S)
  BY <1>2, PlacesAreFinite
<1>5. ASSUME NEW p \in S
      PROVE  /\ p = <<p[1], p[2]>> /\ p[1] \in Nat \ {0} /\ p[2] \in 1..c
             /\ (p[1] - 1) * c \in Nat /\ (p[1] - 1) * c + p[2] \in T
  <2>1. /\ p = <<p[1], p[2]>> /\ p[1] \in DOMAIN J /\ p[2] \in DOMAIN J[p[1]] /\ J[p[1]][p[2]] = x
    BY PlacesAre
  <2>2. p[1] \in 1..m /\ p[2] \in 1..Len(J[p[1]])
    BY <1>3, <2>1
  <2>3. /\ J[p[1]][p[2]] = items[(p[1] - 1) * c + p[2]] /\ (p[1] - 1) * c + p[2] \in DOMAIN items
        /\ Len(J[p[1]]) \in 1..c
    BY <1>2, <2>2
  <2>4. p[1] \in Nat \ {0} /\ p[1] - 1 \in Nat /\ p[2] \in 1..c
    <3> DEFINE l == Len(J[p[1]])
    <3>1. l \in 1..c /\ p[2] \in 1..l /\ p[1] \in 1..m
      BY <2>2, <2>3
    <3> HIDE DEF l
    <3> QED
      BY <1>1, <3>1
  <2>5. (p[1] - 1) * c \in Nat
    BY <2>4, Product
  <2>6. (p[1] - 1) * c + p[2] \in T
    BY <2>1, <2>3 DEF NamedAt
  <2> QED
    BY <2>1, <2>4, <2>5, <2>6
<1>6. f \in [S -> T]
  BY <1>5
<1>7. ASSUME NEW p \in S, NEW q \in S, f[p] = f[q] PROVE p = q
  <2> DEFINE a == p[1] - 1
             b == q[1] - 1
  <2>1. /\ p = <<p[1], p[2]>> /\ q = <<q[1], q[2]>> /\ p[2] \in 1..c /\ q[2] \in 1..c
        /\ a \in Nat /\ b \in Nat /\ a * c \in Nat /\ b * c \in Nat
        /\ p[1] = a + 1 /\ q[1] = b + 1 /\ a * c + p[2] = b * c + q[2]
    BY <1>5, <1>7
  <2> HIDE DEF a, b
  <2>2. ~(a < b)
    <3>1. a < b => a * c + c <= b * c
      BY <2>1, Product
    <3> QED
      BY <2>1, <3>1
  <2>3. ~(b < a)
    <3>1. b < a => b * c + c <= a * c
      BY <2>1, Product
    <3> QED
      BY <2>1, <3>1
  <2>4. a = b
    BY <2>1, <2>2, <2>3
  <2> QED
    BY <2>1, <2>4
<1>8. ASSUME NEW t \in T PROVE \E p \in S : f[p] = t
  <2>1. t \in 1..n /\ items[t] = x /\ t - 1 \in Nat
    BY <1>1 DEF NamedAt
  <2> DEFINE d == (t - 1) \div c
             k == d + 1
             j == t - d * c
  <2>2. d \in Nat /\ d * c \in Nat /\ d * c <= t - 1 /\ t - 1 < d * c + c
    BY <2>1, Division
  <2> HIDE DEF d
  <2>3. j \in 1..c /\ k \in Nat \ {0} /\ k - 1 = d /\ d * c + j = t /\ d * c < n
    BY <1>1, <2>1, <2>2
  <2>10. k = d + 1 /\ j = t - d * c
    OBVIOUS
  <2> HIDE DEF k, j
  <2>4. k \in 1..m
    <3>1. d < NumberOfChunks(n, c)
      BY <1>1, <2>2, <2>3, ChunksBegin
    <3> QED
      BY <1>1, <2>2, <2>10, <3>1 DEF m
  <2>5. j <= Len(J[k])
    <3>1. k * c = d * c + c /\ (k - 1) * c = d * c
      BY <2>2, <2>3, <2>10
    <3>2. Len(J[k]) = IF d * c + c < n THEN c ELSE n - d * c
      BY <1>2, <2>3, <2>4, <3>1 DEF ChunkSize
    <3> DEFINE l == Len(J[k])
               e == d * c
    <3>3. l = (IF e + c < n THEN c ELSE n - e) /\ j = t - e /\ j <= c /\ t <= n /\ e \in Nat /\ t \in Nat
      BY <2>1, <2>2, <2>3, <2>10, <3>2
    <3> HIDE DEF l, e, n
    <3>4. j <= l
      BY <1>1, <3>3
    <3> QED
      BY <3>4 DEF l
  <2>6. j \in 1..Len(J[k])
    BY <1>2, <2>3, <2>4, <2>5
  <2>7. J[k][j] = x
    BY <1>2, <2>1, <2>3, <2>4, <2>6
  <2>8. <<k, j>> \in S
    <3>1. k \in DOMAIN J /\ j \in DOMAIN J[k]
      BY <1>3, <2>4, <2>6
    <3> QED
      BY <2>7, <3>1, PlacesAre
  <2>9. f[<<k, j>>] = t
    BY <2>3, <2>8
  <2> QED
    BY <2>8, <2>9
<1> HIDE DEF f, S, T
<1>9. Cardinality(T) = Cardinality(S)
  BY <1>4, <1>6, <1>7, <1>8, SameNumber
<1> QED
  BY <1>9 DEF Count, S, T, J

Singles(items) == [k \in DOMAIN items |-> <<items[k]>>]

\* And jobs of one item each.
LEMMA CountOfSingles ==
  ASSUME NEW items, IsList(items), NEW x
  PROVE  /\ Singles(items) \in Seq(Seq(Range(items)) \ {<<>>})
         /\ Count(Singles(items), x) = Cardinality(NamedAt(items, x))
<1> DEFINE J == Singles(items)
           n == Len(items)
           R == Range(items)
           S == Places(J, x)
           T == NamedAt(items, x)
           f == [t \in T |-> <<t, 1>>]
<1>1. n \in Nat /\ DOMAIN items = 1..n /\ \A k \in 1..n : items[k] \in R
  BY ListIsSeq
<1>2. DOMAIN J = 1..n /\ J = [k \in DOMAIN J |-> J[k]] /\ \A k \in 1..n : J[k] = <<items[k]>>
  BY <1>1 DEF Singles
<1> HIDE DEF J, R, n
<1>3. J \in Seq(Seq(R) \ {<<>>})
  <2>1. ASSUME NEW k \in 1..n PROVE J[k] \in Seq(R) \ {<<>>}
    <3> DEFINE y == items[k]
    <3>1. J[k] = <<y>> /\ y \in R
      BY <1>1, <1>2
    <3> HIDE DEF y
    <3>2. <<y>> \in Seq(R) /\ <<y>> # <<>>
      BY <3>1
    <3> QED
      BY <3>1, <3>2
  <2> QED
    BY <1>1, <1>2, <2>1, Mapped
<1>4. IsFiniteSet(T)
  BY NamedIsFinite
<1>5. ASSUME NEW t \in T PROVE <<t, 1>> \in S
  <2>1. t \in 1..n /\ items[t] = x
    BY <1>1 DEF NamedAt
  <2>2. J[t] = <<x>> /\ t \in DOMAIN J
    BY <1>2, <2>1
  <2>3. 1 \in DOMAIN J[t] /\ J[t][1] = x
    BY <2>2
  <2> QED
    BY <2>2, <2>3, PlacesAre
<1>6. ASSUME NEW p \in S PROVE p[1] \in T /\ p = <<p[1], 1>>
  <2>1. /\ p = <<p[1], p[2]>> /\ p[1] \in DOMAIN J /\ p[2] \in DOMAIN J[p[1]] /\ J[p[1]][p[2]] = x
    BY PlacesAre
  <2>2. J[p[1]] = <<items[p[1]]>> /\ p[1] \in DOMAIN items
    BY <1>1, <1>2, <2>1
  <2>3. p[2] = 1 /\ items[p[1]] = x
    BY <2>1, <2>2
  <2> QED
    BY <2>1, <2>2, <2>3 DEF NamedAt
<1>7. f \in [T -> S] /\ \A s, t \in T : f[s] = f[t] => s = t
  BY <1>5
<1>8. \A p \in S : \E t \in T : f[t] = p
  BY <1>6
<1> HIDE DEF f, S, T
<1>9. Cardinality(S) = Cardinality(T)
  BY <1>4, <1>7, <1>8, SameNumber
<1> QED
  BY <1>3, <1>9 DEF Count, S, T, J, R

-----------------------------------------------------------------------------
(* The jobs of a stage.                                                     *)

\* A manifest that fits names every item, and nothing else.
LEMMA CountOfManifest ==
  ASSUME NEW items, IsList(items), NEW groups, IsList(groups),
         \A g \in DOMAIN groups : IsList(groups[g]), ManifestFits(items, groups)
  PROVE  /\ groups \in Seq(Seq(Range(items)))
         /\ \A x \in Range(items) : Count(groups, x) >= Cardinality(NamedAt(items, x))
<1> DEFINE R == Range(items)
<1>1. Len(groups) \in Nat /\ DOMAIN groups = 1..Len(groups) /\ groups \in Seq(Range(groups))
  BY ListIsSeq
<1>2. ASSUME NEW g \in DOMAIN groups PROVE groups[g] \in Seq(R)
  <2>1. groups[g] \in Seq(Range(groups[g]))
    BY ListIsSeq
  <2>2. Range(groups[g]) \subseteq R
    BY DEF ManifestFits
  <2> QED
    BY <2>1, <2>2
<1>3. groups \in Seq(Seq(R))
  <2>1. groups = [g \in DOMAIN groups |-> groups[g]]
    BY <1>1
  <2> HIDE DEF R
  <2> QED
    BY <1>1, <1>2, <2>1, Mapped
<1>4. ASSUME NEW x \in R PROVE Count(groups, x) >= Cardinality(NamedAt(items, x))
  <2>1. PICK k \in DOMAIN items : items[k] = x
    BY DEF Range
  <2>2. NamedAt(items, x) = {k}
    BY <2>1 DEF NamedAt, ManifestFits, IsInjective
  <2>3. Cardinality(NamedAt(items, x)) = 1
    BY <2>2, FS_Singleton
  <2>4. PICK g \in DOMAIN groups : x \in Range(groups[g])
    BY <2>1 DEF ManifestFits
  <2>5. PICK n \in DOMAIN groups[g] : groups[g][n] = x
    BY <2>4 DEF Range
  <2>6. Places(groups, x) # {}
    BY <2>5, PlacesAre
  <2>7. IsFiniteSet(Places(groups, x)) /\ Count(groups, x) \in Nat
    BY <1>3, PlacesAreFinite
  <2>8. Count(groups, x) # 0
    BY <2>6, <2>7, FS_EmptySet DEF Count
  <2> QED
    BY <2>3, <2>7, <2>8
<1> QED
  BY <1>3, <1>4

\* Groups of a split differ by one item at most.
LEMMA SharesAreEven ==
  ASSUME NEW n \in Nat, NEW c \in Nat \ {0}, NEW g \in 1..c, NEW h \in 1..c
  PROVE  Share(n, c, g) - Share(n, c, h) <= 1
<1> DEFINE a == Share(n, c, g)
           b == Share(n, c, h)
<1>1. a \in Nat /\ b \in Nat
  BY ShareIs
<1>2. SUFFICES ASSUME a >= b + 2 PROVE FALSE
  BY <1>1
<1>3. a \in Nat \ {0} /\ a \in 1..a /\ a - 1 \in Nat /\ b + 1 \in Nat \ {0} /\ (b + 1) - 1 = b
      /\ b < a - 1
  BY <1>1, <1>2
<1>4. (a - 1) * c + g <= n
  BY <1>3, ShareIs
<1> HIDE DEF a, b
<1>5. b * c + c <= (a - 1) * c /\ b * c \in Nat /\ (a - 1) * c \in Nat
  BY <1>1, <1>3, Product
<1>6. b * c + h <= n
  BY <1>4, <1>5
<1>7. b + 1 \in 1..b
  <2>1. ((b + 1) - 1) * c + h <= n
    BY <1>3, <1>6
  <2> QED
    BY <1>3, <2>1, ShareIs DEF b
<1> QED
  BY <1>1, <1>7

\* What the planner promises of the jobs J of a stage.
WellPlanned(items, p, J) ==
  /\ J \in Seq(Seq(Range(items)) \ {<<>>})
  /\ \A x \in Range(items) :
       LET times == Rounds(p) * Cardinality(NamedAt(items, x))
       IN IF p.manifest = <<>> THEN Count(J, x) = times ELSE Count(J, x) >= times
  /\ p.manifest = <<>> /\ p.split > 1 =>
       \A j, k \in DOMAIN J : Len(J[j]) - Len(J[k]) <= 1
  /\ ~SplitEnabled(p) /\ p.repeats = 0 =>
       \A j \in 1..(Len(J) - 1) : Len(J[j]) = p.chunk_size

LEMMA GroupsAreWellPlanned ==
  ASSUME NEW items, IsList(items), NEW s, NEW p, StageCounts(s, p), CanPlan(items, p), SplitEnabled(p)
  PROVE  WellPlanned(items, p, PlanJobs(items, p))
<1> DEFINE R == Range(items)
           groups == SplitItems(items, p)
           K == Kept(groups, LAMBDA g : g # <<>>)
           r == Rounds(p)
           J == Repeated(K, r)
           T == Filled(groups)
<1>1. PlanJobs(items, p) = J
  BY DEF PlanJobs
<1>2. r \in Nat /\ r # 0
  BY DEF Rounds, StageCounts
<1>3. /\ groups \in Seq(Seq(R))
      /\ \A x \in R : IF p.manifest = <<>> THEN Count(groups, x) = Cardinality(NamedAt(items, x))
                      ELSE Count(groups, x) >= Cardinality(NamedAt(items, x))
  <2>1. CASE p.manifest = <<>>
    <3>1. groups = CountSplit(items, p.split) /\ p.split \in Nat \ {0}
      BY <2>1 DEF SplitItems, StageCounts
    <3> QED
      BY <2>1, <3>1, CountSplitIsList, CountOfSplit
  <2>2. CASE p.manifest # <<>>
    <3>1. groups = p.manifest
      BY <2>2 DEF SplitItems
    <3>2. IsList(groups) /\ (\A g \in DOMAIN groups : IsList(groups[g])) /\ ManifestFits(items, groups)
      BY <2>2, <3>1 DEF CanPlan, StageCounts
    <3> HIDE DEF groups
    <3> QED
      BY <2>2, <3>2, CountOfManifest
  <2> QED
    BY <2>1, <2>2
<1>4. ASSUME p.manifest = <<>>, NEW g \in Range(groups), NEW h \in Range(groups)
      PROVE  Len(g) - Len(h) <= 1
  <2>1. groups = CountSplit(items, p.split) /\ p.split \in Nat \ {0} /\ Len(items) \in Nat
    BY <1>4, ListIsSeq DEF SplitItems, StageCounts
  <2>2. DOMAIN groups = 1..p.split /\ \A k \in 1..p.split : Len(groups[k]) = Share(Len(items), p.split, k)
    BY <2>1, CountSplitIsList
  <2> HIDE DEF groups
  <2>3. PICK k \in 1..p.split : g = groups[k]
    BY <1>4, <2>2 DEF Range
  <2>4. PICK l \in 1..p.split : h = groups[l]
    BY <1>4, <2>2 DEF Range
  <2> QED
    BY <2>1, <2>2, <2>3, <2>4, SharesAreEven
<1> HIDE DEF groups, r
<1>5. K \in Seq(T) /\ \A x : Count(K, x) = Count(groups, x)
  BY <1>3, CountKept
<1>6. T \subseteq Seq(R) \ {<<>>} /\ T \subseteq Range(groups)
  BY <1>3 DEF Filled, Range
<1> HIDE DEF K, T
<1>7. J \in Seq(T) /\ \A x : Count(J, x) = r * Count(groups, x)
  <2>1. T \subseteq Seq(R)
    BY <1>6
  <2> QED
    BY <1>2, <1>5, <2>1, CountRepeated
<1> HIDE DEF J
<1>8. ASSUME NEW x \in R
      PROVE  LET times == r * Cardinality(NamedAt(items, x))
             IN IF p.manifest = <<>> THEN Count(J, x) = times ELSE Count(J, x) >= times
  <2> DEFINE c == Count(groups, x)
             m == Cardinality(NamedAt(items, x))
  <2>1. c \in Nat /\ m \in Nat
    BY <1>3, PlacesAreFinite, NamedIsFinite
  <2>2. Count(J, x) = r * c /\ (IF p.manifest = <<>> THEN c = m ELSE c >= m)
    BY <1>3, <1>7
  <2> HIDE DEF c, m
  <2>3. c >= m => r * c >= r * m
    BY <1>2, <2>1
  <2> QED
    BY <2>2, <2>3 DEF m
<1>9. J \in Seq(Seq(R) \ {<<>>})
  BY <1>6, <1>7
<1>10. \A j \in DOMAIN J : J[j] \in Range(groups)
  BY <1>6, <1>7
<1>11. p.manifest = <<>> => \A j, k \in DOMAIN J : Len(J[j]) - Len(J[k]) <= 1
  BY <1>4, <1>10
<1> QED
  BY <1>1, <1>8, <1>9, <1>11 DEF WellPlanned, r

\* Planner.plan: whatever the items and the settings of a stage that is not refused, the
\* jobs name each item as often as they should, in parts of the size that they should be.
THEOREM JobsAreWellPlanned ==
  ASSUME NEW items, IsList(items), NEW s, NEW p, StageCounts(s, p), CanPlan(items, p)
  PROVE  WellPlanned(items, p, PlanJobs(items, p))
<1> DEFINE R == Range(items)
           J == PlanJobs(items, p)
<1>1. CASE SplitEnabled(p)
  BY <1>1, GroupsAreWellPlanned
<1>2. CASE ~SplitEnabled(p) /\ p.repeats > 0
  <2>1. J = Repeated(Singles(items), p.repeats) /\ Rounds(p) = p.repeats /\ p.repeats \in Nat
        /\ p.repeats # 0 /\ p.manifest = <<>> /\ ~(p.split > 1)
    BY <1>2 DEF PlanJobs, Singles, Rounds, StageCounts, SplitEnabled
  <2>2. Singles(items) \in Seq(Seq(R) \ {<<>>}) /\ Seq(R) \ {<<>>} \subseteq Seq(R)
        /\ \A x : Count(Singles(items), x) = Cardinality(NamedAt(items, x))
    BY CountOfSingles
  <2> HIDE DEF J
  <2>3. J \in Seq(Seq(R) \ {<<>>}) /\ \A x : Count(J, x) = Rounds(p) * Cardinality(NamedAt(items, x))
    <3> DEFINE K == Singles(items)
               T == Seq(R) \ {<<>>}
               r == p.repeats
               h(x) == Cardinality(NamedAt(items, x))
    <3>1. J = Repeated(K, r) /\ Rounds(p) = r /\ r \in Nat /\ K \in Seq(T) /\ T \subseteq Seq(R)
          /\ \A x : Count(K, x) = h(x)
      BY <2>1, <2>2
    <3> HIDE DEF K, T, r, h
    <3>2. J \in Seq(T) /\ \A x : Count(J, x) = r * Count(K, x)
      BY <3>1, CountRepeated
    <3>3. \A x : Count(J, x) = Rounds(p) * h(x)
      BY <3>1, <3>2
    <3> QED
      BY <3>2, <3>3 DEF T, h
  <2> QED
    BY <2>1, <2>3 DEF WellPlanned, J
<1>3. CASE ~SplitEnabled(p) /\ ~(p.repeats > 0)
  <2> DEFINE c == p.chunk_size
             n == Len(items)
             m == NumberOfChunks(n, c)
  <2>1. J = Chunks(items, c) /\ Rounds(p) = 1 /\ p.manifest = <<>> /\ ~(p.split > 1) /\ c \in Nat \ {0}
    BY <1>3 DEF PlanJobs, Rounds, StageCounts, SplitEnabled
  <2>2. n \in Nat /\ m \in Nat
    BY <2>1, ListIsSeq, ChunksBegin
  <2>3. /\ J \in Seq(Seq(R)) /\ Len(J) = m
        /\ \A k \in 1..m : Len(J[k]) = ChunkSize(n, c, k) /\ Len(J[k]) \in 1..c
    <3> DEFINE f == Chunks(items, c)
    <3>1. /\ f \in Seq(Seq(R)) /\ Len(f) = m
          /\ \A k \in 1..m : Len(f[k]) = ChunkSize(n, c, k) /\ Len(f[k]) \in 1..c
      BY <2>1, ChunksAreLists
    <3> HIDE DEF f, J, R, n, m, c
    <3> QED
      BY <2>1, <3>1 DEF f
  <2>4. \A x : Count(J, x) = Cardinality(NamedAt(items, x)) /\ Cardinality(NamedAt(items, x)) \in Nat
    BY <2>1, CountOfChunks, NamedIsFinite
  <2> HIDE DEF J
  <2>5. J \in Seq(Seq(R) \ {<<>>})
    <3>1. \A k \in 1..m : J[k] \in Seq(R) /\ J[k] # <<>>
      BY <2>2, <2>3
    <3> QED
      BY <2>3, <3>1
  <2>6. \A k \in 1..(m - 1) : Len(J[k]) = c
    <3> SUFFICES ASSUME NEW k \in 1..(m - 1) PROVE Len(J[k]) = c
      OBVIOUS
    <3>1. k \in Nat /\ k < NumberOfChunks(n, c) /\ k \in 1..m /\ n \in Nat
      BY <2>2
    <3> HIDE DEF n
    <3>2. k * c < n
      BY <2>1, <3>1, ChunksBegin
    <3> QED
      BY <2>3, <3>1, <3>2 DEF ChunkSize
  <2>7. \A x \in R : Count(J, x) = Rounds(p) * Cardinality(NamedAt(items, x))
    BY <2>1, <2>4
  <2> QED
    BY <2>1, <2>3, <2>5, <2>6, <2>7 DEF WellPlanned, J
<1> QED
  BY <1>1, <1>2, <1>3

-----------------------------------------------------------------------------
(* Lifecycle groups.                                                        *)

Before  == {"checkout", "compile", "health"}
InStage == {"start", "acquire", "prepare", "execute", "judge", "report",
            "summarize", "mirror", "release", "end"}
After   == {"finish", "returned"}

Failures == {"none", "infra", "timeout", "runner", "execution", "watch"}

Group == [failed : BOOLEAN, open : BOOLEAN]

\* The locals of a stage, whatever the worker and the payload are.
Locals(w, p) == [ok : BOOLEAN, failure : Failures, worker : {w}, known : BOOLEAN,
                 payload : {p}, raising : {"no", "error", "interrupt"}]

Types ==
  /\ group \in Group
  /\ here \in Locals(here.worker, here.payload)
  /\ pc = "judge" => here.payload.failure \in Failures
  /\ pc \in Before => group.failed = FALSE

\* One result for each stage that the loop has left behind.
Counts ==
  /\ i \in Nat /\ \E S : results \in Seq(S)
  /\ pc \in Before \cup {"loop"} \cup InStage \cup After
  /\ pc \in Before => results = <<>> /\ i = 0
  /\ pc \in {"loop"} \cup InStage => i = Len(results) + 1

\* A stage before the n-th one has failed in its lifecycle group.
Failing(res, n) ==
  \E j \in 1..(n - 1) :
    /\ ~res[j].skipped /\ ~res[j].ok /\ plan[j].mode # "teardown"
    /\ \A m \in (j + 1)..(n - 1) :
         plan[m].mode # "setup" /\ (plan[m].mode = "teardown" => res[m].skipped)

\* The state of the group is the history of its stages.
GroupKnows ==
  /\ pc = "loop" => (group.failed <=> Failing(results, i))
  /\ pc \in InStage =>
       /\ group.failed <=> (Stage.mode # "setup" /\ Failing(results, i))
       /\ group.failed => Stage.when = "always"

IInv == Types /\ Counts /\ GroupKnows /\ GroupsAreSeparate

-----------------------------------------------------------------------------
(* Sequences and the operators of a stage.                                  *)

LEMMA OneMore ==
  ASSUME NEW S, NEW s \in Seq(S), NEW r
  PROVE  /\ Append(s, r) \in Seq(S \cup {r})
         /\ Len(Append(s, r)) = Len(s) + 1 /\ Len(s) \in Nat
         /\ DOMAIN Append(s, r) = 1..(Len(s) + 1) /\ DOMAIN s = 1..Len(s)
         /\ \A k \in 1..Len(s) : Append(s, r)[k] = s[k]
         /\ Append(s, r)[Len(s) + 1] = r
<1>1. s \in Seq(S \cup {r}) /\ r \in S \cup {r}
  OBVIOUS
<1> QED
  BY <1>1

\* What is said of the stages before the n-th needs no later result.
LEMMA FailingStays ==
  ASSUME NEW res, NEW more, NEW n \in Nat, \A k \in 1..(n - 1) : more[k] = res[k]
  PROVE  Failing(more, n) <=> Failing(res, n)
  BY DEF Failing

\* How the n-th result changes what the stage after it sees.
LEMMA FailingNext ==
  ASSUME NEW res, NEW n \in Nat \ {0}
  PROVE  Failing(res, n + 1) <=>
           \/ ~res[n].skipped /\ ~res[n].ok /\ plan[n].mode # "teardown"
           \/ /\ Failing(res, n) /\ plan[n].mode # "setup"
              /\ plan[n].mode = "teardown" => res[n].skipped
<1>1. (n + 1) - 1 = n /\ n - 1 \in Nat
  OBVIOUS
<1>2. ASSUME Failing(res, n + 1)
      PROVE  \/ ~res[n].skipped /\ ~res[n].ok /\ plan[n].mode # "teardown"
             \/ /\ Failing(res, n) /\ plan[n].mode # "setup"
                /\ plan[n].mode = "teardown" => res[n].skipped
  <2>1. PICK j \in 1..n :
          /\ ~res[j].skipped /\ ~res[j].ok /\ plan[j].mode # "teardown"
          /\ \A m \in (j + 1)..n :
               plan[m].mode # "setup" /\ (plan[m].mode = "teardown" => res[m].skipped)
    BY <1>1, <1>2 DEF Failing
  <2>2. CASE j = n
    BY <2>1, <2>2
  <2>3. CASE j # n
    <3>1. j \in 1..(n - 1) /\ n \in (j + 1)..n
      BY <2>3
    <3>2. \A m \in (j + 1)..(n - 1) : m \in (j + 1)..n
      OBVIOUS
    <3> QED
      BY <2>1, <3>1, <3>2 DEF Failing
  <2> QED
    BY <2>2, <2>3
<1>3. ASSUME ~res[n].skipped, ~res[n].ok, plan[n].mode # "teardown"
      PROVE  Failing(res, n + 1)
  <2>1. n \in 1..n /\ \A m \in (n + 1)..n : FALSE
    OBVIOUS
  <2> QED
    BY <1>1, <1>3, <2>1 DEF Failing
<1>4. ASSUME Failing(res, n), plan[n].mode # "setup",
             plan[n].mode = "teardown" => res[n].skipped
      PROVE  Failing(res, n + 1)
  <2>1. PICK j \in 1..(n - 1) :
          /\ ~res[j].skipped /\ ~res[j].ok /\ plan[j].mode # "teardown"
          /\ \A m \in (j + 1)..(n - 1) :
               plan[m].mode # "setup" /\ (plan[m].mode = "teardown" => res[m].skipped)
    BY <1>4 DEF Failing
  <2>2. j \in 1..n /\ \A m \in (j + 1)..n : m = n \/ m \in (j + 1)..(n - 1)
    OBVIOUS
  <2> QED
    BY <1>1, <1>4, <2>1, <2>2 DEF Failing
<1> QED
  BY <1>2, <1>3, <1>4

\* The failure of the jobs that ranks first is a kind of failure.
LEMMA DeriveFailureIsOne ==
  ASSUME NEW ends
  PROVE  DeriveFailure(ends) \in Failures
<1> DEFINE S == {n \in DOMAIN Priority : Priority[n] = "none"
                  \/ \E j \in DOMAIN ends : Priority[n] = ClassifyJob(ends[j])}
<1>1. DOMAIN Priority = 1..5 /\ Priority[5] = "none"
      /\ \A n \in 1..5 : Priority[n] \in Failures
  BY DEF Priority, Failures
<1>2. S \subseteq 1..5 /\ 5 \in S
  BY <1>1
<1> HIDE DEF S
<1>3. \E x \in S : \A y \in S : x <= y
  BY <1>2
<1>4. Min(S) \in S
  BY <1>3 DEF Min
<1> QED
  BY <1>1, <1>2, <1>4 DEF DeriveFailure, S

-----------------------------------------------------------------------------
(* The steps.                                                               *)

LEMMA InitIInv == Init => IInv
<1> SUFFICES ASSUME Init PROVE IInv
  OBVIOUS
<1>1. Types
  BY DEF Init, Types, Group, Locals, Fresh, Failures, NoWorker
<1>2. Counts
  <2>1. results = <<>> /\ pc = "checkout" /\ i = 0
    BY DEF Init
  <2>2. <<>> \in Seq({})
    OBVIOUS
  <2>3. \E S : results \in Seq(S)
    BY <2>1, <2>2
  <2> QED
    BY <2>1, <2>3 DEF Counts, Before, InStage
<1>3. GroupKnows
  BY DEF Init, GroupKnows, InStage
<1>4. GroupsAreSeparate
  BY DEF Init, GroupsAreSeparate
<1> QED
  BY <1>1, <1>2, <1>3, <1>4 DEF IInv

\* A step inside a stage leaves the group and the results alone.
LEMMA StageStep ==
  ASSUME IInv, pc \in InStage, pc' \in InStage \cup After,
         UNCHANGED <<plan, i, group, results>>, Types'
  PROVE  IInv'
<1>1. Counts'
  BY DEF IInv, Counts, InStage, Before, After
<1>2. GroupKnows'
  BY DEF IInv, GroupKnows, Failing, Stage, InStage, After
<1>3. GroupsAreSeparate'
  BY DEF IInv, GroupsAreSeparate, Executed
<1> QED
  BY <1>1, <1>2, <1>3 DEF IInv

\* The run is given up, interrupted or done: the results stay what they are.
LEMMA LeavesLoop ==
  ASSUME IInv, pc' \in After, UNCHANGED <<plan, i, results, here>>, group' \in Group
  PROVE  IInv'
<1>1. Types' /\ Counts'
  BY DEF IInv, Types, Counts, After, InStage, Before
<1>2. GroupKnows'
  BY DEF GroupKnows, After, InStage
<1>3. GroupsAreSeparate'
  BY DEF IInv, GroupsAreSeparate, Executed
<1> QED
  BY <1>1, <1>2, <1>3 DEF IInv

\* Before the stages there are no results, whatever the plan is.
LEMMA BeforeStages ==
  ASSUME IInv, pc \in Before, pc' \in Before \cup After,
         UNCHANGED <<i, group, results, here>>
  PROVE  IInv'
<1>1. results = <<>> /\ results' = <<>>
  BY DEF IInv, Counts
<1>2. Types' /\ Counts'
  BY DEF IInv, Types, Counts, After, InStage, Before
<1>3. GroupKnows' /\ GroupsAreSeparate'
  BY <1>1 DEF GroupKnows, GroupsAreSeparate, After, Before, InStage
<1> QED
  BY <1>2, <1>3 DEF IInv

LEMMA PreflightKeeps ==
  ASSUME IInv, Preflight
  PROVE  IInv'
<1>1. CASE pc' = "finish"
  BY <1>1, LeavesLoop DEF Preflight, GiveUp, After, IInv, Types
<1>2. CASE pc' = "loop" /\ i' = 1
  <2>1. results = <<>> /\ results' = <<>> /\ UNCHANGED <<group, here>>
    BY DEF IInv, Counts, Preflight, Before
  <2>2. Types' /\ Counts'
    BY <1>2, <2>1 DEF IInv, Types, Counts, InStage, Before
  <2>3. ~Failing(results, i)' /\ group'.failed = FALSE
    BY <1>2, <2>1 DEF Failing, IInv, Types, Preflight, Before
  <2>4. GroupKnows'
    BY <1>2, <2>1, <2>3 DEF GroupKnows, InStage
  <2>5. GroupsAreSeparate'
    BY <2>1 DEF GroupsAreSeparate
  <2> QED
    BY <2>2, <2>4, <2>5 DEF IInv
<1> QED
  BY <1>1, <1>2 DEF Preflight, GiveUp

\* A stage starts: its group is the one that is failed, or a new one.
LEMMA EnterStageKeeps ==
  ASSUME IInv, EnterStage
  PROVE  IInv'
<1>1. /\ pc = "loop" /\ pc' = "start" /\ here' = Fresh
      /\ UNCHANGED <<plan, i, results>>
      /\ group' = BeforeStage(group, Stage) /\ ShouldExecute(group', Stage)
  BY DEF EnterStage, context, outcome
<1>2. group \in Group /\ (group.failed <=> Failing(results, i))
  BY <1>1 DEF IInv, Types, GroupKnows
<1>3. group' \in Group /\ (group'.failed <=> (Stage.mode # "setup" /\ group.failed))
  BY <1>1, <1>2 DEF BeforeStage, Group
<1>4. Types'
  BY <1>1, <1>3 DEF Types, Locals, Fresh, Failures, NoWorker, Before
<1>5. Counts'
  BY <1>1 DEF IInv, Counts, InStage, Before
<1>6. GroupKnows'
  BY <1>1, <1>2, <1>3 DEF GroupKnows, Failing, Stage, ShouldExecute
<1>7. GroupsAreSeparate'
  BY <1>1 DEF IInv, GroupsAreSeparate, Executed
<1> QED
  BY <1>4, <1>5, <1>6, <1>7 DEF IInv

\* The property, with the operator that the invariant is made of.
Separate(res) ==
  \A k \in DOMAIN res :
    res[k].skipped <=>
      plan[k].when # "always" /\ plan[k].mode # "setup" /\ Failing(res, k)

LEMMA SeparateIs == GroupsAreSeparate <=> Separate(results)
  BY DEF GroupsAreSeparate, Separate, Failing, Executed

LEMMA SeparateLater ==
  ASSUME UNCHANGED plan, Separate(results')
  PROVE  GroupsAreSeparate'
<1> SUFFICES ASSUME NEW k \in DOMAIN results'
             PROVE  results'[k].skipped <=>
                      /\ plan'[k].when # "always" /\ plan'[k].mode # "setup"
                      /\ \E j \in 1..(k - 1) :
                           /\ ~results'[j].skipped /\ ~results'[j].ok
                           /\ plan'[j].mode # "teardown"
                           /\ \A n \in (j + 1)..(k - 1) :
                                /\ plan'[n].mode # "setup"
                                /\ plan'[n].mode = "teardown" => results'[n].skipped
  BY DEF GroupsAreSeparate, Executed
<1>1. results'[k].skipped <=>
        plan[k].when # "always" /\ plan[k].mode # "setup" /\ Failing(results', k)
  BY DEF Separate
<1> QED
  BY <1>1 DEF Failing

\* One more result, of the stage in hand.
LEMMA NewResult ==
  ASSUME IInv, pc \in {"loop"} \cup InStage, NEW r, results' = Append(results, r),
         UNCHANGED plan,
         r.skipped <=> Stage.when # "always" /\ Stage.mode # "setup" /\ Failing(results, i)
  PROVE  /\ \E S : results' \in Seq(S)
         /\ Len(results') = i /\ i \in Nat \ {0} /\ results'[i] = r
         /\ \A n \in 1..i : Failing(results', n) <=> Failing(results, n)
         /\ GroupsAreSeparate'
<1>1. PICK S : results \in Seq(S)
  BY DEF IInv, Counts
<1>2. i = Len(results) + 1 /\ i \in Nat
  BY DEF IInv, Counts
<1>3. /\ results' \in Seq(S \cup {r}) /\ Len(results') = i /\ i \in Nat \ {0}
      /\ DOMAIN results' = 1..i /\ DOMAIN results = 1..(i - 1)
      /\ \A k \in 1..(i - 1) : results'[k] = results[k]
      /\ results'[i] = r
  BY <1>1, <1>2, OneMore
<1>4. \A n \in 1..i : Failing(results', n) <=> Failing(results, n)
  <2> TAKE n \in 1..i
  <2>1. n \in Nat /\ \A k \in 1..(n - 1) : results'[k] = results[k]
    BY <1>3
  <2> QED
    BY <2>1, FailingStays
<1>5. ASSUME NEW k \in 1..i
      PROVE  results'[k].skipped <=>
               plan[k].when # "always" /\ plan[k].mode # "setup" /\ Failing(results', k)
  <2>1. CASE k = i
    BY <1>3, <1>4, <2>1 DEF Stage
  <2>2. CASE k # i
    <3>1. k \in 1..(i - 1)
      BY <1>3, <2>2
    <3>2. results[k].skipped <=>
            plan[k].when # "always" /\ plan[k].mode # "setup" /\ Failing(results, k)
      BY <1>3, <3>1, SeparateIs DEF IInv, Separate
    <3> QED
      BY <1>3, <1>4, <3>1, <3>2
  <2> QED
    BY <2>1, <2>2
<1>6. Separate(results')
  BY <1>3, <1>5 DEF Separate
<1>7. GroupsAreSeparate'
  BY <1>6, SeparateLater
<1> QED
  BY <1>3, <1>4, <1>7

LEMMA SkipStageKeeps ==
  ASSUME IInv, SkipStage
  PROVE  IInv'
<1>1. /\ pc = "loop" /\ UNCHANGED <<plan, here>>
      /\ group' = BeforeStage(group, Stage) /\ ~ShouldExecute(group', Stage)
  BY DEF SkipStage, context
<1>2. group \in Group /\ (group.failed <=> Failing(results, i))
  BY <1>1 DEF IInv, Types, GroupKnows
<1>3. group' \in Group /\ (group'.failed <=> (Stage.mode # "setup" /\ group.failed))
  BY <1>1, <1>2 DEF BeforeStage, Group
<1>4. Stage.when # "always" /\ Stage.mode # "setup" /\ Failing(results, i) /\ group'.failed
  BY <1>1, <1>2, <1>3 DEF ShouldExecute
<1>5. CASE results' = Append(results, Result(FALSE, "skipped")) /\ NextStage
  <2> DEFINE r == Result(FALSE, "skipped")
  <2>1. r.skipped = TRUE
    BY DEF Result
  <2> HIDE DEF r
  <2>2. /\ \E S : results' \in Seq(S)
        /\ Len(results') = i /\ i \in Nat \ {0} /\ results'[i] = r
        /\ Failing(results', i) <=> Failing(results, i)
        /\ GroupsAreSeparate'
    <3>1. i \in 1..i
      BY <1>1 DEF IInv, Counts
    <3> QED
      BY <1>1, <1>4, <1>5, <2>1, <3>1, NewResult DEF r
  <2>3. pc' = "loop" /\ i' = i + 1
    BY <1>5 DEF NextStage
  <2>4. Types' /\ Counts'
    BY <1>1, <1>3, <2>2, <2>3 DEF IInv, Types, Counts, Before, InStage
  <2>5. GroupKnows'
    <3>1. Failing(results', i + 1)
      BY <1>4, <2>1, <2>2, FailingNext DEF Stage
    <3> QED
      BY <1>1, <1>4, <2>3, <3>1 DEF GroupKnows, InStage, Failing
  <2> QED
    BY <2>2, <2>4, <2>5 DEF IInv
<1>6. CASE GiveUp /\ UNCHANGED <<results, i>>
  BY <1>1, <1>3, <1>6, LeavesLoop DEF GiveUp, After
<1> QED
  BY <1>5, <1>6 DEF SkipStage

\* The stage in hand has its result, and is not skipped.
LEMMA EndStageKeeps ==
  ASSUME IInv, EndStage
  PROVE  IInv'
<1> DEFINE r == Result(here.ok, here.failure)
<1>1. /\ pc = "end" /\ pc' = "loop" /\ i' = i + 1 /\ UNCHANGED <<plan, here>>
      /\ results' = Append(results, r)
      /\ group' = AfterStage(group, Stage, here.ok)
  BY DEF EndStage, NextStage, context
<1>2. here.ok \in BOOLEAN /\ here.failure # "skipped" /\ group \in Group
  BY DEF IInv, Types, Locals, Failures
<1>3. r.skipped = FALSE /\ r.ok = here.ok
  BY <1>2 DEF Result
<1> HIDE DEF r
<1>4. /\ group.failed <=> (Stage.mode # "setup" /\ Failing(results, i))
      /\ group.failed => Stage.when = "always"
  BY <1>1 DEF IInv, GroupKnows, InStage
<1>5. /\ \E S : results' \in Seq(S)
      /\ Len(results') = i /\ i \in Nat \ {0} /\ results'[i] = r
      /\ Failing(results', i) <=> Failing(results, i)
      /\ GroupsAreSeparate'
  <2>1. i \in 1..i /\ pc \in InStage
    BY <1>1 DEF IInv, Counts, InStage
  <2> QED
    BY <1>1, <1>3, <1>4, <2>1, NewResult
<1>6. /\ group' \in Group
      /\ group'.failed <=> (Stage.mode # "teardown" /\ (group.failed \/ here.ok = FALSE))
  BY <1>1, <1>2 DEF AfterStage, Group
<1>7. Types' /\ Counts'
  BY <1>1, <1>5, <1>6 DEF IInv, Types, Counts, Before, InStage
<1>8. Failing(results', i + 1)
        <=> (Stage.mode # "teardown" /\ (group.failed \/ here.ok = FALSE))
  <2>1. Failing(results', i + 1) <=>
           \/ ~r.skipped /\ ~r.ok /\ Stage.mode # "teardown"
           \/ /\ Failing(results', i) /\ Stage.mode # "setup"
              /\ Stage.mode = "teardown" => r.skipped
    BY <1>5, FailingNext DEF Stage
  <2> QED
    BY <1>2, <1>3, <1>4, <1>5, <2>1
<1>9. GroupKnows'
  BY <1>1, <1>6, <1>8 DEF GroupKnows, InStage, Failing
<1> QED
  BY <1>5, <1>7, <1>9 DEF IInv

-----------------------------------------------------------------------------
(* The steps of a stage: its locals stay well-formed, and nothing makes it  *)
(* look like one that was skipped.                                          *)

LEMMA StageFailsKeeps ==
  ASSUME Types, NEW kind \in Failures, StageFails(kind), UNCHANGED group
  PROVE  Types'
  BY DEF Types, Locals, StageFails, Before

\* What the coordinator makes of a payload is a kind of failure.
LEMMA JudgedKind ==
  ASSUME Types, pc = "judge"
  PROVE  JudgedAs(here.payload) \in Failures
  BY DEF Types, JudgedAs, Failures

LEMMA PayloadKind ==
  ASSUME NEW ends, NEW watch \in BOOLEAN
  PROVE  StagePayload(ends, watch).failure \in Failures
<1>1. StagePayload(ends, watch).failure = IF watch THEN "watch" ELSE DeriveFailure(ends)
  BY DEF StagePayload
<1> QED
  BY <1>1, DeriveFailureIsOne DEF Failures

LEMMA ExecuteTypes ==
  ASSUME IInv, Execute \/ DryRun
  PROVE  Types'
<1>1. pc' = "judge" /\ here \in Locals(here.worker, here.payload) /\ UNCHANGED group
  BY DEF IInv, Types, Execute, DryRun
<1>2. CASE Execute
  <2>1. PICK ends \in Dispatched(jobs'), watch \in BOOLEAN :
          here' = [here EXCEPT !.payload = StagePayload(ends, watch)]
    BY <1>2 DEF Execute
  <2> DEFINE p == StagePayload(ends, watch)
  <2>2. p.failure \in Failures
    BY PayloadKind
  <2> HIDE DEF p
  <2>3. here' = [here EXCEPT !.payload = p]
    BY <2>1 DEF p
  <2>4. here' \in Locals(here'.worker, here'.payload) /\ here'.payload = p
    BY <1>1, <2>3 DEF Locals
  <2> QED
    BY <1>1, <2>2, <2>4 DEF IInv, Types, Before
<1>3. CASE DryRun
  <2> DEFINE p == [Base EXCEPT !.total = Len(jobs')]
  <2>1. here' = [here EXCEPT !.payload = p, !.ok = TRUE]
    BY <1>3 DEF DryRun
  <2>2. p.failure \in Failures
    BY DEF Base, Failures
  <2> HIDE DEF p
  <2>3. here' \in Locals(here'.worker, here'.payload) /\ here'.payload = p
    BY <1>1, <2>1 DEF Locals
  <2> QED
    BY <1>1, <2>2, <2>3 DEF IInv, Types, Before
<1> QED
  BY <1>2, <1>3

\* The steps that change nothing of a stage but what its locals say.
Inner ==
  \/ StartStage \/ AcquireWorker \/ Prepare \/ Execute \/ ExecuteFails \/ DryRun
  \/ Judge \/ ReportError \/ EnsureStageSummary \/ MirrorStage \/ ReleaseWorker
  \/ EndStageFails \/ EndStageInterrupted

LEMMA InnerMoves ==
  ASSUME Inner
  PROVE  /\ pc \in InStage /\ pc' \in InStage \cup After
         /\ UNCHANGED <<plan, i, group, results>>
  BY DEF Inner, StartStage, AcquireWorker, Prepare, Execute, ExecuteFails, DryRun,
     Judge, ReportError, EnsureStageSummary, MirrorStage, ReleaseWorker, EndStageFails,
     EndStageInterrupted, GiveUp, StageFails, context, outcome, InStage, After

LEMMA InnerTypes ==
  ASSUME IInv, Inner
  PROVE  Types'
<1>0. Types /\ UNCHANGED group /\ pc \in InStage /\ pc' \in InStage \cup After
      /\ "execution" \in Failures
  BY InnerMoves DEF IInv, Failures
<1>1. CASE StartStage \/ EnsureStageSummary \/ MirrorStage \/ ReleaseWorker
           \/ EndStageFails \/ EndStageInterrupted
  BY <1>0, <1>1 DEF Types, StartStage, EnsureStageSummary, MirrorStage, ReleaseWorker,
     EndStageFails, EndStageInterrupted, GiveUp, Before, InStage
<1>2. CASE AcquireWorker
  <2>1. CASE StageFails("execution")
    BY <1>0, <2>1, StageFailsKeeps
  <2>2. CASE here' = [here EXCEPT !.worker = Head(pool), !.known = TRUE] /\ pc' = "prepare"
    BY <1>0, <2>2 DEF Types, Locals, Before
  <2> QED
    BY <1>2, <2>1, <2>2 DEF AcquireWorker
<1>3. CASE Prepare
  <2>1. CASE StageFails("execution")
    BY <1>0, <2>1, StageFailsKeeps
  <2>2. CASE UNCHANGED here /\ pc' = "execute"
    BY <1>0, <2>2 DEF Types, Before
  <2> QED
    BY <1>3, <2>1, <2>2 DEF Prepare
<1>4. CASE Execute \/ DryRun
  BY <1>4, ExecuteTypes
<1>5. CASE ExecuteFails
  BY <1>0, <1>5, StageFailsKeeps DEF ExecuteFails
<1>6. CASE Judge
  <2>1. CASE StageFails(JudgedAs(here.payload))
    BY <1>0, <1>6, <2>1, JudgedKind, StageFailsKeeps DEF Judge
  <2>2. CASE StageFails("execution")
    BY <1>0, <2>2, StageFailsKeeps
  <2>3. CASE here' = [here EXCEPT !.ok = TRUE] /\ pc' = "summarize"
    BY <1>0, <2>3 DEF Types, Locals, Before
  <2> QED
    BY <1>6, <2>1, <2>2, <2>3 DEF Judge
<1>7. CASE ReportError
  <2>1. CASE UNCHANGED here
    BY <1>0, <1>7, <2>1 DEF Types, ReportError, Before
  <2>2. CASE here' = [here EXCEPT !.raising = "error"]
    BY <1>0, <1>7, <2>2 DEF Types, Locals, ReportError, Before
  <2> QED
    BY <1>7, <2>1, <2>2 DEF ReportError
<1> QED
  BY <1>1, <1>2, <1>3, <1>4, <1>5, <1>6, <1>7 DEF Inner

LEMMA InterruptKeeps ==
  ASSUME IInv, Interrupt
  PROVE  IInv'
<1>1. UNCHANGED <<plan, i, group, results>> /\ group \in Group
  BY DEF Interrupt, context, outcome, IInv, Types
<1>2. CASE pc' = "finish" /\ UNCHANGED here
  BY <1>1, <1>2, LeavesLoop DEF After
<1>3. CASE pc \in InTry /\ pc' = "summarize"
           /\ here' = [here EXCEPT !.raising = "interrupt"]
  <2>1. Types'
    BY <1>1, <1>3 DEF IInv, Types, Locals, Before
  <2> QED
    BY <1>1, <1>3, <2>1, StageStep DEF InTry, InStage
<1> QED
  BY <1>2, <1>3 DEF Interrupt

-----------------------------------------------------------------------------
LEMMA NextIInv == IInv /\ [Next]_vars => IInv'
<1> SUFFICES ASSUME IInv, [Next]_vars PROVE IInv'
  OBVIOUS
<1>1. CASE Checkout \/ Compile
  BY <1>1, BeforeStages DEF Checkout, Compile, GiveUp, Before, After
<1>2. CASE Preflight
  BY <1>2, PreflightKeeps
<1>3. CASE EnterStage \/ SkipStage \/ EndStage
  BY <1>3, EnterStageKeeps, SkipStageKeeps, EndStageKeeps
<1>4. CASE StagesDone \/ WriteRunSummary
  <2>1. UNCHANGED <<plan, i, results, here, group>> /\ pc' \in After /\ group' \in Group
    BY <1>4 DEF StagesDone, WriteRunSummary, context, outcome, After, IInv, Types
  <2> QED
    BY <2>1, LeavesLoop
<1>5. CASE Inner
  BY <1>5, InnerMoves, InnerTypes, StageStep
<1>6. CASE Interrupt
  BY <1>6, InterruptKeeps
<1>7. CASE UNCHANGED vars
  BY <1>7 DEF vars, IInv, Types, Counts, GroupKnows, Failing, Stage, GroupsAreSeparate, Executed
<1> QED
  BY <1>1, <1>2, <1>3, <1>4, <1>5, <1>6, <1>7 DEF Next, Inner

\* Lifecycle and Orchestrator.run: in every plan a stage is skipped exactly when a
\* stage before it failed in its own lifecycle group.
THEOREM GroupsAreSeparateHolds == Spec => []GroupsAreSeparate
<1>1. IInv => GroupsAreSeparate
  BY DEF IInv
<1> HIDE DEF IInv, Init, Next, vars, GroupsAreSeparate
<1> QED
  BY <1>1, InitIInv, NextIInv, PTL DEF Spec

-----------------------------------------------------------------------------
(* The workers.                                                             *)

Holding == {"prepare", "execute", "judge", "report", "summarize", "mirror", "release"}

\* What a stage holds in each of its steps.
Held == IF pc \in Holding THEN {here.worker} \ {NoWorker} ELSE {}

\* The workers of p and those of h are 1..n, each of them once.
Whole(p, h, n) ==
  /\ p \in Seq(1..n) /\ h \cap Range(p) = {}
  /\ \A j, k \in DOMAIN p : p[j] = p[k] => j = k
  /\ Range(p) \cup h = 1..n
  /\ Len(p) + Cardinality(h) = n

PoolWhole ==
  /\ spec \in Specs
  /\ pc \in {"start", "acquire"} => here.worker = NoWorker
  /\ i > 0 => Whole(pool, Held, Capacity(spec))

LEMMA Sizes01 == Cardinality({}) = 0 /\ \A x : Cardinality({x}) = 1
  BY FS_EmptySet, FS_Singleton

LEMMA WholeAtFirst ==
  ASSUME NEW n \in Nat, NEW p, p = [k \in 1..n |-> k]
  PROVE  Whole(p, {}, n)
<1>1. p \in Seq(1..n) /\ Len(p) = n /\ DOMAIN p = 1..n
  OBVIOUS
<1>2. Range(p) = 1..n
  BY <1>1 DEF Range
<1> QED
  BY <1>1, <1>2, Sizes01 DEF Whole

LEMMA WholeTaken ==
  ASSUME NEW n \in Nat, NEW p, Whole(p, {}, n), p # <<>>
  PROVE  Whole(Tail(p), {Head(p)}, n) /\ Head(p) \in 1..n
<1>1. /\ p \in Seq(1..n) /\ Len(p) \in Nat \ {0} /\ DOMAIN p = 1..Len(p)
      /\ Range(p) = 1..n /\ Len(p) = n
  BY Sizes01 DEF Whole
<1>2. /\ Tail(p) \in Seq(1..n) /\ Len(Tail(p)) = Len(p) - 1
      /\ DOMAIN Tail(p) = 1..(Len(p) - 1)
      /\ \A k \in 1..(Len(p) - 1) : Tail(p)[k] = p[k + 1]
      /\ Head(p) = p[1] /\ 1 \in DOMAIN p
  BY <1>1
<1>3. \A j, k \in DOMAIN p : p[j] = p[k] => j = k
  BY DEF Whole
<1>4. \A j, k \in DOMAIN Tail(p) : Tail(p)[j] = Tail(p)[k] => j = k
  <2> TAKE j, k \in DOMAIN Tail(p)
  <2> HAVE Tail(p)[j] = Tail(p)[k]
  <2>1. j + 1 \in DOMAIN p /\ k + 1 \in DOMAIN p /\ p[j + 1] = p[k + 1]
    BY <1>1, <1>2
  <2>2. j + 1 = k + 1
    BY <1>3, <2>1
  <2> QED
    BY <1>2, <2>2
<1>5. Head(p) \notin Range(Tail(p))
  <2> SUFFICES ASSUME NEW k \in DOMAIN Tail(p), Tail(p)[k] = Head(p) PROVE FALSE
    BY DEF Range
  <2>1. k + 1 \in DOMAIN p /\ p[k + 1] = p[1]
    BY <1>1, <1>2
  <2>2. k + 1 = 1
    BY <1>2, <1>3, <2>1
  <2> QED
    BY <1>2, <2>2
<1>6. Range(Tail(p)) \cup {Head(p)} = Range(p)
  <2>1. \A k \in DOMAIN p : k = 1 \/ (k - 1 \in DOMAIN Tail(p) /\ Tail(p)[k - 1] = p[k])
    BY <1>1, <1>2
  <2>2. \A k \in DOMAIN Tail(p) : k + 1 \in DOMAIN p /\ p[k + 1] = Tail(p)[k]
    BY <1>1, <1>2
  <2> QED
    <3>1. ASSUME NEW x \in Range(p) PROVE x \in Range(Tail(p)) \cup {Head(p)}
      <4>1. PICK k \in DOMAIN p : x = p[k]
        BY DEF Range
      <4> QED
        BY <1>2, <2>1, <4>1 DEF Range
    <3>2. ASSUME NEW x \in Range(Tail(p)) PROVE x \in Range(p)
      <4>1. PICK k \in DOMAIN Tail(p) : x = Tail(p)[k]
        BY DEF Range
      <4> QED
        BY <2>2, <4>1 DEF Range
    <3>3. Head(p) \in Range(p)
      BY <1>2 DEF Range
    <3> QED
      BY <3>1, <3>2, <3>3
<1>7. Len(Tail(p)) + Cardinality({Head(p)}) = n
  <2>1. Cardinality({Head(p)}) = 1
    BY Sizes01
  <2> QED
    BY <1>1, <1>2, <2>1
<1>8. Head(p) \in 1..n
  BY <1>1
<1> QED
  BY <1>1, <1>2, <1>4, <1>5, <1>6, <1>7, <1>8 DEF Whole

LEMMA WholeReturned ==
  ASSUME NEW n \in Nat, NEW p, NEW w, Whole(p, {w}, n)
  PROVE  Whole(Append(p, w), {}, n)
<1>0. Cardinality({w}) = 1 /\ Cardinality({}) = 0
  BY Sizes01
<1>1. /\ p \in Seq(1..n) /\ w \in 1..n /\ w \notin Range(p) /\ Len(p) + 1 = n
      /\ Len(p) \in Nat /\ Range(p) \cup {w} = 1..n
      /\ \A j, k \in DOMAIN p : p[j] = p[k] => j = k
  BY <1>0 DEF Whole
<1>2. /\ Append(p, w) \in Seq(1..n) /\ Len(Append(p, w)) = n
      /\ DOMAIN Append(p, w) = 1..(Len(p) + 1) /\ DOMAIN p = 1..Len(p)
      /\ \A k \in 1..Len(p) : Append(p, w)[k] = p[k]
      /\ Append(p, w)[Len(p) + 1] = w
  BY <1>1
<1>3. \A k \in DOMAIN p : p[k] # w
  BY <1>1 DEF Range
<1>4. \A j, k \in DOMAIN Append(p, w) : Append(p, w)[j] = Append(p, w)[k] => j = k
  BY <1>1, <1>2, <1>3
<1>5. Range(Append(p, w)) = Range(p) \cup {w}
  BY <1>1, <1>2 DEF Range
<1> QED
  BY <1>0, <1>1, <1>2, <1>4, <1>5 DEF Whole

LEMMA PreflightPool ==
  ASSUME IInv, PoolWhole, Preflight
  PROVE  PoolWhole'
<1>1. spec' = spec /\ spec \in Specs /\ Capacity(spec) \in Nat /\ here' = here
      /\ i = 0 /\ pc = "health"
  BY CapacityAssumption DEF Preflight, PoolWhole, IInv, Counts, Before
<1>2. CASE pc' = "finish" /\ i' = i
  BY <1>1, <1>2 DEF PoolWhole
<1>3. CASE pc' = "loop" /\ pool' = [k \in 1..Capacity(spec) |-> k]
  <2>1. Held' = {}
    BY <1>3 DEF Held, Holding
  <2> QED
    BY <1>1, <1>3, <2>1, WholeAtFirst DEF PoolWhole
<1> QED
  BY <1>2, <1>3 DEF Preflight, GiveUp

\* Most steps move no worker.
LEMMA PoolStays ==
  ASSUME PoolWhole, UNCHANGED <<spec, pool>>, i' > 0 => i > 0, Held' = Held,
         pc' \in {"start", "acquire"} => here'.worker = NoWorker
  PROVE  PoolWhole'
  BY DEF PoolWhole

LEMMA AcquirePool ==
  ASSUME IInv, PoolWhole, AcquireWorker
  PROVE  PoolWhole'
<1>1. /\ here.worker = NoWorker /\ Held = {} /\ i \in Nat \ {0} /\ UNCHANGED <<spec, i>>
      /\ Capacity(spec) \in Nat /\ here \in Locals(here.worker, here.payload)
  BY CapacityAssumption DEF PoolWhole, AcquireWorker, Held, Holding, IInv, Types, Counts,
     InStage, context
<1>2. CASE pool = <<>>
  <2>1. UNCHANGED pool /\ pc' = "report" /\ here'.worker = NoWorker
    BY <1>1, <1>2 DEF AcquireWorker, StageFails, Locals
  <2>2. Held' = {}
    BY <2>1 DEF Held
  <2> QED
    BY <1>1, <2>1, <2>2, PoolStays
<1>3. CASE pool # <<>>
  <2>1. pool' = Tail(pool) /\ pc' = "prepare" /\ here'.worker = Head(pool)
    BY <1>1, <1>3 DEF AcquireWorker, Locals
  <2>2. Whole(Tail(pool), {Head(pool)}, Capacity(spec)) /\ Head(pool) # NoWorker
    BY <1>1, <1>3, WholeTaken DEF PoolWhole, NoWorker
  <2>3. Held' = {Head(pool)}
    BY <2>1, <2>2 DEF Held, Holding
  <2> QED
    BY <1>1, <2>1, <2>2, <2>3 DEF PoolWhole
<1> QED
  BY <1>2, <1>3

LEMMA ReleasePool ==
  ASSUME IInv, PoolWhole, ReleaseWorker
  PROVE  PoolWhole'
<1>1. /\ pc = "release" /\ pc' = "end" /\ UNCHANGED <<spec, i, here>>
      /\ i \in Nat \ {0} /\ Capacity(spec) \in Nat /\ Held' = {}
      /\ Whole(pool, Held, Capacity(spec)) /\ Held = {here.worker} \ {NoWorker}
  BY CapacityAssumption DEF PoolWhole, ReleaseWorker, Held, Holding, IInv, Counts, InStage,
     context
<1>2. CASE here.worker = NoWorker
  BY <1>1, <1>2 DEF PoolWhole, ReleaseWorker
<1>3. CASE here.worker # NoWorker
  <2>1. Held = {here.worker}
    BY <1>1, <1>3
  <2>2. here.worker \notin Range(pool)
    BY <1>1, <2>1 DEF Whole
  <2>3. pool' = Append(pool, here.worker)
    BY <1>3, <2>2 DEF ReleaseWorker
  <2> QED
    BY <1>1, <2>1, <2>3, WholeReturned DEF PoolWhole
<1> QED
  BY <1>2, <1>3

\* A step from one place where a stage holds its worker to another.
LEMMA HoldingStays ==
  ASSUME PoolWhole, UNCHANGED <<spec, pool, i>>, pc \in Holding, pc' \in Holding,
         here'.worker = here.worker
  PROVE  PoolWhole'
<1>1. Held' = Held /\ pc' \notin {"start", "acquire"}
  BY DEF Held, Holding
<1> QED
  BY <1>1, PoolStays

\* And from one where there is none to another.
LEMMA NoneStays ==
  ASSUME PoolWhole, UNCHANGED <<spec, pool>>, pc \notin Holding, pc' \notin Holding,
         i' > 0 => i > 0, pc' \in {"start", "acquire"} => here'.worker = NoWorker
  PROVE  PoolWhole'
<1>1. Held' = Held
  BY DEF Held
<1> QED
  BY <1>1, PoolStays

LEMMA HoldingSteps ==
  ASSUME IInv, PoolWhole,
         \/ Prepare \/ Execute \/ ExecuteFails \/ DryRun \/ Judge \/ ReportError
         \/ EnsureStageSummary \/ MirrorStage
  PROVE  PoolWhole'
<1>1. UNCHANGED <<spec, pool, i>> /\ pc \in Holding /\ pc' \in Holding
  BY DEF Prepare, Execute, ExecuteFails, DryRun, Judge, ReportError, EnsureStageSummary,
     MirrorStage, StageFails, context, Holding
<1>2. here \in Locals(here.worker, here.payload)
  BY DEF IInv, Types
<1>3. here'.worker = here.worker
  <2>1. CASE Execute
    <3>1. \E p : here' = [here EXCEPT !.payload = p]
      BY <2>1 DEF Execute
    <3> QED
      BY <1>2, <3>1 DEF Locals
  <2>2. CASE DryRun
    <3>1. \E p : here' = [here EXCEPT !.payload = p, !.ok = TRUE]
      BY <2>2 DEF DryRun
    <3> QED
      BY <1>2, <3>1 DEF Locals
  <2>3. CASE Judge \/ ReportError \/ Prepare \/ ExecuteFails
    <3>1. ASSUME NEW kind, StageFails(kind) PROVE here'.worker = here.worker
      BY <1>2, <3>1 DEF StageFails, Locals
    <3>2. CASE here' = [here EXCEPT !.ok = TRUE]
      BY <1>2, <3>2 DEF Locals
    <3>3. CASE here' = [here EXCEPT !.raising = "error"]
      BY <1>2, <3>3 DEF Locals
    <3> QED
      BY <2>3, <3>1, <3>2, <3>3 DEF Judge, ReportError, Prepare, ExecuteFails
  <2>4. CASE EnsureStageSummary \/ MirrorStage
    BY <2>4 DEF EnsureStageSummary, MirrorStage
  <2> QED
    BY <2>1, <2>2, <2>3, <2>4
<1> QED
  BY <1>1, <1>3, HoldingStays

LEMMA NextPool == IInv /\ PoolWhole /\ [Next]_vars => PoolWhole'
<1> SUFFICES ASSUME IInv, PoolWhole, [Next]_vars PROVE PoolWhole'
  OBVIOUS
<1>0. /\ i \in Nat
      /\ pc \in {"loop"} \cup InStage => i > 0
      /\ here \in Locals(here.worker, here.payload)
  <2>1. \E S : results \in Seq(S)
    BY DEF IInv, Counts
  <2>2. Len(results) \in Nat
    BY <2>1
  <2> QED
    BY <2>2 DEF IInv, Counts, Types
<1>1. CASE Checkout \/ Compile \/ StagesDone \/ WriteRunSummary
  <2>1. UNCHANGED <<spec, pool, i>> /\ pc \notin Holding /\ pc' \notin Holding
        /\ pc' \notin {"start", "acquire"}
    BY <1>1 DEF Checkout, Compile, StagesDone, WriteRunSummary, GiveUp, context, Holding
  <2> QED
    BY <2>1, NoneStays
<1>2. CASE Preflight
  BY <1>2, PreflightPool
<1>3. CASE EnterStage \/ SkipStage \/ EndStage \/ EndStageFails \/ EndStageInterrupted
  <2>1. /\ UNCHANGED <<spec, pool>> /\ pc \in {"loop"} \cup InStage
        /\ pc \notin Holding /\ pc' \notin Holding
        /\ pc' \in {"start", "acquire"} => here'.worker = NoWorker
    <3>1. CASE EnterStage
      BY <3>1 DEF EnterStage, context, Holding, Fresh
    <3>2. CASE SkipStage \/ EndStage
      BY <3>2 DEF SkipStage, EndStage, GiveUp, NextStage, context, Holding, InStage
    <3>3. CASE EndStageFails \/ EndStageInterrupted
      BY <3>3 DEF EndStageFails, EndStageInterrupted, GiveUp, context, Holding, InStage
    <3> QED
      BY <1>3, <3>1, <3>2, <3>3
  <2> QED
    BY <1>0, <2>1, NoneStays
<1>4. CASE StartStage
  <2>1. UNCHANGED <<spec, pool, i, here>> /\ pc = "start" /\ pc' \in {"acquire", "finish"}
    BY <1>4 DEF StartStage, GiveUp, context
  <2>2. pc \notin Holding /\ pc' \notin Holding /\ here.worker = NoWorker
    BY <2>1 DEF Holding, PoolWhole
  <2> QED
    BY <2>1, <2>2, NoneStays
<1>5. CASE AcquireWorker
  BY <1>5, AcquirePool
<1>6. CASE \/ Prepare \/ Execute \/ ExecuteFails \/ DryRun \/ Judge \/ ReportError
           \/ EnsureStageSummary \/ MirrorStage
  BY <1>6, HoldingSteps
<1>7. CASE ReleaseWorker
  BY <1>7, ReleasePool
<1>8. CASE Interrupt
  <2>1. UNCHANGED <<spec, pool, i>>
    BY <1>8 DEF Interrupt, context
  <2>2. CASE pc' = "finish" /\ pc \in {"checkout", "compile", "health", "loop", "start"}
    BY <2>1, <2>2, NoneStays DEF Holding
  <2>3. CASE pc \in InTry /\ pc' = "summarize"
             /\ here' = [here EXCEPT !.raising = "interrupt"]
    <3>1. here'.worker = here.worker
      BY <1>0, <2>3 DEF Locals
    <3>2. CASE pc = "acquire"
      <4>1. here.worker = NoWorker /\ Held = {} /\ Held' = {}
        BY <2>3, <3>1, <3>2 DEF PoolWhole, Held, Holding
      <4> QED
        BY <2>1, <2>3, <4>1, PoolStays
    <3>3. CASE pc # "acquire"
      BY <2>1, <2>3, <3>1, <3>3, HoldingStays DEF InTry, Holding
    <3> QED
      BY <3>2, <3>3
  <2> QED
    BY <1>8, <2>2, <2>3 DEF Interrupt
<1>9. CASE UNCHANGED vars
  BY <1>9 DEF vars, PoolWhole, Held
<1> QED
  BY <1>1, <1>2, <1>3, <1>4, <1>5, <1>6, <1>7, <1>8, <1>9 DEF Next

\* WorkerPool and the finally clause of StageCoordinator.run: whatever a stage runs
\* into, and whatever interrupts it, each worker is free or held, and once.
THEOREM WorkerReturnedHolds == Spec => []WorkerReturned
<1>1. Init => PoolWhole
  BY DEF Init, PoolWhole
<1>2. PoolWhole => WorkerReturned
  BY DEF PoolWhole, Whole, Held, Holding, WorkerReturned
<1> HIDE DEF IInv, PoolWhole, Init, Next, vars, WorkerReturned
<1> QED
  BY <1>1, <1>2, InitIInv, NextIInv, NextPool, PTL DEF Spec

-----------------------------------------------------------------------------
(* The end of a run.                                                        *)

\* The plan is what the loop goes through, to its end unless something ends it.
Dealt ==
  /\ spec \in Specs
  /\ Len(plan) \in Nat /\ DOMAIN plan = 1..Len(plan) /\ DOMAIN mirrored = DOMAIN plan
  /\ pc = "loop" => i <= Len(plan) + 1
  /\ pc \in InStage => i <= Len(plan)
  /\ here.raising = "interrupt" => interrupted
  /\ pc \in After /\ ~error /\ ~interrupted => Len(results) = Len(plan)

\* overall_ok is the history of the run.
Judged ==
  /\ ok \in BOOLEAN
  /\ ok <=> ~error /\ \A k \in DOMAIN results : results[k].skipped \/ results[k].ok
  /\ \A k \in DOMAIN results : results[k].skipped => ~results[k].ok

\* A file that a stage has written is never one of a skipped stage.
Whether(p) ==
  p # NoSummary => {"verdict", "failure"} \subseteq DOMAIN p /\ p.verdict \in {"PASSED", "FAILED"}

Files ==
  /\ Whether(here.payload) /\ Whether(written)
  /\ \A k \in DOMAIN mirrored : Whether(mirrored[k])

LEMMA ResultsAreListed ==
  ASSUME IInv
  PROVE  /\ Len(results) \in Nat /\ DOMAIN results = 1..Len(results) /\ i \in Nat
         /\ pc \in {"loop"} \cup InStage => i = Len(results) + 1
<1>1. PICK S : results \in Seq(S)
  BY DEF IInv, Counts
<1> QED
  BY <1>1 DEF IInv, Counts

LEMMA InitEnd == Init => Dealt /\ Judged /\ Files
  BY DEF Init, Dealt, Judged, Files, Whether, Fresh, InStage, After

-----------------------------------------------------------------------------
(* The stages that are dealt with.                                          *)

\* The plan does not change, and the place in it is kept.
LEMMA DealtStays ==
  ASSUME Dealt, UNCHANGED <<spec, plan>>, DOMAIN mirrored' = DOMAIN mirrored,
         here'.raising = "interrupt" => interrupted',
         pc' = "loop" => i' <= Len(plan) + 1,
         pc' \in InStage => i' <= Len(plan),
         pc' \in After => error' \/ interrupted' \/ Len(results') = Len(plan)
  PROVE  Dealt'
  BY DEF Dealt

LEMMA CompileDeals ==
  ASSUME IInv, Dealt, Compile
  PROVE  Dealt'
<1>1. /\ UNCHANGED <<spec, results, here, interrupted>>
      /\ (pc' = "finish" /\ error' = TRUE) \/ pc' = "health"
  BY DEF Compile, GiveUp, context
<1>2. CASE UNCHANGED <<plan, mirrored>>
  <2>1. pc' \notin {"loop"} \cup InStage /\ (pc' \in After => error')
    BY <1>1 DEF InStage, After
  <2> QED
    BY <1>1, <1>2, <2>1, DealtStays DEF Dealt
<1>3. CASE plan' = CompileRunPlan(spec) /\ mirrored' = [k \in DOMAIN plan' |-> NoSummary] /\ pc' = "health"
  <2>1. PICK S : plan' \in Seq(S)
    BY <1>3, PlanIsList DEF Dealt
  <2> QED
    BY <1>1, <1>3, <2>1 DEF Dealt, InStage, After
<1> QED
  BY <1>1, <1>2, <1>3 DEF Compile, context

\* A stage has its result, or none because it was skipped: the next one is in hand.
LEMMA OneDealt ==
  ASSUME IInv, Dealt, NEW r, results' = Append(results, r), NextStage,
         UNCHANGED <<spec, plan, mirrored, here, interrupted>>, pc \in {"loop"} \cup InStage,
         i <= Len(plan)
  PROVE  Dealt'
<1>1. pc' = "loop" /\ i' = i + 1
  BY DEF NextStage
<1>2. i \in Nat /\ Len(plan) \in Nat
  BY ResultsAreListed DEF Dealt
<1>3. i' <= Len(plan) + 1
  BY <1>1, <1>2
<1> QED
  BY <1>1, <1>3, DealtStays DEF Dealt, InStage, After

LEMMA InnerDeals ==
  ASSUME IInv, Dealt, Inner
  PROVE  Dealt'
<1>1. /\ pc \in InStage /\ pc' \in InStage \cup After
      /\ UNCHANGED <<plan, i, group, results>>
  BY InnerMoves
<1>2. UNCHANGED <<spec, interrupted>>
  BY DEF Inner, StartStage, AcquireWorker, Prepare, Execute, ExecuteFails, DryRun,
     Judge, ReportError, EnsureStageSummary, MirrorStage, ReleaseWorker, EndStageFails,
     EndStageInterrupted, context
<1>3. DOMAIN mirrored' = DOMAIN mirrored
  BY DEF Inner, StartStage, AcquireWorker, Prepare, Execute, ExecuteFails, DryRun,
     Judge, ReportError, EnsureStageSummary, MirrorStage, ReleaseWorker, EndStageFails,
     EndStageInterrupted, files
<1>4. here'.raising = "interrupt" => here.raising = "interrupt"
  <2>1. here \in Locals(here.worker, here.payload)
    BY DEF IInv, Types
  <2>2. CASE StartStage \/ EnsureStageSummary \/ MirrorStage \/ ReleaseWorker
             \/ EndStageFails \/ EndStageInterrupted
    BY <2>2 DEF StartStage, EnsureStageSummary, MirrorStage, ReleaseWorker,
       EndStageFails, EndStageInterrupted
  <2>3. CASE AcquireWorker \/ Prepare \/ Execute \/ ExecuteFails \/ DryRun \/ Judge
    BY <2>1, <2>3 DEF AcquireWorker, Prepare, Execute, ExecuteFails, DryRun, Judge,
       StageFails, Locals
  <2>4. CASE ReportError
    BY <2>1, <2>4 DEF ReportError, Locals
  <2> QED
    BY <2>2, <2>3, <2>4 DEF Inner
<1>5. pc' \in After => error' \/ interrupted'
  <2>1. CASE StartStage \/ EndStageFails
    BY <2>1 DEF StartStage, EndStageFails, GiveUp, After
  <2>2. CASE EndStageInterrupted
    BY <1>2, <2>2 DEF EndStageInterrupted, Dealt
  <2>3. CASE \/ AcquireWorker \/ Prepare \/ Execute \/ ExecuteFails \/ DryRun
             \/ Judge \/ ReportError \/ EnsureStageSummary \/ MirrorStage \/ ReleaseWorker
    BY <2>3 DEF AcquireWorker, Prepare, Execute, ExecuteFails, DryRun, Judge, ReportError,
       EnsureStageSummary, MirrorStage, ReleaseWorker, StageFails, After
  <2> QED
    BY <2>1, <2>2, <2>3 DEF Inner
<1>6. pc' # "loop" /\ i' <= Len(plan)
  BY <1>1 DEF Dealt, InStage, After
<1> QED
  BY <1>1, <1>2, <1>3, <1>4, <1>5, <1>6, DealtStays DEF Dealt

LEMMA NextDealt ==
  ASSUME IInv, Dealt, [Next]_vars
  PROVE  Dealt'
<1>1. CASE Checkout \/ Preflight
  <2>1. /\ UNCHANGED <<spec, plan, results, here, mirrored, interrupted>>
        /\ pc' \in {"compile", "finish", "loop"}
        /\ pc' = "finish" => error'
        /\ pc' = "loop" => i' = 1
    BY <1>1 DEF Checkout, Preflight, GiveUp, context, files
  <2> QED
    BY <2>1, DealtStays DEF Dealt, InStage, After
<1>2. CASE Compile
  BY <1>2, CompileDeals
<1>3. CASE EnterStage
  <2>1. /\ UNCHANGED <<spec, plan, results, i, mirrored, interrupted>> /\ here' = Fresh
        /\ pc' = "start" /\ i <= Len(plan)
    BY <1>3 DEF EnterStage, context, outcome
  <2> QED
    BY <2>1, DealtStays DEF Fresh, InStage, After
<1>4. CASE SkipStage
  <2>1. /\ pc = "loop" /\ i <= Len(plan)
        /\ UNCHANGED <<spec, plan, mirrored, here, interrupted>>
    BY <1>4 DEF SkipStage, context, files
  <2>2. CASE results' = Append(results, Result(FALSE, "skipped")) /\ NextStage
    BY <2>1, <2>2, OneDealt
  <2>3. CASE GiveUp /\ UNCHANGED <<results, i>>
    BY <2>1, <2>3, DealtStays DEF Dealt, GiveUp, InStage
  <2> QED
    BY <1>4, <2>2, <2>3 DEF SkipStage
<1>5. CASE EndStage
  <2>1. /\ pc \in InStage /\ UNCHANGED <<spec, plan, mirrored, here, interrupted>>
        /\ results' = Append(results, Result(here.ok, here.failure)) /\ NextStage
    BY <1>5 DEF EndStage, context, files, InStage
  <2> QED
    BY <2>1, OneDealt DEF Dealt
<1>6. CASE StagesDone
  <2>1. /\ UNCHANGED <<spec, plan, results, here, mirrored, interrupted>>
        /\ pc = "loop" /\ pc' = "finish" /\ i > Len(plan)
    BY <1>6 DEF StagesDone, context, files, outcome
  <2>2. Len(results) = Len(plan)
    <3>1. /\ i = Len(results) + 1 /\ i <= Len(plan) + 1 /\ i > Len(plan)
          /\ Len(results) \in Nat /\ Len(plan) \in Nat
      BY <2>1, ResultsAreListed DEF Dealt
    <3> QED
      BY <3>1
  <2> QED
    BY <2>1, <2>2, DealtStays DEF Dealt, InStage
<1>7. CASE WriteRunSummary
  <2>1. /\ UNCHANGED <<spec, plan, results, here, mirrored, interrupted, error>>
        /\ pc \in After /\ pc' = "returned"
    BY <1>7 DEF WriteRunSummary, context, outcome, After
  <2> QED
    BY <2>1, DealtStays DEF Dealt, InStage
<1>8. CASE Inner
  BY <1>8, InnerDeals
<1>9. CASE Interrupt
  <2>1. /\ UNCHANGED <<spec, plan, results, i, mirrored>> /\ interrupted'
        /\ pc' = "finish" \/ (pc' = "summarize" /\ pc \in InStage)
    BY <1>9 DEF Interrupt, context, outcome, files, InTry, InStage
  <2> QED
    BY <2>1, DealtStays DEF Dealt, InStage
<1>10. CASE UNCHANGED vars
  BY <1>10 DEF vars, Dealt
<1> QED
  BY <1>1, <1>2, <1>3, <1>4, <1>5, <1>6, <1>7, <1>8, <1>9, <1>10 DEF Next, Inner

\* Orchestrator.run: a run that is neither given up nor interrupted deals with every
\* stage of its plan, and runs those that are to run whatever failed before.
THEOREM CleanupRunsHolds == Spec => []CleanupRuns
<1>1. IInv /\ Dealt => CleanupRuns
  <2> SUFFICES ASSUME IInv, Dealt, pc = "returned", ~error, ~interrupted
               PROVE  /\ Len(results) = Len(plan)
                      /\ \A k \in DOMAIN plan : plan[k].when = "always" => Executed(k)
    BY DEF CleanupRuns
  <2>1. Len(results) = Len(plan) /\ DOMAIN plan = DOMAIN results
    BY ResultsAreListed DEF Dealt, After
  <2> QED
    BY <2>1 DEF IInv, GroupsAreSeparate, Executed
<1>2. Dealt /\ IInv /\ [Next]_vars => Dealt'
  BY NextDealt
<1> HIDE DEF IInv, Dealt, Init, Next, vars, CleanupRuns
<1> QED
  BY <1>1, <1>2, InitEnd, InitIInv, NextIInv, PTL DEF Spec

-----------------------------------------------------------------------------
(* What the run says of itself.                                             *)

\* The results stay, and so does the flag, unless the run is given up.
LEMMA JudgedStays ==
  ASSUME Judged, UNCHANGED results, UNCHANGED <<ok, error>> \/ (ok' = FALSE /\ error' = TRUE)
  PROVE  Judged'
<1>1. CASE UNCHANGED <<ok, error>>
  BY <1>1 DEF Judged
<1>2. CASE ok' = FALSE /\ error' = TRUE
  BY <1>2 DEF Judged
<1> QED
  BY <1>1, <1>2

LEMMA OneJudged ==
  ASSUME IInv, Judged, NEW r, results' = Append(results, r), UNCHANGED error,
         r.ok \in BOOLEAN, r.skipped => ~r.ok,
         ok' = (ok /\ (r.skipped \/ r.ok))
  PROVE  Judged'
<1>1. PICK S : results \in Seq(S)
  BY DEF IInv, Counts
<1>2. /\ DOMAIN results = 1..Len(results) /\ Len(results) \in Nat
      /\ DOMAIN results' = 1..(Len(results) + 1)
      /\ \A k \in 1..Len(results) : results'[k] = results[k]
      /\ results'[Len(results) + 1] = r
  BY <1>1, OneMore
<1>3. \A k \in DOMAIN results' : k \in DOMAIN results \/ k = Len(results) + 1
  BY <1>2
<1>4. Len(results) + 1 \in DOMAIN results' /\ DOMAIN results \subseteq DOMAIN results'
  BY <1>2
<1>5. \A k \in DOMAIN results' : results'[k].skipped => ~results'[k].ok
  BY <1>2, <1>3 DEF Judged
<1>6. (\A k \in DOMAIN results' : results'[k].skipped \/ results'[k].ok)
        <=> /\ \A k \in DOMAIN results : results[k].skipped \/ results[k].ok
            /\ r.skipped \/ r.ok
  BY <1>2, <1>3, <1>4
<1>7. ok \in BOOLEAN /\ ok' \in BOOLEAN
  BY DEF Judged
<1>8. ok' <=> ~error' /\ \A k \in DOMAIN results' : results'[k].skipped \/ results'[k].ok
  BY <1>6, <1>7 DEF Judged
<1> QED
  BY <1>5, <1>7, <1>8 DEF Judged

LEMMA NextJudged ==
  ASSUME IInv, Judged, [Next]_vars
  PROVE  Judged'
<1>1. CASE \/ Checkout \/ Compile \/ Preflight \/ EnterStage \/ StagesDone \/ Interrupt
           \/ WriteRunSummary
  <2>1. UNCHANGED results /\ (UNCHANGED <<ok, error>> \/ (ok' = FALSE /\ error' = TRUE))
    BY <1>1 DEF Checkout, Compile, Preflight, EnterStage, StagesDone, Interrupt, WriteRunSummary,
       GiveUp, outcome
  <2> QED
    BY <2>1, JudgedStays
<1>2. CASE Inner
  <2>1. UNCHANGED results /\ (UNCHANGED <<ok, error>> \/ (ok' = FALSE /\ error' = TRUE))
    BY <1>2 DEF Inner, StartStage, AcquireWorker, Prepare, Execute, ExecuteFails, DryRun,
       Judge, ReportError, EnsureStageSummary, MirrorStage, ReleaseWorker, EndStageFails,
       EndStageInterrupted, GiveUp, outcome
  <2> QED
    BY <2>1, JudgedStays
<1>3. CASE SkipStage
  <2>1. CASE results' = Append(results, Result(FALSE, "skipped")) /\ UNCHANGED <<ok, error>>
    <3> DEFINE r == Result(FALSE, "skipped")
    <3>1. r.ok = FALSE /\ r.skipped = TRUE
      BY DEF Result
    <3>2. results' = Append(results, r)
      BY <2>1
    <3> HIDE DEF r
    <3>3. ok' = (ok /\ (r.skipped \/ r.ok))
      BY <2>1, <3>1 DEF Judged
    <3> QED
      BY <2>1, <3>1, <3>2, <3>3, OneJudged
  <2>2. CASE GiveUp /\ UNCHANGED results
    BY <2>2, JudgedStays DEF GiveUp
  <2> QED
    BY <1>3, <2>1, <2>2 DEF SkipStage
<1>4. CASE EndStage
  <2> DEFINE r == Result(here.ok, here.failure)
  <2>1. here.ok \in BOOLEAN /\ here.failure # "skipped"
    BY DEF IInv, Types, Locals, Failures
  <2>2. r.ok = here.ok /\ r.skipped = FALSE
    BY <2>1 DEF Result
  <2>3. results' = Append(results, r) /\ ok' = (ok /\ here.ok) /\ UNCHANGED error
    BY <1>4 DEF EndStage
  <2> HIDE DEF r
  <2>4. ok' = (ok /\ (r.skipped \/ r.ok))
    BY <2>1, <2>2, <2>3 DEF Judged
  <2> QED
    BY <2>1, <2>2, <2>3, <2>4, OneJudged
<1>5. CASE UNCHANGED vars
  BY <1>5, JudgedStays DEF vars
<1> QED
  BY <1>1, <1>2, <1>3, <1>4, <1>5 DEF Next, Inner

\* What is written of a stage says that it passed or that it failed.
LEMMA WrittenWhether ==
  ASSUME Files, EnsureStageSummary
  PROVE  Whether(written')
<1> DEFINE payload == IF here.payload = NoSummary THEN Base ELSE here.payload
<1>1. CASE written' = FinalPayload
  <2>1. {"verdict", "failure"} \subseteq DOMAIN payload
    BY DEF Files, Whether, Base
  <2> DEFINE v == IF here.ok THEN "PASSED" ELSE "FAILED"
  <2>2. \E f : written' = [payload EXCEPT !.verdict = v, !.failure = f]
    BY <1>1 DEF FinalPayload
  <2> HIDE DEF payload
  <2>3. DOMAIN written' = DOMAIN payload /\ written'.verdict = v
    BY <2>1, <2>2
  <2> QED
    BY <2>1, <2>3 DEF Whether
<1>2. CASE UNCHANGED written
  BY <1>2 DEF Files
<1> QED
  BY <1>1, <1>2 DEF EnsureStageSummary

LEMMA PayloadWhether ==
  ASSUME IInv, Files, Execute \/ DryRun
  PROVE  Files'
<1>1. here \in Locals(here.worker, here.payload)
  BY DEF IInv, Types
<1>2. CASE Execute
  <2>1. PICK ends \in Dispatched(jobs'), watch \in BOOLEAN :
          /\ written' = StagePayload(ends, watch)
          /\ here' = [here EXCEPT !.payload = written']
    BY <1>2 DEF Execute
  <2>2. Whether(written')
    BY <2>1 DEF Whether, StagePayload
  <2>3. here'.payload = written' /\ UNCHANGED mirrored
    BY <1>1, <1>2, <2>1 DEF Execute, Locals
  <2> QED
    BY <2>2, <2>3 DEF Files
<1>3. CASE DryRun
  <2> DEFINE p == [Base EXCEPT !.total = Len(jobs')]
  <2>1. Whether(p)
    BY DEF Whether, Base
  <2>2. here' = [here EXCEPT !.payload = p, !.ok = TRUE] /\ UNCHANGED files
    BY <1>3 DEF DryRun
  <2> HIDE DEF p
  <2>3. here'.payload = p
    BY <1>1, <2>2 DEF Locals
  <2> QED
    BY <2>1, <2>2, <2>3 DEF Files, files
<1> QED
  BY <1>2, <1>3

LEMMA NextFiles ==
  ASSUME IInv, Files, [Next]_vars
  PROVE  Files'
<1>0. here \in Locals(here.worker, here.payload)
  BY DEF IInv, Types
<1>1. CASE \/ Checkout \/ Preflight \/ SkipStage \/ StagesDone \/ StartStage \/ ReleaseWorker
           \/ EndStage \/ EndStageFails \/ EndStageInterrupted \/ WriteRunSummary
  <2>1. UNCHANGED <<here, written, mirrored>>
    BY <1>1 DEF Checkout, Preflight, SkipStage, StagesDone, StartStage, ReleaseWorker, EndStage,
       EndStageFails, EndStageInterrupted, WriteRunSummary, files
  <2> QED
    BY <2>1 DEF Files
<1>2. CASE Compile
  BY <1>2 DEF Compile, Files, Whether
<1>3. CASE EnterStage
  BY <1>3 DEF EnterStage, Fresh, Files, Whether
<1>4. CASE AcquireWorker \/ Prepare \/ ExecuteFails \/ Judge \/ ReportError \/ Interrupt
  <2>1. UNCHANGED <<written, mirrored>>
    BY <1>4 DEF AcquireWorker, Prepare, ExecuteFails, Judge, ReportError, Interrupt, files
  <2>2. here'.payload = here.payload
    BY <1>0, <1>4 DEF AcquireWorker, Prepare, ExecuteFails, Judge, ReportError, Interrupt,
       StageFails, Locals
  <2> QED
    BY <2>1, <2>2 DEF Files
<1>5. CASE Execute \/ DryRun
  BY <1>5, PayloadWhether
<1>6. CASE EnsureStageSummary
  BY <1>6, WrittenWhether DEF EnsureStageSummary, Files
<1>7. CASE MirrorStage
  BY <1>7 DEF MirrorStage, Files
<1>8. CASE UNCHANGED vars
  BY <1>8 DEF vars, Files
<1> QED
  BY <1>1, <1>2, <1>3, <1>4, <1>5, <1>6, <1>7, <1>8 DEF Next

\* The summary is the last that is written.
Told == summary # NoSummary => pc = "returned" /\ VerdictIsTrue

\* Of a run that is ok no stage was skipped.
LEMMA OkRuns ==
  ASSUME IInv, Judged, ok
  PROVE  ~error /\ \A k \in DOMAIN results : results[k].ok /\ ~results[k].skipped
<1>1. ~error /\ \A k \in DOMAIN results : results[k].skipped \/ results[k].ok
  BY DEF Judged
<1>2. ASSUME NEW k \in DOMAIN results, results[k].skipped PROVE FALSE
  <2>1. PICK j \in 1..(k - 1) : Executed(j) /\ ~results[j].ok
    BY <1>2 DEF IInv, GroupsAreSeparate
  <2>2. j \in DOMAIN results
    BY <1>2, <2>1, ResultsAreListed
  <2> QED
    BY <1>1, <2>1, <2>2 DEF Executed
<1> QED
  BY <1>1, <1>2

LEMMA SummaryIsTrue ==
  ASSUME IInv, Dealt, Judged, Files, WriteRunSummary, ~interrupted, summary' # summary
  PROVE  VerdictIsTrue'
<1>1. /\ pc = "finish" /\ summary'.verdict = RunVerdict(Rows)
      /\ UNCHANGED <<results, plan, error, ok, interrupted, health>>
  BY DEF WriteRunSummary, context, outcome
<1>2. summary'.verdict # "FAILED" <=> ok
  BY <1>1 DEF RunVerdict, Judged
<1>3. ok => /\ ~error /\ Len(results) = Len(plan)
            /\ \A k \in DOMAIN results : results[k].ok
  BY <1>1, OkRuns DEF Dealt, After
<1>4. ~error /\ (\A k \in DOMAIN results : results[k].ok) => ok
  BY DEF Judged
<1>5. ASSUME ok PROVE RowsWith(Rows, "SKIPPED") = {}
  <2>1. DOMAIN results = DOMAIN mirrored
    BY <1>3, <1>5, ResultsAreListed DEF Dealt
  <2>2. ASSUME NEW k \in DOMAIN results PROVE Rows[k].verdict # "SKIPPED"
    <3>1. CASE mirrored[k] = NoSummary
      <4>1. ~results[k].skipped
        BY <1>5, OkRuns
      <4>2. Fallback(results[k]).verdict \in {"PASSED", "FAILED"}
        BY <4>1 DEF Fallback, Base
      <4> QED
        BY <3>1, <4>2 DEF Rows
    <3>2. CASE mirrored[k] # NoSummary
      BY <2>1, <3>2 DEF Rows, Files, Whether
    <3> QED
      BY <3>1, <3>2
  <2> QED
    BY <2>2 DEF RowsWith, Rows
<1>6. summary'.verdict = "WARNING" => health = "degraded"
  BY <1>1, <1>2, <1>5 DEF RunVerdict
<1> QED
  BY <1>1, <1>2, <1>3, <1>4, <1>6 DEF VerdictIsTrue

\* Only the last step writes a summary, and nothing comes after it.
LEMMA NothingAfter ==
  ASSUME Next, ~WriteRunSummary
  PROVE  pc # "returned" /\ UNCHANGED summary
<1>1. pc # "returned"
  BY DEF Next, Checkout, Compile, Preflight, EnterStage, SkipStage, StagesDone, StartStage,
     AcquireWorker, Prepare, Execute, ExecuteFails, DryRun, Judge, ReportError,
     EnsureStageSummary, MirrorStage, ReleaseWorker, EndStage, EndStageFails,
     EndStageInterrupted, Interrupt, InTry
<1>2. UNCHANGED summary
  BY DEF Next, Checkout, Compile, Preflight, EnterStage, SkipStage, StagesDone, StartStage,
     AcquireWorker, Prepare, Execute, ExecuteFails, DryRun, Judge, ReportError,
     EnsureStageSummary, MirrorStage, ReleaseWorker, EndStage, EndStageFails,
     EndStageInterrupted, Interrupt, files
<1> QED
  BY <1>1, <1>2

LEMMA NextTold ==
  ASSUME IInv, Dealt, Judged, Files, Told, [Next]_vars
  PROVE  Told'
<1>1. CASE WriteRunSummary
  <2>1. CASE summary' = summary
    <3>1. summary = NoSummary
      BY <1>1 DEF Told, WriteRunSummary
    <3> QED
      BY <2>1, <3>1 DEF Told
  <2>2. CASE summary' # summary /\ interrupted
    BY <1>1, <2>2 DEF Told, WriteRunSummary, VerdictIsTrue
  <2>3. CASE summary' # summary /\ ~interrupted
    BY <1>1, <2>3, SummaryIsTrue DEF Told, WriteRunSummary
  <2> QED
    BY <2>1, <2>2, <2>3
<1>2. CASE UNCHANGED vars
  BY <1>2 DEF vars, Told, VerdictIsTrue
<1>3. CASE Next /\ ~WriteRunSummary
  BY <1>3, NothingAfter DEF Told
<1> QED
  BY <1>1, <1>2, <1>3

\* Orchestrator.run and the aggregator: summary.json says that a run passed only if
\* every stage of its plan ran and passed, whichever failures were swallowed.
THEOREM VerdictIsTrueHolds == Spec => []VerdictIsTrue
<1>1. Init => Told
  BY DEF Init, Told
<1>2. Told => VerdictIsTrue
  BY DEF Told, VerdictIsTrue
<1>3. IInv /\ Dealt /\ [Next]_vars => Dealt'
  BY NextDealt
<1> HIDE DEF IInv, Dealt, Judged, Files, Told, Init, Next, vars, VerdictIsTrue
<1> QED
  BY <1>1, <1>2, <1>3, InitEnd, InitIInv, NextIInv, NextJudged, NextFiles, NextTold, PTL DEF Spec

-----------------------------------------------------------------------------
(* The items of a stage.                                                    *)

\* The plan is one that the compiler does not refuse.
OnPlan == plan # <<>> => Compiles(spec) /\ plan \in Seq(Planned(spec))

\* The jobs in hand are those that the planner makes.
InHand == pc = "judge" => CanPlan(Items, Stage) /\ jobs = PlanJobs(Items, Stage)

LEMMA NextOnPlan ==
  ASSUME Dealt, OnPlan, [Next]_vars
  PROVE  OnPlan'
<1>1. CASE Compile
  <2>1. CASE UNCHANGED plan
    BY <1>1, <2>1 DEF Compile, context, OnPlan
  <2>2. CASE Compiles(spec) /\ plan' = CompileRunPlan(spec)
    <3>1. CompileRunPlan(spec) \in Seq(Planned(spec)) /\ UNCHANGED spec
      BY <1>1, PlanIsList DEF Dealt, Compile
    <3> QED
      BY <2>2, <3>1 DEF OnPlan
  <2> QED
    BY <1>1, <2>1, <2>2 DEF Compile
<1>2. CASE ~Compile
  <2>1. UNCHANGED <<spec, plan>>
    BY <1>2 DEF Next, Checkout, Preflight, EnterStage, SkipStage, StagesDone, StartStage,
       AcquireWorker, Prepare, Execute, ExecuteFails, DryRun, Judge, ReportError,
       EnsureStageSummary, MirrorStage, ReleaseWorker, EndStage, EndStageFails,
       EndStageInterrupted, Interrupt, WriteRunSummary, context, vars
  <2> QED
    BY <2>1 DEF OnPlan
<1> QED
  BY <1>1, <1>2

LEMMA NextInHand ==
  ASSUME InHand, [Next]_vars
  PROVE  InHand'
<1>1. CASE Execute \/ DryRun
  <2>1. /\ CanPlan(Items, Stage) /\ jobs' = PlanJobs(Items, Stage)
        /\ UNCHANGED <<spec, plan, i>>
    BY <1>1 DEF Execute, DryRun, context
  <2>2. UNCHANGED <<Items, Stage>>
    BY <2>1 DEF Items, Suite, Stage
  <2> QED
    BY <2>1, <2>2 DEF InHand
<1>2. CASE Next /\ ~(Execute \/ DryRun)
  <2>1. pc' # "judge"
    BY <1>2 DEF Next, Checkout, Compile, Preflight, EnterStage, SkipStage, StagesDone, StartStage,
       AcquireWorker, Prepare, ExecuteFails, Judge, ReportError,
       EnsureStageSummary, MirrorStage, ReleaseWorker, EndStage, EndStageFails,
       EndStageInterrupted, Interrupt, WriteRunSummary, GiveUp, StageFails, NextStage
  <2> QED
    BY <2>1 DEF InHand
<1>3. CASE UNCHANGED vars
  BY <1>3 DEF vars, InHand, Items, Suite, Stage
<1> QED
  BY <1>1, <1>2, <1>3

\* What the stage in hand asks for, and of which items.
LEMMA StageInHand ==
  ASSUME IInv, Dealt, OnPlan, pc \in InStage
  PROVE  StageCounts(spec, Stage) /\ IsList(Items)
<1>1. i \in DOMAIN plan /\ plan # <<>>
  <2>1. i = Len(results) + 1 /\ Len(results) \in Nat /\ i <= Len(plan) /\ Len(plan) \in Nat
        /\ DOMAIN plan = 1..Len(plan)
    BY ResultsAreListed DEF Dealt
  <2> QED
    BY <2>1
<1>2. Compiles(spec) /\ spec \in Specs /\ Stage \in Planned(spec)
  BY <1>1 DEF OnPlan, Dealt, Stage
<1>3. StageCounts(spec, Stage)
  BY <1>2, PlannedCounts
<1>4. Stage.suite \in DOMAIN spec.suites
  BY <1>3 DEF StageCounts
<1> QED
  BY <1>2, <1>3, <1>4, SpecAssumption DEF Items, Suite

LEMMA JobsInHand ==
  ASSUME IInv, Dealt, OnPlan, pc \in InStage, CanPlan(Items, Stage)
  PROVE  WellPlanned(Items, Stage, PlanJobs(Items, Stage))
  BY StageInHand, JobsAreWellPlanned

\* An item of a list is named at least once.
LEMMA NamedOnce ==
  ASSUME NEW items, IsList(items), NEW x \in Range(items)
  PROVE  Cardinality(NamedAt(items, x)) \in Nat /\ Cardinality(NamedAt(items, x)) # 0
<1>1. PICK k \in DOMAIN items : items[k] = x
  BY DEF Range
<1>2. k \in NamedAt(items, x)
  BY <1>1 DEF NamedAt
<1> QED
  BY <1>2, NamedIsFinite, FS_EmptySet

LEMMA CoveredByPlan ==
  ASSUME IInv, Dealt, OnPlan, InHand
  PROVE  ItemsCovered
<1> SUFFICES ASSUME pc = "judge"
             PROVE  /\ UNION {Range(jobs[j]) : j \in DOMAIN jobs} = Range(Items)
                    /\ \A item \in Range(Items) :
                         LET times == Rounds(Stage) * Named(Items, item)
                         IN IF Stage.manifest = <<>> THEN Times(item) = times
                            ELSE Times(item) >= times
                    /\ 0 \notin Sizes
                    /\ Stage.manifest = <<>> /\ Stage.split > 1 => \A m, n \in Sizes : m - n <= 1
                    /\ ~SplitEnabled(Stage) /\ Stage.repeats = 0 =>
                         \A j \in 1..(Len(jobs) - 1) : Len(jobs[j]) = Stage.chunk_size
  BY DEF ItemsCovered
<1> DEFINE R == Range(Items)
           p == Stage
<1>1. WellPlanned(Items, p, jobs) /\ IsList(Items) /\ StageCounts(spec, p)
  BY StageInHand, JobsInHand DEF InHand, InStage
<1>2. /\ jobs \in Seq(Seq(R) \ {<<>>})
      /\ \A x \in R : LET times == Rounds(p) * Cardinality(NamedAt(Items, x))
                      IN IF p.manifest = <<>> THEN Count(jobs, x) = times
                         ELSE Count(jobs, x) >= times
  BY <1>1 DEF WellPlanned
<1> HIDE DEF R, p
<1>3. \A j \in DOMAIN jobs : jobs[j] \in Seq(R) /\ jobs[j] # <<>>
  BY <1>2
<1>4. IsList(jobs) /\ \A j \in DOMAIN jobs : IsList(jobs[j])
  BY <1>2, <1>3, SeqIsList
<1>5. \A x : Times(x) = Count(jobs, x) /\ Count(jobs, x) \in Nat /\ IsFiniteSet(Places(jobs, x))
  BY <1>4, SumIsCount DEF Times, Count
<1>6. \A x : Named(Items, x) = Cardinality(NamedAt(Items, x))
  BY DEF Named, NamedAt
<1>7. \A x \in R : LET times == Rounds(p) * Named(Items, x)
                   IN IF p.manifest = <<>> THEN Times(x) = times ELSE Times(x) >= times
  BY <1>2, <1>5, <1>6
<1>8. ASSUME NEW x \in R PROVE \E j \in DOMAIN jobs : x \in Range(jobs[j])
  <2> DEFINE m == Cardinality(NamedAt(Items, x))
             c == Count(jobs, x)
             r == Rounds(p)
  <2>1. m \in Nat /\ m # 0
    BY <1>1, <1>8, NamedOnce DEF R
  <2>2. r \in Nat /\ r # 0
    BY <1>1 DEF Rounds, StageCounts
  <2>3. c \in Nat /\ c >= r * m
    BY <1>2, <1>5, <2>1, <2>2
  <2> HIDE DEF m, c, r
  <2>4. c # 0
    BY <2>1, <2>2, <2>3
  <2>5. Places(jobs, x) # {}
    BY <2>4, FS_EmptySet DEF c, Count
  <2>6. PICK q \in Places(jobs, x) : TRUE
    BY <2>5
  <2> QED
    BY <2>6, PlacesAre DEF Range
<1>9. UNION {Range(jobs[j]) : j \in DOMAIN jobs} = R
  <2>1. \A j \in DOMAIN jobs : Range(jobs[j]) \subseteq R
    BY <1>3 DEF Range
  <2> QED
    BY <1>8, <2>1
<1>10. 0 \notin Sizes
  BY <1>3 DEF Sizes
<1>11. p.manifest = <<>> /\ p.split > 1 => \A m, n \in Sizes : m - n <= 1
  BY <1>1 DEF WellPlanned, Sizes
<1>12. ~SplitEnabled(p) /\ p.repeats = 0 => \A j \in 1..(Len(jobs) - 1) : Len(jobs[j]) = p.chunk_size
  BY <1>1 DEF WellPlanned
<1> QED
  BY <1>7, <1>9, <1>10, <1>11, <1>12 DEF R, p

\* job_planner.plan_jobs: whatever the items and the settings of a stage that is not
\* refused, its jobs name each item as often as the stage asks for, none is empty,
\* chunks are full but for the last and groups of a split are even.
THEOREM ItemsCoveredHolds == Spec => []ItemsCovered
<1>1. Init => OnPlan /\ InHand
  BY DEF Init, OnPlan, InHand
<1>2. IInv /\ Dealt /\ [Next]_vars => Dealt'
  BY NextDealt
<1>3. Dealt /\ OnPlan /\ [Next]_vars => OnPlan'
  BY NextOnPlan
<1>4. InHand /\ [Next]_vars => InHand'
  BY NextInHand
<1>5. IInv /\ Dealt /\ OnPlan /\ InHand => ItemsCovered
  BY CoveredByPlan
<1> HIDE DEF IInv, Dealt, OnPlan, InHand, Init, Next, vars, ItemsCovered
<1> QED
  BY <1>1, <1>2, <1>3, <1>4, <1>5, InitEnd, InitIInv, NextIInv, PTL DEF Spec

-----------------------------------------------------------------------------
(* The rows of the summary.                                                 *)

\* What a stage knows of itself, step by step.
Known ==
  /\ pc \in {"start", "acquire", "prepare", "execute", "judge"} =>
       here.failure = "none" /\ here.raising = "no"
  /\ pc = "report" => ~here.ok /\ here.failure # "none"
  /\ pc \in {"summarize", "mirror", "release", "end"} /\ here.raising = "no" =>
       (here.ok <=> here.failure = "none")
  /\ pc \in {"prepare", "execute", "judge"} => here.known
  /\ pc = "judge" /\ here.payload.verdict = "FAILED" => JudgedAs(here.payload) # "none"

\* A payload counts no more jobs than failed and passed, a dry run's apart.
Sound(p) ==
  p # NoSummary =>
    /\ {"verdict", "failure", "jobs", "total", "failed", "timed_out"} \subseteq DOMAIN p
    /\ spec.dry \/ Counted(p)

AllSound ==
  /\ Sound(here.payload) /\ Sound(written)
  /\ \A k \in DOMAIN mirrored : Sound(mirrored[k])

Says(p, good, failure) ==
  p = NoSummary \/ (p.verdict = (IF good THEN "PASSED" ELSE "FAILED") /\ p.failure = failure)

\* Jobs that did not pass rank before those that did.
LEMMA FailureIsDerived ==
  ASSUME NEW D, NEW ends \in [D -> {"zero", "nonzero", "broken", "timed_out"}],
         NotPassed(ends) # {}
  PROVE  DeriveFailure(ends) # "none"
<1> DEFINE S == {n \in DOMAIN Priority : Priority[n] = "none"
                  \/ \E j \in DOMAIN ends : Priority[n] = ClassifyJob(ends[j])}
<1>1. DOMAIN Priority = 1..5 /\ \A n \in 1..4 : Priority[n] # "none"
      /\ Priority[1] = "infra" /\ Priority[2] = "timeout" /\ Priority[3] = "runner"
      /\ Priority[4] = "execution"
  BY DEF Priority
<1>2. PICK j \in DOMAIN ends : ends[j] # "zero"
  BY DEF NotPassed
<1>3. ClassifyJob(ends[j]) \in {"infra", "timeout", "runner", "execution"}
  BY <1>2 DEF ClassifyJob
<1>4. \E n \in 1..4 : n \in S
  BY <1>1, <1>2, <1>3
<1>5. S \subseteq 1..5
  BY <1>1
<1> HIDE DEF S
<1>6. \E x \in S : \A y \in S : x <= y
  BY <1>4, <1>5
<1>7. Min(S) \in S /\ \A y \in S : Min(S) <= y
  BY <1>6 DEF Min
<1>8. Min(S) \in 1..4
  <2>1. PICK n \in 1..4 : n \in S
    BY <1>4
  <2>2. Min(S) \in 1..5 /\ Min(S) <= n
    BY <1>5, <1>7, <2>1
  <2> QED
    BY <2>2
<1> QED
  BY <1>1, <1>8 DEF DeriveFailure, S

\* A stage whose summary says FAILED has failed of something.
LEMMA PayloadIsJudged ==
  ASSUME NEW D, NEW ends \in [D -> {"zero", "nonzero", "broken", "timed_out"}],
         NEW watch \in BOOLEAN, StagePayload(ends, watch).verdict = "FAILED"
  PROVE  JudgedAs(StagePayload(ends, watch)) # "none"
<1> DEFINE p == StagePayload(ends, watch)
<1>1. p.failure = (IF watch THEN "watch" ELSE DeriveFailure(ends))
      /\ p.verdict = (IF watch \/ NotPassed(ends) # {} THEN "FAILED" ELSE "PASSED")
  BY DEF StagePayload
<1>2. p.failure # "none"
  BY <1>1, FailureIsDerived
<1> HIDE DEF p
<1>3. JudgedAs(p) # "none"
  BY <1>2 DEF JudgedAs
<1> QED
  BY <1>3 DEF p

LEMMA BaseIsSound == Sound(Base) /\ Counted(Base)
<1>1. Passed(<<>>) = 0
  <2>1. {j \in DOMAIN <<>> : <<>>[j] = "PASSED"} = {}
    OBVIOUS
  <2> QED
    BY <2>1, FS_EmptySet DEF Passed
<1>2. Counted(Base)
  BY <1>1 DEF Counted, Base
<1> QED
  BY <1>2 DEF Sound, Base

\* The jobs that did not pass and those that did are all the jobs.
LEMMA PayloadCounts ==
  ASSUME NEW n \in Nat, NEW ends \in [1..n -> {"zero", "nonzero", "broken", "timed_out"}],
         NEW watch \in BOOLEAN
  PROVE  Counted(StagePayload(ends, watch))
<1> DEFINE bad  == NotPassed(ends)
           good == {j \in 1..n : ends[j] = "zero"}
           late == TimedOut(ends)
           verdicts == [j \in DOMAIN ends |-> JobVerdict(ends[j])]
           p == StagePayload(ends, watch)
<1>1. bad \cup good = 1..n /\ bad \cap good = {} /\ late \subseteq 1..n
      /\ bad \subseteq 1..n /\ good \subseteq 1..n
  BY DEF NotPassed, TimedOut
<1>2. IsFiniteSet(1..n) /\ Cardinality(1..n) = n
  BY FS_Interval
<1>3. {j \in DOMAIN verdicts : verdicts[j] = "PASSED"} = good
  BY DEF JobVerdict
<1>4. Passed(verdicts) = Cardinality(good)
  BY <1>3 DEF Passed
<1>5. Len(ends) = n
  <2>1. DOMAIN ends = 1..n /\ ends = [j \in DOMAIN ends |-> ends[j]]
    OBVIOUS
  <2> QED
    BY <2>1, Mapped
<1>6. p.total = n /\ p.failed = Cardinality(bad) /\ p.timed_out = Cardinality(late) /\ p.jobs = verdicts
  BY <1>5 DEF StagePayload
<1> HIDE DEF bad, good, late, verdicts, p
<1>7. IsFiniteSet(bad) /\ IsFiniteSet(good) /\ IsFiniteSet(late)
  BY <1>1, <1>2, FS_Subset
<1>8. n = Cardinality(bad) + Cardinality(good)
  BY <1>1, <1>2, <1>7, Disjoint
<1>9. Cardinality(bad) \in Nat /\ Cardinality(good) \in Nat /\ Cardinality(late) \in Nat
  BY <1>7, FS_CardinalityType
<1> QED
  BY <1>4, <1>6, <1>8, <1>9 DEF Counted, p

\* What the dispatcher's verdicts come to.
LEMMA ExecutedPayload ==
  ASSUME IInv, Dealt, OnPlan, Execute
  PROVE  /\ written' # NoSummary => Sound(written')
         /\ written'.verdict = "FAILED" => JudgedAs(written') # "none"
         /\ here'.payload = written' /\ UNCHANGED <<spec, mirrored>>
<1>1. here \in Locals(here.worker, here.payload)
  BY DEF IInv, Types
<1>2. PICK ends \in Dispatched(jobs'), watch \in BOOLEAN :
        /\ written' = StagePayload(ends, watch)
        /\ here' = [here EXCEPT !.payload = written']
  BY DEF Execute
<1>3. jobs' = PlanJobs(Items, Stage) /\ CanPlan(Items, Stage) /\ pc \in InStage
  BY DEF Execute, InStage
<1>4. jobs' \in Seq(Seq(Range(Items)) \ {<<>>})
  BY <1>3, JobsInHand DEF WellPlanned
<1>5. Len(jobs') \in Nat /\ DOMAIN jobs' = 1..Len(jobs')
  BY <1>4
<1>6. ends \in [1..Len(jobs') -> {"zero", "nonzero", "broken", "timed_out"}]
  BY <1>5 DEF Dispatched
<1> DEFINE p == StagePayload(ends, watch)
<1>7. Counted(p) /\ (p.verdict = "FAILED" => JudgedAs(p) # "none")
  BY <1>5, <1>6, PayloadCounts, PayloadIsJudged
<1>8. {"verdict", "failure", "jobs", "total", "failed", "timed_out"} \subseteq DOMAIN p
  BY DEF StagePayload
<1> HIDE DEF p
<1>9. here'.payload = written' /\ written' = p
  BY <1>1, <1>2 DEF Locals, p
<1>10. UNCHANGED <<spec, mirrored>>
  BY DEF Execute, context
<1> QED
  BY <1>7, <1>8, <1>9, <1>10 DEF Sound

LEMMA DryPayload ==
  ASSUME IInv, DryRun
  PROVE  /\ here'.payload = [Base EXCEPT !.total = Len(jobs')]
         /\ here'.failure = here.failure /\ here'.raising = here.raising
         /\ here'.known = here.known
         /\ UNCHANGED <<spec, written, mirrored>> /\ spec.dry
<1>1. here \in Locals(here.worker, here.payload)
  BY DEF IInv, Types
<1> DEFINE p == [Base EXCEPT !.total = Len(jobs')]
<1>2. here' = [here EXCEPT !.payload = p, !.ok = TRUE] /\ UNCHANGED <<spec, written, mirrored>>
      /\ spec.dry
  BY DEF DryRun, files, context
<1> HIDE DEF p
<1>3. here'.payload = p /\ here'.failure = here.failure /\ here'.raising = here.raising
      /\ here'.known = here.known
  BY <1>1, <1>2 DEF Locals
<1> QED
  BY <1>2, <1>3 DEF p

-----------------------------------------------------------------------------
(* What a stage knows.                                                      *)

\* A failure of the stage in hand.
LEMMA FailingKnown ==
  ASSUME IInv, Known, pc \in InTry, NEW kind, kind # "none", StageFails(kind)
  PROVE  Known'
<1>1. here \in Locals(here.worker, here.payload)
  BY DEF IInv, Types
<1>2. here'.failure = kind /\ here'.ok = FALSE /\ pc' = "report"
  BY <1>1 DEF StageFails, Locals
<1> QED
  BY <1>2 DEF Known

LEMMA NextKnown ==
  ASSUME IInv, Dealt, OnPlan, Known, [Next]_vars
  PROVE  Known'
<1>0. here \in Locals(here.worker, here.payload)
  BY DEF IInv, Types
<1>1. CASE Checkout \/ Compile \/ Preflight \/ SkipStage \/ StagesDone \/ EndStage
           \/ EndStageFails \/ EndStageInterrupted \/ WriteRunSummary
  <2>1. pc' \in Before \cup {"loop"} \cup After
    BY <1>1 DEF Checkout, Compile, Preflight, SkipStage, StagesDone, EndStage, EndStageFails,
       EndStageInterrupted, WriteRunSummary, GiveUp, NextStage, Before, After
  <2> QED
    BY <2>1 DEF Known, Before, After
<1>2. CASE EnterStage
  BY <1>2 DEF EnterStage, Fresh, Known
<1>3. CASE StartStage
  BY <1>3 DEF StartStage, GiveUp, Known
<1>4. CASE AcquireWorker
  <2>1. CASE StageFails("execution")
    BY <1>4, <2>1, FailingKnown DEF AcquireWorker, InTry
  <2>2. CASE here' = [here EXCEPT !.worker = Head(pool), !.known = TRUE] /\ pc' = "prepare"
    <3>1. here'.failure = here.failure /\ here'.raising = here.raising /\ here'.known = TRUE
      BY <1>0, <2>2 DEF Locals
    <3> QED
      BY <1>4, <2>2, <3>1 DEF AcquireWorker, Known
  <2> QED
    BY <1>4, <2>1, <2>2 DEF AcquireWorker
<1>5. CASE Prepare
  <2>1. CASE StageFails("execution")
    BY <1>5, <2>1, FailingKnown DEF Prepare, InTry
  <2>2. CASE UNCHANGED here /\ pc' = "execute"
    BY <1>5, <2>2 DEF Prepare, Known
  <2> QED
    BY <1>5, <2>1, <2>2 DEF Prepare
<1>6. CASE Execute
  <2>1. pc = "execute" /\ pc' = "judge" /\ here' = [here EXCEPT !.payload = written']
    BY <1>6 DEF Execute
  <2>2. here'.failure = here.failure /\ here'.raising = here.raising /\ here'.known = here.known
    BY <1>0, <2>1 DEF Locals
  <2>3. /\ here'.payload = written' /\ written'.verdict = "FAILED" => JudgedAs(written') # "none"
    BY <1>6, ExecutedPayload
  <2> QED
    BY <2>1, <2>2, <2>3 DEF Known
<1>7. CASE ExecuteFails
  BY <1>7, FailingKnown DEF ExecuteFails, InTry
<1>8. CASE DryRun
  BY <1>8, DryPayload DEF Known, DryRun, Base
<1>9. CASE Judge
  <2>1. CASE here.payload.verdict = "FAILED" /\ StageFails(JudgedAs(here.payload))
    BY <1>9, <2>1, FailingKnown DEF Judge, InTry, Known
  <2>2. CASE StageFails("execution")
    BY <1>9, <2>2, FailingKnown DEF Judge, InTry
  <2>3. CASE here' = [here EXCEPT !.ok = TRUE] /\ pc' = "summarize"
    <3>1. here'.failure = here.failure /\ here'.ok = TRUE
      BY <1>0, <2>3 DEF Locals
    <3> QED
      BY <1>9, <2>3, <3>1 DEF Judge, Known
  <2> QED
    BY <1>9, <2>1, <2>2, <2>3 DEF Judge
<1>10. CASE ReportError
  <2>1. CASE UNCHANGED here
    BY <1>10, <2>1 DEF ReportError, Known
  <2>2. CASE here' = [here EXCEPT !.raising = "error"]
    BY <1>0, <1>10, <2>2 DEF ReportError, Known, Locals
  <2> QED
    BY <1>10, <2>1, <2>2 DEF ReportError
<1>11. CASE EnsureStageSummary \/ MirrorStage \/ ReleaseWorker
  <2>1. UNCHANGED here /\ pc \in {"summarize", "mirror", "release"} /\ pc' \in {"mirror", "release", "end"}
    BY <1>11 DEF EnsureStageSummary, MirrorStage, ReleaseWorker
  <2> QED
    BY <2>1 DEF Known
<1>12. CASE Interrupt
  <2>1. CASE pc' = "finish"
    BY <2>1 DEF Known
  <2>2. CASE pc' = "summarize" /\ here' = [here EXCEPT !.raising = "interrupt"]
    BY <1>0, <2>2 DEF Known, Locals
  <2> QED
    BY <1>12, <2>1, <2>2 DEF Interrupt
<1>13. CASE UNCHANGED vars
  BY <1>13 DEF vars, Known
<1> QED
  BY <1>1, <1>2, <1>3, <1>4, <1>5, <1>6, <1>7, <1>8, <1>9, <1>10, <1>11, <1>12, <1>13 DEF Next

-----------------------------------------------------------------------------
(* What is on file.                                                         *)

LEMMA SoundStays ==
  ASSUME NEW p, Sound(p), UNCHANGED spec
  PROVE  /\ p # NoSummary =>
              /\ {"verdict", "failure", "jobs", "total", "failed", "timed_out"} \subseteq DOMAIN p
              /\ spec'.dry \/ Counted(p)
  BY DEF Sound

\* The last word on a stage changes nothing of what is counted.
LEMMA FinalIs ==
  ASSUME AllSound
  PROVE  /\ Sound(FinalPayload)
         /\ FinalPayload.verdict = IF here.ok THEN "PASSED" ELSE "FAILED"
         /\ here.failure # "none" => FinalPayload.failure = here.failure
         /\ here.ok /\ here.failure = "none" => FinalPayload.failure = "none"
<1> DEFINE p == IF here.payload = NoSummary THEN Base ELSE here.payload
           v == IF here.ok THEN "PASSED" ELSE "FAILED"
           f == IF here.ok /\ here.failure = "none" THEN "none"
                ELSE IF here.failure # "none" THEN here.failure ELSE p.failure
           q == [p EXCEPT !.verdict = v, !.failure = f]
<1>1. /\ {"verdict", "failure", "jobs", "total", "failed", "timed_out"} \subseteq DOMAIN p
      /\ spec.dry \/ Counted(p)
  BY BaseIsSound DEF AllSound, Sound, Base
<1>2. FinalPayload = q
  BY DEF FinalPayload
<1>3. /\ here.failure # "none" => f = here.failure
      /\ here.ok /\ here.failure = "none" => f = "none"
  OBVIOUS
<1> HIDE DEF p, f, v
<1>4. /\ DOMAIN q = DOMAIN p /\ q.verdict = v /\ q.failure = f
      /\ q.jobs = p.jobs /\ q.total = p.total /\ q.failed = p.failed /\ q.timed_out = p.timed_out
  BY <1>1
<1> HIDE DEF q
<1>5. Sound(q)
  BY <1>1, <1>4 DEF Sound, Counted
<1> QED
  BY <1>2, <1>3, <1>4, <1>5 DEF v

LEMMA AllSoundStays ==
  ASSUME AllSound, UNCHANGED spec, Sound(here'.payload), Sound(written'),
         \A k \in DOMAIN mirrored' : Sound(mirrored'[k])
  PROVE  AllSound'
  BY DEF AllSound, Sound

LEMMA NextSound ==
  ASSUME IInv, Dealt, OnPlan, AllSound, [Next]_vars
  PROVE  AllSound'
<1>0. here \in Locals(here.worker, here.payload)
  BY DEF IInv, Types
<1>1. CASE \/ Checkout \/ Preflight \/ SkipStage \/ StagesDone \/ StartStage \/ ReleaseWorker
           \/ EndStage \/ EndStageFails \/ EndStageInterrupted \/ WriteRunSummary
  <2>1. UNCHANGED <<spec, here, written, mirrored>>
    BY <1>1 DEF Checkout, Preflight, SkipStage, StagesDone, StartStage, ReleaseWorker, EndStage,
       EndStageFails, EndStageInterrupted, WriteRunSummary, files, context
  <2> QED
    BY <2>1, AllSoundStays DEF AllSound
<1>2. CASE Compile
  <2>1. UNCHANGED <<spec, here, written>> /\ \A k \in DOMAIN mirrored' : Sound(mirrored'[k])
    BY <1>2 DEF Compile, AllSound, Sound, context
  <2> QED
    BY <2>1, AllSoundStays DEF AllSound
<1>3. CASE EnterStage
  <2>1. UNCHANGED <<spec, mirrored>> /\ Sound(here'.payload) /\ Sound(written')
    BY <1>3 DEF EnterStage, Fresh, Sound, context
  <2> QED
    BY <2>1, AllSoundStays DEF AllSound
<1>4. CASE AcquireWorker \/ Prepare \/ ExecuteFails \/ Judge \/ ReportError \/ Interrupt
  <2>1. UNCHANGED <<spec, written, mirrored>>
    BY <1>4 DEF AcquireWorker, Prepare, ExecuteFails, Judge, ReportError, Interrupt, files, context
  <2>2. here'.payload = here.payload
    BY <1>0, <1>4 DEF AcquireWorker, Prepare, ExecuteFails, Judge, ReportError, Interrupt,
       StageFails, Locals
  <2> QED
    BY <2>1, <2>2, AllSoundStays DEF AllSound
<1>5. CASE Execute
  <2>1. Sound(written') /\ here'.payload = written' /\ UNCHANGED <<spec, mirrored>>
    BY <1>5, ExecutedPayload DEF Sound
  <2> QED
    BY <2>1, AllSoundStays DEF AllSound
<1>6. CASE DryRun
  <2> DEFINE p == [Base EXCEPT !.total = Len(jobs')]
  <2>1. DOMAIN p = DOMAIN Base
    OBVIOUS
  <2>2. here'.payload = p /\ UNCHANGED <<spec, written, mirrored>> /\ spec.dry
    BY <1>6, DryPayload
  <2> HIDE DEF p
  <2>3. Sound(p)
    BY <2>1, <2>2 DEF Sound, Base
  <2> QED
    BY <2>2, <2>3, AllSoundStays DEF AllSound
<1>7. CASE EnsureStageSummary
  <2>1. UNCHANGED <<spec, here, mirrored>> /\ written' \in {written, FinalPayload}
    BY <1>7 DEF EnsureStageSummary, context
  <2>2. Sound(written')
    BY <2>1, FinalIs DEF AllSound
  <2> QED
    BY <2>1, <2>2, AllSoundStays DEF AllSound
<1>8. CASE MirrorStage
  <2>1. UNCHANGED <<spec, here, written>>
        /\ (mirrored' = mirrored \/ mirrored' = [mirrored EXCEPT ![i] = written])
    BY <1>8 DEF MirrorStage, context
  <2>2. \A k \in DOMAIN mirrored' : Sound(mirrored'[k])
    BY <2>1 DEF AllSound
  <2> QED
    BY <2>1, <2>2, AllSoundStays DEF AllSound
<1>9. CASE UNCHANGED vars
  BY <1>9, AllSoundStays DEF vars, AllSound
<1> QED
  BY <1>1, <1>2, <1>3, <1>4, <1>5, <1>6, <1>7, <1>8, <1>9 DEF Next

-----------------------------------------------------------------------------
(* What the files say.                                                      *)

\* What is on file of a result says the same, unless it could not be saved.
Agrees(r, p) ==
  IF r.skipped THEN p = NoSummary /\ r.failure = "skipped" ELSE Says(p, r.ok, r.failure)

OnFile ==
  /\ DOMAIN results \subseteq DOMAIN mirrored
  /\ \A k \in DOMAIN results \ unsaved : Agrees(results[k], mirrored[k])

\* And so does what is on file of the stage in hand; there is nothing of later ones.
InFile ==
  /\ pc \in InStage /\ ~here.known => written = NoSummary
  /\ pc = "mirror" /\ here.raising = "no" /\ i \notin unsaved => Says(written, here.ok, here.failure)
  /\ pc \in {"release", "end"} /\ here.raising = "no" /\ i \notin unsaved =>
       Says(mirrored[i], here.ok, here.failure)
  /\ pc \in Before \cup {"loop"} \cup InStage =>
       \A k \in DOMAIN mirrored :
         k > i \/ (k = i /\ pc \notin {"release", "end"}) => mirrored[k] = NoSummary

LEMMA OnFileStays ==
  ASSUME OnFile, UNCHANGED results, DOMAIN mirrored' = DOMAIN mirrored,
         \A k \in DOMAIN results : mirrored'[k] = mirrored[k], unsaved \subseteq unsaved'
  PROVE  OnFile'
  BY DEF OnFile, Agrees, Says

\* Where the place of the stage in hand is.
LEMMA PlaceInHand ==
  ASSUME IInv, Dealt
  PROVE  /\ i \in Nat /\ pc \in {"loop"} \cup InStage => i \notin DOMAIN results
         /\ pc \in {"loop"} \cup InStage /\ i <= Len(plan) => i \in DOMAIN mirrored
         /\ pc \in InStage => i \in DOMAIN mirrored
         /\ \A k \in DOMAIN mirrored : k \in Nat \ {0}
<1> DEFINE n == Len(results)
           m == Len(plan)
<1>1. /\ n \in Nat /\ m \in Nat /\ i \in Nat /\ DOMAIN results = 1..n /\ DOMAIN mirrored = 1..m
      /\ pc \in {"loop"} \cup InStage => i = n + 1
      /\ pc \in InStage => i <= m
  BY ResultsAreListed DEF Dealt
<1> HIDE DEF n, m
<1>2. pc \in {"loop"} \cup InStage => i \notin DOMAIN results /\ (i <= m => i \in DOMAIN mirrored)
  BY <1>1
<1> QED
  BY <1>1, <1>2 DEF m

LEMMA OneOnFile ==
  ASSUME IInv, Dealt, OnFile, NEW r, results' = Append(results, r), UNCHANGED <<mirrored, unsaved>>,
         pc \in {"loop"} \cup InStage, i <= Len(plan),
         i \notin unsaved => Agrees(r, mirrored[i])
  PROVE  OnFile'
<1>1. PICK T : results \in Seq(T)
  BY DEF IInv, Counts
<1>2. i = Len(results) + 1 /\ i \in Nat /\ i \in DOMAIN mirrored
  BY ResultsAreListed, PlaceInHand
<1>3. /\ DOMAIN results' = 1..(Len(results) + 1) /\ DOMAIN results = 1..Len(results)
      /\ Len(results) \in Nat
      /\ \A k \in 1..Len(results) : results'[k] = results[k]
      /\ results'[Len(results) + 1] = r
  BY <1>1, OneMore
<1>4. \A k \in DOMAIN results' : k = i \/ (k \in DOMAIN results /\ results'[k] = results[k])
  BY <1>2, <1>3
<1>5. DOMAIN results' \subseteq DOMAIN mirrored
  BY <1>2, <1>4 DEF OnFile
<1>6. \A k \in DOMAIN results' \ unsaved : Agrees(results'[k], mirrored[k])
  BY <1>2, <1>3, <1>4 DEF OnFile
<1> QED
  BY <1>5, <1>6 DEF OnFile, Agrees, Says

LEMMA NextOnFile ==
  ASSUME IInv, Dealt, OnFile, InFile, [Next]_vars
  PROVE  OnFile'
<1>1. CASE \/ Checkout \/ Preflight \/ EnterStage \/ StagesDone \/ Interrupt \/ WriteRunSummary
           \/ (Inner /\ ~MirrorStage)
  <2>1. UNCHANGED <<results, mirrored>> /\ unsaved \subseteq unsaved'
    BY <1>1 DEF Checkout, Preflight, EnterStage, StagesDone, Interrupt, WriteRunSummary, Inner,
       StartStage, AcquireWorker, Prepare, Execute, ExecuteFails, DryRun, Judge, ReportError,
       EnsureStageSummary, ReleaseWorker, EndStageFails, EndStageInterrupted, outcome, files
  <2> QED
    BY <2>1, OnFileStays
<1>2. CASE Compile
  <2>1. DOMAIN results' = {}
    BY <1>2 DEF Compile, IInv, Counts, Before
  <2> QED
    BY <2>1 DEF OnFile
<1>3. CASE SkipStage
  <2>1. pc = "loop" /\ i <= Len(plan) /\ UNCHANGED <<mirrored, unsaved>>
    BY <1>3 DEF SkipStage, files
  <2>2. CASE results' = Append(results, Result(FALSE, "skipped"))
    <3>1. mirrored[i] = NoSummary
      <4>1. i \in DOMAIN mirrored
        BY <2>1, PlaceInHand
      <4> QED
        BY <2>1, <4>1 DEF InFile
    <3> DEFINE r == Result(FALSE, "skipped")
    <3>2. Agrees(r, mirrored[i])
      BY <3>1 DEF Agrees, Result
    <3>3. results' = Append(results, r)
      BY <2>2
    <3> HIDE DEF r
    <3> QED
      BY <2>1, <3>2, <3>3, OneOnFile
  <2>3. CASE UNCHANGED results
    BY <2>1, <2>3, OnFileStays
  <2> QED
    BY <1>3, <2>2, <2>3 DEF SkipStage
<1>4. CASE EndStage
  <2> DEFINE r == Result(here.ok, here.failure)
  <2>1. /\ pc = "end" /\ here.raising = "no" /\ UNCHANGED <<mirrored, unsaved>>
        /\ results' = Append(results, r)
    BY <1>4 DEF EndStage, files
  <2>2. pc \in InStage /\ i <= Len(plan)
    BY <2>1 DEF Dealt, InStage
  <2>3. i \notin unsaved => Says(mirrored[i], here.ok, here.failure)
    BY <2>1 DEF InFile
  <2>4. here.failure # "skipped"
    BY DEF IInv, Types, Locals, Failures
  <2>5. i \notin unsaved => Agrees(r, mirrored[i])
    BY <2>3, <2>4 DEF Agrees, Result
  <2> HIDE DEF r
  <2> QED
    BY <2>1, <2>2, <2>5, OneOnFile
<1>5. CASE MirrorStage
  <2>1. pc = "mirror" /\ UNCHANGED <<results, unsaved>>
        /\ (mirrored' = mirrored \/ mirrored' = [mirrored EXCEPT ![i] = written])
    BY <1>5 DEF MirrorStage, outcome
  <2>2. i \notin DOMAIN results
    BY <2>1, PlaceInHand DEF InStage
  <2>3. DOMAIN mirrored' = DOMAIN mirrored /\ \A k \in DOMAIN results : mirrored'[k] = mirrored[k]
    BY <2>1, <2>2 DEF OnFile
  <2> QED
    BY <2>1, <2>3, OnFileStays
<1>6. CASE UNCHANGED vars
  BY <1>6, OnFileStays DEF vars
<1> QED
  BY <1>1, <1>2, <1>3, <1>4, <1>5, <1>6 DEF Next, Inner

\* There is nothing of later stages, whichever the steps before the report of one.
LEMMA InFileStays ==
  ASSUME InFile, UNCHANGED <<i, mirrored, written>>, pc \in InStage,
         pc' \in {"start", "acquire", "prepare", "execute", "judge", "report", "summarize"},
         pc \notin {"release", "end"},
         ~here'.known => ~here.known
  PROVE  InFile'
  BY DEF InFile, InStage, Before

LEMMA NextInFile ==
  ASSUME IInv, Dealt, Known, AllSound, InFile, [Next]_vars
  PROVE  InFile'
<1>0. here \in Locals(here.worker, here.payload)
  BY DEF IInv, Types
<1>1. CASE StagesDone \/ EndStageFails \/ EndStageInterrupted \/ WriteRunSummary \/ pc' = "finish"
  <2>1. pc' \in After
    BY <1>1 DEF StagesDone, EndStageFails, EndStageInterrupted, WriteRunSummary, GiveUp, After
  <2> QED
    BY <2>1 DEF InFile, After, InStage, Before
<1>2. CASE (Checkout \/ Preflight) /\ pc' # "finish"
  <2>1. /\ pc \in Before /\ pc' \in {"compile", "loop"} /\ UNCHANGED mirrored
        /\ i' = i \/ i' = 1
    BY <1>2 DEF Checkout, Preflight, GiveUp, files, Before
  <2>2. i = 0 /\ \A k \in DOMAIN mirrored : k > 0
    BY <2>1, PlaceInHand DEF IInv, Counts
  <2>3. \A k \in DOMAIN mirrored : mirrored[k] = NoSummary
    BY <2>1, <2>2 DEF InFile
  <2> QED
    BY <2>1, <2>3 DEF InFile, InStage, Before
<1>3. CASE Compile /\ pc' # "finish"
  <2>1. pc' = "health" /\ \A k \in DOMAIN mirrored' : mirrored'[k] = NoSummary
    BY <1>3 DEF Compile, GiveUp
  <2> QED
    BY <2>1 DEF InFile, InStage
<1>4. CASE EnterStage
  <2>1. pc = "loop" /\ pc' = "start" /\ UNCHANGED <<i, mirrored>> /\ written' = NoSummary
    BY <1>4 DEF EnterStage
  <2>2. \A k \in DOMAIN mirrored : k > i \/ k = i => mirrored[k] = NoSummary
    BY <2>1 DEF InFile
  <2> QED
    BY <2>1, <2>2 DEF InFile, InStage, Before
<1>5. CASE (SkipStage \/ EndStage) /\ pc' # "finish"
  <2>1. /\ pc \in {"loop", "end"} /\ pc' = "loop" /\ i' = i + 1 /\ UNCHANGED mirrored
        /\ i \in Nat
    BY <1>5, PlaceInHand DEF SkipStage, EndStage, NextStage, GiveUp, files, IInv, Counts
  <2>2. \A k \in DOMAIN mirrored : k > i => mirrored[k] = NoSummary
    BY <2>1 DEF InFile, InStage
  <2>3. \A k \in DOMAIN mirrored : k \in Nat /\ (k > i + 1 \/ k = i + 1 => k > i)
    BY <2>1, PlaceInHand
  <2> QED
    BY <2>1, <2>2, <2>3 DEF InFile, InStage
<1>6. CASE /\ StartStage \/ AcquireWorker \/ Prepare \/ ExecuteFails \/ Judge \/ ReportError
              \/ Interrupt
           /\ pc' # "finish"
  <2>1. /\ UNCHANGED <<i, mirrored, written>> /\ pc \in InStage /\ pc \notin {"release", "end"}
        /\ pc' \in {"start", "acquire", "prepare", "execute", "judge", "report", "summarize"}
    BY <1>6 DEF StartStage, AcquireWorker, Prepare, ExecuteFails, Judge, ReportError, Interrupt,
       StageFails, GiveUp, files, InStage, InTry
  <2>2. ~here'.known => ~here.known
    BY <1>0, <1>6 DEF StartStage, AcquireWorker, Prepare, ExecuteFails, Judge, ReportError,
       Interrupt, StageFails, Locals
  <2> QED
    BY <2>1, <2>2, InFileStays
<1>7. CASE Execute
  <2>1. pc = "execute" /\ pc' = "judge" /\ UNCHANGED <<i, mirrored>>
        /\ here' = [here EXCEPT !.payload = written']
    BY <1>7 DEF Execute
  <2>2. here'.known
    BY <1>0, <2>1 DEF Known, Locals
  <2>3. \A k \in DOMAIN mirrored : k > i \/ k = i => mirrored[k] = NoSummary
    BY <2>1 DEF InFile, InStage
  <2> QED
    BY <2>1, <2>2, <2>3 DEF InFile
<1>8. CASE DryRun
  <2>1. UNCHANGED <<i, mirrored, written>> /\ pc = "execute" /\ pc' = "judge"
    BY <1>8 DEF DryRun, files
  <2>2. here'.known = here.known
    BY <1>8, DryPayload
  <2> QED
    BY <2>1, <2>2, InFileStays DEF InStage
<1>9. CASE EnsureStageSummary
  <2>1. pc = "summarize" /\ pc' = "mirror" /\ UNCHANGED <<i, here, mirrored>>
    BY <1>9 DEF EnsureStageSummary
  <2>2. ~here.known => written' = NoSummary
    BY <1>9, <2>1 DEF EnsureStageSummary, InFile, InStage
  <2>3. ASSUME here.raising = "no", i \notin unsaved'
        PROVE  Says(written', here.ok, here.failure)
    <3>1. CASE ~here.known
      BY <2>2, <3>1 DEF Says
    <3>2. CASE here.known
      <4>1. written' = FinalPayload
        BY <1>9, <2>3, <3>2 DEF EnsureStageSummary
      <4>2. here.ok <=> here.failure = "none"
        BY <2>1, <2>3 DEF Known
      <4> QED
        BY <4>1, <4>2, FinalIs DEF Says
    <3> QED
      BY <3>1, <3>2
  <2>4. \A k \in DOMAIN mirrored : k > i \/ k = i => mirrored[k] = NoSummary
    BY <2>1 DEF InFile, InStage
  <2> QED
    BY <2>1, <2>2, <2>3, <2>4 DEF InFile, Says
<1>10. CASE MirrorStage
  <2>1. pc = "mirror" /\ pc' = "release" /\ UNCHANGED <<i, here, written, unsaved>>
        /\ (mirrored' = mirrored \/ mirrored' = [mirrored EXCEPT ![i] = written])
    BY <1>10 DEF MirrorStage
  <2>2. i \in DOMAIN mirrored /\ i \in Nat /\ \A k \in DOMAIN mirrored : k \in Nat
    BY <2>1, PlaceInHand, ResultsAreListed DEF InStage
  <2>3. mirrored'[i] \in {NoSummary, written} /\ DOMAIN mirrored' = DOMAIN mirrored
        /\ \A k \in DOMAIN mirrored : k > i => mirrored'[k] = NoSummary
    <3>1. mirrored[i] = NoSummary /\ \A k \in DOMAIN mirrored : k > i => mirrored[k] = NoSummary
      BY <2>1, <2>2 DEF InFile, InStage
    <3>2. \A k \in DOMAIN mirrored : k > i => k # i
      BY <2>2
    <3> QED
      BY <2>1, <2>2, <3>1, <3>2
  <2>4. here.raising = "no" /\ i \notin unsaved => Says(mirrored'[i], here.ok, here.failure)
    BY <2>1, <2>3 DEF InFile, Says
  <2>5. ~here.known => written = NoSummary
    BY <2>1 DEF InFile, InStage
  <2> QED
    BY <2>1, <2>3, <2>4, <2>5 DEF InFile, Says
<1>11. CASE ReleaseWorker
  <2>1. pc = "release" /\ pc' = "end" /\ UNCHANGED <<i, here, written, mirrored, unsaved>>
    BY <1>11 DEF ReleaseWorker, files
  <2> QED
    BY <2>1 DEF InFile, Says, InStage, Before
<1>12. CASE UNCHANGED vars
  BY <1>12 DEF vars, InFile, Says
<1> QED
  BY <1>1, <1>2, <1>3, <1>4, <1>5, <1>6, <1>7, <1>8, <1>9, <1>10, <1>11, <1>12 DEF Next

-----------------------------------------------------------------------------
(* The summary of the run.                                                  *)

PassedOf(rows) == MapThenSumSet(LAMBDA k : Passed(rows[k].jobs), DOMAIN rows)

\* What the summary says agrees with the results, and nothing comes after it.
Agreed ==
  summary # NoSummary =>
    /\ pc = "returned"
    /\ spec.dry \/ summary.totals.jobs_passed <= PassedOf(summary.rows)
    /\ \A k \in DOMAIN results \ unsaved :
         /\ summary.rows[k].failure = results[k].failure
         /\ summary.rows[k].verdict = IF results[k].skipped THEN "SKIPPED"
                                      ELSE IF results[k].ok THEN "PASSED" ELSE "FAILED"
         /\ ~results[k].skipped /\ ~results[k].ok =>
              /\ \E f \in summary.failures : f[1] = k
              /\ summary.targets[results[k].host] = "FAILED"

\* The row of a stage says what its result says.
LEMMA RowIs ==
  ASSUME IInv, Judged, OnFile, NEW k \in DOMAIN results \ unsaved
  PROVE  /\ Rows[k].failure = results[k].failure
         /\ Rows[k].verdict = IF results[k].skipped THEN "SKIPPED"
                              ELSE IF results[k].ok THEN "PASSED" ELSE "FAILED"
<1>1. Agrees(results[k], mirrored[k])
  BY DEF OnFile
<1>2. CASE mirrored[k] = NoSummary
  <2>1. Rows[k] = Fallback(results[k])
    BY <1>2 DEF Rows
  <2> QED
    BY <2>1 DEF Fallback, Base
<1>3. CASE mirrored[k] # NoSummary
  <2>1. Rows[k] = mirrored[k]
    BY <1>3 DEF Rows
  <2> QED
    BY <1>1, <1>3, <2>1 DEF Agrees, Says
<1> QED
  BY <1>2, <1>3

\* Every row counts no more jobs than failed and passed.
LEMMA RowsAreCounted ==
  ASSUME AllSound, OnFile, ~spec.dry, NEW k \in DOMAIN Rows
  PROVE  Counted(Rows[k])
<1>1. k \in DOMAIN results /\ k \in DOMAIN mirrored
  BY DEF Rows, OnFile
<1>2. CASE mirrored[k] = NoSummary
  <2> DEFINE q == Fallback(results[k])
  <2>1. q.total = 0 /\ q.failed = 0 /\ q.timed_out = 0 /\ q.jobs = Base.jobs /\ Base.total = 0
        /\ Base.failed = 0
    BY DEF Fallback, Base
  <2>2. Rows[k] = q
    BY <1>1, <1>2 DEF Rows
  <2> HIDE DEF q
  <2> QED
    BY <2>1, <2>2, BaseIsSound DEF Counted
<1>3. CASE mirrored[k] # NoSummary
  <2>1. Rows[k] = mirrored[k]
    BY <1>1, <1>3 DEF Rows
  <2> QED
    BY <1>1, <1>3, <2>1 DEF AllSound, Sound
<1> QED
  BY <1>2, <1>3

\* A row that says FAILED is among the failures, and its target is a failed one.
LEMMA FailedRow ==
  ASSUME NEW k \in DOMAIN Rows, Rows[k].verdict = "FAILED"
  PROVE  /\ \E f \in FailuresOf(Rows) : f[1] = k
         /\ TargetsOf(Rows)[results[k].host] = "FAILED"
<1> DEFINE bad == {j \in DOMAIN Rows[k].jobs : Rows[k].jobs[j] # "PASSED"}
           told == IF bad = {} /\ Rows[k].verdict = "FAILED" THEN {0} ELSE bad
           h == results[k].host
<1>1. PICK j \in told : TRUE
  OBVIOUS
<1>2. <<k, j>> \in FailuresOf(Rows)
  BY <1>1 DEF FailuresOf
<1>3. h \in {results[n].host : n \in DOMAIN Rows}
  OBVIOUS
<1>4. \E n \in {n \in DOMAIN Rows : results[n].host = h} :
         Rows[n].verdict = "FAILED" \/ Rows[n].failed > 0
  OBVIOUS
<1>5. TargetsOf(Rows)[h] = "FAILED"
  BY <1>3, <1>4 DEF TargetsOf
<1> QED
  BY <1>2, <1>5

LEMMA SummaryAgrees ==
  ASSUME IInv, Judged, AllSound, OnFile, WriteRunSummary, summary' # summary
  PROVE  Agreed'
<1>1. /\ summary'.rows = Rows /\ summary'.totals = TotalsOf(Rows)
      /\ summary'.targets = TargetsOf(Rows) /\ summary'.failures = FailuresOf(Rows)
      /\ UNCHANGED <<spec, results, unsaved>> /\ pc' = "returned"
  BY DEF WriteRunSummary, outcome, context
<1>2. DOMAIN Rows = DOMAIN results
  BY DEF Rows
<1>3. IsFiniteSet(DOMAIN Rows)
  BY <1>2, ResultsAreListed, FS_Interval
<1>4. spec.dry \/ TotalsOf(Rows).jobs_passed <= PassedOf(Rows)
  <2> DEFINE rows == Rows
  <2>1. spec.dry \/ \A k \in DOMAIN rows : Counted(rows[k])
    BY RowsAreCounted
  <2>2. IsFiniteSet(DOMAIN rows)
    BY <1>3
  <2> HIDE DEF rows
  <2>3. spec.dry \/ TotalsOf(rows).jobs_passed <= PassedOf(rows)
    BY <2>1, <2>2, TotalsAreTrue DEF PassedOf
  <2> QED
    BY <2>3 DEF rows
<1>5. ASSUME NEW k \in DOMAIN results \ unsaved
      PROVE  /\ Rows[k].failure = results[k].failure
             /\ Rows[k].verdict = IF results[k].skipped THEN "SKIPPED"
                                  ELSE IF results[k].ok THEN "PASSED" ELSE "FAILED"
             /\ ~results[k].skipped /\ ~results[k].ok =>
                  /\ \E f \in FailuresOf(Rows) : f[1] = k
                  /\ TargetsOf(Rows)[results[k].host] = "FAILED"
  BY <1>2, RowIs, FailedRow
<1> DEFINE rows == Rows
           totals == TotalsOf(Rows)
           targets == TargetsOf(Rows)
           failures == FailuresOf(Rows)
<1>6. /\ summary'.rows = rows /\ summary'.totals = totals
      /\ summary'.targets = targets /\ summary'.failures = failures
      /\ spec' = spec /\ results' = results /\ unsaved' = unsaved /\ pc' = "returned"
  BY <1>1
<1>7. spec.dry \/ totals.jobs_passed <= PassedOf(rows)
  BY <1>4
<1>8. \A k \in DOMAIN results \ unsaved :
        /\ rows[k].failure = results[k].failure
        /\ rows[k].verdict = IF results[k].skipped THEN "SKIPPED"
                             ELSE IF results[k].ok THEN "PASSED" ELSE "FAILED"
        /\ ~results[k].skipped /\ ~results[k].ok =>
             /\ \E f \in failures : f[1] = k
             /\ targets[results[k].host] = "FAILED"
  BY <1>5
<1> HIDE DEF rows, totals, targets, failures
<1> QED
  BY <1>6, <1>7, <1>8 DEF Agreed

LEMMA NextAgreed ==
  ASSUME IInv, Judged, AllSound, OnFile, Agreed, [Next]_vars
  PROVE  Agreed'
<1>1. CASE WriteRunSummary
  <2>1. CASE summary' = summary
    <3>1. summary = NoSummary
      BY <1>1 DEF Agreed, WriteRunSummary
    <3> QED
      BY <2>1, <3>1 DEF Agreed
  <2>2. CASE summary' # summary
    BY <1>1, <2>2, SummaryAgrees DEF Agreed, WriteRunSummary
  <2> QED
    BY <2>1, <2>2
<1>2. CASE UNCHANGED vars
  <2>1. UNCHANGED <<summary, pc, spec, results, unsaved>>
    BY <1>2 DEF vars
  <2> QED
    BY <2>1 DEF Agreed
<1>3. CASE Next /\ ~WriteRunSummary
  BY <1>3, NothingAfter DEF Agreed
<1> QED
  BY <1>1, <1>2, <1>3

LEMMA InitFiled == Init => Known /\ AllSound /\ OnFile /\ InFile /\ Agreed
  BY DEF Init, Known, AllSound, Sound, OnFile, InFile, Agreed, Fresh, InStage

\* The aggregator: the row of a stage says what the run made of it, a stage that failed
\* is named among the failures and its target too (unless its file could not be saved),
\* and no more jobs are said to have passed than did.
THEOREM RowsAgreeHolds == Spec => []RowsAgree
<1>1. Init => OnPlan
  BY DEF Init, OnPlan
<1>2. IInv /\ Dealt /\ [Next]_vars => Dealt'
  BY NextDealt
<1>3. Dealt /\ OnPlan /\ [Next]_vars => OnPlan'
  BY NextOnPlan
<1>4. IInv /\ Dealt /\ OnPlan /\ Known /\ [Next]_vars => Known'
  BY NextKnown
<1>5. IInv /\ Dealt /\ OnPlan /\ AllSound /\ [Next]_vars => AllSound'
  BY NextSound
<1>6. IInv /\ Dealt /\ Known /\ AllSound /\ OnFile /\ InFile /\ [Next]_vars => OnFile' /\ InFile'
  BY NextOnFile, NextInFile
<1>7. IInv /\ Judged /\ [Next]_vars => Judged'
  BY NextJudged
<1>8. IInv /\ Judged /\ AllSound /\ OnFile /\ Agreed /\ [Next]_vars => Agreed'
  BY NextAgreed
<1>9. Agreed => RowsAgree
  BY DEF Agreed, RowsAgree, PassedOf, Executed
<1> HIDE DEF IInv, Dealt, Judged, OnPlan, Known, AllSound, OnFile, InFile, Agreed, Init, Next,
         vars, RowsAgree
<1> QED
  BY <1>1, <1>2, <1>3, <1>4, <1>5, <1>6, <1>7, <1>8, <1>9, InitEnd, InitIInv, InitFiled, NextIInv,
     PTL DEF Spec
=============================================================================
