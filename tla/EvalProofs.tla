----------------------------- MODULE EvalProofs -----------------------------
(***************************************************************************)
(* What the rows, the baseline, the metrics and the gate of the evaluation *)
(* jobs are worth, for any jobs at once, any suites, rules and expected    *)
(* findings.  The invariant follows the rows of one job among those of the *)
(* others.  The totals are averages: the fold they are built with is taken *)
(* apart by a least counterexample, for marks that are 0 or one number,    *)
(* as all metrics of a stubbed case are.                                   *)
(***************************************************************************)
EXTENDS EvalHarness, FiniteSetTheorems, WellFoundedInduction, TLAPS

-----------------------------------------------------------------------------
(* The metrics tell the expected findings from all others                  *)

\* A quotient of counts is 1 only of equal counts.
LEMMA RatioIsPerfect ==
    ASSUME NEW n \in Nat, NEW d \in Nat, n <= d
    PROVE  (Ratio(n, d) = 1000) <=> (n = d)
  <1>1. CASE d = 0
    BY <1>1 DEF Ratio
  <1>2. CASE d # 0
    <2>1. Ratio(n, d) = (1000 * n) \div d
      BY <1>2 DEF Ratio
    <2>2. ((1000 * n) \div d = 1000) <=> (n = d)
      BY <1>2
    <2> QED BY <2>1, <2>2
  <1> QED BY <1>1, <1>2

\* Of two finite sets: the common part is as large as each of them only if they
\* are the same.
LEMMA SameSets ==
    ASSUME NEW A, NEW B, IsFiniteSet(A), IsFiniteSet(B)
    PROVE  /\ Cardinality(A \cap B) \in Nat /\ Cardinality(A) \in Nat /\ Cardinality(B) \in Nat
           /\ Cardinality(A \cap B) <= Cardinality(A) /\ Cardinality(A \cap B) <= Cardinality(B)
           /\ Cardinality(A \cap B) = Cardinality(A) /\ Cardinality(A \cap B) = Cardinality(B) => A = B
  <1>1. IsFiniteSet(A \cap B)
    BY FS_Intersection
  <1>2. A \cap B \in SUBSET A /\ A \cap B \in SUBSET B
    OBVIOUS
  <1>3. /\ Cardinality(A \cap B) <= Cardinality(A)
        /\ Cardinality(A \cap B) = Cardinality(A) => A \cap B = A
    BY <1>2, FS_Subset
  <1>4. /\ Cardinality(A \cap B) <= Cardinality(B)
        /\ Cardinality(A \cap B) = Cardinality(B) => A \cap B = B
    BY <1>2, FS_Subset
  <1> QED BY <1>1, <1>3, <1>4, FS_CardinalityType

LEMMA OfRuleFinite ==
    ASSUME NEW a \in SUBSET (Rule \X Principal), NEW r
    PROVE  IsFiniteSet(OfRule(a, r))
  <1>1. IsFiniteSet(Rule \X Principal)
    BY EvalHarnessAssumption, FS_Product
  <1>2. OfRule(a, r) \in SUBSET (Rule \X Principal)
    BY DEF OfRule
  <1> QED BY <1>1, <1>2, FS_Subset

\* Perfect in all rules is the same set of findings.
LEMMA PerfectIsSame ==
    ASSUME NEW a \in SUBSET (Rule \X Principal), NEW e \in SUBSET (Rule \X Principal)
    PROVE  (\A r \in Rule : /\ Precision(a, e, r) = Precision(e, e, r)
                            /\ Recall(a, e, r) = Recall(e, e, r)) <=> a = e
  <1>1. ASSUME NEW r \in Rule
        PROVE  /\ Precision(e, e, r) = 1000 /\ Recall(e, e, r) = 1000
               /\ Precision(a, e, r) = 1000 /\ Recall(a, e, r) = 1000 => OfRule(a, r) = OfRule(e, r)
    <2> DEFINE A == OfRule(a, r)
               E == OfRule(e, r)
    <2>1. IsFiniteSet(A) /\ IsFiniteSet(E)
      BY OfRuleFinite
    <2>2. /\ Precision(a, e, r) = Ratio(Cardinality(A \cap E), Cardinality(A))
          /\ Recall(a, e, r) = Ratio(Cardinality(A \cap E), Cardinality(E))
          /\ Precision(e, e, r) = Ratio(Cardinality(E \cap E), Cardinality(E))
          /\ Recall(e, e, r) = Ratio(Cardinality(E \cap E), Cardinality(E))
      BY DEF Precision, Recall
    <2> HIDE DEF A, E
    <2>3. E \cap E = E /\ Cardinality(E) \in Nat
      BY <2>1, FS_CardinalityType
    <2>4. Precision(e, e, r) = 1000 /\ Recall(e, e, r) = 1000
      <3>1. \A n \in Nat : n <= n /\ Ratio(n, n) = 1000
        BY RatioIsPerfect
      <3>2. Ratio(Cardinality(E \cap E), Cardinality(E)) = 1000
        <4>1. Ratio(Cardinality(E), Cardinality(E)) = 1000
          BY <2>3, <3>1
        <4> QED BY <2>3, <4>1
      <3> QED BY <2>2, <3>2
    <2>5. ASSUME Precision(a, e, r) = 1000, Recall(a, e, r) = 1000
          PROVE  A = E
      <3> DEFINE k == Cardinality(A \cap E)
                 m == Cardinality(A)
                 n == Cardinality(E)
      <3>1. /\ k \in Nat /\ m \in Nat /\ n \in Nat /\ k <= m /\ k <= n
            /\ k = m /\ k = n => A = E
        BY <2>1, SameSets
      <3>2. Ratio(k, m) = 1000 /\ Ratio(k, n) = 1000
        BY <2>2, <2>5
      <3> HIDE DEF k, m, n
      <3> QED BY <3>1, <3>2, RatioIsPerfect
    <2> QED BY <2>4, <2>5 DEF A, E
  <1>2. ASSUME \A r \in Rule : OfRule(a, r) = OfRule(e, r)
        PROVE  a = e
    <2>1. \A f \in Rule \X Principal : (f \in a) <=> (f \in e)
      BY <1>2 DEF OfRule
    <2> QED BY <2>1
  <1> QED BY <1>1, <1>2


\* The expected findings are perfect.
LEMMA SelfIsPerfect ==
    ASSUME NEW e \in SUBSET (Rule \X Principal), NEW r \in Rule
    PROVE  Precision(e, e, r) = 1000 /\ Recall(e, e, r) = 1000
  <1> DEFINE E == OfRule(e, r)
             n == Cardinality(E)
  <1>1. n \in Nat /\ E \cap E = E
    BY OfRuleFinite, FS_CardinalityType
  <1>2. Precision(e, e, r) = Ratio(n, n) /\ Recall(e, e, r) = Ratio(n, n)
    BY <1>1 DEF Precision, Recall
  <1> HIDE DEF n
  <1>3. Ratio(n, n) = 1000
    BY <1>1, RatioIsPerfect
  <1> QED BY <1>2, <1>3

-----------------------------------------------------------------------------
(* Sums and averages of marks that are 0 or c                              *)

\* What stands in for induction: there is a least counterexample.
LEMMA LeastNat ==
    ASSUME NEW T \in SUBSET Nat, T # {}
    PROVE  \E n \in T : \A m \in T : n <= m
  <1> DEFINE R == {p \in Nat \X Nat : p[1] < p[2]}
  <1>1. IsWellFoundedOn(R, Nat)
    BY NatLessThanWellFounded DEF OpToRel
  <1> HIDE DEF R
  <1>2. PICK n \in T : \A m \in T : <<m, n>> \notin R
    BY <1>1, WFMin
  <1>3. \A m \in T : ~(m < n)
    <2>1. \A m \in T : m < n => <<m, n>> \in R
      BY DEF R
    <2> QED BY <1>2, <2>1
  <1> QED BY <1>3

\* How the sum goes through the sets of the places of f.
Sums(f, W) ==
    W = [s \in SUBSET DOMAIN f |->
            IF s = {} THEN 0
            ELSE f[CHOOSE x \in s : TRUE] + W[s \ {CHOOSE x \in s : TRUE}]]

Marked(f, c, s) == {x \in s : f[x] = c}

\* One step of the sum, from the places without one of them to all of them.
LEMMA MarkedStep ==
    ASSUME NEW c \in Nat \ {0}, NEW f, IsFiniteSet(DOMAIN f),
           \A x \in DOMAIN f : f[x] \in {0, c},
           NEW s \in SUBSET DOMAIN f, NEW x \in s
    PROVE  c * Cardinality(Marked(f, c, s)) = f[x] + c * Cardinality(Marked(f, c, s \ {x}))
  <1> DEFINE M == Marked(f, c, s \ {x})
  <1>1. IsFiniteSet(M) /\ Cardinality(M) \in Nat /\ x \notin M
    <2>1. M \in SUBSET DOMAIN f
      BY DEF Marked
    <2>2. IsFiniteSet(M)
      BY <2>1, FS_Subset
    <2> QED BY <2>2, FS_CardinalityType DEF Marked
  <1>2. CASE f[x] = c
    <2>1. Marked(f, c, s) = M \cup {x}
      BY <1>2 DEF Marked
    <2> HIDE DEF M
    <2>2. Cardinality(Marked(f, c, s)) = Cardinality(M) + 1
      BY <1>1, <2>1, FS_AddElement
    <2>3. c * (Cardinality(M) + 1) = c + c * Cardinality(M)
      BY <1>1
    <2> QED BY <1>2, <2>2, <2>3 DEF M
  <1>3. CASE f[x] # c
    <2>1. f[x] = 0
      BY <1>3
    <2>2. Marked(f, c, s) = M
      BY <1>3 DEF Marked
    <2> HIDE DEF M
    <2>3. c * Cardinality(M) = 0 + c * Cardinality(M)
      BY <1>1
    <2> QED BY <2>1, <2>2, <2>3 DEF M
  <1> QED BY <1>2, <1>3

\* c times the number of marks sums.
LEMMA MarkedSums ==
    ASSUME NEW c \in Nat \ {0}, NEW f, IsFiniteSet(DOMAIN f),
           \A x \in DOMAIN f : f[x] \in {0, c}
    PROVE  Sums(f, [s \in SUBSET DOMAIN f |-> c * Cardinality(Marked(f, c, s))])
  <1> DEFINE G == [s \in SUBSET DOMAIN f |-> c * Cardinality(Marked(f, c, s))]
  <1>1. ASSUME NEW s \in SUBSET DOMAIN f
        PROVE  c * Cardinality(Marked(f, c, s)) =
                 IF s = {} THEN 0
                 ELSE f[CHOOSE x \in s : TRUE] + G[s \ {CHOOSE x \in s : TRUE}]
    <2>1. CASE s = {}
      <3>1. Marked(f, c, s) = {}
        BY <2>1 DEF Marked
      <3> QED BY <2>1, <3>1, FS_EmptySet
    <2>2. CASE s # {}
      <3> DEFINE x == CHOOSE x \in s : TRUE
      <3>1. x \in s
        BY <2>2
      <3> HIDE DEF x
      <3>2. G[s \ {x}] = c * Cardinality(Marked(f, c, s \ {x}))
        OBVIOUS
      <3>3. c * Cardinality(Marked(f, c, s)) = f[x] + G[s \ {x}]
        BY <3>1, <3>2, MarkedStep
      <3> QED BY <2>2, <3>3 DEF x
    <2> QED BY <2>1, <2>2
  <1> QED BY <1>1 DEF Sums

\* Nothing else sums: another W would differ first at a smallest set, but it
\* adds there the same to the same.
LEMMA OnlyMarkedSums ==
    ASSUME NEW c \in Nat \ {0}, NEW f, IsFiniteSet(DOMAIN f),
           \A x \in DOMAIN f : f[x] \in {0, c},
           NEW W, Sums(f, W), NEW t \in SUBSET DOMAIN f
    PROVE  W[t] = c * Cardinality(Marked(f, c, t))
  <1> DEFINE Bad == {s \in SUBSET DOMAIN f : W[s] # c * Cardinality(Marked(f, c, s))}
             T == {Cardinality(s) : s \in Bad}
  <1>1. ASSUME NEW s \in Bad
        PROVE  Cardinality(s) \in Nat /\ \E u \in Bad : Cardinality(u) < Cardinality(s)
    <2> DEFINE x == CHOOSE x \in s : TRUE
    <2>1. s \in SUBSET DOMAIN f /\ IsFiniteSet(s) /\ Cardinality(s) \in Nat
      BY FS_Subset, FS_CardinalityType
    <2>2. s # {}
      <3> SUFFICES ASSUME s = {} PROVE FALSE
        OBVIOUS
      <3>1. W[s] = 0 /\ Marked(f, c, s) = {}
        BY <2>1 DEF Sums, Marked
      <3> QED BY <3>1, FS_EmptySet
    <2>3. x \in s
      BY <2>2
    <2>4. W[s] = f[x] + W[s \ {x}]
      BY <2>1, <2>2 DEF Sums
    <2> HIDE DEF x
    <2>5. c * Cardinality(Marked(f, c, s)) = f[x] + c * Cardinality(Marked(f, c, s \ {x}))
      BY <2>1, <2>3, MarkedStep
    <2>6. s \ {x} \in Bad
      BY <2>1, <2>4, <2>5
    <2>7. Cardinality(s \ {x}) < Cardinality(s)
      <3>1. Cardinality(s \ {x}) = Cardinality(s) - 1
        BY <2>1, <2>3, FS_RemoveElement
      <3> QED BY <2>1, <3>1
    <2> QED BY <2>1, <2>6, <2>7
  <1>2. T = {}
    <2> SUFFICES ASSUME T # {} PROVE FALSE
      OBVIOUS
    <2> HIDE DEF Bad
    <2>1. T \in SUBSET Nat
      BY <1>1
    <2>2. PICK n \in T : \A m \in T : n <= m
      <3> HIDE DEF T
      <3> QED BY <2>1, LeastNat
    <2>3. PICK s \in Bad : n = Cardinality(s)
      BY <2>2
    <2>4. PICK u \in Bad : Cardinality(u) < Cardinality(s)
      BY <1>1
    <2>5. n <= Cardinality(u) /\ n \in Nat /\ Cardinality(u) \in Nat
      BY <1>1, <2>1, <2>2
    <2> QED BY <2>3, <2>4, <2>5
  <1> QED BY <1>2

\* So that is what the fold returns.
LEMMA SumOfMarks ==
    ASSUME NEW c \in Nat \ {0}, NEW f, IsFiniteSet(DOMAIN f),
           \A x \in DOMAIN f : f[x] \in {0, c}
    PROVE  MapThenSumSet(LAMBDA i : f[i], DOMAIN f) = c * Cardinality(Marked(f, c, DOMAIN f))
  <1> DEFINE W == CHOOSE w : Sums(f, w)
  <1>1. MapThenSumSet(LAMBDA i : f[i], DOMAIN f) = W[DOMAIN f]
    BY DEF MapThenSumSet, MapThenFoldSet, Sums
  <1>2. Sums(f, W)
    BY MarkedSums DEF W
  <1> HIDE DEF W
  <1> QED BY <1>1, <1>2, OnlyMarkedSums

Marks(f, c) ==
    /\ c \in Nat \ {0} /\ IsFiniteSet(DOMAIN f) /\ DOMAIN f # {}
    /\ \A x \in DOMAIN f : f[x] \in {0, c}

\* The average, cut off to whole thousandths.
LEMMA AverageOfMarks ==
    ASSUME NEW c, NEW f, Marks(f, c), NEW D, D = DOMAIN f, NEW M, M = Marked(f, c, D)
    PROVE  Average(f) = (c * Cardinality(M)) \div Cardinality(D)
  BY SumOfMarks DEF Average, Marks

\* Of one number throughout it is that number.
LEMMA AverageOfSame ==
    ASSUME NEW c \in Nat \ {0}, NEW f, IsFiniteSet(DOMAIN f), DOMAIN f # {},
           \A x \in DOMAIN f : f[x] = c
    PROVE  Average(f) = c
  <1> DEFINE n == Cardinality(DOMAIN f)
  <1>1. Marked(f, c, DOMAIN f) = DOMAIN f
    BY DEF Marked
  <1>2. n \in Nat \ {0} /\ Average(f) = (c * n) \div n
    <2>1. Marks(f, c)
      BY DEF Marks
    <2>2. Average(f) = (c * n) \div n
      BY <1>1, <2>1, AverageOfMarks
    <2> QED BY <2>2, FS_CardinalityType, FS_EmptySet
  <1> HIDE DEF n
  <1>3. c * n = n * c /\ c * n \in Nat
    BY <1>2
  <1>4. (c * n) \div n = c
    BY <1>2, <1>3
  <1> QED BY <1>2, <1>4

-----------------------------------------------------------------------------
(* The gate                                                                *)

\* What a case is measured at that has lost the findings of the rules in gone.
Measured(m, gone) ==
    /\ m.faithfulness = 950 /\ m.answer_relevance = 900
    /\ m.context_precision = 850 /\ m.bertscore_f1 = 800
    /\ \A r \in Rule : m.precision[r] = 1000
    /\ \A r \in Rule : m.recall[r] = IF r \in gone THEN 0 ELSE 1000

\* Nothing found: no precision is lost, and recall where there was to find.
LEMMA MissingIs ==
    ASSUME NEW e \in SUBSET (Rule \X Principal)
    PROVE  Measured(Metrics({}, e), {r \in Rule : OfRule(e, r) # {}})
  <1>1. ASSUME NEW r \in Rule
        PROVE  /\ Precision({}, e, r) = 1000
               /\ Recall({}, e, r) = IF OfRule(e, r) # {} THEN 0 ELSE 1000
    <2>1. IsFiniteSet(OfRule(e, r)) /\ Cardinality(OfRule(e, r)) \in Nat
      BY OfRuleFinite, FS_CardinalityType
    <2>2. Cardinality(OfRule(e, r)) = 0 <=> OfRule(e, r) = {}
      BY <2>1, FS_EmptySet
    <2>3. OfRule({}, r) = {} /\ OfRule({}, r) \cap OfRule(e, r) = {}
      BY DEF OfRule
    <2>4. Precision({}, e, r) = Ratio(0, 0) /\ Recall({}, e, r) = Ratio(0, Cardinality(OfRule(e, r)))
      BY <2>3, FS_EmptySet DEF Precision, Recall
    <2>5. \A d \in Nat : Ratio(0, d) = IF d = 0 THEN 1000 ELSE 0
      BY DEF Ratio
    <2> QED BY <2>1, <2>2, <2>4, <2>5
  <1> QED BY <1>1 DEF Measured, Metrics

\* All found: nothing is lost.
LEMMA FindingAllIs ==
    ASSUME NEW e \in SUBSET (Rule \X Principal)
    PROVE  Measured(Metrics(e, e), {})
  <1>1. \A r \in Rule : Precision(e, e, r) = 1000 /\ Recall(e, e, r) = 1000
    BY SelfIsPerfect
  <1> QED BY <1>1 DEF Measured, Metrics

\* The total of a metric that all cases have in common.
InCommon(rs, m, c) == c \in Nat \ {0} /\ m \in Scalar /\ \A i \in DOMAIN rs : rs[i][m] = c

LEMMA TotalInCommon ==
    ASSUME NEW rs, IsFiniteSet(DOMAIN rs), DOMAIN rs # {}, rs # <<>>, NEW m, NEW c, InCommon(rs, m, c)
    PROVE  Aggregate(rs)[m] = c
  <1> DEFINE f == [i \in DOMAIN rs |-> rs[i][m]]
  <1>1. Aggregate(rs)[m] = Average(f)
    BY DEF Aggregate, Total, Scalar, InCommon
  <1>2. DOMAIN f = DOMAIN rs /\ \A i \in DOMAIN f : f[i] = c
    BY DEF InCommon
  <1> HIDE DEF f
  <1>3. c \in Nat \ {0}
    BY DEF InCommon
  <1>4. Average(f) = c
    BY <1>2, <1>3, AverageOfSame
  <1> QED BY <1>1, <1>4

\* The totals of a suite in which some cases have lost findings.
LEMMA TotalsAre ==
    ASSUME NEW n \in Nat \ {0}, NEW rs, DOMAIN rs = 1..n, rs # <<>>,
           NEW gone, \A i \in 1..n : Measured(rs[i], gone[i])
    PROVE  LET t == n * Cardinality(Rule)
               l == Cardinality({p \in (1..n) \X Rule : p[2] \in gone[p[1]]})
               ts == Aggregate(rs)
           IN  /\ DOMAIN ts = Total
               /\ ts["faithfulness"] = 950 /\ ts["answer_relevance"] = 900
               /\ ts["context_precision"] = 850 /\ ts["bertscore_f1"] = 800
               /\ ts["precision_avg"] = 1000
               /\ l \in 0..t /\ t \in Nat \ {0}
               /\ ts["recall_avg"] = (1000 * (t - l)) \div t
  <1> DEFINE P == (1..n) \X Rule
             L == {p \in P : p[2] \in gone[p[1]]}
             ts == Aggregate(rs)
             rec == OverAll([i \in DOMAIN rs |-> rs[i].recall])
             pre == OverAll([i \in DOMAIN rs |-> rs[i].precision])
  <1>1. /\ DOMAIN ts = Total
        /\ ts["precision_avg"] = Average(pre) /\ ts["recall_avg"] = Average(rec)
    BY DEF Aggregate, Total, Scalar
  <1>2. \A i \in 1..n :
          /\ rs[i].faithfulness = 950 /\ rs[i].answer_relevance = 900
          /\ rs[i].context_precision = 850 /\ rs[i].bertscore_f1 = 800
          /\ \A r \in Rule : rs[i].precision[r] = 1000
          /\ \A r \in Rule : rs[i].recall[r] = IF r \in gone[i] THEN 0 ELSE 1000
    BY DEF Measured
  <1>3. IsFiniteSet(1..n) /\ Cardinality(1..n) = n /\ 1..n # {}
    <2>1. 1 \in 1..n /\ n - 1 + 1 = n /\ ~(1 > n) /\ 1 \in Int /\ n \in Int
      OBVIOUS
    <2>2. IsFiniteSet(1..n) /\ Cardinality(1..n) = IF 1 > n THEN 0 ELSE n - 1 + 1
      BY <2>1, FS_Interval
    <2> QED BY <2>1, <2>2
  <1>4. IsFiniteSet(P) /\ Cardinality(P) = n * Cardinality(Rule) /\ P # {}
    <2>1. IsFiniteSet(P) /\ Cardinality(P) = Cardinality(1..n) * Cardinality(Rule)
      BY <1>3, EvalHarnessAssumption, FS_Product
    <2>2. PICK r \in Rule : TRUE
      BY EvalHarnessAssumption
    <2>3. <<1, r>> \in P
      OBVIOUS
    <2> QED BY <1>3, <2>1, <2>3
  <1>6. /\ ts["faithfulness"] = 950 /\ ts["answer_relevance"] = 900
        /\ ts["context_precision"] = 850 /\ ts["bertscore_f1"] = 800
    <2>1. /\ InCommon(rs, "faithfulness", 950) /\ InCommon(rs, "answer_relevance", 900)
          /\ InCommon(rs, "context_precision", 850) /\ InCommon(rs, "bertscore_f1", 800)
      BY <1>2 DEF InCommon, Scalar
    <2>2. IsFiniteSet(DOMAIN rs) /\ DOMAIN rs # {}
      BY <1>3
    <2> HIDE DEF ts
    <2>3. ASSUME NEW m, NEW c, InCommon(rs, m, c) PROVE ts[m] = c
      BY <2>2, <2>3, TotalInCommon DEF ts
    <2> QED BY <2>1, <2>3
  <1>7. DOMAIN pre = P /\ \A p \in P : pre[p] = 1000
    BY <1>2 DEF OverAll
  <1>8. DOMAIN rec = P /\ \A p \in P : rec[p] = IF p \in L THEN 0 ELSE 1000
    <2>1. DOMAIN rec = P /\ \A p \in P : rec[p] = rs[p[1]].recall[p[2]]
      BY DEF OverAll
    <2>2. ASSUME NEW p \in P
          PROVE  rs[p[1]].recall[p[2]] = IF p \in L THEN 0 ELSE 1000
      <3>1. PICK i \in 1..n, r \in Rule : p = <<i, r>>
        OBVIOUS
      <3>2. p[1] = i /\ p[2] = r
        BY <3>1
      <3>3. p \in L <=> r \in gone[i]
        BY <3>2
      <3> HIDE DEF L
      <3>4. rs[i].recall[r] = IF r \in gone[i] THEN 0 ELSE 1000
        BY <1>2
      <3> QED BY <3>2, <3>3, <3>4
    <2> HIDE DEF rec, P, L
    <2> QED BY <2>1, <2>2
  <1> HIDE DEF pre, rec, P, ts
  <1>9. ts["precision_avg"] = 1000
    <2>1. IsFiniteSet(DOMAIN pre) /\ DOMAIN pre # {} /\ \A p \in DOMAIN pre : pre[p] = 1000
      BY <1>4, <1>7
    <2>2. Average(pre) = 1000
      BY <2>1, AverageOfSame
    <2> QED BY <1>1, <2>2
  <1>10. Marked(rec, 1000, P) = P \ L
    BY <1>8 DEF Marked
  <1>11. \A p \in DOMAIN rec : rec[p] \in {0, 1000}
    BY <1>8
  <1>12. /\ Cardinality(P) \in Nat \ {0}
         /\ Average(rec) = (1000 * Cardinality(P \ L)) \div Cardinality(P)
    <2>1. Marks(rec, 1000)
      BY <1>4, <1>8, <1>11 DEF Marks
    <2>2. P = DOMAIN rec /\ P \ L = Marked(rec, 1000, P)
      BY <1>8, <1>10
    <2>3. Cardinality(P) \in Nat \ {0}
      BY <1>4, FS_CardinalityType, FS_EmptySet
    <2> HIDE DEF L
    <2>4. Average(rec) = (1000 * Cardinality(P \ L)) \div Cardinality(P)
      <3> DEFINE c == 1000
                 M == P \ L
      <3>1. Marks(rec, c) /\ P = DOMAIN rec /\ M = Marked(rec, c, P)
        BY <2>1, <2>2
      <3> HIDE DEF c, M
      <3>2. Average(rec) = (c * Cardinality(M)) \div Cardinality(P)
        BY <3>1, AverageOfMarks
      <3> QED BY <3>2 DEF c, M
    <2> QED BY <2>3, <2>4
  <1>13. IsFiniteSet(L) /\ Cardinality(L) \in 0..Cardinality(P) /\ Cardinality(P \ L) = Cardinality(P) - Cardinality(L)
    <2>1. L \subseteq P
      OBVIOUS
    <2> HIDE DEF L
    <2>2. IsFiniteSet(L) /\ Cardinality(L) <= Cardinality(P)
      BY <1>4, <2>1, FS_Subset
    <2>3. P \cap L = L
      BY <2>1
    <2>4. Cardinality(P \ L) = Cardinality(P) - Cardinality(P \cap L)
      BY <1>4, FS_Difference
    <2>5. Cardinality(L) \in Nat
      BY <2>2, FS_CardinalityType
    <2>6. Cardinality(P) \in Nat
      BY <1>12
    <2>7. Cardinality(P \ L) = Cardinality(P) - Cardinality(L)
      BY <2>3, <2>4
    <2>8. Cardinality(L) \in 0..Cardinality(P)
      BY <2>2, <2>5, <2>6
    <2> QED BY <2>2, <2>7, <2>8
  <1> QED BY <1>1, <1>4, <1>6, <1>9, <1>12, <1>13 DEF P, ts

\* The check fails a suite exactly when more than a tenth of the pairs is lost.
LEMMA CheckIs ==
    ASSUME NEW n \in Nat \ {0}, NEW rs, DOMAIN rs = 1..n, rs # <<>>,
           NEW gone, \A i \in 1..n : Measured(rs[i], gone[i])
    PROVE  Check(Aggregate(rs)) = 0 <=>
             10 * Cardinality({p \in (1..n) \X Rule : p[2] \in gone[p[1]]}) <= n * Cardinality(Rule)
  <1> DEFINE l == Cardinality({p \in (1..n) \X Rule : p[2] \in gone[p[1]]})
             t == n * Cardinality(Rule)
             ts == Aggregate(rs)
  <1>1. /\ DOMAIN ts = Total
        /\ ts["faithfulness"] = 950 /\ ts["answer_relevance"] = 900
        /\ ts["context_precision"] = 850 /\ ts["bertscore_f1"] = 800
        /\ ts["precision_avg"] = 1000
        /\ l \in 0..t /\ t \in Nat \ {0}
        /\ ts["recall_avg"] = (1000 * (t - l)) \div t
    BY TotalsAre
  <1> HIDE DEF l, t, ts
  <1>2. (\E m \in DOMAIN ts \cap DOMAIN FailBelow : ts[m] < FailBelow[m]) <=> ts["recall_avg"] < 900
    BY <1>1 DEF Total, Scalar, FailBelow
  <1>3. Check(ts) = 0 <=> ~(ts["recall_avg"] < 900)
    BY <1>2 DEF Check
  <1>4. (1000 * (t - l)) \div t < 900 <=> t < 10 * l
    <2>1. 1000 * (t - l) \in Nat
      BY <1>1
    <2>2. (1000 * (t - l)) \div t < 900 <=> 1000 * (t - l) < 900 * t
      BY <1>1, <2>1
    <2> QED BY <1>1, <2>2
  <1>5. Check(ts) = 0 <=> 10 * l <= t
    BY <1>1, <1>3, <1>4
  <1> QED BY <1>5 DEF l, t, ts

-----------------------------------------------------------------------------
(* The invariant                                                           *)

RowOf(j, k) == [job |-> j, case |-> Suite[j][k], branch |-> BranchOf[j]]
AllRows == UNION {{RowOf(j, k) : k \in DOMAIN Suite[j]} : j \in Job}
PerfectMetrics == {Metrics(Expected[c], Expected[c]) : c \in DOMAIN Expected}

\* The rows a comment may compare with: of main, and of a job that has put some.
MainsRows == {row \in AllRows : row.branch = "main" /\ written[row.job] # 0}

\* How far a job is, and what it has measured.
JobInv(j) ==
    /\ results[j] \in Seq(PerfectMetrics) /\ Len(results[j]) <= Len(Suite[j])
    /\ \A i \in DOMAIN results[j] : results[j][i] = Metrics(Wanted(j, i), Wanted(j, i))
    /\ written[j] \in Nat /\ written[j] <= Len(Suite[j])
    /\ written[j] # 0 => Len(results[j]) = Len(Suite[j])
    /\ totals[j] # None => written[j] = Len(Suite[j]) /\ pc[j] # "cases"

\* The rows of a job are those of its cases that it has put, one of each.
RowsInv(j) ==
    /\ IsFiniteSet(RowsOfJob(j)) /\ Cardinality(RowsOfJob(j)) = written[j]
    /\ {table[i].case : i \in RowsOfJob(j)} = {Suite[j][k] : k \in 1..written[j]}

EvalInv ==
    /\ DOMAIN pc = Job /\ DOMAIN results = Job /\ DOMAIN written = Job
    /\ DOMAIN totals = Job /\ DOMAIN baseline = Job
    /\ table \in Seq(AllRows)
    /\ \A j \in Job : JobInv(j) /\ RowsInv(j)
    /\ \A j \in Job : baseline[j] # None => baseline[j] \in MainsRows

-----------------------------------------------------------------------------
LEMMA AppendIs ==
    ASSUME NEW S, NEW s \in Seq(S), NEW e \in S
    PROVE  /\ Append(s, e) \in Seq(S) /\ Len(s) \in Nat /\ DOMAIN s = 1..Len(s)
           /\ Len(Append(s, e)) = Len(s) + 1 /\ DOMAIN Append(s, e) = 1..Len(s) + 1
           /\ \A i \in 1..Len(s) : Append(s, e)[i] = s[i]
           /\ Append(s, e)[Len(s) + 1] = e
  OBVIOUS

LEMMA SuiteIs ==
    ASSUME NEW j \in Job
    PROVE  /\ Len(Suite[j]) \in Nat /\ DOMAIN Suite[j] = 1..Len(Suite[j])
           /\ \A k \in DOMAIN Suite[j] : Suite[j][k] \in DOMAIN Expected
  <1>1. Suite[j] \in Seq(DOMAIN Expected)
    BY EvalHarnessAssumption
  <1> QED BY <1>1

LEMMA InitEval == Init => EvalInv
  <1> SUFFICES ASSUME Init PROVE EvalInv
    OBVIOUS
  <1>1. ASSUME NEW j \in Job
        PROVE  JobInv(j) /\ RowsInv(j)
    <2>1. results[j] = <<>> /\ written[j] = 0 /\ totals[j] = None
      BY DEF Init
    <2>2. RowsOfJob(j) = {} /\ 1..written[j] = {}
      BY <2>1 DEF Init, RowsOfJob
    <2>3. JobInv(j)
      BY <2>1, SuiteIs DEF JobInv
    <2>4. RowsInv(j)
      BY <2>1, <2>2, FS_EmptySet DEF RowsInv
    <2> QED BY <2>3, <2>4
  <1>2. table \in Seq(AllRows)
    BY DEF Init
  <1> QED BY <1>1, <1>2 DEF Init, EvalInv

\* A step that puts no row.
LEMMA RowsStay ==
    ASSUME EvalInv, UNCHANGED <<table, written>>, NEW j \in Job
    PROVE  RowsInv(j)'
  <1>1. RowsOfJob(j)' = RowsOfJob(j)
    BY DEF RowsOfJob
  <1>2. RowsInv(j)
    BY DEF EvalInv
  <1>3. {table'[i].case : i \in RowsOfJob(j)'} = {table[i].case : i \in RowsOfJob(j)}
    BY <1>1
  <1>4. {Suite[j][k] : k \in 1..written'[j]} = {Suite[j][k] : k \in 1..written[j]}
    OBVIOUS
  <1> QED BY <1>1, <1>2, <1>3, <1>4 DEF RowsInv

\* A step of one job that puts no row: the others keep what they have.
LEMMA OthersKept ==
    ASSUME EvalInv, NEW j \in Job, UNCHANGED <<table, written>>,
           DOMAIN pc' = Job, DOMAIN results' = Job, DOMAIN totals' = Job, DOMAIN baseline' = Job,
           \A k \in Job \ {j} : UNCHANGED <<pc[k], results[k], totals[k]>>,
           JobInv(j)',
           \A k \in Job : baseline'[k] # None =>
              baseline'[k] \in MainsRows
    PROVE  EvalInv'
  <1>1. \A k \in Job : RowsInv(k)'
    BY RowsStay
  <1>2. \A k \in Job : JobInv(k)'
    BY DEF EvalInv, JobInv, Wanted
  <1>3. AllRows' = AllRows /\ MainsRows' = MainsRows
    BY DEF MainsRows, AllRows, RowOf
  <1> QED BY <1>1, <1>2, <1>3 DEF EvalInv

LEMMA RunCaseStep ==
    ASSUME EvalInv, NEW j \in Job, RunCase(j)
    PROVE  EvalInv'
  <1> DEFINE e == Expected[Suite[j][Done(j) + 1]]
  <1>1. /\ pc[j] = "cases" /\ Done(j) < Len(Suite[j])
        /\ UNCHANGED <<real, written, table, totals, baseline, exit>>
        /\ \/ results' = [results EXCEPT ![j] = Append(@, Metrics(e, e))] /\ UNCHANGED pc
           \/ pc' = [pc EXCEPT ![j] = "raised"] /\ UNCHANGED results
    BY DEF RunCase, To
  <1>2. JobInv(j)
    BY DEF EvalInv
  <1>3. JobInv(j)'
    <2>1. CASE UNCHANGED results /\ pc' = [pc EXCEPT ![j] = "raised"]
      BY <1>1, <1>2, <2>1 DEF EvalInv, JobInv, Wanted
    <2>2. CASE results' = [results EXCEPT ![j] = Append(@, Metrics(e, e))] /\ UNCHANGED pc
      <3> DEFINE n == Len(results[j])
      <3>1. n \in Nat /\ n < Len(Suite[j]) /\ Len(Suite[j]) \in Nat
        BY <1>1, <1>2, SuiteIs DEF JobInv, Done
      <3>2. Suite[j][n + 1] \in DOMAIN Expected
        BY <3>1, SuiteIs
      <3>3. Metrics(e, e) \in PerfectMetrics /\ e = Wanted(j, n + 1)
        BY <3>2 DEF PerfectMetrics, Done, Wanted
      <3>4. results'[j] = Append(results[j], Metrics(e, e))
        BY <2>2 DEF EvalInv
      <3> HIDE DEF e
      <3>5. /\ results'[j] \in Seq(PerfectMetrics) /\ DOMAIN results[j] = 1..n
            /\ Len(results'[j]) = n + 1 /\ DOMAIN results'[j] = 1..n + 1
            /\ \A i \in 1..n : results'[j][i] = results[j][i]
            /\ results'[j][n + 1] = Metrics(e, e)
        BY <1>2, <3>3, <3>4, AppendIs DEF JobInv
      <3>6. \A i \in 1..n + 1 : results'[j][i] = Metrics(Wanted(j, i), Wanted(j, i))
        <4>1. \A i \in 1..n + 1 : i \in 1..n \/ i = n + 1
          BY <3>1
        <4> QED BY <1>2, <3>3, <3>5, <4>1 DEF JobInv
      <3>7. written[j] = 0 /\ totals[j] = None
        BY <1>1, <1>2, <3>1 DEF JobInv
      <3>8. \A i : Wanted(j, i)' = Wanted(j, i)
        BY DEF Wanted
      <3> QED BY <1>1, <1>2, <3>1, <3>5, <3>6, <3>7, <3>8 DEF JobInv
    <2> QED BY <1>1, <2>1, <2>2
  <1>4. /\ DOMAIN pc' = Job /\ DOMAIN results' = Job
        /\ \A k \in Job \ {j} : UNCHANGED <<pc[k], results[k], totals[k]>>
    BY <1>1 DEF EvalInv
  <1> QED BY <1>1, <1>3, <1>4, OthersKept DEF EvalInv

LEMMA LaterStep ==
    ASSUME EvalInv, NEW j \in Job, WriteJson(j) \/ CheckTotals(j) \/ PostComment(j)
    PROVE  EvalInv'
  <1>1. /\ UNCHANGED <<results, written, table>>
        /\ \E where \in {"comment", "check", "done"} : pc' = [pc EXCEPT ![j] = where]
        /\ \/ UNCHANGED totals /\ pc[j] # "cases"
           \/ written[j] = Len(Suite[j]) /\ totals' = [totals EXCEPT ![j] = Aggregate(results[j])]
    BY DEF WriteJson, CheckTotals, PostComment, To
  <1>2. JobInv(j)'
    BY <1>1 DEF EvalInv, JobInv, Wanted
  <1>3. \A k \in Job : baseline'[k] # None =>
           baseline'[k] \in MainsRows
    <2>1. CASE UNCHANGED baseline
      BY <2>1 DEF EvalInv
    <2>2. CASE baseline' = [baseline EXCEPT ![j] = None]
      BY <2>2 DEF EvalInv
    <2>3. CASE \E i \in RowsOf("main") : baseline' = [baseline EXCEPT ![j] = table[i]]
      <3>1. PICK i \in RowsOf("main") : baseline' = [baseline EXCEPT ![j] = table[i]]
        BY <2>3
      <3>2. table[i] \in AllRows /\ table[i].branch = "main" /\ i \in DOMAIN table
        BY <3>1 DEF EvalInv, RowsOf
      <3>3. PICK k \in Job : \E l \in DOMAIN Suite[k] : table[i] = RowOf(k, l)
        BY <3>2 DEF AllRows
      <3>4. table[i].job = k
        BY <3>3 DEF RowOf
      <3>5. i \in RowsOfJob(k)
        BY <3>2, <3>4 DEF RowsOfJob
      <3>6. written[k] # 0
        BY <3>5, FS_EmptySet DEF EvalInv, RowsInv
      <3>7. table[i] \in MainsRows
        BY <3>2, <3>4, <3>6 DEF MainsRows
      <3> QED BY <3>1, <3>7 DEF EvalInv
    <2> QED BY <2>1, <2>2, <2>3 DEF WriteJson, CheckTotals, PostComment
  <1>4. DOMAIN baseline' = Job
    BY DEF WriteJson, CheckTotals, PostComment, EvalInv
  <1>5. /\ DOMAIN pc' = Job /\ DOMAIN results' = Job /\ DOMAIN totals' = Job
        /\ \A k \in Job \ {j} : UNCHANGED <<pc[k], results[k], totals[k]>>
    BY <1>1 DEF EvalInv
  <1> QED BY <1>1, <1>2, <1>3, <1>4, <1>5, OthersKept

LEMMA WriteRowStep ==
    ASSUME EvalInv, NEW j \in Job, WriteRow(j)
    PROVE  EvalInv'
  <1>1. CASE pc' = [pc EXCEPT ![j] = "raised"] /\ UNCHANGED <<written, table>>
    <2>1. UNCHANGED <<results, totals, baseline>>
      BY DEF WriteRow
    <2>2. JobInv(j)'
      BY <1>1, <2>1 DEF EvalInv, JobInv, Wanted
    <2> QED BY <1>1, <2>1, <2>2, OthersKept DEF EvalInv
  <1>2. CASE /\ written' = [written EXCEPT ![j] = @ + 1] /\ PutRow(j) /\ UNCHANGED pc
    <2> DEFINE n == written[j]
               t == Len(table)
               row == RowOf(j, n + 1)
    <2>1. /\ Len(results[j]) = Len(Suite[j]) /\ n < Len(results[j])
          /\ UNCHANGED <<pc, results, totals, baseline>>
      BY <1>2 DEF WriteRow, Done
    <2>2. JobInv(j) /\ n \in Nat /\ Len(Suite[j]) \in Nat
      BY SuiteIs DEF EvalInv, JobInv
    <2>3. row \in AllRows
      <3>1. n + 1 \in DOMAIN Suite[j]
        BY <2>1, <2>2, SuiteIs
      <3> QED BY <3>1 DEF AllRows
    <2>4. table' = Append(table, row)
      BY <1>2 DEF PutRow, Row, RowOf
    <2>5. row.job = j /\ row.case = Suite[j][n + 1]
      BY DEF RowOf
    <2> HIDE DEF row
    <2>6. /\ table' \in Seq(AllRows) /\ t \in Nat /\ DOMAIN table = 1..t /\ DOMAIN table' = 1..t + 1
          /\ \A i \in 1..t : table'[i] = table[i]
          /\ table'[t + 1] = row
      BY <2>3, <2>4, AppendIs DEF EvalInv
    <2>7. written'[j] = n + 1 /\ \A k \in Job \ {j} : written'[k] = written[k]
      BY <1>2 DEF EvalInv
    <2>8. \A i : i \in DOMAIN table' <=> i \in DOMAIN table \/ i = t + 1
      BY <2>6
    <2>9. t + 1 \notin DOMAIN table
      BY <2>6
    <2>10. JobInv(j)'
      BY <2>1, <2>2, <2>7 DEF JobInv, Wanted
    <2>11. RowsInv(j)'
      <3>1. RowsOfJob(j)' = RowsOfJob(j) \cup {t + 1} /\ t + 1 \notin RowsOfJob(j)
        BY <2>5, <2>6, <2>8, <2>9 DEF RowsOfJob
      <3>2. IsFiniteSet(RowsOfJob(j)) /\ Cardinality(RowsOfJob(j)) = n
        BY DEF EvalInv, RowsInv
      <3>3. IsFiniteSet(RowsOfJob(j)') /\ Cardinality(RowsOfJob(j)') = n + 1
        BY <3>1, <3>2, FS_AddElement
      <3>4. {table'[i].case : i \in RowsOfJob(j)'}
               = {table[i].case : i \in RowsOfJob(j)} \cup {Suite[j][n + 1]}
        BY <2>5, <2>6, <3>1 DEF RowsOfJob
      <3>5. {Suite[j][k] : k \in 1..n + 1} = {Suite[j][k] : k \in 1..n} \cup {Suite[j][n + 1]}
        <4>1. \A k : k \in 1..n + 1 <=> k \in 1..n \/ k = n + 1
          BY <2>2
        <4> QED BY <4>1
      <3> QED BY <2>7, <3>3, <3>4, <3>5 DEF EvalInv, RowsInv
    <2>12. ASSUME NEW k \in Job \ {j}
           PROVE  JobInv(k)' /\ RowsInv(k)'
      <3>1. RowsOfJob(k)' = RowsOfJob(k)
        BY <2>5, <2>6, <2>8 DEF RowsOfJob
      <3>2. \A i \in RowsOfJob(k) : table'[i] = table[i]
        BY <2>6 DEF RowsOfJob
      <3>3. RowsInv(k)'
        <4>1. {table'[i].case : i \in RowsOfJob(k)'} = {table[i].case : i \in RowsOfJob(k)}
          BY <3>1, <3>2
        <4>2. RowsInv(k) /\ written'[k] = written[k]
          BY <2>7 DEF EvalInv
        <4> QED BY <3>1, <4>1, <4>2 DEF RowsInv
      <3>4. JobInv(k)'
        BY <2>1, <2>7 DEF EvalInv, JobInv, Wanted
      <3> QED BY <3>3, <3>4
    <2>13. DOMAIN written' = Job /\ AllRows' = AllRows
      BY <1>2 DEF EvalInv, AllRows, RowOf
    <2>14. MainsRows \subseteq MainsRows'
      <3>1. \A r \in AllRows : r.job \in Job
        BY DEF AllRows, RowOf
      <3>2. \A k \in Job : written[k] # 0 => written'[k] # 0
        BY <2>2, <2>7
      <3> QED BY <2>13, <3>1, <3>2 DEF MainsRows
    <2> QED BY <2>1, <2>6, <2>10, <2>11, <2>12, <2>13, <2>14 DEF EvalInv
  <1> QED BY <1>1, <1>2 DEF WriteRow, To

LEMMA AlwaysEvalInv == Spec => []EvalInv
  <1>1. EvalInv /\ [Next]_vars => EvalInv'
    <2> SUFFICES ASSUME EvalInv, [Next]_vars PROVE EvalInv'
      OBVIOUS
    <2>1. CASE Next
      BY <2>1, RunCaseStep, WriteRowStep, LaterStep DEF Next, JobStep
    <2>2. CASE UNCHANGED vars
      <3>1. UNCHANGED <<pc, results, written, table, totals, baseline>>
        BY <2>2 DEF vars
      <3>2. \A j \in Job : JobInv(j)' /\ RowsInv(j)'
        BY <3>1, RowsStay DEF EvalInv, JobInv, Wanted
      <3> QED BY <3>1, <3>2 DEF EvalInv, MainsRows, AllRows, RowOf
    <2> QED BY <2>1, <2>2
  <1> QED BY InitEval, <1>1, PTL DEF Spec

-----------------------------------------------------------------------------
(* The theorems                                                            *)

\* However many jobs put their rows at once, and wherever one of them raises:
\* rows are only of suites that ran to their end, and a job that wrote its
\* totals has put every case once (run_eval_suite, eval_run.py).
THEOREM ResultsAreComplete == Spec => []NoPartialResults
  <1>1. EvalInv => NoPartialResults
    <2> SUFFICES ASSUME EvalInv, NEW j \in Job
                 PROVE  /\ RowsOfJob(j) # {} => Len(results[j]) = Len(Suite[j])
                        /\ totals[j] # None =>
                              /\ Cardinality(RowsOfJob(j)) = Len(Suite[j])
                              /\ {table[i].case : i \in RowsOfJob(j)} = Range(Suite[j])
      BY DEF NoPartialResults
    <2>1. JobInv(j) /\ RowsInv(j)
      BY DEF EvalInv
    <2>2. RowsOfJob(j) # {} => Len(results[j]) = Len(Suite[j])
      BY <2>1, FS_EmptySet DEF JobInv, RowsInv
    <2>3. ASSUME totals[j] # None
          PROVE  /\ Cardinality(RowsOfJob(j)) = Len(Suite[j])
                 /\ {table[i].case : i \in RowsOfJob(j)} = Range(Suite[j])
      <3>1. written[j] = Len(Suite[j])
        BY <2>1, <2>3 DEF JobInv
      <3>2. Range(Suite[j]) = {Suite[j][k] : k \in 1..Len(Suite[j])}
        BY SuiteIs DEF Range
      <3> QED BY <2>1, <3>1, <3>2 DEF RowsInv
    <2> QED BY <2>2, <2>3
  <1> QED BY <1>1, AlwaysEvalInv, PTL

\* The row that load_baseline_for_branch gives a pull request is of a job of the
\* main branch, not of a pull request, that had run its suite to the end, in every
\* interleaving of the jobs; nothing is said of the job's other rows.
THEOREM BaselinesAreMains == Spec => []BaselineIsMains
  <1>1. EvalInv => BaselineIsMains
    <2> SUFFICES ASSUME EvalInv, NEW j \in PullRequest, baseline[j] # None
                 PROVE  /\ baseline[j].job \notin PullRequest /\ BranchOf[baseline[j].job] = "main"
                        /\ Len(results[baseline[j].job]) = Len(Suite[baseline[j].job])
      BY DEF BaselineIsMains
    <2>1. j \in Job
      BY EvalHarnessAssumption
    <2>2. PICK k \in Job : \E i \in DOMAIN Suite[k] : baseline[j] = RowOf(k, i)
      BY <2>1 DEF EvalInv, MainsRows, AllRows
    <2>3. baseline[j].job = k /\ BranchOf[k] = "main" /\ written[k] # 0
      BY <2>1, <2>2 DEF EvalInv, MainsRows, RowOf
    <2>4. Len(results[k]) = Len(Suite[k])
      BY <2>3 DEF EvalInv, JobInv
    <2> QED BY <2>3, <2>4, EvalHarnessAssumption
  <1> QED BY <1>1, AlwaysEvalInv, PTL

\* Precision and recall of all rules, as per_rule_precision_recall computes
\* them, are perfect for the expected findings and for no other set.
THEOREM PerfectIsExpected == Spec => []PerfectMeansSameFindings
  <1>1. EvalInv => PerfectMeansSameFindings
    <2> SUFFICES ASSUME EvalInv, NEW j \in Job, NEW i \in DOMAIN results[j]
                 PROVE  {a \in SUBSET (Rule \X Principal) : \A r \in Rule :
                            /\ Precision(a, Wanted(j, i), r) = results[j][i].precision[r]
                            /\ Recall(a, Wanted(j, i), r) = results[j][i].recall[r]} = {Wanted(j, i)}
      BY DEF PerfectMeansSameFindings
    <2> DEFINE e == Wanted(j, i)
    <2>1. e \in SUBSET (Rule \X Principal)
      <3>1. JobInv(j)
        BY DEF EvalInv
      <3>2. i \in DOMAIN Suite[j]
        <4>1. i \in 1..Len(results[j]) /\ Len(results[j]) \in Nat /\ Len(results[j]) <= Len(Suite[j])
          BY <3>1 DEF JobInv
        <4> QED BY <4>1, SuiteIs
      <3> QED BY <3>2, SuiteIs, EvalHarnessAssumption DEF Wanted
    <2>2. \A r \in Rule : /\ results[j][i].precision[r] = Precision(e, e, r)
                          /\ results[j][i].recall[r] = Recall(e, e, r)
      <3>1. results[j][i] = Metrics(e, e)
        BY DEF EvalInv, JobInv
      <3> HIDE DEF e
      <3> QED BY <3>1 DEF Metrics
    <2> HIDE DEF e
    <2>3. \A a \in SUBSET (Rule \X Principal) :
             (\A r \in Rule : /\ Precision(a, e, r) = results[j][i].precision[r]
                              /\ Recall(a, e, r) = results[j][i].recall[r]) <=> a = e
      BY <2>1, <2>2, PerfectIsSame
    <2> QED BY <2>1, <2>3 DEF e
  <1> QED BY <1>1, AlwaysEvalInv, PTL

-----------------------------------------------------------------------------
(* What a passing gate bounds                                              *)

\* The function of no places is the empty sequence.
LEMMA NoPlaces ==
    ASSUME NEW s, DOMAIN s = {}, s = [i \in DOMAIN s |-> s[i]]
    PROVE  s = <<>>
  OBVIOUS

\* A job that is past its cases has run them all; only such a job has an exit
\* code.
GateInv ==
    /\ DOMAIN exit = Job
    /\ \A j \in Job :
          /\ pc[j] \in {"check", "comment", "done"} => Len(results[j]) = Len(Suite[j])
          /\ exit[j] # None => pc[j] = "done"

LEMMA InitGate == Init => GateInv
  BY DEF Init, GateInv

\* Only WriteJson leaves the cases, when as many rows were put as there are cases.
LEMMA GateStep == EvalInv /\ GateInv /\ [Next]_vars => GateInv'
  <1> SUFFICES ASSUME EvalInv, GateInv, [Next]_vars PROVE GateInv'
    OBVIOUS
  <1>1. ASSUME NEW j \in Job, RunCase(j)
        PROVE  GateInv'
    <2>1. \/ UNCHANGED results /\ pc' = [pc EXCEPT ![j] = "raised"]
          \/ UNCHANGED pc /\ \A k \in Job \ {j} : results'[k] = results[k]
      BY <1>1 DEF RunCase, To, EvalInv
    <2>2. pc[j] = "cases" /\ UNCHANGED exit
      BY <1>1 DEF RunCase
    <2>3. exit[j] = None
      BY <2>2 DEF GateInv
    <2> QED BY <2>1, <2>2, <2>3 DEF GateInv, EvalInv
  <1>2. ASSUME NEW j \in Job, WriteRow(j)
        PROVE  GateInv'
    <2>1. pc[j] = "cases" /\ UNCHANGED <<results, exit>>
          /\ (UNCHANGED pc \/ pc' = [pc EXCEPT ![j] = "raised"])
      BY <1>2 DEF WriteRow, To
    <2>2. exit[j] = None
      BY <2>1 DEF GateInv
    <2> QED BY <2>1, <2>2 DEF GateInv, EvalInv
  <1>3. ASSUME NEW j \in Job, WriteJson(j)
        PROVE  GateInv'
    <2>1. /\ pc[j] = "cases" /\ written[j] = Len(Suite[j]) /\ UNCHANGED <<results, exit>>
          /\ pc' = [pc EXCEPT ![j] = IF j \in PullRequest THEN "comment" ELSE "check"]
      BY <1>3 DEF WriteJson, To
    <2>2. Len(results[j]) = Len(Suite[j])
      <3>1. /\ results[j] \in Seq(PerfectMetrics) /\ Len(results[j]) <= Len(Suite[j])
            /\ written[j] # 0 => Len(results[j]) = Len(Suite[j])
        BY DEF EvalInv, JobInv
      <3>2. Len(results[j]) \in Nat /\ Len(Suite[j]) \in Nat
        BY <3>1, SuiteIs
      <3> QED BY <2>1, <3>1, <3>2
    <2>3. exit[j] = None
      BY <2>1 DEF GateInv
    <2> QED BY <2>1, <2>2, <2>3 DEF GateInv, EvalInv
  <1>4. ASSUME NEW j \in Job, CheckTotals(j) \/ PostComment(j)
        PROVE  GateInv'
    <2>1. /\ pc[j] \in {"check", "comment"} /\ UNCHANGED results
          /\ pc' = [pc EXCEPT ![j] = "done"]
          /\ UNCHANGED exit \/ \E x : exit' = [exit EXCEPT ![j] = x]
      BY <1>4 DEF CheckTotals, PostComment, To
    <2> QED BY <2>1 DEF GateInv, EvalInv
  <1>5. CASE UNCHANGED vars
    BY <1>5 DEF GateInv, vars
  <1> QED BY <1>1, <1>2, <1>3, <1>4, <1>5 DEF Next, JobStep

\* A case in Losing has lost the findings of the rules that had any, or none.
LEMMA LosingIsMeasured ==
    ASSUME EvalInv, NEW j \in Job, NEW lost \in SUBSET DOMAIN results[j], NEW i \in DOMAIN results[j]
    PROVE  Measured(Losing(j, lost)[i],
                    IF i \in lost THEN {r \in Rule : OfRule(Wanted(j, i), r) # {}} ELSE {})
  <1>1. JobInv(j)
    BY DEF EvalInv
  <1>2. Wanted(j, i) \in SUBSET (Rule \X Principal)
    <2>1. i \in 1..Len(results[j]) /\ Len(results[j]) \in Nat /\ Len(results[j]) <= Len(Suite[j])
      BY <1>1 DEF JobInv
    <2>2. i \in DOMAIN Suite[j]
      BY <2>1, SuiteIs
    <2> QED BY <2>2, SuiteIs, EvalHarnessAssumption DEF Wanted
  <1> DEFINE e == Wanted(j, i)
  <1>3. Losing(j, lost)[i] = IF i \in lost THEN Metrics({}, e) ELSE Metrics(e, e)
    BY <1>1 DEF Losing, JobInv
  <1> HIDE DEF e
  <1>4. CASE i \in lost
    BY <1>2, <1>3, <1>4, MissingIs DEF e
  <1>5. CASE i \notin lost
    BY <1>2, <1>3, <1>5, FindingAllIs DEF e
  <1> QED BY <1>4, <1>5

\* The gate of a push or a nightly run, for any suite and any rules: had the cases
\* missed all their findings that make up more than a tenth of the pairs of a case
\* and a rule, it would not have passed.
THEOREM PassingBoundsTheLoss == Spec => []GateBoundsTheLoss
  <1>1. EvalInv /\ GateInv => GateBoundsTheLoss
    <2> SUFFICES ASSUME EvalInv, GateInv, NEW j \in Job, exit[j] = 0,
                        NEW lost \in SUBSET DOMAIN results[j]
                 PROVE  Check(Aggregate(Losing(j, lost))) = 0 =>
                          10 * Cardinality(LostPairs(j, lost)) <= Len(Suite[j]) * Cardinality(Rule)
      BY DEF GateBoundsTheLoss
    <2> DEFINE n == Len(Suite[j])
               rs == Losing(j, lost)
               gone == [i \in 1..n |->
                          IF i \in lost THEN {r \in Rule : OfRule(Wanted(j, i), r) # {}} ELSE {}]
               L == {p \in (1..n) \X Rule : p[2] \in gone[p[1]]}
    <2>1. DOMAIN results[j] = 1..n /\ n \in Nat
      <3>1. Len(results[j]) = n /\ results[j] \in Seq(PerfectMetrics)
        BY EvalHarnessAssumption DEF GateInv, EvalInv, JobInv
      <3> QED BY <3>1, SuiteIs
    <2>2. DOMAIN rs = 1..n
      BY <2>1 DEF Losing
    <2>3. LostPairs(j, lost) = L
      <3>1. ASSUME NEW p
            PROVE  p \in LostPairs(j, lost) <=> p \in L
        <4>1. p \in LostPairs(j, lost) <=>
                \E i \in lost, r \in Rule : p = <<i, r>> /\ OfRule(Wanted(j, i), r) # {}
          BY DEF LostPairs
        <4>2. p \in L <=> \E i \in 1..n, r \in Rule : p = <<i, r>> /\ r \in gone[i]
          <5> HIDE DEF gone, n
          <5>1. p \in L <=> p \in (1..n) \X Rule /\ p[2] \in gone[p[1]]
            OBVIOUS
          <5>2. p \in (1..n) \X Rule <=> \E i \in 1..n, r \in Rule : p = <<i, r>>
            OBVIOUS
          <5>3. \A i, r : p = <<i, r>> => p[1] = i /\ p[2] = r
            OBVIOUS
          <5> HIDE DEF L
          <5> QED BY <5>1, <5>2, <5>3
        <4>3. \A i \in 1..n, r \in Rule :
                 r \in gone[i] <=> i \in lost /\ OfRule(Wanted(j, i), r) # {}
          OBVIOUS
        <4>4. lost \subseteq 1..n
          BY <2>1
        <4> HIDE DEF gone, L, n
        <4> QED BY <4>1, <4>2, <4>3, <4>4
      <3> QED BY <3>1
    <2>4. ASSUME NEW i \in 1..n PROVE Measured(rs[i], gone[i])
      <3>1. gone[i] = IF i \in lost THEN {r \in Rule : OfRule(Wanted(j, i), r) # {}} ELSE {}
        OBVIOUS
      <3>2. i \in DOMAIN results[j]
        BY <2>1
      <3>3. Measured(rs[i], IF i \in lost THEN {r \in Rule : OfRule(Wanted(j, i), r) # {}} ELSE {})
        BY <3>2, LosingIsMeasured
      <3> HIDE DEF gone, rs
      <3> QED BY <3>1, <3>3
    <2> HIDE DEF n, rs, gone
    <2>5. CASE n = 0
      <3>1. 1..n = {}
        BY <2>5
      <3>2. rs = <<>>
        BY <2>2, <3>1, NoPlaces DEF rs, Losing
      <3>3. L = {} /\ Cardinality(L) = 0
        BY <3>1, FS_EmptySet
      <3>4. Check(Aggregate(rs)) = 0
        BY <3>2 DEF Check, Aggregate
      <3>5. n * Cardinality(Rule) = 0
        BY <2>5, FS_CardinalityType, EvalHarnessAssumption
      <3> QED BY <2>3, <3>3, <3>4, <3>5 DEF n, rs
    <2>6. CASE n # 0
      <3>1. 1 \in 1..n
        BY <2>1, <2>6
      <3>2. rs # <<>>
        <4>1. DOMAIN <<>> = {}
          OBVIOUS
        <4> QED BY <2>2, <3>1, <4>1
      <3>3. Check(Aggregate(rs)) = 0 <=> 10 * Cardinality(L) <= n * Cardinality(Rule)
        BY <2>1, <2>2, <2>4, <2>6, <3>2, CheckIs
      <3> QED BY <2>3, <3>3 DEF n, rs
    <2> QED BY <2>5, <2>6
  <1>2. EvalInv /\ GateInv /\ [Next]_vars => GateInv'
    BY GateStep
  <1>3. Init => GateInv
    BY InitGate
  <1> QED BY <1>1, <1>2, <1>3, AlwaysEvalInv, PTL DEF Spec
=============================================================================
