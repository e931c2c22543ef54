------------------------------- MODULE Agreement -------------------------------
(***************************************************************************)
(* The figures computed from the completed evaluations of a task: three    *)
(* agreement rates, two kappas, the disputes of the analysis and of the    *)
(* export.  Scores count half points.  A fraction is a pair <<numerator,   *)
(* denominator>>; its rounding is left out.                                *)
(***************************************************************************)
EXTENDS Integers, FiniteSets, FiniteSetsExt

CONSTANTS Raters,   (* the evaluators of the task                            *)
          Marks     (* Marks[r]: the marks row r may get, a bound on inputs  *)

(* A mark: the effective score, and whether overallScore was sent with it. *)
Scored == [score : 0..20, overall : BOOLEAN]

ASSUME MarksAssumption ==
    /\ IsFiniteSet(Raters) /\ IsFiniteSet(DOMAIN Marks)
    /\ \A r \in DOMAIN Marks : Marks[r] \subseteq Scored

VARIABLE table      (* table[r][i]: i's completed mark of row r              *)

Unrated == [score |-> -1, overall |-> FALSE]
Items == DOMAIN Marks

Tolerance == 2
PassMark == 14
DisputeSpread == 4

AInit == table = [r \in Items |-> [i \in Raters |-> Unrated]]

(* A submission: an evaluation is completed once. *)
Rate(r, i) ==
    /\ table[r][i] = Unrated
    /\ \E m \in Marks[r] : table' = [table EXCEPT ![r][i] = m]

ANext == \E r \in Items, i \in Raters : Rate(r, i)

ASpec == AInit /\ [][ANext]_table

ATypeOK == table \in [Items -> [Raters -> Scored \cup {Unrated}]]

-----------------------------------------------------------------------------
(* Agreement rates.                                                        *)

Rated(r) == {i \in Raters : table[r][i] # Unrated}
Mark(r, i) == table[r][i].score
CoRated == {r \in Items : Cardinality(Rated(r)) >= 2}
Spread(S) == Max(S) - Min(S)
Within(x, y, d) == x - y <= d /\ y - x <= d

(* Faulty variant: one mark near all the others is enough. *)
AgreedByFirst ==
    {r \in CoRated : \E i \in Rated(r) : \A j \in Rated(r) :
                        Within(Mark(r, i), Mark(r, j), Tolerance)}

(* computeTaskAgreement: the co-rated rows whose extremes agree. *)
Agreed == {r \in CoRated : Spread({Mark(r, i) : i \in Rated(r)}) <= Tolerance}

(* pairwiseAgreement: the rows two raters share, and those they agree on. *)
Shared(a, b) == {r \in Items : {a, b} \subseteq Rated(r)}
PairAgreed(a, b) == {r \in Shared(a, b) : Within(Mark(r, a), Mark(r, b), Tolerance)}

(* computeEvaluatorMetrics: the rows on which i is near the others' mean. *)
NearOthers(i) ==
    {r \in CoRated :
        /\ i \in Rated(r)
        /\ LET others == Rated(r) \ {i}
               k == Cardinality(others)
               sum == SumFunctionOnSet([j \in others |-> Mark(r, j)], others)
           IN Within(k * Mark(r, i), sum, k * Tolerance)}

(* analyzeDisagreement: the rows whose extremes are two points apart. *)
Disputed == {r \in CoRated : Spread({Mark(r, i) : i \in Rated(r)}) >= DisputeSpread}

(* Faulty variant: more than two points apart. *)
ExportedAbove ==
    LET number(r, i) == IF table[r][i].overall THEN Mark(r, i) ELSE 0
    IN {r \in CoRated : Spread({number(r, i) : i \in Rated(r)}) > DisputeSpread}

(* collectEvaluations, disagreementsOnly: a missing overallScore counts as 0. *)
Exported ==
    LET number(r, i) == IF table[r][i].overall THEN Mark(r, i) ELSE 0
    IN {r \in CoRated : Spread({number(r, i) : i \in Rated(r)}) >= DisputeSpread}

-----------------------------------------------------------------------------
(* Kappas, on marks cut at the pass mark.                                  *)

Null == <<0, 0>>
Passes(r, i) == Mark(r, i) >= PassMark
Passed(i, R) == Cardinality({r \in R : Passes(r, i)})

(* Faulty variant: the chance of agreeing forgets the failing marks. *)
CohensKappaPassOnly(a, b) ==
    LET R == Shared(a, b)
        n == Cardinality(R)
        same == Cardinality({r \in R : Passes(r, a) = Passes(r, b)})
        chance == Passed(a, R) * Passed(b, R)
    IN IF n < 2 \/ chance = n * n THEN Null ELSE <<same * n - chance, n * n - chance>>

CohensKappa(a, b) ==
    LET R == Shared(a, b)
        n == Cardinality(R)
        same == Cardinality({r \in R : Passes(r, a) = Passes(r, b)})
        pa == Passed(a, R)
        pb == Passed(b, R)
        chance == pa * pb + (n - pa) * (n - pb)
    IN IF n < 2 \/ chance = n * n THEN Null ELSE <<same * n - chance, n * n - chance>>

PassCount(r) == Cardinality({i \in Rated(r) : Passes(r, i)})
FailCount(r) == Cardinality(Rated(r)) - PassCount(r)
Passing == SumFunction([r \in CoRated |-> PassCount(r)])
Failing == SumFunction([r \in CoRated |-> FailCount(r)])
Sq(x) == x * x

(* Faulty variant: a rating is paired with itself. *)
FleissKappaSelf(first) ==
    LET m == Cardinality(Rated(first))
        total == Cardinality(CoRated) * m
        squares == SumFunction([r \in CoRated |-> Sq(PassCount(r)) + Sq(FailCount(r))])
        chance == Sq(Passing) + Sq(Failing)
    IN IF chance = Sq(total) THEN Null
       ELSE <<squares * total - chance * (m - 1), (m - 1) * (Sq(total) - chance)>>

(***************************************************************************)
(* fleissKappa takes the number of raters of whatever row comes first, and *)
(* the query has no order.  The fraction is its formula over one           *)
(* denominator, which may be negative when rows differ in raters.          *)
(***************************************************************************)
FleissKappa(first) ==
    LET m == Cardinality(Rated(first))
        n == Cardinality(CoRated)
        total == n * m
        squares == SumFunction([r \in CoRated |-> Sq(PassCount(r)) + Sq(FailCount(r)) - m])
        chance == Sq(Passing) + Sq(Failing)
    IN IF chance = Sq(total) THEN Null
       ELSE <<squares * total - chance * (m - 1), (m - 1) * (Sq(total) - chance)>>

-----------------------------------------------------------------------------
(* Properties.                                                             *)

(***************************************************************************)
(* The three rates of the dashboards speak of the same thing: a row counts *)
(* as agreed exactly when every two of its raters agree on it; then each   *)
(* of them is near the mean of the others, and with two raters only then.  *)
(***************************************************************************)
RatesCohere ==
    \A r \in CoRated :
        /\ r \in Agreed <=> \A a, b \in Rated(r) : r \in PairAgreed(a, b)
        /\ r \in Agreed => \A i \in Rated(r) : r \in NearOthers(i)
        /\ Cardinality(Rated(r)) = 2 =>
              (r \in Agreed <=> \E i \in Rated(r) : r \in NearOthers(i))

(***************************************************************************)
(* The export's disagreements are the analysis's disputes on every row     *)
(* whose marks carry an overallScore, as the scoring page sends it, and no *)
(* row is both in dispute and agreed on.                                   *)
(***************************************************************************)
DisputesMatch ==
    /\ Agreed \cap Disputed = {}
    /\ \A r \in Items :
          (\A i \in Rated(r) : table[r][i].overall) => (r \in Exported <=> r \in Disputed)

(* Marks on the same side of the pass mark are what Cohen's kappa counts:  *)
(* the code's formula is 1 minus the disagreements seen over those that    *)
(* chance would give, between -1 and 1, whichever rater comes first.       *)
CohenIsKappa ==
    \A a, b \in Raters :
        LET R == Shared(a, b)
            n == Cardinality(R)
            apart == Cardinality({r \in R : Passes(r, a) # Passes(r, b)})
            byChance == Passed(a, R) * (n - Passed(b, R)) + Passed(b, R) * (n - Passed(a, R))
            k == CohensKappa(a, b)
        IN a # b /\ R # {} =>
            /\ k = Null <=> n < 2 \/ byChance = 0
            /\ k[1] * byChance = k[2] * (byChance - apart * n)
            /\ -k[2] <= k[1] /\ k[1] <= k[2]
            /\ k = CohensKappa(b, a)

(***************************************************************************)
(* When all co-rated rows have as many raters, the code's Fleiss kappa is  *)
(* 1 minus the pairs of ratings that differ over those that would by       *)
(* chance, whichever row comes first: at most 1, and 1 when all agree.     *)
(***************************************************************************)
FleissOfEvenRows ==
    (\A r, q \in CoRated : Cardinality(Rated(r)) = Cardinality(Rated(q))) =>
        \A first \in CoRated :
            LET m == Cardinality(Rated(first))
                apart == SumFunction([r \in CoRated |-> PassCount(r) * FailCount(r)])
                byChance == Passing * Failing
                k == FleissKappa(first)
            IN /\ k = Null <=> byChance = 0
               /\ k[1] * byChance * (m - 1) =
                    k[2] * (byChance * (m - 1) - apart * m * Cardinality(CoRated))
               /\ k[1] <= k[2]
               /\ k[1] = k[2] <=> apart = 0
=============================================================================
