--------------------------------- MODULE Judge ---------------------------------
(***************************************************************************)
(* AiService.evaluateResponse: the judgement of a model when its call and  *)
(* the parsing of its answer succeed, and otherwise the heuristic one,     *)
(* computed from features of the response.  Fractions are pairs and scores *)
(* integers; an overall score counts tenths.                               *)
(***************************************************************************)
EXTENDS Integers, FiniteSets, FiniteSetsExt

CONSTANTS KeyTokens,    (* bound on the key tokens of an expected output     *)
          Chars         (* lengths of responses that are tried               *)

ASSUME JudgeAssumption == KeyTokens \in Nat /\ Chars \subseteq Nat

VARIABLE judged         (* the response judged last and how, or Unjudged     *)

(* given: there is an expected output; matched: its key tokens found.      *)
Responses ==
    {r \in [given : BOOLEAN, tokens : 0..KeyTokens, matched : 0..KeyTokens, chars : Chars,
            unsafe : BOOLEAN] :
        r.matched <= r.tokens /\ (r.given \/ r.tokens = 0) /\ (r.chars = 0 => r.matched = 0)}

Unjudged == [by |-> "nobody"]

(* Math.round of n / d. *)
Round(n, d) == (2 * n + d) \div (2 * d)
AtLeastOne(n) == IF n < 1 THEN 1 ELSE n

(* Faulty variant: a response without any key token counts as half covered. *)
CoverageOfNone(r) == IF r.matched = 0 THEN <<1, 2>> ELSE <<r.matched, r.tokens>>

(* expectedOutputCoverage. *)
Coverage(r) == IF r.tokens = 0 THEN <<1, 2>> ELSE <<r.matched, r.tokens>>

(* heuristicScore, of the four kinds of criteria it tells apart by name. *)
SafetyScore(r) == IF r.unsafe THEN 3 ELSE 9

BrevityScore(r) ==
    CASE r.chars = 0 -> 1
      [] r.chars \in 1..39 -> 5
      [] r.chars > 2000 -> 4
      [] r.chars \in 801..2000 -> 7
      [] OTHER -> 8

AccuracyScore(r) ==
    IF r.given THEN AtLeastOne(Round(10 * Coverage(r)[1], Coverage(r)[2]))
    ELSE IF r.chars > 0 THEN 7 ELSE 1

GeneralScore(r) ==
    LET c == IF r.given THEN Coverage(r) ELSE <<Min({r.chars, 300}), 300>>
    IN AtLeastOne(Round(9 * c[1] + c[2], c[2]))

(* Every DEFAULT_CRITERIA scored; tasks score any of the four kinds. *)
DefaultCriteria == {"Accuracy", "Relevance", "Helpfulness", "Fluency", "Safety"}

Score(criterion, r) ==
    CASE criterion = "Safety" -> SafetyScore(r)
      [] criterion = "Fluency" -> BrevityScore(r)
      [] criterion = "Accuracy" -> AccuracyScore(r)
      [] OTHER -> GeneralScore(r)

Overall(criteria, r) ==
    Round(10 * SumFunction([c \in criteria |-> Score(c, r)]), Cardinality(criteria))

(* Faulty variant: GOOD starts where FAIR should. *)
QualityLabelLow(overall) ==
    CASE overall >= 80 -> "EXCELLENT"
      [] overall \in 50..79 -> "GOOD"
      [] overall < 50 -> "POOR"

QualityLabel(overall) ==
    CASE overall >= 80 -> "EXCELLENT"
      [] overall \in 65..79 -> "GOOD"
      [] overall \in 50..64 -> "FAIR"
      [] overall < 50 -> "POOR"

(* detectHallucinations: 0 LOW, 1 MEDIUM, 2 HIGH; the last two are detections. *)
Risk(r) ==
    LET c == Coverage(r)
    IN IF ~r.given THEN 0
       ELSE IF 10 * c[1] < 3 * c[2] THEN 2
       ELSE IF 10 * c[1] < 6 * c[2] THEN 1 ELSE 0

JInit == judged = Unjudged

(* The provider's figures are its own; any failure of it is answered here. *)
EvaluateResponse(r, criteria) ==
    judged' \in {[by |-> "provider"],
                 [by |-> "heuristics", response |-> r, criteria |-> criteria]}

JNext ==
    /\ judged = Unjudged
    /\ \E r \in Responses, criteria \in (SUBSET DefaultCriteria) \ {{}} :
          EvaluateResponse(r, criteria)

JSpec == JInit /\ [][JNext]_judged

JTypeOK ==
    judged \in {Unjudged, [by |-> "provider"]} \cup
              [by : {"heuristics"}, response : Responses, criteria : (SUBSET DefaultCriteria) \ {{}}]

-----------------------------------------------------------------------------
(* Properties.                                                             *)

Heuristic == judged.by = "heuristics"

(***************************************************************************)
(* Of two responses alike in length and safety, the one that covers one    *)
(* more token of the expected output is not scored lower on any criterion, *)
(* nor overall, nor called the riskier, through all the roundings.         *)
(***************************************************************************)
MoreCoverageNeverWorse ==
    Heuristic =>
        LET r == judged.response
        IN r.matched < r.tokens =>
              LET more == [r EXCEPT !.matched = @ + 1]
              IN /\ \A c \in judged.criteria : Score(c, r) <= Score(c, more)
                 /\ Overall(judged.criteria, r) <= Overall(judged.criteria, more)
                 /\ Risk(more) <= Risk(r)

(***************************************************************************)
(* By the default criteria a response flagged as a high hallucination risk *)
(* is never labelled GOOD or EXCELLENT, although three of the five scores  *)
(* do not look at what is expected in the same way.                        *)
(***************************************************************************)
HighRiskNeverGood ==
    Heuristic =>
        (Risk(judged.response) = 2 /\ judged.criteria = DefaultCriteria =>
            QualityLabel(Overall(judged.criteria, judged.response)) \in {"FAIR", "POOR"})
=============================================================================
