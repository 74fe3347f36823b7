-------------------------- MODULE BrainstormCore --------------------------
(***************************************************************************)
(* The pure half of the Hermes brainstorm: the task contract               *)
(* (brainstorm_contract.py) and the rules Hermes applies to what the       *)
(* engines return (brainstorm_core.py): validation, anonymization,         *)
(* ranking, decision and report.                                           *)
(*                                                                         *)
(* Texts are members of small sets (an idea, a question).  A score is kept *)
(* exact, as the Fractions of the code are: a model score is the integer   *)
(* Sum(score * weight), ten times the code's value, and a final score the  *)
(* sum of two of them, twenty times the code's value.  Every threshold is  *)
(* scaled with it.                                                         *)
(***************************************************************************)
EXTENDS Integers, Sequences, FiniteSets, FiniteSetsExt, SequencesExt

Engines == {"claude", "codex"}
Other(engine) == CHOOSE e \in Engines : e # engine

DefaultCandidateCount == 3
MinCandidateCount == 2
MaxCandidateCount == 6
MinCriteria == 3
MaxCriteria == 10

\* The weights of the built-in rubric; a criterion is its weight and its id.
GeneralV1 == << [id |-> "value", weight |-> 25], [id |-> "originality", weight |-> 15],
                [id |-> "project_fit", weight |-> 15], [id |-> "feasibility", weight |-> 20],
                [id |-> "repeatability", weight |-> 10], [id |-> "evidence", weight |-> 10],
                [id |-> "pilotability", weight |-> 5] >>

Weight(rubric) == MapThenSumSet(LAMBDA i : rubric[i].weight, DOMAIN rubric)

ValidRubric(rubric) ==
    /\ Len(rubric) \in MinCriteria..MaxCriteria
    /\ \A i, j \in DOMAIN rubric : rubric[i].id = rubric[j].id => i = j
    /\ \A i \in DOMAIN rubric : rubric[i].weight \in 1..100
    /\ Weight(rubric) = 100

ValidConfig(config) ==
    /\ config.version = "brainstorm-v1"
    /\ config.count \in MinCandidateCount..MaxCandidateCount
    /\ ValidRubric(config.rubric)
    /\ \/ config.rubric_id = "general-v1" /\ config.rubric = GeneralV1
       \/ config.rubric_id = "custom"

\* build_brainstorm_config: an empty rubric means the built-in one; the
\* caller refuses the task when the result is not ValidConfig.
BuildConfig(count, rubric) ==
    [version |-> "brainstorm-v1", count |-> count,
     rubric_id |-> IF rubric = <<>> THEN "general-v1" ELSE "custom",
     rubric |-> IF rubric = <<>> THEN GeneralV1 ELSE rubric]

-----------------------------------------------------------------------------
(* What an engine may return, and what Hermes accepts of it.               *)

ValidScores(scores, rubric) ==
    /\ DOMAIN scores = DOMAIN rubric
    /\ \A i \in DOMAIN scores : scores[i] \in 0..10

\* A proposals payload is a sequence of ideas.
ValidProposals(payload, count) ==
    Len(payload) = count /\ Cardinality(Range(payload)) = Len(payload)

\* An evaluation payload is a sequence of [cand, scores].
ValidEvaluation(payload, cands, rubric) ==
    /\ {payload[i].cand : i \in DOMAIN payload} = cands
    /\ Len(payload) = Cardinality(cands)
    /\ \A i \in DOMAIN payload : ValidScores(payload[i].scores, rubric)

ValidRefinement(payload, winner) == payload.cand = winner

ValidValidation(payload, winner) ==
    payload.cand = winner /\ payload.verdict \in {"PASS", "FAIL"}

-----------------------------------------------------------------------------
(* Anonymization: the candidates of both engines in the order of a hash of *)
(* job, author and text.  hash stands for SHA-256 under one job id.        *)

Anonymize(claude, codex, hash) ==
    LET all == {[author |-> "claude", idea |-> i] : i \in Range(claude)}
               \cup {[author |-> "codex", idea |-> i] : i \in Range(codex)}
    IN  SetToSortSeq(all, LAMBDA p, q : hash[p.author, p.idea] < hash[q.author, q.idea])

-----------------------------------------------------------------------------
(* Ranking.  A candidate is its position in the bundle (C01, C02, ...).    *)

ModelScore(scores, rubric) ==
    MapThenSumSet(LAMBDA i : scores[i] * rubric[i].weight, DOMAIN rubric)

\* The validated evaluation as a function from candidates to model scores.
ScoreOf(payload, rubric) ==
    [c \in {payload[i].cand : i \in DOMAIN payload} |->
        ModelScore((CHOOSE e \in Range(payload) : e.cand = c).scores, rubric)]

Disagreement(a, b, c) == IF a[c] > b[c] THEN a[c] - b[c] ELSE b[c] - a[c]

\* a and b are the evaluators' scores; the sort key of rank().
RankedBefore(a, b, c, d) ==
    \/ a[c] + b[c] > a[d] + b[d]
    \/ /\ a[c] + b[c] = a[d] + b[d]
       /\ \/ Disagreement(a, b, c) < Disagreement(a, b, d)
          \/ Disagreement(a, b, c) = Disagreement(a, b, d) /\ c < d

RankEntries(a, b) ==
    SetToSortSeq(DOMAIN a, LAMBDA c, d : RankedBefore(a, b, c, d))

SumOver(f, S) == MapThenSumSet(LAMBDA c : f[c], S)

MutantSelfPreferenceFlag(score, engine, authors) ==
    LET own   == {c \in DOMAIN score : authors[c] = engine}
        other == DOMAIN score \ own
    IN  SumOver(score, own) * Cardinality(other) - SumOver(score, other) * Cardinality(own)
          > 100 * Cardinality(own) * Cardinality(other)

\* mean(own) - mean(other) >= 10, with the denominators multiplied out.
SelfPreferenceFlag(score, engine, authors) ==
    LET own   == {c \in DOMAIN score : authors[c] = engine}
        other == DOMAIN score \ own
    IN  /\ own # {} /\ other # {}
        /\ SumOver(score, own) * Cardinality(other) - SumOver(score, other) * Cardinality(own)
             >= 100 * Cardinality(own) * Cardinality(other)

BaseConfidence(final, disagreement, hasMargin, margin) ==
    IF final >= 1500 /\ disagreement <= 100 /\ hasMargin /\ margin >= 100 THEN "HIGH"
    ELSE IF final >= 1300 /\ disagreement <= 200 THEN "MEDIUM"
    ELSE "LOW"

\* rank(): a = Claude's scores, b = Codex's, authors = candidate -> engine.
Rank(a, b, authors) ==
    LET order  == RankEntries(a, b)
        w      == order[1]
        margin == IF Len(order) > 1 THEN a[w] + b[w] - a[order[2]] - b[order[2]] ELSE 0
        base   == BaseConfidence(a[w] + b[w], Disagreement(a, b, w), Len(order) > 1, margin)
        flag   == SelfPreferenceFlag(IF authors[w] = "claude" THEN a ELSE b, authors[w], authors)
    IN  [order |-> order, winner |-> w, author |-> authors[w], margin |-> margin,
         base |-> base, flag |-> flag,
         confidence |-> IF flag /\ base = "HIGH" THEN "MEDIUM" ELSE base]

Decide(verdict) == IF verdict = "PASS" THEN "RECOMMENDED_FOR_PILOT" ELSE "INCONCLUSIVE"

\* build_report, as far as the published decision depends on it; the code
\* raises when refinement or validation name another candidate.
ReportFits(ranking, refinement, validation) ==
    refinement.cand = ranking.winner /\ validation.cand = ranking.winner

BuildReport(bundle, ranking, refinement, validation) ==
    [bundle |-> bundle, ranking |-> ranking, refinement |-> refinement,
     validation |-> validation, decision |-> Decide(validation.verdict)]
=============================================================================
