------------------------------ MODULE Scoring -------------------------------
(***************************************************************************)
(* The scores of a bake-off (trp/bakeoff/scoring.py) and the report made   *)
(* of them (trp/bakeoff/report.py) while the harness appends cells: a cell *)
(* is a provider, a dataset, how the fetch ended and what its checks said. *)
(* Scores are fractions <<numerator, denominator>>; weights are percents.  *)
(*                                                                         *)
(* Of the document, the generated section counts (what it was rendered     *)
(* from, and what it says) and what stands after its end marker.           *)
(***************************************************************************)
EXTENDS Integers, Sequences, FiniteSets, Functions

CONSTANTS
    Providers,      \* numbers, in the order of their names
    CellRecords,    \* cells the harness may append
    MaxCells,       \* bound
    Weight,         \* weights.json, by criterion
    DeclaredCriteria,
    Declared,       \* declared scores, by provider and criterion
    Veto,           \* veto_thresholds, in percent, by criterion
    Needs,          \* _CRITERION_DATASETS
    Margin,         \* INCONCLUSIVE_MARGIN, in percent
    Nothing         \* None

\* Weights and thresholds are of criteria (Weights, DeclaredScore).
ASSUME ScoringAssumption ==
    /\ IsFiniteSet(Providers) /\ Providers \subseteq Int
    /\ IsFiniteSet(DOMAIN Weight) /\ \A c \in DOMAIN Weight : Weight[c] \in Nat
    /\ DOMAIN Veto \subseteq DOMAIN Weight /\ \A c \in DOMAIN Veto : Veto[c] \in Int
    /\ \A d \in DOMAIN Declared : Declared[d] \in Nat \X (Nat \ {0})
    /\ \A cell \in CellRecords : IsFiniteSet(DOMAIN cell.checks)
    /\ Margin \in Int

VARIABLES
    cells,          \* cells.jsonl
    document        \* DATA_PROVIDER_EVALUATION.md

scoring == <<cells, document>>

Criteria == DOMAIN Weight

OfProvider(cs, p) == {i \in DOMAIN cs : cs[i].provider = p}

\* The results about a criterion, by cell and place
Applicable(cs, p, criterion) ==
    {at \in UNION {{i} \X DOMAIN cs[i].checks : i \in OfProvider(cs, p)} :
        LET result == cs[at[1]].checks[at[2]]
        IN  result.criterion = criterion /\ result.outcome # "not_applicable"}

NotOffered(cs, p) == {cs[i].dataset : i \in {j \in OfProvider(cs, p) : cs[j].status = "unsupported"}}

Blocked(cs, p, criterion) == criterion \in DOMAIN Needs /\ Needs[criterion] \cap NotOffered(cs, p) # {}

\* The score of a criterion, Nothing when it is not measured
Score(cs, p, criterion) ==
    LET applicable == Applicable(cs, p, criterion)
        passes == {at \in applicable : cs[at[1]].checks[at[2]].outcome = "pass"}
    IN  CASE criterion \in DeclaredCriteria ->
                IF <<p, criterion>> \in DOMAIN Declared THEN Declared[<<p, criterion>>] ELSE Nothing
          [] criterion \notin DeclaredCriteria /\ applicable # {} -> <<Cardinality(passes), Cardinality(applicable)>>
          [] criterion \notin DeclaredCriteria /\ applicable = {} ->
                IF Blocked(cs, p, criterion) THEN <<0, 1>> ELSE Nothing

ScoresOf(cs, p) == [criterion \in Criteria |-> Score(cs, p, criterion)]

Measured(scores) == {c \in DOMAIN scores : scores[c] # Nothing}

Multiplied(x, y) == x * y

CommonDenominator(scores) == FoldFunction(Multiplied, 1, [c \in Measured(scores) |-> scores[c][2]])

\* The weighted total over the measured criteria, their weights renormalised
WeightedTotal(scores) ==
    LET measured == Measured(scores)
        denominator == CommonDenominator(scores)
        sum == SumFunction([c \in measured |-> Weight[c] * scores[c][1] * (denominator \div scores[c][2])])
        weights == SumFunction([c \in measured |-> Weight[c]])
    IN  IF weights = 0 THEN Nothing ELSE <<sum, denominator * weights>>

Vetoed(scores) ==
    {c \in Measured(scores) \cap DOMAIN Veto : scores[c][1] * 100 < Veto[c] * scores[c][2]}

\* score_provider
ScoreProvider(cs, p) ==
    LET scores == ScoresOf(cs, p)
    IN  [provider |-> p, scores |-> scores, total |-> WeightedTotal(scores), unsuitable |-> Vetoed(scores) # {}]

-----------------------------------------------------------------------------
Exceeds(a, b) == a[1] * b[2] > b[1] * a[2]

\* _ranked: the higher total first, the provider's name on a tie
Outranks(a, b) ==
    Exceeds(a.total, b.total) \/ (~Exceeds(b.total, a.total) /\ a.provider < b.provider)

\* The first of some scores that have a total
Best(some) == CHOOSE a \in some : \A b \in some \ {a} : Outranks(a, b)

\* Mutant: a veto is only shown.
TotalOnly(all) == {s \in all : s.total # Nothing}

Candidates(all) == {s \in all : s.total # Nothing /\ ~s.unsuitable}

\* _recommendation: a name, unless there is no candidate or the first two are too close
Recommendation(all) ==
    LET candidates == Candidates(all)
        first == Best(candidates)
        a == first.total
        b == Best(candidates \ {first}).total
    IN  CASE candidates = {} -> Nothing
          [] candidates # {} /\ candidates \ {first} = {} -> first.provider
          [] candidates # {} /\ candidates \ {first} # {} ->
                IF (a[1] * b[2] - b[1] * a[2]) * 100 < Margin * a[2] * b[2]
                THEN Nothing ELSE first.provider

\* _gaps: what was not measured, by provider and status
Gaps(cs, p) ==
    LET own == OfProvider(cs, p)
    IN  [status \in {cs[i].status : i \in own} |-> {cs[i].dataset : i \in {j \in own : cs[j].status = status}}]

\* render_report
Render(cs) ==
    LET all == {ScoreProvider(cs, p) : p \in Providers}
    IN  [from |-> Len(cs), recommended |-> Recommendation(all), gaps |-> [p \in Providers |-> Gaps(cs, p)],
         unsuitable |-> {s.provider : s \in {t \in all : t.unsuitable}}]

-----------------------------------------------------------------------------
ScoringInit == cells = <<>> /\ document = [section |-> Nothing, after |-> "old"]

\* append_cell
AppendCell ==
    /\ Len(cells) < MaxCells
    /\ \E c \in CellRecords : cells' = Append(cells, c)
    /\ UNCHANGED document

\* update_results_section: without an end marker all that follows the heading goes.
Report ==
    /\ cells # <<>>
    /\ document' = [document EXCEPT !.section = Render(cells),
                                    !.after = IF document.section = Nothing THEN "" ELSE @]
    /\ UNCHANGED cells

\* Somebody writes below the generated section.
Write ==
    /\ document.section # Nothing /\ document' = [document EXCEPT !.after = "written"]
    /\ UNCHANGED cells

ScoringNext == AppendCell \/ Report \/ Write
ScoringSpec == ScoringInit /\ [][ScoringNext]_scoring

-----------------------------------------------------------------------------
\* Whom the report names has no veto against him and beats every other provider without
\* one by the margin, on the cells the report was made from: neither the order in which
\* cells came nor the order of the providers decides.
RecommendedIsBest ==
    document.section # Nothing /\ document.section.recommended # Nothing =>
        LET cs == SubSeq(cells, 1, document.section.from)
            best == ScoreProvider(cs, document.section.recommended)
        IN  /\ \A c \in DOMAIN Veto : best.scores[c] # Nothing => best.scores[c][1] * 100 >= Veto[c] * best.scores[c][2]
            /\ \A p \in Providers \ {document.section.recommended} :
                    LET other == ScoreProvider(cs, p)
                    IN  (~other.unsuitable /\ other.total # Nothing) =>
                            (best.total[1] * other.total[2] - other.total[1] * best.total[2]) * 100
                                >= Margin * best.total[2] * other.total[2]
=============================================================================
