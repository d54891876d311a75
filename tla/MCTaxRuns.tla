----------------------------- MODULE MCTaxRuns -----------------------------
(* Small instances of TaxRuns for TLC. *)
EXTENDS TaxRuns, TLC

CONSTANTS c1, c2, c3, v1, v2, v3, o1, o2, a, b

OneCalculation    == {c1}
TwoCalculations   == {c1, c2}
ThreeCalculations == {c1, c2, c3}
NoReviewer        == {}
OneReviewer       == {v1}
TwoReviewers      == {v1, v2}
ThreeReviewers    == {v1, v2, v3}
OneObject         == {o1}
TwoObjects        == {o1, o2}
OneRuleSet        == {a}
TwoRuleSets       == {a, b}

AnyRequest == Permutations(Calculations) \cup Permutations(Reviewers)
                  \cup Permutations(Objects) \cup Permutations(Rules)
=============================================================================
