\* Two calculations and three reviewers while two rewards are valued again.
SPECIFICATION Spec
CONSTANTS
    c1 = c1  c2 = c2  c3 = c3  v1 = v1  v2 = v2  v3 = v3  o1 = o1  o2 = o2  a = a  b = b
    None = None
    Calculations <- TwoCalculations
    Reviewers <- ThreeReviewers
    Objects <- TwoObjects
    Rules <- OneRuleSet
    MaxValuations = 2
SYMMETRY AnyRequest
INVARIANTS AnswerReflectsDecisions ReviewHistoryIsAChain
CHECK_DEADLOCK FALSE
