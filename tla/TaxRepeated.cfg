\* The same request after the rules were changed and changed back.
SPECIFICATION Spec
CONSTANTS
    c1 = c1  c2 = c2  c3 = c3  v1 = v1  v2 = v2  v3 = v3  o1 = o1  o2 = o2  a = a  b = b
    None = None
    Calculations <- ThreeCalculations
    Reviewers <- NoReviewer
    Objects <- OneObject
    Rules <- TwoRuleSets
    MaxValuations = 1
SYMMETRY AnyRequest
PROPERTIES RepeatFindsItsRun
CHECK_DEADLOCK FALSE
