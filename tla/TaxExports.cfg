\* Two exports racing with three calculations that supersede each other.
SPECIFICATION ExportSpec
CONSTANTS
    c1 = c1  c2 = c2  c3 = c3  x1 = x1  x2 = x2  o1 = o1  a = a  b = b
    None = None
    Calculations <- ThreeCalculations
    Reviewers = {}
    Objects = {o1}
    Rules = {a, b}
    MaxValuations = 1
    Exporters <- TwoExporters
    Kinds <- BothKinds
SYMMETRY AnyRequest
INVARIANTS SupersededBySuccessor CurrentRunExists ArtifactHasFile NeverShowsOlderRun
CHECK_DEADLOCK FALSE
