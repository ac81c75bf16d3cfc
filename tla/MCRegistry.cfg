SPECIFICATION MCSpec
CONSTANTS
    Sessions = {p, q}
    Hyps = {"h1"}
    HypTimes = {1, 2}
    Exps = {e1, e2}
    Designs <- MCDesigns
    Names = {"a", "b"}
    VariantThreshold = 1
    MaxRuns = 2
    MaxVersion = 1
INVARIANT EvidenceStands
PROPERTY LegalTransitions
SYMMETRY Symmetric
