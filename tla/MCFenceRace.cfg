SPECIFICATION MacToolsSpec
CONSTANTS
    factory = factory
    r1 = r1
    r2 = r2
    Release = {factory, r1, r2}
    Factory = factory
    VersionOf <- MCVersionOf
    Tool = {a, b}
    None = None
    MaxToken = 2
    MaxBoots = 2
    MaxCrashes = 0
    CarefulOperator = FALSE
    MaxArchives = 1
SYMMETRY MCTools
INVARIANTS
    FenceCoversMutation
