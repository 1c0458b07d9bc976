SPECIFICATION FairMacToolsSpec
CONSTANTS
    factory = factory
    r1 = r1
    r2 = r2
    Release = {factory, r1, r2}
    Factory = factory
    VersionOf <- MCVersionOf
    Tool = {a}
    None = None
    MaxToken = 2
    MaxBoots = 2
    MaxCrashes = 1
    CarefulOperator = TRUE
    MaxArchives = 1
PROPERTIES
    InterruptedIsResolved
