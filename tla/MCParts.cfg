SPECIFICATION PartsSpec
CONSTANTS
    Page = 2
    AppAlign = 4
    FlashSize = 20
    TableEnd = 2
    Contract <- MCContract
    MinHeap <- MCHeap
    PinnedArchive = "pin"
    Missing = Missing
    Plans <- MCPlans
    Tables <- MCTables
    Setups <- MCSetups
    Images = {0, 3, 4}
    Samples <- MCSamples
    Texts = {"a", "b"}
    Sealed <- MCSealed
    MaxRows = 5
    MaxTime = 1
    MaxEdits = 1
    Milestones = 3
    Groups <- MCGroups
    ReleaseGroups = {"release-definition"}
    Register <- MCRegister
    Overlays <- MCOverlays
    Tasks = {"task"}
    Existing = {"script"}
    ProofStages = {"host", "hardware"}
    Physical = {"hardware"}
    Source = {"mcu-uart", "logic-analyzer"}
    Byte = {0, 1}
    MaxBytes = 2
    MaxRecordBytes = 2
    Minimum = 2
    Tolerance = 0
    Endings <- MCEndings
    MaxDamage = 1
    Fields = {"sku", "labels"}
    Unseen = {"null"}
    GateFacts <- MCFacts
    RequiredRoles <- MCRoles
    Pairs = {"rx", "tx"}
    Scopes = {"scope"}
    PrivatePaths = {"p", "q"}
    Gone = Gone
    SymLink = SymLink
    Packets <- MCPackets
    Disks <- MCDisks
    Board = {"c008", "other"}
    NoBoard = "none"
    C008 = "c008"
    Segments <- MCSegments
    WriteOrder <- MCWritten
    Preserved = {"nvs"}
    Baseline <- MCBaseline
    FirstFlash <- MCFirstFlash
    Junk = "junk"
    Printouts <- MCPrintouts
    Key = {"key1", "key2"}
    MaxSessions = 3
    MaxFaults = 2
    SigningKey = {"k1", "k2"}
    NoHeader = "none"
    Identity <- MCIdentities
    Directory = {"d1", "d2"}
    Name = {"n1"}
    Packager = {"w1", "w2"}
    Absent = Absent
    Torn = Torn
    MaxBuilds = 2
    MaxSignings = 2
    MaxSwaps = 1
    MaxVersion = 2
    ImageChunks = 2
    NoRequest = NoRequest
INVARIANTS
    AcceptedLayoutIsSound
    RowVouchesForHistory
    ReportsStayBehindProof
    ReadyCaptureIsWhole
    GateClosesOnEvidence
    WriteWasSafe
    LoadedReleaseIsWhole
    PullIsAccountedFor
    OneStream
CHECK_DEADLOCK FALSE
