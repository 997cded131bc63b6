\* Script globals, natives, target resolution, memory accounting, files and the pattern
\* scan, one at a time.
SPECIFICATION Spec
CONSTANTS
    a1 = a1
    a2 = a2
    t1 = t1
    t2 = t2
    c1 = c1
    c2 = c2
    Builds = {1, 2}
    Programs = {1}
    HashOf <- HashOfPrograms
    Threads = {1}
    IdOf <- IdOfThreads
    IndexRange = 4
    BlockLists <- UpToTwoBlocks
    Canonicals = {1, 2}
    Runtimes = {1, 2}
    Handlers = {1, 2}
    MaxIndices = 1
    Crossmaps <- CrossmapFiles
    Callers = {1}
    Definitions <- FollowedTargets
    Registered <- RegisteredTargets
    Requested = {1, 2}
    SlotCount = 6
    Addresses <- TwoAddresses
    Sizes = {1, 2}
    Tags <- TwoTags
    Clients <- TwoClients
    MaxAllocations = 2
    Paths = {p1, p2}
    Contents = {d1, d2}
    Names = {f1}
    Bytes = {0, 1}
    ImageSize = 4
    MaxTokens = 3
    MaxMatches = 2
    Sections <- SomeSections
SYMMETRY Symmetry
INVARIANTS
    OneBlockPerIndex
    HandlerIsItsOwn
    HookedIsVerified
    ProfileOfOneRefresh
    CountersAgree
    ScanFindsMatches
PROPERTY
    MoveKeepsContent
