SPECIFICATION FairSpec
CONSTANTS
    exe = exe
    dll = dll
    k1 = k1
    k2 = k2
    c1 = c1
    c2 = c2
    Modules <- TwoModules
    Main = exe
    Keys <- OneKey
    ModuleOf <- InLibrary
    Versions = {1}
    PlacesOf <- OneOrTwoPlaces
    Size = 12
    Codes <- OneOffset
    Validated = {}
    Callers <- TwoCallers
    Owner = c1
    MaxLoadings = 1
INVARIANT HitIsTrue
PROPERTY ResolveEnds
