SPECIFICATION Spec
CONSTANTS
    exe = exe
    dll = dll
    k1 = k1
    k2 = k2
    c1 = c1
    c2 = c2
    Modules <- TwoModules
    Main = exe
    Keys <- TwoKeys
    ModuleOf <- OneInEach
    Versions = {1, 2}
    PlacesOf <- MorePlaces
    Size = 12
    Codes <- BothMove
    Validated <- OneKey
    Callers = {c1}
    Owner = c1
    MaxLoadings = 2
INVARIANT HitIsTrue
