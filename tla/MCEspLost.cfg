SPECIFICATION Spec
CONSTANTS
    i1 = i1
    nd = nd
    g1 = g1
    k1 = k1
    k2 = k2
    v1 = v1
    v2 = v2
    Clis = {c1, c2}
    Ids <- MCIds
    DefaultId = nd
    Files <- MCFiles
    Buildable <- MCBuildable
    Keys <- MCTwoKeys
    Values <- MCValues
    BuiltTimeout <- MCBuiltTimeout
    Unset = Unset
SYMMETRY Alike
CONSTRAINT TwoAtOnce
PROPERTY EditsPersist
