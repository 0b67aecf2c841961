\* Keys and modules with short names, and no failures at all.
SPECIFICATION Spec
CONSTANTS
    Tasks = {t1}
    Boot = boot
    NoTask = none
    Modules = {m1, m2, m3}
    Keys = {k1, k2, k3}
    Vars = {x}
    Vals = {a}
    LastUsed = last_used
    NoVal = absent
    NParts = 3
    EntrySize <- MCShortKeys
    MetaCap = 11
    VarCap = 3
    MapSize = 1
    MaxCrashes = 0
    MaxErrs = 0
    MaxFormats = 0
INVARIANT DistinctPartitions
