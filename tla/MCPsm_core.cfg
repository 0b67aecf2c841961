SPECIFICATION Spec
CONSTANTS
    Tasks = {t1, t2}
    Boot = boot
    NoTask = none
    Modules = {m1, m2}
    Keys = {k1, k2}
    Vars = {x}
    Vals = {a}
    LastUsed = last_used
    NoVal = absent
    NParts = 2
    EntrySize <- MCEntrySize
    MetaCap = 5
    VarCap = 2
    MapSize = 1
    MaxCrashes = 1
    MaxErrs = 1
    MaxFormats = 1
SYMMETRY MCSymmetry
INVARIANTS
    CacheMatchesFlash
    MapCacheSound
    DistinctPartitions
    LostPagesBound
