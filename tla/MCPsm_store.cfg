SPECIFICATION FairSpec
CONSTANTS
    Tasks = {t1, t2}
    Boot = boot
    NoTask = none
    Modules = {m1, m2}
    Keys = {k1, k2}
    Vars = {x}
    Vals = {a}
    LastUsed = last_used
    NoVal = absent
    NParts = 2
    EntrySize <- MCEntrySize
    MetaCap = 7
    VarCap = 3
    MapSize = 1
    MaxCrashes = 1
    MaxErrs = 0
    MaxFormats = 1
PROPERTIES
    ImplementsStore
    MutexReturned
