-------------------------------- MODULE Psm --------------------------------
(***************************************************************************)
(* The persistent storage manager (middleware/psm): psm.c, psm_partition.c *)
(* psm_lock.c and the environment functions of util.c.                     *)
(*                                                                         *)
(* The flash region is an array of pages (4 KB "partitions").  Page 0, the *)
(* metadata, says which page each partition key was given and which key    *)
(* each registered module belongs to; the other pages hold the variables.  *)
(* One page at a time is cached in RAM.  Every operation works on the      *)
(* cached page under psm_mutex and writes it back by erasing the page and  *)
(* then programming it: power may fail, and the flash may fail, between    *)
(* any two of these steps.                                                 *)
(*                                                                         *)
(* Abstractions.  A page is an environment, a function from names to       *)
(* values, or unreadable (its CRC does not match).  The length of an entry *)
(* "name=value" depends on the name only (EntrySize).  Module names,       *)
(* partition keys and "last_used" are distinct.  The version number of the *)
(* metadata never changes and a flash read never fails (the iflash driver  *)
(* reads a memory-mapped or polled device and has no error path).          *)
(***************************************************************************)
EXTENDS Integers, FiniteSets, FiniteSetsExt

CONSTANTS
    Tasks,      \* the tasks that call psm
    Boot,       \* the task that calls psm_init
    NoTask,     \* no task holds psm_mutex
    Modules,    \* module names
    Keys,       \* partition keys
    Vars,       \* variable names of a module
    Vals,       \* values of a variable
    LastUsed,   \* the metadata variable "last_used"
    NoVal,      \* the variable is not in the environment
    NParts,     \* pages after the metadata page: fl_size / PARTITION_SIZE - 1
    EntrySize,  \* bytes of the entry of each name
    MetaCap,    \* METADATA_ENV_SIZE
    VarCap,     \* ENV_SIZE
    MapSize,    \* MOD_PART_CACHE_SIZE
    MaxCrashes, \* bound: power failures
    MaxErrs,    \* bound: flash operations that fail three times in a row
    MaxFormats  \* bound: psm_erase calls and factory resets

Names == Modules \cup Keys \cup {LastUsed} \cup (Modules \X Vars)
Pages == 0 .. NParts
Values == Keys \cup Pages \cup Vals

ASSUME ActorsAssumption ==
    Boot \notin Tasks /\ NoTask \notin Tasks \cup {Boot} \cup Pages
ASSUME NamesAssumption ==
    /\ Modules \cap Keys = {}
    /\ LastUsed \notin Modules \cup Keys \cup (Modules \X Vars)
    /\ (Modules \cup Keys) \cap (Modules \X Vars) = {}
ASSUME ValuesAssumption ==
    /\ Keys \cap Pages = {}
    /\ NoVal \notin Values
ASSUME SizesAssumption ==
    /\ NParts \in Nat \ {0} /\ NParts < 1000
    /\ MapSize \in Nat \ {0}
    /\ MetaCap \in Nat /\ VarCap \in Nat
    /\ EntrySize \in [Names -> Nat]
    /\ MaxCrashes \in Nat /\ MaxErrs \in Nat /\ MaxFormats \in Nat

Actors == Tasks \cup {Boot}
Env == [Names -> Values \cup {NoVal}]
EmptyEnv == [x \in Names |-> NoVal]
Page == [ok : BOOLEAN, env : Env]
Blank == [ok |-> FALSE, env |-> EmptyEnv]   \* erased or half written
Slot == [mod : Modules \cup {NoVal}, part : Pages]
Handle == [mod : Modules \cup {NoVal}, part : Pages, dirty : BOOLEAN]
NoSlot == [mod |-> NoVal, part |-> 0]
NoHandle == [mod |-> NoVal, part |-> 0, dirty |-> FALSE]

VARIABLES
    mutex,      \* psm_mutex: the task that holds it
    pc,         \* where each task is inside psm
    ret,        \* where a task goes on after a page write
    handle,     \* psm_handle_t of each task
    cacheNum,   \* gpsm_partition_cache.partition_num
    cacheBuf,   \* gpsm_partition_cache.buffer
    mapCache,   \* mapping_cache
    mapIndex,   \* mapping_cache_index
    flash,      \* the pages of the psm flash region
    wiped,      \* pages erased by a psm_erase_and_init that has not completed
    unsaved,    \* history: the cached page kept changes that were not written
    crashes, errs, formats  \* bounded counters

ram == <<cacheNum, cacheBuf, mapCache, mapIndex>>
counters == <<crashes, errs, formats>>
vars == <<mutex, pc, ret, handle, ram, flash, wiped, unsaved, counters>>

PCs == {"init", "failed", "idle", "lookup", "load", "using", "erase",
        "write", "release", "wipe", "format"}
Returns == {"using", "release", "format", "load"}
----------------------------------------------------------------------------
(* util.c: an environment with limited room *)

Used(env) == MapThenSumSet(LAMBDA x : EntrySize[x],
                           {x \in Names : env[x] # NoVal})

\* The room is checked before the old value is deleted.
Fits(env, cap, x) == Used(env) + EntrySize[x] <= cap

\* util_set_var: an environment without room stays as it is.
SetVar(env, cap, x, v) ==
    IF Fits(env, cap, x) THEN [env EXCEPT ![x] = v] ELSE env

\* The metadata of an empty psm.
FreshMeta == SetVar(EmptyEnv, MetaCap, LastUsed, 0)
----------------------------------------------------------------------------
(* psm_partition.c: the page cache and the mapping cache *)

Cached == [ok |-> TRUE, env |-> cacheBuf]

\* psm_read_partition: what it finds, and what it leaves in the cache.
Seen(n) == IF cacheNum = n THEN Cached ELSE flash[n]

\* Mutant: the cache keeps the number of a page whose CRC is wrong.
ReadPartitionKeepsBadPage(n) ==
    IF cacheNum = n THEN UNCHANGED <<cacheNum, cacheBuf, unsaved>>
    ELSE cacheNum' = n /\ cacheBuf' = flash[n].env /\ unsaved' = FALSE

ReadPartition(n) ==
    IF cacheNum = n THEN UNCHANGED <<cacheNum, cacheBuf, unsaved>>
    ELSE /\ cacheNum' = IF flash[n].ok THEN n ELSE -1
         /\ cacheBuf' = flash[n].env
         /\ unsaved' = FALSE

\* mapping_cache_lookup: the first slot of the module, if no empty slot
\* comes before it.
Hits(m) == {i \in 0 .. MapSize - 1 :
               /\ mapCache[i].mod = m
               /\ \A j \in 0 .. i : mapCache[j].part # 0
               /\ \A j \in 0 .. i - 1 : mapCache[j].mod # m}

CachedPartition(m) ==
    IF Hits(m) = {} THEN 0 ELSE mapCache[CHOOSE i \in Hits(m) : TRUE].part

MappingCacheAdd(m, n) ==
    /\ mapCache' = [mapCache EXCEPT ![mapIndex] = [mod |-> m, part |-> n]]
    /\ mapIndex' = (mapIndex + 1) % MapSize

\* The page a module is mapped to by a metadata environment, or 0.
PartitionIn(env, m) ==
    IF env[m] \in Keys /\ env[env[m]] \in 1 .. NParts THEN env[env[m]] ELSE 0

\* psm_assign_partition counts up from last_used.
NextId(env) == IF env[LastUsed] \in Pages THEN env[LastUsed] + 1 ELSE 1

----------------------------------------------------------------------------
(* psm_lock.c *)

Ready(t) == pc[t] = "idle" /\ pc[Boot] = "idle"

GetMutex(t) == mutex = NoTask /\ mutex' = t

Goto(a, label) == pc' = [pc EXCEPT ![a] = label]

\* psm_put_mutex and return; psm_init holds no mutex.
Release(a) ==
    /\ pc[a] = "release"
    /\ Goto(a, "idle")
    /\ mutex' = NoTask
    /\ handle' = [handle EXCEPT ![a] = NoHandle]
    /\ UNCHANGED <<ret, ram, flash, wiped, unsaved, counters>>
----------------------------------------------------------------------------
(* psm_write_partition: psm_spi_write erases the page, then programs it *)

\* Start writing the cached page; the caller goes on at next.
WriteThen(a, next) ==
    /\ Goto(a, "erase")
    /\ ret' = [ret EXCEPT ![a] = next]

\* Both return values end the write, and psm_commit clears the dirty flag.
EndWrite(a) ==
    /\ Goto(a, ret[a])
    /\ handle' = [handle EXCEPT ![a].dirty = FALSE]

ErasePage(a) ==
    /\ pc[a] = "erase"
    /\ flash' = [flash EXCEPT ![cacheNum] = Blank]
    /\ Goto(a, "write")
    /\ UNCHANGED <<mutex, ret, handle, ram, wiped, unsaved, counters>>

ErasePageFails(a) ==
    /\ pc[a] = "erase" /\ errs < MaxErrs
    /\ \E page \in {flash[cacheNum], Blank} :
          flash' = [flash EXCEPT ![cacheNum] = page]
    /\ EndWrite(a)
    /\ errs' = errs + 1
    /\ unsaved' = TRUE
    /\ UNCHANGED <<mutex, ret, ram, wiped, crashes, formats>>

ProgramPage(a) ==
    /\ pc[a] = "write"
    /\ flash' = [flash EXCEPT ![cacheNum] = Cached]
    /\ EndWrite(a)
    /\ unsaved' = FALSE
    /\ UNCHANGED <<mutex, ret, ram, wiped, counters>>

ProgramPageFails(a) ==
    /\ pc[a] = "write" /\ errs < MaxErrs
    /\ EndWrite(a)
    /\ errs' = errs + 1
    /\ unsaved' = TRUE
    /\ UNCHANGED <<mutex, ret, ram, flash, wiped, crashes, formats>>
----------------------------------------------------------------------------
(* psm_open, psm_set, psm_commit, psm_close *)

Open(t, m) ==
    /\ Ready(t) /\ GetMutex(t)
    /\ handle' = [handle EXCEPT ![t] = [NoHandle EXCEPT !.mod = m]]
    /\ Goto(t, "lookup")
    /\ ret' = [ret EXCEPT ![t] = "load"]
    /\ UNCHANGED <<ram, flash, wiped, unsaved, counters>>

\* psm_get_partition_id: the lookup alone.
GetPartitionId(t, m) ==
    /\ Ready(t) /\ GetMutex(t)
    /\ handle' = [handle EXCEPT ![t] = [NoHandle EXCEPT !.mod = m]]
    /\ Goto(t, "lookup")
    /\ ret' = [ret EXCEPT ![t] = "release"]
    /\ UNCHANGED <<ram, flash, wiped, unsaved, counters>>

\* __psm_get_partition_id, answered by the mapping cache.
LookupHit(t) ==
    LET n == CachedPartition(handle[t].mod) IN
    /\ pc[t] = "lookup" /\ n # 0
    /\ handle' = [handle EXCEPT ![t].part = n]
    /\ Goto(t, ret[t])
    /\ UNCHANGED <<mutex, ret, ram, flash, wiped, unsaved, counters>>

\* __psm_get_partition_id, answered by the metadata page.
LookupMiss(t) ==
    LET m == handle[t].mod
        n == PartitionIn(Seen(0).env, m)
    IN  /\ pc[t] = "lookup" /\ CachedPartition(m) = 0
        /\ ReadPartition(0)
        /\ IF Seen(0).ok /\ n # 0
           THEN /\ MappingCacheAdd(m, n)
                /\ handle' = [handle EXCEPT ![t].part = n]
                /\ Goto(t, ret[t])
           ELSE /\ Goto(t, "release")
                /\ UNCHANGED <<mapCache, mapIndex, handle>>
        /\ UNCHANGED <<mutex, ret, flash, wiped, counters>>

\* Mutant: a page that cannot be read returns without psm_put_mutex.
LoadKeepsMutex(t) ==
    LET n == handle[t].part IN
    /\ pc[t] = "load"
    /\ ReadPartition(n)
    /\ Goto(t, IF Seen(n).ok THEN "using" ELSE "idle")
    /\ UNCHANGED <<mutex, ret, handle, mapCache, mapIndex, flash, wiped, counters>>

Load(t) ==
    LET n == handle[t].part IN
    /\ pc[t] = "load"
    /\ ReadPartition(n)
    /\ Goto(t, IF Seen(n).ok THEN "using" ELSE "release")
    /\ UNCHANGED <<mutex, ret, handle, mapCache, mapIndex, flash, wiped, counters>>

\* A failed psm_set clears the dirty flag of the sets before it.
Set(t, x, v) ==
    LET name == <<handle[t].mod, x>> IN
    /\ pc[t] = "using"
    /\ cacheBuf' = SetVar(cacheBuf, VarCap, name, v)
    /\ handle' = [handle EXCEPT ![t].dirty = Fits(cacheBuf, VarCap, name)]
    /\ unsaved' = (unsaved \/ (handle[t].dirty /\ ~Fits(cacheBuf, VarCap, name)))
    /\ UNCHANGED <<mutex, pc, ret, cacheNum, mapCache, mapIndex, flash, wiped, counters>>

Commit(t) ==
    /\ pc[t] = "using" /\ handle[t].dirty
    /\ WriteThen(t, "using")
    /\ UNCHANGED <<mutex, handle, ram, flash, wiped, unsaved, counters>>

\* Mutant: psm_close without the commit.
CloseDiscards(t) ==
    /\ pc[t] = "using"
    /\ Goto(t, "release")
    /\ UNCHANGED <<mutex, ret, handle, ram, flash, wiped, unsaved, counters>>

Close(t) ==
    /\ pc[t] = "using"
    /\ IF handle[t].dirty
       THEN WriteThen(t, "release")
       ELSE Goto(t, "release") /\ UNCHANGED ret
    /\ UNCHANGED <<mutex, handle, ram, flash, wiped, unsaved, counters>>
----------------------------------------------------------------------------
(* psm_register_module and psm_erase_partition *)

\* A new module needs its key, or room for a page of its own (PSM_CREAT).
CanRegister(env, m, k, creat) ==
    /\ env[m] = NoVal
    /\ env[k] # NoVal \/ (creat /\ NextId(env) <= NParts)

\* Mutant: last_used is not counted up.
RegisteredUncounted(env, m, k) ==
    LET keyed == IF env[k] # NoVal THEN env
                 ELSE SetVar(env, MetaCap, k, NextId(env))
    IN  SetVar(keyed, MetaCap, m, k)

\* util_set_var fails silently here: a full environment loses entries.
Registered(env, m, k) ==
    LET id == NextId(env)
        keyed == IF env[k] # NoVal THEN env
                 ELSE SetVar(SetVar(env, MetaCap, LastUsed, id), MetaCap, k, id)
    IN  SetVar(keyed, MetaCap, m, k)

Register(t, m, k, creat) ==
    /\ Ready(t) /\ GetMutex(t)
    /\ IF Seen(0).ok /\ CanRegister(Seen(0).env, m, k, creat)
       THEN /\ cacheNum' = 0
            /\ cacheBuf' = Registered(Seen(0).env, m, k)
            /\ unsaved' = (unsaved /\ cacheNum = 0)
            /\ WriteThen(t, "release")
       ELSE ReadPartition(0) /\ Goto(t, "release") /\ UNCHANGED ret
    /\ UNCHANGED <<handle, mapCache, mapIndex, flash, wiped, counters>>

\* __psm_init_flash_partition
ErasePartition(t, n) ==
    /\ Ready(t) /\ GetMutex(t)
    /\ cacheNum' = n
    /\ cacheBuf' = EmptyEnv
    /\ WriteThen(t, "release")
    /\ UNCHANGED <<handle, mapCache, mapIndex, flash, wiped, unsaved, counters>>
----------------------------------------------------------------------------
(* psm_erase_and_init: erase every page, then write them from the last one *)
(* down to the metadata page.                                              *)

StartFormat(a) ==
    /\ Goto(a, "wipe")
    /\ wiped' = 0

\* The psm-erase command takes the mutex around it.
EraseAndInit(t) ==
    /\ Ready(t) /\ GetMutex(t)
    /\ formats < MaxFormats /\ formats' = formats + 1
    /\ StartFormat(t)
    /\ UNCHANGED <<ret, handle, ram, flash, unsaved, crashes, errs>>

WipePage(a) ==
    /\ pc[a] = "wipe" /\ wiped <= NParts
    /\ flash' = [flash EXCEPT ![wiped] = Blank]
    /\ wiped' = wiped + 1
    /\ UNCHANGED <<mutex, pc, ret, handle, ram, unsaved, counters>>

\* An erase that fails ends the format; psm_init reports the failure.
WipeFails(a) ==
    /\ pc[a] = "wipe" /\ wiped <= NParts /\ errs < MaxErrs
    /\ errs' = errs + 1
    /\ \E page \in {flash[wiped], Blank} :
          flash' = [flash EXCEPT ![wiped] = page]
    /\ unsaved' = TRUE
    /\ Goto(a, IF a = Boot THEN "failed" ELSE "release")
    /\ UNCHANGED <<mutex, ret, handle, ram, wiped, crashes, formats>>

\* Mutant: the mapping cache is not flushed.
WipeDoneKeepsMapping(a) ==
    /\ pc[a] = "wipe" /\ wiped = NParts + 1
    /\ cacheNum' = NParts
    /\ cacheBuf' = EmptyEnv
    /\ WriteThen(a, "format")
    /\ UNCHANGED <<mutex, handle, mapCache, mapIndex, flash, wiped, unsaved, counters>>

WipeDone(a) ==
    /\ pc[a] = "wipe" /\ wiped = NParts + 1
    /\ mapCache' = [i \in 0 .. MapSize - 1 |-> [mapCache[i] EXCEPT !.part = 0]]
    /\ cacheNum' = NParts
    /\ cacheBuf' = EmptyEnv
    /\ WriteThen(a, "format")
    /\ UNCHANGED <<mutex, handle, mapIndex, flash, wiped, unsaved, counters>>

\* One turn of __psm_init_flash; write errors are ignored.
FormatNext(a) ==
    /\ pc[a] = "format"
    /\ IF cacheNum > 0
       THEN /\ cacheNum' = cacheNum - 1
            /\ cacheBuf' = IF cacheNum = 1 THEN FreshMeta ELSE EmptyEnv
            /\ WriteThen(a, "format")
            /\ UNCHANGED wiped
       ELSE /\ Goto(a, "release")
            /\ wiped' = 0
            /\ UNCHANGED <<ret, cacheNum, cacheBuf>>
    /\ UNCHANGED <<mutex, handle, mapCache, mapIndex, flash, unsaved, counters>>
----------------------------------------------------------------------------
(* psm_init and power failures *)

\* Mutant: psm_actual_init does not check the CRC of the metadata page.
BootFindsAnything(a) ==
    /\ pc[a] = "init"
    /\ ReadPartition(0)
    /\ Goto(a, "idle")
    /\ UNCHANGED <<mutex, ret, handle, mapCache, mapIndex, flash, wiped, counters>>

\* psm_actual_init finds the signature and the CRC of the metadata page.
BootFinds(a) ==
    /\ pc[a] = "init" /\ flash[0].ok
    /\ ReadPartition(0)
    /\ Goto(a, "idle")
    /\ UNCHANGED <<mutex, ret, handle, mapCache, mapIndex, flash, wiped, counters>>

\* A factory reset, or a metadata page that cannot be read.
BootFormats(a) ==
    /\ pc[a] = "init"
    /\ \/ ~flash[0].ok /\ UNCHANGED formats
       \/ formats < MaxFormats /\ formats' = formats + 1
    /\ StartFormat(a)
    /\ UNCHANGED <<mutex, ret, handle, ram, flash, unsaved, crashes, errs>>

\* What a restart leaves: the flash.
ColdRam ==
    /\ mutex' = NoTask
    /\ pc' = [a \in Actors |-> IF a = Boot THEN "init" ELSE "idle"]
    /\ ret' = [a \in Actors |-> "release"]
    /\ handle' = [a \in Actors |-> NoHandle]
    /\ cacheNum' = -1 /\ cacheBuf' = EmptyEnv
    /\ mapCache' = [i \in 0 .. MapSize - 1 |-> NoSlot] /\ mapIndex' = 0
    /\ wiped' = 0 /\ unsaved' = FALSE

\* A psm that failed to start can always be power cycled.
Crash ==
    /\ crashes < MaxCrashes \/ pc[Boot] = "failed"
    /\ crashes' = IF pc[Boot] = "failed" THEN crashes ELSE crashes + 1
    /\ ColdRam
    /\ UNCHANGED <<flash, errs, formats>>
----------------------------------------------------------------------------
Init ==
    /\ mutex = NoTask
    /\ pc = [a \in Actors |-> IF a = Boot THEN "init" ELSE "idle"]
    /\ ret = [a \in Actors |-> "release"]
    /\ handle = [a \in Actors |-> NoHandle]
    /\ cacheNum = -1 /\ cacheBuf = EmptyEnv
    /\ mapCache = [i \in 0 .. MapSize - 1 |-> NoSlot] /\ mapIndex = 0
    /\ flash = [n \in Pages |-> Blank]
    /\ wiped = 0 /\ unsaved = FALSE
    /\ crashes = 0 /\ errs = 0 /\ formats = 0

Inside(a) ==
    \/ Release(a)
    \/ ErasePage(a) \/ ErasePageFails(a) \/ ProgramPage(a) \/ ProgramPageFails(a)
    \/ LookupHit(a) \/ LookupMiss(a) \/ Load(a)
    \/ WipePage(a) \/ WipeFails(a) \/ WipeDone(a) \/ FormatNext(a)

Call(t) ==
    \/ \E m \in Modules : Open(t, m) \/ GetPartitionId(t, m)
    \/ \E x \in Vars, v \in Vals : Set(t, x, v)
    \/ Commit(t) \/ Close(t)
    \/ \E m \in Modules, k \in Keys, creat \in BOOLEAN : Register(t, m, k, creat)
    \/ \E n \in 1 .. NParts : ErasePartition(t, n)
    \/ EraseAndInit(t)

Next ==
    \/ \E a \in Actors : Inside(a)
    \/ \E t \in Tasks : Call(t)
    \/ BootFinds(Boot) \/ BootFormats(Boot)
    \/ Crash

Spec == Init /\ [][Next]_vars

\* Each task runs, and every client closes the handle it opened.
Fairness ==
    /\ \A a \in Actors : WF_vars(Inside(a))
    /\ \A t \in Tasks : SF_vars(Close(t))

FairSpec == Spec /\ Fairness
----------------------------------------------------------------------------
(* Types.  The ring of the mapping cache is never left.                    *)
TypeOK ==
    /\ mutex \in Tasks \cup {NoTask}
    /\ pc \in [Actors -> PCs]
    /\ ret \in [Actors -> Returns]
    /\ handle \in [Actors -> Handle]
    /\ cacheNum \in Pages \cup {-1}
    /\ cacheBuf \in Env
    /\ mapCache \in [0 .. MapSize - 1 -> Slot]
    /\ mapIndex \in 0 .. MapSize - 1
    /\ flash \in [Pages -> Page]
    /\ wiped \in 0 .. NParts + 1
    /\ unsaved \in BOOLEAN
    /\ crashes \in Nat /\ errs \in Nat /\ formats \in Nat

\* Some task is inside psm_erase_and_init.
Formatting == \E a \in Actors : pc[a] \in {"wipe", "format"}
                  \/ (pc[a] \in {"erase", "write"} /\ ret[a] = "format")

Idle == mutex = NoTask /\ pc[Boot] = "idle"

(* What the cached page is worth to the next psm_open: while nobody has    *)
(* changes in hand, it is what the flash holds, unless a psm_set that      *)
(* failed dropped the dirty flag or the flash refused the write.           *)
CacheMatchesFlash ==
    LET changing == \E a \in Actors :
                        pc[a] \in {"erase", "write"} \/ handle[a].dirty
    IN  cacheNum # -1 /\ ~changing /\ ~Formatting /\ ~unsaved
            => flash[cacheNum] = Cached

(* The mapping cache never outlives the metadata it was filled from: what  *)
(* it answers is what the metadata page answers, even after it wrapped     *)
(* around or psm was formatted (no flash write having failed).             *)
MapCacheSound ==
    errs = 0 /\ pc[Boot] = "idle" /\ ~Formatting
        => \A m \in Modules : CachedPartition(m) # 0
               => CachedPartition(m) = PartitionIn(Seen(0).env, m)

(* Two partition keys are never given the same page, and no page above     *)
(* last_used is in use: psm_assign_partition is safe to count on.          *)
DistinctPartitions ==
    LET env == Seen(0).env
        used == {k \in Keys : env[k] # NoVal}
    IN  /\ \A k, l \in used : env[k] = env[l] => k = l
        /\ \A k \in used : env[k] \in 1 .. env[LastUsed]

(* A page becomes unreadable only where a write was cut short: each power  *)
(* failure and each flash error costs at most the page then being written, *)
(* and psm_init finishes a format that was cut short.  Left out is a       *)
(* format of a running system that a flash error ends: it costs the pages  *)
(* it had erased.                                                          *)
LostPagesBound ==
    pc[Boot] = "idle" /\ ~Formatting /\ (errs = 0 \/ formats = 0)
        => LET writing == {a \in Actors : pc[a] = "write"}
           IN  Cardinality({n \in Pages : ~flash[n].ok})
                   <= crashes + errs + Cardinality(writing)

(* What psm_close leaves behind: with a flash that works, every change a    *)
(* psm_set made in the cached page has been flushed once nobody holds it.   *)
CloseFlushes ==
    Idle /\ errs = 0 /\ cacheNum # -1 => flash[cacheNum] = Cached

(* Every call gives psm_mutex back, also on its error paths.               *)
MutexReturned == \A t \in Tasks : mutex = t ~> mutex # t

----------------------------------------------------------------------------
(* Psm implements PsmStore, while flash operations and psm_set succeed.    *)
(* A page counts as committed once it has been erased and its new content  *)
(* is about to be programmed.                                              *)

Writer == {a \in Actors : pc[a] = "write"}
Session == {a \in Actors : pc[a] \in {"using", "erase", "write"} /\ ret[a] # "format"}

FreshPage(n) == [ok |-> TRUE, env |-> IF n = 0 THEN FreshMeta ELSE EmptyEnv]

StoreDisk == [n \in Pages |-> IF Writer # {} /\ n = cacheNum THEN Cached ELSE flash[n]]
StoreUp == pc[Boot] = "idle"
StorePage == IF Session # {} THEN cacheNum ELSE NoTask
StoreDraft == IF Session # {} THEN Cached ELSE Blank

Store == INSTANCE PsmStore WITH
    Users <- Tasks, Nobody <- NoTask, PageIds <- Pages, Meta <- 0,
    Contents <- Page, Lost <- Blank, Fresh <- [n \in Pages |-> FreshPage(n)],
    disk <- StoreDisk, up <- StoreUp, formatting <- Formatting,
    user <- mutex, page <- StorePage, draft <- StoreDraft

(* The store implements its abstract specification: whole sessions, nothing *)
(* lost but the page a power failure catches being written.                *)
ImplementsStore == Store!StoreSpec
============================================================================
