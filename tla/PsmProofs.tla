----------------------------- MODULE PsmProofs -----------------------------
(***************************************************************************)
(* Proofs about Psm, for every number of tasks, modules, keys and pages    *)
(* and however often power and flash fail.                                 *)
(***************************************************************************)
EXTENDS Psm, FiniteSetTheorems, TLAPS

----------------------------------------------------------------------------
(* What the helpers return                                                 *)

LEMMA PagesType == 0 \in Pages /\ NParts \in Pages /\ Pages \subseteq Nat
BY SizesAssumption DEF Pages

(* util_set_var leaves an environment.                                     *)
LEMMA SetVarType ==
    ASSUME NEW env \in Env, NEW cap, NEW x, NEW v \in Values
    PROVE  SetVar(env, cap, x, v) \in Env
BY DEF SetVar, Env

(* The environments psm_init_flash starts from.                            *)
LEMMA FreshMetaType == EmptyEnv \in Env /\ FreshMeta \in Env
<1>1. EmptyEnv \in Env
  BY DEF EmptyEnv, Env
<1>2. 0 \in Values
  BY PagesType DEF Values
<1> QED
  BY <1>1, <1>2, SetVarType DEF FreshMeta

(* The mapping cache answers with a page number.                           *)
LEMMA CachedPartitionType ==
    ASSUME TypeOK, NEW m
    PROVE  CachedPartition(m) \in Pages
<1>1. CASE Hits(m) = {}
  BY <1>1, PagesType DEF CachedPartition
<1>2. CASE Hits(m) # {}
  <2>1. (CHOOSE i \in Hits(m) : TRUE) \in Hits(m)
    BY <1>2
  <2>2. (CHOOSE i \in Hits(m) : TRUE) \in 0 .. MapSize - 1
    BY <2>1 DEF Hits
  <2> QED
    BY <1>2, <2>2 DEF CachedPartition, TypeOK, Slot
<1> QED
  BY <1>1, <1>2

(* The metadata maps a module to a page number.                            *)
LEMMA PartitionInType ==
    ASSUME NEW env \in Env, NEW m
    PROVE  PartitionIn(env, m) \in Pages
BY SizesAssumption DEF PartitionIn, Pages

(* psm_register_module leaves an environment: the page it assigns exists.  *)
LEMMA RegisteredType ==
    ASSUME NEW env \in Env, NEW m \in Modules, NEW k \in Keys, NEW creat,
           CanRegister(env, m, k, creat)
    PROVE  Registered(env, m, k) \in Env
<1>1. CASE env[k] # NoVal
  BY <1>1, SetVarType DEF Registered, Values
<1>2. CASE env[k] = NoVal
  <2>1. NextId(env) \in Values
    BY <1>2, SizesAssumption DEF CanRegister, NextId, Values, Pages
  <2> QED
    BY <1>2, <2>1, SetVarType DEF Registered, Values
<1> QED
  BY <1>1, <1>2

(* What psm_read_partition finds is a page, and it leaves the caches typed. *)
LEMMA SeenType ==
    ASSUME TypeOK, NEW n \in Pages
    PROVE  Seen(n) \in Page
BY DEF TypeOK, Seen, Cached, Page

LEMMA ReadPartitionType ==
    ASSUME TypeOK, NEW n \in Pages, ReadPartition(n)
    PROVE  /\ cacheNum' \in Pages \cup {-1}
           /\ cacheBuf' \in Env
           /\ unsaved' \in BOOLEAN
<1>1. CASE cacheNum = n
  BY <1>1 DEF TypeOK, ReadPartition
<1>2. CASE cacheNum # n
  <2>1. flash[n].env \in Env
    BY DEF TypeOK, Page
  <2> QED
    BY <1>2, <2>1 DEF ReadPartition
<1> QED
  BY <1>1, <1>2

LEMMA MappingCacheAddType ==
    ASSUME TypeOK, NEW m \in Modules \cup {NoVal}, NEW n \in Pages,
           MappingCacheAdd(m, n)
    PROVE  /\ mapCache' \in [0 .. MapSize - 1 -> Slot]
           /\ mapIndex' \in 0 .. MapSize - 1
<1>1. mapCache' \in [0 .. MapSize - 1 -> Slot]
  BY DEF TypeOK, MappingCacheAdd, Slot
<1>2. mapIndex' \in 0 .. MapSize - 1
  BY SizesAssumption DEF TypeOK, MappingCacheAdd
<1> QED
  BY <1>1, <1>2

(* Where a write leaves its caller.                                        *)
LEMMA GotoType ==
    ASSUME TypeOK, NEW a, NEW label \in PCs, Goto(a, label)
    PROVE  pc' \in [Actors -> PCs]
BY DEF TypeOK, Goto

LEMMA EndWriteType ==
    ASSUME TypeOK, NEW a \in Actors, EndWrite(a)
    PROVE  pc' \in [Actors -> PCs] /\ handle' \in [Actors -> Handle]
<1>1. ret[a] \in PCs
  BY DEF TypeOK, PCs, Returns
<1>2. pc' \in [Actors -> PCs]
  BY <1>1, GotoType DEF EndWrite
<1>3. handle' \in [Actors -> Handle]
  BY DEF EndWrite, TypeOK, Handle
<1> QED
  BY <1>2, <1>3

LEMMA WriteThenType ==
    ASSUME TypeOK, NEW a \in Actors, NEW next \in Returns,
           WriteThen(a, next)
    PROVE  /\ pc' \in [Actors -> PCs]
           /\ ret' \in [Actors -> Returns]
BY DEF TypeOK, WriteThen, Goto, PCs, Returns
----------------------------------------------------------------------------
(* Type correctness                                                        *)

LEMMA InitType == Init => TypeOK
<1> SUFFICES ASSUME Init PROVE TypeOK
  OBVIOUS
<1>1. /\ mutex \in Tasks \cup {NoTask}
      /\ pc \in [Actors -> PCs]
      /\ ret \in [Actors -> Returns]
      /\ cacheNum \in Pages \cup {-1} /\ cacheBuf \in Env
      /\ unsaved \in BOOLEAN
  BY FreshMetaType DEF Init, PCs, Returns
<1>2. handle \in [Actors -> Handle] /\ mapCache \in [0 .. MapSize - 1 -> Slot]
  BY PagesType DEF Init, Handle, NoHandle, Slot, NoSlot
<1>3. flash \in [Pages -> Page]
  BY FreshMetaType DEF Init, Page, Blank
<1>4. /\ mapIndex \in 0 .. MapSize - 1
      /\ wiped \in 0 .. NParts + 1
      /\ crashes \in Nat /\ errs \in Nat /\ formats \in Nat
  BY SizesAssumption DEF Init
<1> QED
  BY <1>1, <1>2, <1>3, <1>4 DEF TypeOK

LEMMA WriteType ==
    ASSUME TypeOK, NEW a \in Actors,
           ErasePage(a) \/ ErasePageFails(a) \/ ProgramPage(a) \/ ProgramPageFails(a)
    PROVE  TypeOK'
<1>1. Blank \in Page /\ Cached \in Page
  BY FreshMetaType DEF TypeOK, Blank, Cached, Page
<1>2. CASE ErasePage(a)
  <2>1. pc' \in [Actors -> PCs]
    BY <1>2, GotoType DEF ErasePage, PCs
  <2> QED
    BY <1>1, <1>2, <2>1 DEF ErasePage, TypeOK, ram, counters
<1>3. CASE ErasePageFails(a)
  <2>1. pc' \in [Actors -> PCs] /\ handle' \in [Actors -> Handle]
    BY <1>3, EndWriteType DEF ErasePageFails
  <2>2. flash' \in [Pages -> Page]
    BY <1>1, <1>3 DEF ErasePageFails, TypeOK
  <2> QED
    BY <1>3, <2>1, <2>2 DEF ErasePageFails, TypeOK, ram
<1>4. CASE ProgramPage(a)
  <2>1. pc' \in [Actors -> PCs] /\ handle' \in [Actors -> Handle]
    BY <1>4, EndWriteType DEF ProgramPage
  <2> QED
    BY <1>1, <1>4, <2>1 DEF ProgramPage, TypeOK, ram, counters
<1>5. CASE ProgramPageFails(a)
  <2>1. pc' \in [Actors -> PCs] /\ handle' \in [Actors -> Handle]
    BY <1>5, EndWriteType DEF ProgramPageFails
  <2> QED
    BY <1>5, <2>1 DEF ProgramPageFails, TypeOK, ram
<1> QED
  BY <1>2, <1>3, <1>4, <1>5

LEMMA LookupType ==
    ASSUME TypeOK, NEW a \in Actors, LookupHit(a) \/ LookupMiss(a) \/ Load(a)
    PROVE  TypeOK'
<1> DEFINE m == handle[a].mod
           n == PartitionIn(Seen(0).env, m)
<1>1. m \in Modules \cup {NoVal} /\ handle[a].part \in Pages /\ ret[a] \in PCs
  BY DEF TypeOK, Handle, PCs, Returns
<1>2. 0 \in Pages /\ n \in Pages
  BY PagesType, SeenType, PartitionInType DEF Page
<1>3. CASE LookupHit(a)
  <2>1. CachedPartition(m) \in Pages
    BY CachedPartitionType
  <2>2. handle' \in [Actors -> Handle]
    BY <1>3, <2>1 DEF LookupHit, TypeOK, Handle
  <2>3. pc' \in [Actors -> PCs]
    BY <1>1, <1>3, GotoType DEF LookupHit
  <2> QED
    BY <1>3, <2>2, <2>3 DEF LookupHit, TypeOK, ram, counters
<1>4. CASE LookupMiss(a)
  <2>1. /\ cacheNum' \in Pages \cup {-1}
        /\ cacheBuf' \in Env
        /\ unsaved' \in BOOLEAN
    BY <1>2, <1>4, ReadPartitionType DEF LookupMiss
  <2>2. CASE Seen(0).ok /\ n # 0
    <3>1. /\ mapCache' \in [0 .. MapSize - 1 -> Slot]
          /\ mapIndex' \in 0 .. MapSize - 1
      BY <1>1, <1>2, <1>4, <2>2, MappingCacheAddType DEF LookupMiss
    <3>2. handle' \in [Actors -> Handle]
      BY <1>2, <1>4, <2>2 DEF LookupMiss, TypeOK, Handle
    <3>3. pc' \in [Actors -> PCs]
      BY <1>1, <1>4, <2>2, GotoType DEF LookupMiss
    <3> QED
      BY <1>4, <2>1, <3>1, <3>2, <3>3 DEF LookupMiss, TypeOK, counters
  <2>3. CASE ~(Seen(0).ok /\ n # 0)
    <3>1. pc' \in [Actors -> PCs]
      BY <1>4, <2>3, GotoType DEF LookupMiss, PCs
    <3> QED
      BY <1>4, <2>1, <2>3, <3>1 DEF LookupMiss, TypeOK, counters
  <2> QED
    BY <2>2, <2>3
<1>5. CASE Load(a)
  <2>1. /\ cacheNum' \in Pages \cup {-1}
        /\ cacheBuf' \in Env
        /\ unsaved' \in BOOLEAN
    BY <1>1, <1>5, ReadPartitionType DEF Load
  <2>2. pc' \in [Actors -> PCs]
    BY <1>5, GotoType DEF Load, PCs
  <2> QED
    BY <1>5, <2>1, <2>2 DEF Load, TypeOK, counters
<1> QED
  BY <1>3, <1>4, <1>5

LEMMA FormatType ==
    ASSUME TypeOK, NEW a \in Actors,
           Release(a) \/ WipePage(a) \/ WipeFails(a) \/ WipeDone(a) \/ FormatNext(a)
    PROVE  TypeOK'
<1>1. CASE Release(a)
  <2>1. NoHandle \in Handle
    BY PagesType DEF NoHandle, Handle
  <2>2. pc' \in [Actors -> PCs]
    BY <1>1, GotoType DEF Release, PCs
  <2> QED
    BY <1>1, <2>1, <2>2 DEF Release, TypeOK, ram, counters
<1>2. CASE WipePage(a)
  <2>1. Blank \in Page
    BY FreshMetaType DEF Blank, Page
  <2>2. wiped' \in 0 .. NParts + 1
    BY <1>2, SizesAssumption DEF WipePage, TypeOK
  <2> QED
    BY <1>2, <2>1, <2>2 DEF WipePage, TypeOK, ram, counters
<1>3. CASE WipeFails(a)
  <2>1. Blank \in Page
    BY FreshMetaType DEF Blank, Page
  <2>2. wiped \in Pages
    BY <1>3, SizesAssumption DEF WipeFails, TypeOK, Pages
  <2>3. flash' \in [Pages -> Page]
    BY <1>3, <2>1, <2>2 DEF WipeFails, TypeOK
  <2>4. pc' \in [Actors -> PCs]
    BY <1>3, GotoType DEF WipeFails, PCs
  <2> QED
    BY <1>3, <2>3, <2>4 DEF WipeFails, TypeOK, ram
<1>4. CASE WipeDone(a)
  <2>1. pc' \in [Actors -> PCs] /\ ret' \in [Actors -> Returns]
    BY <1>4, WriteThenType DEF WipeDone, Returns
  <2>2. mapCache' \in [0 .. MapSize - 1 -> Slot]
    BY <1>4, PagesType DEF WipeDone, TypeOK, Slot
  <2> QED
    BY <1>4, <2>1, <2>2, PagesType, FreshMetaType DEF WipeDone, TypeOK, counters
<1>5. CASE FormatNext(a)
  <2>1. CASE cacheNum > 0
    <3>1. cacheNum' \in Pages
      BY <1>5, <2>1, SizesAssumption DEF FormatNext, TypeOK, Pages
    <3>2. cacheBuf' \in Env
      BY <1>5, <2>1, FreshMetaType DEF FormatNext
    <3>3. pc' \in [Actors -> PCs] /\ ret' \in [Actors -> Returns]
      BY <1>5, <2>1, WriteThenType DEF FormatNext, Returns
    <3> QED
      BY <1>5, <2>1, <3>1, <3>2, <3>3 DEF FormatNext, TypeOK, counters
  <2>2. CASE ~(cacheNum > 0)
    <3>1. pc' \in [Actors -> PCs]
      BY <1>5, <2>2, GotoType DEF FormatNext, PCs
    <3> QED
      BY <1>5, <2>2, <3>1, SizesAssumption DEF FormatNext, TypeOK, counters
  <2> QED
    BY <2>1, <2>2
<1> QED
  BY <1>1, <1>2, <1>3, <1>4, <1>5

LEMMA SessionType ==
    ASSUME TypeOK, NEW t \in Tasks,
           \/ \E m \in Modules : Open(t, m) \/ GetPartitionId(t, m)
           \/ \E x \in Vars, v \in Vals : Set(t, x, v)
           \/ Commit(t) \/ Close(t)
    PROVE  TypeOK'
<1> USE DEF Actors
<1>1. ASSUME NEW m \in Modules, Open(t, m) \/ GetPartitionId(t, m)
      PROVE  TypeOK'
  <2>1. [NoHandle EXCEPT !.mod = m] \in Handle
    BY PagesType DEF NoHandle, Handle
  <2>2. pc' \in [Actors -> PCs]
    BY <1>1, GotoType DEF Open, GetPartitionId, PCs
  <2>3. ret' \in [Actors -> Returns]
    BY <1>1 DEF Open, GetPartitionId, TypeOK, Returns
  <2> QED
    BY <1>1, <2>1, <2>2, <2>3
    DEF Open, GetPartitionId, GetMutex, TypeOK, ram, counters
<1>2. ASSUME NEW x \in Vars, NEW v \in Vals, Set(t, x, v)
      PROVE  TypeOK'
  <2>1. cacheBuf' \in Env
    BY <1>2, SetVarType DEF Set, TypeOK, Values
  <2>2. handle' \in [Actors -> Handle]
    <3>1. Fits(cacheBuf, VarCap, <<handle[t].mod, x>>) \in BOOLEAN
      BY DEF Fits
    <3> QED
      BY <1>2, <3>1 DEF Set, TypeOK, Handle
  <2>3. unsaved' \in BOOLEAN
    BY <1>2 DEF Set, TypeOK
  <2> QED
    BY <1>2, <2>1, <2>2, <2>3 DEF Set, TypeOK, counters
<1>3. ASSUME Commit(t) PROVE TypeOK'
  <2>1. pc' \in [Actors -> PCs] /\ ret' \in [Actors -> Returns]
    BY <1>3, WriteThenType DEF Commit, Returns
  <2> QED
    BY <1>3, <2>1 DEF Commit, TypeOK, ram, counters
<1>4. ASSUME Close(t) PROVE TypeOK'
  <2>1. pc' \in [Actors -> PCs] /\ ret' \in [Actors -> Returns]
    <3>1. CASE handle[t].dirty
      BY <1>4, <3>1, WriteThenType DEF Close, Returns
    <3>2. CASE ~handle[t].dirty
      BY <1>4, <3>2, GotoType DEF Close, TypeOK, PCs
    <3> QED
      BY <3>1, <3>2
  <2> QED
    BY <1>4, <2>1 DEF Close, TypeOK, ram, counters
<1> QED
  BY <1>1, <1>2, <1>3, <1>4

LEMMA RegisterType ==
    ASSUME TypeOK, NEW t \in Tasks,
           NEW m \in Modules, NEW k \in Keys, NEW creat \in BOOLEAN,
           Register(t, m, k, creat)
    PROVE  TypeOK'
<1> DEFINE new == Seen(0).ok /\ CanRegister(Seen(0).env, m, k, creat)
<1>1. 0 \in Pages /\ Seen(0).env \in Env /\ t \in Actors
  BY PagesType, SeenType DEF Page, Actors
<1>2. mutex' \in Tasks \cup {NoTask}
  BY DEF Register, GetMutex
<1>3. CASE new
  <2>1. pc' \in [Actors -> PCs] /\ ret' \in [Actors -> Returns]
    BY <1>1, <1>3, WriteThenType DEF Register, Returns
  <2>2. cacheBuf' \in Env
    BY <1>1, <1>3, RegisteredType DEF Register
  <2>3. unsaved' \in BOOLEAN
    BY <1>3 DEF Register, TypeOK
  <2> QED
    BY <1>1, <1>2, <1>3, <2>1, <2>2, <2>3 DEF Register, TypeOK, counters
<1>4. CASE ~new
  <2>1. pc' \in [Actors -> PCs] /\ ret' = ret
    BY <1>4, GotoType DEF Register, PCs
  <2>2. /\ cacheNum' \in Pages \cup {-1}
        /\ cacheBuf' \in Env
        /\ unsaved' \in BOOLEAN
    BY <1>1, <1>4, ReadPartitionType DEF Register
  <2> QED
    BY <1>2, <1>4, <2>1, <2>2 DEF Register, TypeOK, counters
<1> QED
  BY <1>3, <1>4

LEMMA EraseType ==
    ASSUME TypeOK, NEW t \in Tasks,
           (\E n \in 1 .. NParts : ErasePartition(t, n)) \/ EraseAndInit(t)
    PROVE  TypeOK'
<1> USE DEF Actors
<1>1. ASSUME NEW n \in 1 .. NParts, ErasePartition(t, n)
      PROVE  TypeOK'
  <2>1. pc' \in [Actors -> PCs] /\ ret' \in [Actors -> Returns]
    BY <1>1, WriteThenType DEF ErasePartition, Returns
  <2>2. n \in Pages
    BY SizesAssumption DEF Pages
  <2> QED
    BY <1>1, <2>1, <2>2, FreshMetaType
    DEF ErasePartition, GetMutex, TypeOK, counters
<1>2. ASSUME EraseAndInit(t) PROVE TypeOK'
  <2>1. pc' \in [Actors -> PCs]
    BY <1>2, GotoType DEF EraseAndInit, StartFormat, PCs
  <2>2. wiped' \in 0 .. NParts + 1 /\ formats' \in Nat
    BY <1>2, SizesAssumption DEF EraseAndInit, StartFormat, TypeOK
  <2> QED
    BY <1>2, <2>1, <2>2 DEF EraseAndInit, GetMutex, TypeOK, ram
<1> QED
  BY <1>1, <1>2

LEMMA BootType ==
    ASSUME TypeOK, BootFinds(Boot) \/ BootFormats(Boot) \/ Crash
    PROVE  TypeOK'
<1>1. CASE BootFinds(Boot)
  <2>1. pc' \in [Actors -> PCs]
    BY <1>1, GotoType DEF BootFinds, PCs
  <2>2. /\ cacheNum' \in Pages \cup {-1}
        /\ cacheBuf' \in Env
        /\ unsaved' \in BOOLEAN
    BY <1>1, PagesType, ReadPartitionType DEF BootFinds
  <2> QED
    BY <1>1, <2>1, <2>2 DEF BootFinds, TypeOK, counters
<1>2. CASE BootFormats(Boot)
  <2>1. pc' \in [Actors -> PCs]
    BY <1>2, GotoType DEF BootFormats, StartFormat, PCs
  <2>2. wiped' \in 0 .. NParts + 1 /\ formats' \in Nat
    BY <1>2, SizesAssumption DEF BootFormats, StartFormat, TypeOK
  <2> QED
    BY <1>2, <2>1, <2>2 DEF BootFormats, TypeOK, ram
<1>3. CASE Crash
  <2>1. /\ mutex' \in Tasks \cup {NoTask}
        /\ pc' \in [Actors -> PCs]
        /\ ret' \in [Actors -> Returns]
        /\ cacheNum' \in Pages \cup {-1} /\ cacheBuf' \in Env
        /\ unsaved' \in BOOLEAN
    BY <1>3, FreshMetaType DEF Crash, ColdRam, PCs, Returns
  <2>2. handle' \in [Actors -> Handle] /\ mapCache' \in [0 .. MapSize - 1 -> Slot]
    BY <1>3, PagesType DEF Crash, ColdRam, Handle, NoHandle, Slot, NoSlot
  <2>3. mapIndex' \in 0 .. MapSize - 1 /\ wiped' \in 0 .. NParts + 1
    BY <1>3, SizesAssumption DEF Crash, ColdRam
  <2>4. crashes' \in Nat
    BY <1>3 DEF Crash, TypeOK
  <2> QED
    BY <1>3, <2>1, <2>2, <2>3, <2>4 DEF Crash, TypeOK
<1> QED
  BY <1>1, <1>2, <1>3

LEMMA StutterType == TypeOK /\ UNCHANGED vars => TypeOK'
BY DEF TypeOK, vars, ram, counters

(* Every reachable state is typed: the ring index of the mapping cache and *)
(* the number of the cached page stay in range.                            *)
THEOREM TypeCorrect == Spec => []TypeOK
<1>1. TypeOK /\ [Next]_vars => TypeOK'
  <2> SUFFICES ASSUME TypeOK, [Next]_vars PROVE TypeOK'
    OBVIOUS
  <2>1. ASSUME NEW a \in Actors, Inside(a) PROVE TypeOK'
    BY <2>1, WriteType, LookupType, FormatType DEF Inside
  <2>2. ASSUME NEW t \in Tasks, Call(t) PROVE TypeOK'
    BY <2>2, SessionType, RegisterType, EraseType DEF Call
  <2>3. CASE BootFinds(Boot) \/ BootFormats(Boot) \/ Crash
    BY <2>3, BootType
  <2>4. CASE UNCHANGED vars
    BY <2>4, StutterType
  <2> QED
    BY <2>1, <2>2, <2>3, <2>4 DEF Next
<1> QED
  BY <1>1, InitType, PTL DEF Spec
----------------------------------------------------------------------------
(* Mutual exclusion                                                        *)

\* A task inside psm holds the mutex, and none is while psm_init runs.
LockInv ==
    /\ \A t \in Tasks : pc[t] # "idle" => mutex = t
    /\ pc[Boot] # "idle" => \A t \in Tasks : pc[t] = "idle"

\* No two actors are inside psm at once.
Exclusive == \A a, b \in Actors : pc[a] # "idle" /\ pc[b] # "idle" => a = b

\* The step of an actor that is inside and stays there.
LEMMA LockStays ==
    ASSUME TypeOK, LockInv, NEW a \in Actors, pc[a] # "idle",
           NEW label, Goto(a, label), mutex' = mutex
    PROVE  LockInv'
BY DEF TypeOK, LockInv, Goto, Actors

LEMMA LockTaken ==
    ASSUME TypeOK, LockInv, NEW t \in Tasks, Ready(t), GetMutex(t),
           NEW label, Goto(t, label)
    PROVE  LockInv'
BY ActorsAssumption DEF TypeOK, LockInv, Ready, GetMutex, Goto, Actors

LEMMA LockReleased ==
    ASSUME TypeOK, LockInv, NEW a \in Actors, Release(a)
    PROVE  LockInv'
BY DEF TypeOK, LockInv, Release, Goto, Actors

LEMMA LockInside ==
    ASSUME TypeOK, LockInv, NEW a \in Actors, Inside(a)
    PROVE  LockInv'
<1>1. CASE Release(a)
  BY <1>1, LockReleased
<1>2. CASE WipePage(a)
  BY <1>2 DEF WipePage, LockInv
<1>3. CASE ErasePage(a) \/ ErasePageFails(a) \/ ProgramPage(a) \/ ProgramPageFails(a)
  <2>1. \E label : Goto(a, label)
    BY <1>3 DEF ErasePage, ErasePageFails, ProgramPage, ProgramPageFails, EndWrite
  <2> QED
    BY <1>3, <2>1, LockStays
    DEF ErasePage, ErasePageFails, ProgramPage, ProgramPageFails
<1>4. CASE LookupHit(a) \/ LookupMiss(a) \/ Load(a)
  <2>1. \E label : Goto(a, label)
    BY <1>4 DEF LookupHit, LookupMiss, Load
  <2> QED
    BY <1>4, <2>1, LockStays DEF LookupHit, LookupMiss, Load
<1>5. CASE WipeFails(a) \/ WipeDone(a) \/ FormatNext(a)
  <2>1. \E label : Goto(a, label)
    BY <1>5 DEF WipeFails, WipeDone, FormatNext, WriteThen
  <2> QED
    BY <1>5, <2>1, LockStays DEF WipeFails, WipeDone, FormatNext
<1> QED
  BY <1>1, <1>2, <1>3, <1>4, <1>5 DEF Inside

LEMMA LockCall ==
    ASSUME TypeOK, LockInv, NEW t \in Tasks, Call(t)
    PROVE  LockInv'
<1> USE DEF Actors
<1>1. ASSUME NEW m \in Modules, Open(t, m) \/ GetPartitionId(t, m)
      PROVE  LockInv'
  BY <1>1, LockTaken DEF Open, GetPartitionId
<1>2. ASSUME NEW x \in Vars, NEW v \in Vals, Set(t, x, v)
      PROVE  LockInv'
  BY <1>2 DEF Set, LockInv
<1>3. CASE Commit(t) \/ Close(t)
  <2>1. \E label : Goto(t, label)
    BY <1>3 DEF Commit, Close, WriteThen
  <2> QED
    BY <1>3, <2>1, LockStays DEF Commit, Close
<1>4. ASSUME NEW m \in Modules, NEW k \in Keys, NEW creat \in BOOLEAN,
             Register(t, m, k, creat)
      PROVE  LockInv'
  <2>1. \E label : Goto(t, label)
    BY <1>4 DEF Register, WriteThen
  <2> QED
    BY <1>4, <2>1, LockTaken DEF Register
<1>5. ASSUME NEW n \in 1 .. NParts, ErasePartition(t, n)
      PROVE  LockInv'
  BY <1>5, LockTaken DEF ErasePartition, WriteThen
<1>6. CASE EraseAndInit(t)
  BY <1>6, LockTaken DEF EraseAndInit, StartFormat
<1> QED
  BY <1>1, <1>2, <1>3, <1>4, <1>5, <1>6 DEF Call

LEMMA LockAlways == Spec => []LockInv
<1>1. Init => LockInv
  BY ActorsAssumption DEF Init, LockInv, Actors
<1>2. TypeOK /\ LockInv /\ [Next]_vars => LockInv'
  <2> SUFFICES ASSUME TypeOK, LockInv, [Next]_vars PROVE LockInv'
    OBVIOUS
  <2>1. ASSUME NEW a \in Actors, Inside(a) PROVE LockInv'
    BY <2>1, LockInside
  <2>2. ASSUME NEW t \in Tasks, Call(t) PROVE LockInv'
    BY <2>2, LockCall
  <2>3. CASE BootFinds(Boot) \/ BootFormats(Boot)
    <3>1. Boot \in Actors /\ (\E label : Goto(Boot, label))
      BY <2>3 DEF BootFinds, BootFormats, StartFormat, Actors
    <3> QED
      BY <2>3, <3>1, LockStays DEF BootFinds, BootFormats
  <2>4. CASE Crash
    BY <2>4, ActorsAssumption DEF Crash, ColdRam, LockInv, Actors
  <2>5. CASE UNCHANGED vars
    BY <2>5 DEF vars, LockInv
  <2> QED
    BY <2>1, <2>2, <2>3, <2>4, <2>5 DEF Next
<1> QED
  BY <1>1, <1>2, TypeCorrect, PTL DEF Spec

(* psm_mutex excludes: whatever the tasks call, at most one of them, or     *)
(* psm_init, is inside psm, so that the cached page is never shared.        *)
THEOREM MutualExclusion == Spec => []Exclusive
<1>1. LockInv => Exclusive
  BY DEF LockInv, Exclusive, Actors
<1> QED
  BY <1>1, LockAlways, PTL
----------------------------------------------------------------------------
(* The cached page is what the flash holds                                 *)

\* Only an open handle is dirty.
DirtyInv ==
    \A a \in Actors : handle[a].dirty => pc[a] \in {"using", "erase", "write"}

\* The actor has nothing in hand that the flash does not hold yet.
Quiet(a) == pc[a] \notin {"erase", "write", "wipe"} /\ ~handle[a].dirty

\* CacheMatchesFlash, and also between two pages of a format.
CacheInv ==
    cacheNum # -1 /\ ~unsaved /\ (\A a \in Actors : Quiet(a))
        => flash[cacheNum] = Cached

\* A dirty flag is only set by psm_set.
DirtyNext(a) ==
    /\ \A b \in Actors \ {a} : pc'[b] = pc[b] /\ handle'[b].dirty = handle[b].dirty
    /\ handle'[a].dirty => pc'[a] \in {"using", "erase", "write"}

LEMMA DirtyInside ==
    ASSUME TypeOK, DirtyInv, NEW a \in Actors, Inside(a)
    PROVE  DirtyNext(a)
<1>1. CASE Release(a) \/ WipePage(a) \/ WipeFails(a) \/ WipeDone(a) \/ FormatNext(a)
  BY <1>1 DEF TypeOK, DirtyInv, DirtyNext, Release, WipePage, WipeFails, WipeDone,
              FormatNext, WriteThen, Goto, NoHandle
<1>2. CASE ErasePage(a)
  BY <1>2 DEF TypeOK, DirtyInv, DirtyNext, ErasePage, Goto
<1>3. CASE ErasePageFails(a) \/ ProgramPage(a) \/ ProgramPageFails(a)
  BY <1>3 DEF TypeOK, DirtyInv, DirtyNext, ErasePageFails, ProgramPage,
              ProgramPageFails, EndWrite, Goto, Handle
<1>4. CASE LookupHit(a) \/ LookupMiss(a) \/ Load(a)
  BY <1>4 DEF TypeOK, DirtyInv, DirtyNext, LookupHit, LookupMiss, Load, Goto, Handle
<1> QED
  BY <1>1, <1>2, <1>3, <1>4 DEF Inside

LEMMA DirtyCall ==
    ASSUME TypeOK, DirtyInv, NEW t \in Tasks, Call(t)
    PROVE  DirtyNext(t)
<1> USE DEF Actors
<1>1. ASSUME NEW m \in Modules, Open(t, m) \/ GetPartitionId(t, m)
      PROVE  DirtyNext(t)
  BY <1>1 DEF TypeOK, DirtyNext, Open, GetPartitionId, Goto, NoHandle
<1>2. ASSUME NEW x \in Vars, NEW v \in Vals, Set(t, x, v)
      PROVE  DirtyNext(t)
  BY <1>2 DEF TypeOK, DirtyNext, Set, Handle
<1>3. CASE Commit(t) \/ Close(t)
  BY <1>3 DEF TypeOK, DirtyInv, DirtyNext, Commit, Close, WriteThen, Goto
<1>4. ASSUME NEW m \in Modules, NEW k \in Keys, NEW creat \in BOOLEAN,
             Register(t, m, k, creat)
      PROVE  DirtyNext(t)
  BY <1>4 DEF TypeOK, DirtyInv, DirtyNext, Ready, Register, WriteThen, Goto
<1>5. ASSUME NEW n \in 1 .. NParts, ErasePartition(t, n)
      PROVE  DirtyNext(t)
  BY <1>5 DEF TypeOK, DirtyInv, DirtyNext, Ready, ErasePartition, WriteThen, Goto
<1>6. CASE EraseAndInit(t)
  BY <1>6 DEF TypeOK, DirtyInv, DirtyNext, Ready, EraseAndInit, StartFormat, Goto
<1> QED
  BY <1>1, <1>2, <1>3, <1>4, <1>5, <1>6 DEF Call

LEMMA DirtyStep ==
    ASSUME TypeOK, DirtyInv, [Next]_vars
    PROVE  DirtyInv'
<1>1. ASSUME NEW a \in Actors, DirtyNext(a) PROVE DirtyInv'
  BY <1>1 DEF DirtyInv, DirtyNext
<1>2. ASSUME NEW a \in Actors, Inside(a) PROVE DirtyInv'
  BY <1>1, <1>2, DirtyInside
<1>3. ASSUME NEW t \in Tasks, Call(t) PROVE DirtyInv'
  BY <1>1, <1>3, DirtyCall DEF Actors
<1>4. CASE BootFinds(Boot) \/ BootFormats(Boot)
  BY <1>4 DEF TypeOK, DirtyInv, BootFinds, BootFormats, StartFormat, Goto
<1>5. CASE Crash
  BY <1>5 DEF Crash, ColdRam, DirtyInv, NoHandle
<1>6. CASE UNCHANGED vars
  BY <1>6 DEF vars, DirtyInv
<1> QED
  BY <1>2, <1>3, <1>4, <1>5, <1>6 DEF Next

\* Steps that leave the cached page and the flash alone.
LEMMA CacheStays ==
    ASSUME TypeOK, CacheInv, NEW a \in Actors, Quiet(a),
           UNCHANGED <<cacheNum, cacheBuf, flash, unsaved>>,
           \A b \in Actors \ {a} : pc'[b] = pc[b] /\ handle'[b].dirty = handle[b].dirty
    PROVE  CacheInv'
BY DEF CacheInv, Quiet, Cached

\* Steps that leave the actor with something in hand.
LEMMA CacheBusy ==
    ASSUME NEW a \in Actors, ~Quiet(a)'
    PROVE  CacheInv'
BY DEF CacheInv

\* psm_read_partition
LEMMA CacheRead ==
    ASSUME TypeOK, CacheInv, NEW n \in Pages, ReadPartition(n), flash' = flash,
           NEW a \in Actors, Quiet(a),
           \A b \in Actors \ {a} : pc'[b] = pc[b] /\ handle'[b].dirty = handle[b].dirty
    PROVE  CacheInv'
<1>1. CASE cacheNum = n
  BY <1>1, CacheStays DEF ReadPartition
<1>2. CASE cacheNum # n
  <2>1. flash[n] \in Page /\ n # -1
    BY PagesType DEF TypeOK
  <2>2. flash[n].ok => flash[n] = [ok |-> TRUE, env |-> flash[n].env]
    BY <2>1 DEF Page
  <2> QED
    BY <1>2, <2>1, <2>2 DEF ReadPartition, CacheInv, Cached
<1> QED
  BY <1>1, <1>2

LEMMA CacheInside ==
    ASSUME TypeOK, DirtyInv, CacheInv, NEW a \in Actors, Inside(a)
    PROVE  CacheInv'
<1>1. \A b \in Actors \ {a} : pc'[b] = pc[b] /\ handle'[b].dirty = handle[b].dirty
  BY DirtyInside DEF DirtyNext
<1>2. pc[a] \notin {"using", "erase", "write", "wipe"} => Quiet(a)
  BY DEF DirtyInv, Quiet
<1>3. CASE Release(a)
  BY <1>1, <1>2, <1>3, CacheStays DEF Release, ram
<1>4. CASE LookupHit(a)
  BY <1>1, <1>2, <1>4, CacheStays DEF LookupHit, ram
<1>5. CASE LookupMiss(a)
  BY <1>1, <1>2, <1>5, CacheRead, PagesType DEF LookupMiss
<1>6. CASE Load(a)
  BY <1>1, <1>2, <1>6, CacheRead DEF Load, TypeOK, Handle
<1>7. CASE ErasePage(a)
  BY <1>7, CacheBusy DEF ErasePage, Goto, TypeOK, Quiet
<1>8. CASE ErasePageFails(a) \/ ProgramPageFails(a) \/ WipeFails(a)
  BY <1>8 DEF ErasePageFails, ProgramPageFails, WipeFails, CacheInv
<1>9. CASE ProgramPage(a)
  BY <1>9 DEF ProgramPage, TypeOK, CacheInv, Cached, ram
<1>10. CASE WipePage(a)
  BY <1>10, CacheBusy DEF WipePage, Quiet
<1>11. CASE WipeDone(a)
  BY <1>11, CacheBusy DEF WipeDone, WriteThen, Goto, TypeOK, Quiet
<1>12. CASE FormatNext(a)
  <2>1. CASE cacheNum > 0
    BY <1>12, <2>1, CacheBusy DEF FormatNext, WriteThen, Goto, TypeOK, Quiet
  <2>2. CASE ~(cacheNum > 0)
    BY <1>1, <1>2, <1>12, <2>2, CacheStays DEF FormatNext
  <2> QED
    BY <2>1, <2>2
<1> QED
  BY <1>3, <1>4, <1>5, <1>6, <1>7, <1>8, <1>9, <1>10, <1>11, <1>12 DEF Inside

LEMMA CacheCall ==
    ASSUME TypeOK, DirtyInv, CacheInv, NEW t \in Tasks, Call(t)
    PROVE  CacheInv'
<1>1. t \in Actors
  BY DEF Actors
<1>2. \A b \in Actors \ {t} : pc'[b] = pc[b] /\ handle'[b].dirty = handle[b].dirty
  BY DirtyCall DEF DirtyNext
<1>3. Ready(t) => Quiet(t)
  BY <1>1 DEF DirtyInv, Quiet, Ready
<1>4. ASSUME NEW m \in Modules, Open(t, m) \/ GetPartitionId(t, m)
      PROVE  CacheInv'
  BY <1>1, <1>2, <1>3, <1>4, CacheStays DEF Open, GetPartitionId, ram
<1>5. ASSUME NEW x \in Vars, NEW v \in Vals, Set(t, x, v)
      PROVE  CacheInv'
  <2> DEFINE fits == Fits(cacheBuf, VarCap, <<handle[t].mod, x>>)
  <2>1. handle'[t].dirty = fits
    BY <1>1, <1>5 DEF Set, TypeOK, Handle
  <2>2. CASE fits
    BY <1>1, <2>1, <2>2, CacheBusy DEF Quiet
  <2>3. CASE ~fits /\ handle[t].dirty
    BY <1>5, <2>3 DEF Set, CacheInv
  <2>4. CASE ~fits /\ ~handle[t].dirty
    <3>1. UNCHANGED <<cacheNum, cacheBuf, flash>> /\ unsaved' = unsaved
      BY <1>5, <2>4 DEF Set, SetVar, TypeOK
    <3>2. Quiet(t)
      BY <1>5, <2>4 DEF Set, Quiet
    <3> QED
      BY <1>1, <1>2, <3>1, <3>2, CacheStays
  <2> QED
    BY <2>2, <2>3, <2>4
<1>6. CASE Commit(t)
  BY <1>1, <1>6, CacheBusy DEF Commit, WriteThen, Goto, TypeOK, Quiet
<1>7. CASE Close(t)
  <2>1. CASE handle[t].dirty
    BY <1>1, <1>7, <2>1, CacheBusy DEF Close, WriteThen, Goto, TypeOK, Quiet
  <2>2. CASE ~handle[t].dirty
    BY <1>1, <1>2, <1>7, <2>2, CacheStays DEF Close, Quiet, ram
  <2> QED
    BY <2>1, <2>2
<1>8. ASSUME NEW m \in Modules, NEW k \in Keys, NEW creat \in BOOLEAN,
             Register(t, m, k, creat)
      PROVE  CacheInv'
  <2>1. CASE Seen(0).ok /\ CanRegister(Seen(0).env, m, k, creat)
    BY <1>1, <1>8, <2>1, CacheBusy DEF Register, WriteThen, Goto, TypeOK, Quiet
  <2>2. CASE ~(Seen(0).ok /\ CanRegister(Seen(0).env, m, k, creat))
    BY <1>1, <1>2, <1>3, <1>8, <2>2, CacheRead, PagesType DEF Register
  <2> QED
    BY <2>1, <2>2
<1>9. ASSUME NEW n \in 1 .. NParts, ErasePartition(t, n)
      PROVE  CacheInv'
  BY <1>1, <1>9, CacheBusy DEF ErasePartition, WriteThen, Goto, TypeOK, Quiet
<1>10. CASE EraseAndInit(t)
  BY <1>1, <1>10, CacheBusy DEF EraseAndInit, StartFormat, Goto, TypeOK, Quiet
<1> QED
  BY <1>4, <1>5, <1>6, <1>7, <1>8, <1>9, <1>10 DEF Call

LEMMA CacheAlways == Spec => [](DirtyInv /\ CacheInv)
<1>1. Init => DirtyInv /\ CacheInv
  BY DEF Init, DirtyInv, CacheInv, NoHandle
<1>2. TypeOK /\ DirtyInv /\ CacheInv /\ [Next]_vars => (DirtyInv /\ CacheInv)'
  <2> SUFFICES ASSUME TypeOK, DirtyInv, CacheInv, [Next]_vars PROVE CacheInv'
    BY DirtyStep
  <2>1. ASSUME NEW a \in Actors, Inside(a) PROVE CacheInv'
    BY <2>1, CacheInside
  <2>2. ASSUME NEW t \in Tasks, Call(t) PROVE CacheInv'
    BY <2>2, CacheCall
  <2>3. CASE BootFinds(Boot)
    <3>1. Boot \in Actors /\ Quiet(Boot)
      BY <2>3 DEF BootFinds, Actors, DirtyInv, Quiet
    <3>2. \A b \in Actors \ {Boot} : pc'[b] = pc[b] /\ handle'[b].dirty = handle[b].dirty
      BY <2>3 DEF BootFinds, Goto, TypeOK
    <3> QED
      BY <2>3, <3>1, <3>2, CacheRead, PagesType DEF BootFinds
  <2>4. CASE BootFormats(Boot)
    BY <2>4, CacheBusy DEF BootFormats, StartFormat, Goto, TypeOK, Quiet, Actors
  <2>5. CASE Crash
    BY <2>5 DEF Crash, ColdRam, CacheInv
  <2>6. CASE UNCHANGED vars
    BY <2>6 DEF vars, ram, CacheInv, Quiet, Cached
  <2> QED
    BY <2>1, <2>2, <2>3, <2>4, <2>5, <2>6 DEF Next
<1> QED
  BY <1>1, <1>2, TypeCorrect, PTL DEF Spec

(* Whoever opens psm next works on what the flash holds: the cached page   *)
(* differs from the flash only while a change is in hand, or after a write *)
(* or a psm_set that failed; a power failure at any step changes nothing   *)
(* of it.                                                                  *)
THEOREM CacheCoherent == Spec => []CacheMatchesFlash
<1>1. CacheInv => CacheMatchesFlash
  BY DEF CacheInv, CacheMatchesFlash, Quiet, Formatting
<1> QED
  BY <1>1, CacheAlways, PTL
----------------------------------------------------------------------------
(* One actor at a time                                                     *)

\* Every other actor is outside psm.
Alone(a) == \A b \in Actors \ {a} : pc[b] = "idle" /\ ~handle[b].dirty

LEMMA InsideNotIdle ==
    ASSUME NEW a \in Actors, Inside(a)
    PROVE  pc[a] # "idle"
BY DEF Inside, Release, ErasePage, ErasePageFails, ProgramPage, ProgramPageFails,
       LookupHit, LookupMiss, Load, WipePage, WipeFails, WipeDone, FormatNext

LEMMA AloneInside ==
    ASSUME TypeOK, LockInv, DirtyInv, NEW a \in Actors, Inside(a)
    PROVE  Alone(a) /\ Alone(a)' /\ pc[a] # "idle"
<1>1. pc[a] # "idle"
  BY InsideNotIdle
<1>2. Alone(a)
  BY <1>1, ActorsAssumption DEF Alone, LockInv, DirtyInv, Actors
<1>3. Alone(a)'
  BY <1>2, DirtyInside DEF Alone, DirtyNext
<1> QED
  BY <1>1, <1>2, <1>3

LEMMA CallMutex ==
    ASSUME TypeOK, NEW t \in Tasks, Call(t)
    PROVE  (Ready(t) /\ mutex = NoTask) \/ pc[t] = "using"
BY DEF Call, Open, GetPartitionId, GetMutex, Set, Commit, Close, Register,
       ErasePartition, EraseAndInit

LEMMA AloneCall ==
    ASSUME TypeOK, LockInv, DirtyInv, NEW t \in Tasks, Call(t)
    PROVE  Alone(t) /\ Alone(t)' /\ pc[Boot] = "idle"
<1>1. Alone(t) /\ pc[Boot] = "idle"
  BY CallMutex, ActorsAssumption DEF Alone, LockInv, DirtyInv, Actors, Ready
<1>2. Alone(t)'
  BY <1>1, DirtyCall DEF Alone, DirtyNext
<1> QED
  BY <1>1, <1>2

LEMMA AloneBoot ==
    ASSUME TypeOK, LockInv, DirtyInv, BootFinds(Boot) \/ BootFormats(Boot)
    PROVE  Alone(Boot) /\ Alone(Boot)' /\ pc[Boot] = "init" /\ Boot \in Actors
<1>1. Alone(Boot) /\ pc[Boot] = "init" /\ Boot \in Actors
  BY ActorsAssumption DEF Alone, LockInv, DirtyInv, Actors, BootFinds, BootFormats
<1>2. Alone(Boot)'
  BY <1>1 DEF Alone, BootFinds, BootFormats, StartFormat, Goto, TypeOK
<1> QED
  BY <1>1, <1>2
----------------------------------------------------------------------------
(* What an actor inside psm works on                                       *)

SessionAt(a) ==
    /\ pc[a] \in {"lookup", "load", "using"} => handle[a].mod \in Modules
    /\ pc[a] = "lookup" => ret[a] \in {"load", "release"}
    /\ pc[a] = "load" => handle[a].part \in 1 .. NParts /\ ret[a] = "load"
    /\ pc[a] = "using" => cacheNum \in 1 .. NParts /\ ret[a] \in {"load", "using"}
    /\ pc[a] \in {"erase", "write"} =>
           /\ cacheNum \in Pages
           /\ ret[a] \in {"using", "release", "format"}
           /\ ret[a] = "using" => cacheNum # 0 /\ handle[a].mod \in Modules
    /\ pc[a] = "format" => cacheNum \in Pages
    /\ a = Boot =>
           /\ pc[a] \notin {"lookup", "load", "using"}
           /\ pc[a] \in {"erase", "write"} => ret[a] = "format"

SessionInv == \A a \in Actors : SessionAt(a)

\* The bundle every later invariant rests on.
BaseInv == TypeOK /\ LockInv /\ DirtyInv /\ CacheInv /\ SessionInv

LEMMA SessionAlone ==
    ASSUME NEW a \in Actors, Alone(a)', SessionAt(a)'
    PROVE  SessionInv'
<1> SUFFICES ASSUME NEW b \in Actors PROVE SessionAt(b)'
  BY DEF SessionInv
<1>1. CASE b = a
  BY <1>1
<1>2. CASE b # a
  BY <1>2 DEF Alone, SessionAt
<1> QED
  BY <1>1, <1>2

LEMMA SessionInside ==
    ASSUME TypeOK, SessionInv, NEW a \in Actors, Inside(a)
    PROVE  SessionAt(a)'
<1> USE DEF SessionAt
<1>0. SessionAt(a)
  BY DEF SessionInv
<1>1. CASE Release(a) \/ WipePage(a) \/ WipeFails(a)
  BY <1>1 DEF TypeOK, Release, WipePage, WipeFails, Goto, ram
<1>2. CASE ErasePage(a)
  BY <1>0, <1>2 DEF TypeOK, ErasePage, Goto, ram
<1>3. CASE ErasePageFails(a) \/ ProgramPage(a) \/ ProgramPageFails(a)
  <2>1. /\ pc[a] \in {"erase", "write"} /\ pc'[a] = ret[a]
        /\ UNCHANGED <<ret, cacheNum>>
        /\ handle'[a].mod = handle[a].mod
    BY <1>3 DEF TypeOK, ErasePageFails, ProgramPage, ProgramPageFails,
                EndWrite, Goto, ram, Handle
  <2>2. cacheNum # 0 => cacheNum \in 1 .. NParts
    BY <1>0, <2>1, SizesAssumption DEF Pages
  <2> QED
    BY <1>0, <2>1, <2>2
<1>4. CASE LookupHit(a)
  <2>1. CachedPartition(handle[a].mod) \in 1 .. NParts
    BY <1>4, CachedPartitionType, SizesAssumption DEF LookupHit, Pages
  <2> QED
    BY <1>0, <1>4, <2>1 DEF TypeOK, LookupHit, Goto, ram, Handle
<1>5. CASE LookupMiss(a)
  <2>1. PartitionIn(Seen(0).env, handle[a].mod) \in Pages
    BY PagesType, SeenType, PartitionInType DEF Page
  <2>2. CASE Seen(0).ok /\ PartitionIn(Seen(0).env, handle[a].mod) # 0
    <3>1. /\ pc[a] = "lookup" /\ pc'[a] = ret[a] /\ ret' = ret
          /\ handle'[a].mod = handle[a].mod
          /\ handle'[a].part = PartitionIn(Seen(0).env, handle[a].mod)
      BY <1>5, <2>2 DEF TypeOK, LookupMiss, Goto, Handle
    <3> QED
      BY <1>0, <2>1, <2>2, <3>1, SizesAssumption DEF Pages
  <2>3. CASE ~(Seen(0).ok /\ PartitionIn(Seen(0).env, handle[a].mod) # 0)
    BY <1>5, <2>3 DEF TypeOK, LookupMiss, Goto
  <2> QED
    BY <2>2, <2>3
<1>6. CASE Load(a)
  <2>1. Seen(handle[a].part).ok => cacheNum' = handle[a].part
    BY <1>6 DEF Load, ReadPartition, Seen, Cached
  <2> QED
    BY <1>0, <1>6, <2>1 DEF TypeOK, Load, Goto
<1>7. CASE WipeDone(a)
  BY <1>7, PagesType DEF TypeOK, WipeDone, WriteThen, Goto
<1>8. CASE FormatNext(a)
  BY <1>0, <1>8, SizesAssumption DEF TypeOK, FormatNext, WriteThen, Goto, Pages
<1> QED
  BY <1>1, <1>2, <1>3, <1>4, <1>5, <1>6, <1>7, <1>8 DEF Inside

LEMMA SessionCall ==
    ASSUME TypeOK, SessionInv, NEW t \in Tasks, Call(t)
    PROVE  SessionAt(t)'
<1> USE DEF SessionAt
<1>0. SessionAt(t) /\ t \in Actors /\ t # Boot
  BY ActorsAssumption DEF SessionInv, Actors
<1>1. ASSUME NEW m \in Modules, Open(t, m) \/ GetPartitionId(t, m)
      PROVE  SessionAt(t)'
  BY <1>0, <1>1 DEF TypeOK, Open, GetPartitionId, Goto, NoHandle
<1>2. ASSUME NEW x \in Vars, NEW v \in Vals, Set(t, x, v)
      PROVE  SessionAt(t)'
  BY <1>0, <1>2 DEF TypeOK, Set
<1>3. CASE Commit(t) \/ Close(t)
  BY <1>0, <1>3, SizesAssumption
  DEF TypeOK, Commit, Close, WriteThen, Goto, ram, Pages
<1>4. ASSUME NEW m \in Modules, NEW k \in Keys, NEW creat \in BOOLEAN,
             Register(t, m, k, creat)
      PROVE  SessionAt(t)'
  BY <1>0, <1>4, PagesType DEF TypeOK, Register, WriteThen, Goto
<1>5. ASSUME NEW n \in 1 .. NParts, ErasePartition(t, n)
      PROVE  SessionAt(t)'
  BY <1>0, <1>5, SizesAssumption DEF TypeOK, ErasePartition, WriteThen, Goto, Pages
<1>6. CASE EraseAndInit(t)
  BY <1>0, <1>6 DEF TypeOK, EraseAndInit, StartFormat, Goto
<1> QED
  BY <1>1, <1>2, <1>3, <1>4, <1>5, <1>6 DEF Call

LEMMA SessionStep ==
    ASSUME TypeOK, LockInv, DirtyInv, SessionInv, [Next]_vars
    PROVE  SessionInv'
<1>1. ASSUME NEW a \in Actors, Inside(a) PROVE SessionInv'
  BY <1>1, SessionInside, AloneInside, SessionAlone
<1>2. ASSUME NEW t \in Tasks, Call(t) PROVE SessionInv'
  BY <1>2, SessionCall, AloneCall, SessionAlone DEF Actors
<1>3. CASE BootFinds(Boot) \/ BootFormats(Boot)
  <2>1. SessionAt(Boot)'
    BY <1>3, AloneBoot DEF SessionAt, BootFinds, BootFormats, StartFormat, Goto, TypeOK
  <2> QED
    BY <1>3, <2>1, AloneBoot, SessionAlone
<1>4. CASE Crash
  BY <1>4 DEF Crash, ColdRam, SessionInv, SessionAt
<1>5. CASE UNCHANGED vars
  BY <1>5 DEF vars, ram, SessionInv, SessionAt
<1> QED
  BY <1>1, <1>2, <1>3, <1>4, <1>5 DEF Next

LEMMA BaseInvariant == Spec => []BaseInv
<1>1. Init => SessionInv
  BY DEF Init, SessionInv, SessionAt
<1>2. TypeOK /\ LockInv /\ DirtyInv /\ SessionInv /\ [Next]_vars => SessionInv'
  BY SessionStep
<1> QED
  BY <1>1, <1>2, TypeCorrect, LockAlways, CacheAlways, PTL DEF Spec, BaseInv
----------------------------------------------------------------------------
(* No page is given twice                                                  *)

\* The entry of a partition key is at least as long as that of last_used.
LongKeys ==
    \A env \in Env, k \in Keys : Fits(env, MetaCap, k) => Fits(env, MetaCap, LastUsed)

\* Pages are assigned once, and none above last_used.
Distinct(env) ==
    /\ \A k, l \in Keys : env[k] # NoVal /\ env[k] = env[l] => k = l
    /\ \A k \in Keys : env[k] # NoVal =>
          env[LastUsed] \in Pages /\ env[k] \in 1 .. env[LastUsed]

\* The metadata page is sound on the flash and in the cache.
MetaInv ==
    /\ Distinct(flash[0].env)
    /\ cacheNum = 0 => Distinct(cacheBuf)

LEMMA BlankDistinct == Distinct(EmptyEnv) /\ Distinct(FreshMeta)
BY NamesAssumption DEF Distinct, EmptyEnv, FreshMeta, SetVar, Names

LEMMA SeenDistinct == MetaInv => Distinct(Seen(0).env)
BY DEF MetaInv, Seen, Cached

(* psm_assign_partition keeps the pages apart, also where the metadata     *)
(* page has no room left for one of the entries.                           *)
LEMMA RegisteredDistinct ==
    ASSUME LongKeys, NEW env \in Env, Distinct(env),
           NEW m \in Modules, NEW k \in Keys, NEW creat \in BOOLEAN,
           CanRegister(env, m, k, creat)
    PROVE  Distinct(Registered(env, m, k))
<1> DEFINE id == NextId(env)
           counted == SetVar(env, MetaCap, LastUsed, id)
           keyed == IF env[k] # NoVal THEN env ELSE SetVar(counted, MetaCap, k, id)
<1>0. /\ m \notin Keys /\ m # LastUsed /\ LastUsed \notin Keys
      /\ LastUsed \in Names /\ \A l \in Keys : l \in Names
  BY NamesAssumption DEF Names
<1>1. Distinct(keyed)
  <2>1. CASE env[k] # NoVal
    BY <2>1
  <2>2. CASE env[k] = NoVal /\ Fits(env, MetaCap, LastUsed)
    <3>1. counted = [env EXCEPT ![LastUsed] = id]
      BY <2>2 DEF SetVar
    <3>2. id \in 1 .. NParts
      BY <2>2, SizesAssumption DEF CanRegister, NextId, Pages
    <3>3. \A l \in Keys : env[l] # NoVal => env[l] \in 1 .. id - 1
      BY SizesAssumption DEF Distinct, NextId, Pages
    <3>4. /\ counted[LastUsed] = id
          /\ \A l \in Keys : counted[l] = env[l]
      BY <1>0, <3>1 DEF Env
    <3>5. keyed = counted \/ keyed = [counted EXCEPT ![k] = id]
      BY <2>2 DEF SetVar
    <3>6. counted \in Env
      BY <3>2, SetVarType, SizesAssumption DEF Values, Pages
    <3>7. /\ keyed[LastUsed] = id
          /\ keyed[k] = env[k] \/ keyed[k] = id
          /\ \A l \in Keys \ {k} : keyed[l] = env[l]
      <4> HIDE DEF id, counted, keyed
      <4> QED
        BY <1>0, <3>4, <3>5, <3>6 DEF Env
    <3>8. id \in Pages
      BY <3>2, SizesAssumption DEF Pages
    <3>9. \A l \in Keys : keyed[l] # NoVal => keyed[l] \in 1 .. id
      BY <2>2, <3>2, <3>3, <3>7
    <3>10. \A l, j \in Keys : keyed[l] # NoVal /\ keyed[l] = keyed[j] => l = j
      <4> SUFFICES ASSUME NEW l \in Keys, NEW j \in Keys,
                          keyed[l] # NoVal, keyed[l] = keyed[j]
                   PROVE  l = j
        OBVIOUS
      <4>1. CASE l # k /\ j # k
        BY <3>7, <4>1 DEF Distinct
      <4>2. CASE l = k /\ j # k
        BY <2>2, <3>2, <3>3, <3>7, <4>2
      <4>3. CASE l # k /\ j = k
        BY <2>2, <3>2, <3>3, <3>7, <4>3
      <4> QED
        BY <4>1, <4>2, <4>3
    <3> QED
      BY <3>7, <3>8, <3>9, <3>10 DEF Distinct
  <2>3. CASE env[k] = NoVal /\ ~Fits(env, MetaCap, LastUsed)
    <3>1. counted = env
      BY <2>3 DEF SetVar
    <3>2. ~Fits(env, MetaCap, k)
      BY <2>3 DEF LongKeys
    <3> QED
      BY <2>3, <3>1, <3>2 DEF SetVar
  <2> QED
    BY <2>1, <2>2, <2>3
<1>2. Registered(env, m, k) = keyed \/ Registered(env, m, k) = [keyed EXCEPT ![m] = k]
  BY DEF Registered, SetVar
<1>3. keyed \in Env
  <2>1. CASE env[k] # NoVal
    BY <2>1
  <2>2. CASE env[k] = NoVal
    <3>1. id \in Values
      BY <2>2, SizesAssumption DEF CanRegister, NextId, Values, Pages
    <3> QED
      BY <2>2, <3>1, SetVarType
  <2> QED
    BY <2>1, <2>2
<1>4. CASE Registered(env, m, k) = [keyed EXCEPT ![m] = k]
  <2> DEFINE new == Registered(env, m, k)
  <2> HIDE DEF keyed
  <2>1. new[LastUsed] = keyed[LastUsed] /\ \A l \in Keys : new[l] = keyed[l]
    BY <1>0, <1>3, <1>4 DEF Env
  <2> HIDE DEF new
  <2> QED
    BY <1>1, <2>1 DEF Distinct, new
<1> QED
  BY <1>1, <1>2, <1>4

LEMMA MetaInside ==
    ASSUME TypeOK, MetaInv, NEW a \in Actors, Inside(a)
    PROVE  MetaInv'
<1> USE DEF MetaInv
<1>0. 0 \in Pages /\ Distinct(Blank.env) /\ Cached.env = cacheBuf
  BY PagesType, BlankDistinct DEF Blank, Cached
<1>1. CASE Release(a) \/ LookupHit(a) \/ ProgramPageFails(a)
  BY <1>1 DEF Release, LookupHit, ProgramPageFails, ram
<1>2. CASE ErasePage(a) \/ ErasePageFails(a) \/ ProgramPage(a)
  BY <1>0, <1>2 DEF ErasePage, ErasePageFails, ProgramPage, ram, TypeOK
<1>3. CASE LookupMiss(a) \/ Load(a)
  BY <1>3 DEF LookupMiss, Load, ReadPartition
<1>4. CASE WipePage(a) \/ WipeFails(a)
  BY <1>0, <1>4 DEF WipePage, WipeFails, ram, TypeOK
<1>5. CASE WipeDone(a)
  BY <1>5, SizesAssumption DEF WipeDone
<1>6. CASE FormatNext(a)
  BY <1>6, BlankDistinct, SizesAssumption DEF FormatNext, TypeOK, Pages
<1> QED
  BY <1>1, <1>2, <1>3, <1>4, <1>5, <1>6 DEF Inside

LEMMA MetaCall ==
    ASSUME LongKeys, TypeOK, SessionInv, MetaInv, NEW t \in Tasks, Call(t)
    PROVE  MetaInv'
<1> USE DEF MetaInv
<1>1. ASSUME NEW m \in Modules, Open(t, m) \/ GetPartitionId(t, m)
      PROVE  MetaInv'
  BY <1>1 DEF Open, GetPartitionId, ram
<1>2. ASSUME NEW x \in Vars, NEW v \in Vals, Set(t, x, v)
      PROVE  MetaInv'
  BY <1>2 DEF Set, SessionInv, SessionAt, Actors
<1>3. CASE Commit(t) \/ Close(t) \/ EraseAndInit(t)
  BY <1>3 DEF Commit, Close, EraseAndInit, ram
<1>4. ASSUME NEW m \in Modules, NEW k \in Keys, NEW creat \in BOOLEAN,
             Register(t, m, k, creat)
      PROVE  MetaInv'
  <2>1. flash' = flash /\ Seen(0).env \in Env
    BY <1>4, SeenType, PagesType DEF Register, Page
  <2>2. CASE Seen(0).ok /\ CanRegister(Seen(0).env, m, k, creat)
    <3>1. cacheBuf' = Registered(Seen(0).env, m, k)
      BY <1>4, <2>2 DEF Register
    <3> QED
      BY <2>1, <2>2, <3>1, SeenDistinct, RegisteredDistinct
  <2>3. CASE ~(Seen(0).ok /\ CanRegister(Seen(0).env, m, k, creat))
    BY <1>4, <2>3 DEF Register, ReadPartition
  <2> QED
    BY <2>2, <2>3
<1>5. ASSUME NEW n \in 1 .. NParts, ErasePartition(t, n)
      PROVE  MetaInv'
  BY <1>5 DEF ErasePartition
<1> QED
  BY <1>1, <1>2, <1>3, <1>4, <1>5 DEF Call

(* psm_assign_partition never gives a page to two partition keys, and      *)
(* counting on from last_used never meets a page in use: for every         *)
(* sequence of registrations, erasures and failures of power and flash, in *)
(* a metadata page of any size, as long as keys are not shorter than       *)
(* "last_used".                                                            *)
THEOREM PartitionsDistinct ==
    ASSUME LongKeys
    PROVE  Spec => []DistinctPartitions
<1>1. Init => MetaInv
  BY PagesType, BlankDistinct DEF Init, MetaInv, Blank
<1>2. BaseInv /\ MetaInv /\ [Next]_vars => MetaInv'
  <2> SUFFICES ASSUME TypeOK, SessionInv, MetaInv, [Next]_vars PROVE MetaInv'
    BY DEF BaseInv
  <2>1. ASSUME NEW a \in Actors, Inside(a) PROVE MetaInv'
    BY <2>1, MetaInside
  <2>2. ASSUME NEW t \in Tasks, Call(t) PROVE MetaInv'
    BY <2>2, MetaCall
  <2>3. CASE BootFinds(Boot) \/ BootFormats(Boot)
    BY <2>3 DEF BootFinds, BootFormats, ReadPartition, MetaInv, ram
  <2>4. CASE Crash
    BY <2>4 DEF Crash, ColdRam, MetaInv
  <2>5. CASE UNCHANGED vars
    BY <2>5 DEF vars, ram, MetaInv
  <2> QED
    BY <2>1, <2>2, <2>3, <2>4, <2>5 DEF Next
<1>3. MetaInv => DistinctPartitions
  <2> SUFFICES ASSUME MetaInv PROVE DistinctPartitions
    OBVIOUS
  <2>1. Distinct(Seen(0).env)
    BY SeenDistinct
  <2> QED
    BY <2>1 DEF Distinct, DistinctPartitions
<1> QED
  BY <1>1, <1>2, <1>3, BaseInvariant, PTL DEF Spec
----------------------------------------------------------------------------
(* The mapping cache answers what the metadata answers                     *)

SlotsSound ==
    \A i \in 0 .. MapSize - 1 : mapCache[i].part # 0
        => /\ mapCache[i].mod \in Modules
           /\ mapCache[i].part = PartitionIn(Seen(0).env, mapCache[i].mod)

SlotsEmpty == \A i \in 0 .. MapSize - 1 : mapCache[i].part = 0

\* The actor writes the pages of a format.
Refills(a) == pc[a] = "format" \/ (pc[a] \in {"erase", "write"} /\ ret[a] = "format")

RefillAt(a) ==
    /\ Refills(a) => SlotsEmpty
    /\ cacheNum = 0 \/ pc[a] = "format" => ~unsaved

\* While no flash operation has failed.
MapInv ==
    errs = 0 => /\ (\A a \in Actors : pc[a] # "wipe") => SlotsSound
                /\ \A a \in Actors : RefillAt(a)

\* The same, for the only actor inside psm.
MapAt(a) == (pc[a] # "wipe" => SlotsSound) /\ RefillAt(a)

LEMMA MapAlone ==
    ASSUME NEW a \in Actors, Alone(a)', errs' = 0 => MapAt(a)'
    PROVE  MapInv'
<1> SUFFICES ASSUME errs' = 0 PROVE MapInv'
  BY DEF MapInv
<1>1. ASSUME NEW b \in Actors PROVE RefillAt(b)'
  BY <1>1 DEF Alone, MapAt, RefillAt, Refills
<1> QED
  BY <1>1 DEF MapInv, MapAt

LEMMA MapHere ==
    ASSUME NEW a \in Actors, Alone(a), MapInv, errs = 0
    PROVE  MapAt(a)
BY DEF Alone, MapInv, MapAt

\* psm_read_partition does not change what the metadata page answers.
LEMMA ReadKeepsMeta ==
    ASSUME TypeOK, CacheInv, NEW a \in Actors, Alone(a), Quiet(a),
           NEW n \in Pages, ReadPartition(n), flash' = flash,
           cacheNum = 0 => ~unsaved
    PROVE  Seen(0)'.env = Seen(0).env /\ (cacheNum' = 0 => ~unsaved')
<1>1. \A b \in Actors : Quiet(b)
  BY DEF Alone, Quiet
<1>2. cacheNum = 0 => flash[0] = Cached
  BY <1>1 DEF CacheInv
<1>3. CASE cacheNum = n
  BY <1>3 DEF ReadPartition, Seen, Cached
<1>4. CASE cacheNum # n
  BY <1>2, <1>4 DEF ReadPartition, Seen, Cached
<1> QED
  BY <1>3, <1>4

(* A registration only adds: what the metadata answered it still answers.  *)
LEMMA RegisteredKeeps ==
    ASSUME NEW env \in Env, NEW m \in Modules, NEW k \in Keys, NEW creat,
           CanRegister(env, m, k, creat),
           NEW other \in Modules, PartitionIn(env, other) # 0
    PROVE  PartitionIn(Registered(env, m, k), other) = PartitionIn(env, other)
<1> DEFINE id == NextId(env)
           counted == SetVar(env, MetaCap, LastUsed, id)
           keyed == IF env[k] # NoVal THEN env ELSE SetVar(counted, MetaCap, k, id)
           S == Values \cup {NoVal}
<1>0. /\ m \notin Keys /\ other \notin Keys /\ LastUsed \notin Keys \cup Modules
      /\ \A x \in Modules \cup Keys : x \in Names
      /\ NoVal \notin Pages /\ NoVal \notin Keys
  BY NamesAssumption, ValuesAssumption DEF Names, Values
<1>1. other # m /\ env[other] \in Keys /\ env[env[other]] \in 1 .. NParts
  BY <1>0, SizesAssumption DEF CanRegister, PartitionIn
<1>2. env[env[other]] # NoVal
  BY <1>0, <1>1, SizesAssumption DEF Pages
<1>3. env \in [Names -> S]
  BY DEF Env
<1>4. /\ counted \in [Names -> S \cup {id}]
      /\ \A x \in Modules \cup Keys : counted[x] = env[x]
  <2> HIDE DEF id
  <2> QED
    BY <1>0, <1>3 DEF SetVar
<1>5. /\ keyed \in [Names -> S \cup {id}]
      /\ keyed[other] = env[other] /\ keyed[env[other]] = env[env[other]]
  <2>1. CASE env[k] # NoVal
    BY <1>3, <2>1
  <2>2. CASE env[k] = NoVal
    <3>1. keyed = SetVar(counted, MetaCap, k, id)
      BY <2>2
    <3> HIDE DEF counted, id, keyed
    <3>2. other # k /\ env[other] # k
      BY <1>0, <1>2, <2>2
    <3>3. SetVar(counted, MetaCap, k, id) \in [Names -> (S \cup {id}) \cup {id}]
      BY <1>4 DEF SetVar
    <3>4. \A y \in Names \ {k} : SetVar(counted, MetaCap, k, id)[y] = counted[y]
      BY <1>4 DEF SetVar
    <3> QED
      BY <1>0, <1>1, <1>4, <3>1, <3>2, <3>3, <3>4
  <2> QED
    BY <2>1, <2>2
<1>6. /\ Registered(env, m, k)[other] = env[other]
      /\ Registered(env, m, k)[env[other]] = env[env[other]]
  <2>1. Registered(env, m, k) = SetVar(keyed, MetaCap, m, k)
    BY DEF Registered
  <2> HIDE DEF keyed, id
  <2>2. \A y \in Names \ {m} : SetVar(keyed, MetaCap, m, k)[y] = keyed[y]
    BY <1>5 DEF SetVar
  <2> QED
    BY <1>0, <1>1, <1>5, <2>1, <2>2
<1> QED
  BY <1>6 DEF PartitionIn

(* Steps that leave the mapping cache and the answers alone.               *)
LEMMA MapStays ==
    ASSUME SlotsSound, mapCache' = mapCache, TypeOK,
           \A m \in Modules : PartitionIn(Seen(0).env, m) # 0
               => PartitionIn(Seen(0)'.env, m) = PartitionIn(Seen(0).env, m)
    PROVE  SlotsSound'
BY DEF SlotsSound

LEMMA MapAdded ==
    ASSUME TypeOK, SlotsSound, NEW m \in Modules,
           MappingCacheAdd(m, PartitionIn(Seen(0).env, m)),
           Seen(0)'.env = Seen(0).env
    PROVE  SlotsSound'
<1> SUFFICES ASSUME NEW i \in 0 .. MapSize - 1, mapCache'[i].part # 0
             PROVE  /\ mapCache'[i].mod \in Modules
                    /\ mapCache'[i].part = PartitionIn(Seen(0)'.env, mapCache'[i].mod)
  BY DEF SlotsSound
<1>1. PartitionIn(Seen(0)'.env, mapCache'[i].mod) = PartitionIn(Seen(0).env, mapCache'[i].mod)
  BY DEF PartitionIn
<1>2. CASE i = mapIndex
  <2>1. mapCache'[i] = [mod |-> m, part |-> PartitionIn(Seen(0).env, m)]
    BY <1>2 DEF MappingCacheAdd, TypeOK
  <2> QED
    BY <1>1, <2>1
<1>3. CASE i # mapIndex
  <2>1. mapCache'[i] = mapCache[i]
    BY <1>3 DEF MappingCacheAdd, TypeOK
  <2> QED
    BY <1>1, <2>1 DEF SlotsSound
<1> QED
  BY <1>2, <1>3

\* Steps that change neither the caches nor the flash.
LEMMA MapSame ==
    ASSUME SlotsSound, UNCHANGED <<cacheNum, cacheBuf, mapCache, flash>>
    PROVE  SlotsSound'
BY DEF SlotsSound, Seen, Cached

LEMMA MapInside ==
    ASSUME BaseInv, MapInv, NEW a \in Actors, Inside(a)
    PROVE  MapInv'
<1>1. /\ TypeOK /\ CacheInv /\ SessionAt(a)
      /\ Alone(a) /\ Alone(a)'
  BY AloneInside DEF BaseInv, SessionInv
<1>2. errs' = 0 => errs = 0
  BY <1>1 DEF Inside, TypeOK, Release, ErasePage, ErasePageFails, ProgramPage,
          ProgramPageFails, LookupHit, LookupMiss, Load, WipePage, WipeFails,
          WipeDone, FormatNext, counters
<1>3. pc[a] \notin {"using", "erase", "write", "wipe"} => Quiet(a)
  BY <1>1 DEF BaseInv, DirtyInv, Quiet
<1>4. errs = 0 => MapAt(a)
  BY <1>1, MapHere
<1> SUFFICES ASSUME errs' = 0, errs = 0, MapAt(a)
             PROVE  MapAt(a)'
  BY <1>1, <1>2, <1>4, MapAlone
<1> USE DEF MapAt, RefillAt
<1>5. CASE Release(a)
  BY <1>1, <1>5, MapSame DEF Release, ram, Goto, TypeOK, Refills
<1>6. CASE LookupHit(a)
  BY <1>1, <1>6, MapSame DEF LookupHit, ram, Goto, TypeOK, Refills, SessionAt
<1>7. CASE LookupMiss(a)
  <2>1. ReadPartition(0) /\ flash' = flash /\ pc[a] = "lookup" /\ Quiet(a)
    BY <1>3, <1>7 DEF LookupMiss
  <2>2. Seen(0)'.env = Seen(0).env /\ (cacheNum' = 0 => ~unsaved')
    BY <1>1, <2>1, ReadKeepsMeta, PagesType
  <2>3. SlotsSound'
    <3>1. CASE mapCache' = mapCache
      BY <1>1, <2>1, <2>2, <3>1, MapStays DEF PartitionIn
    <3>2. CASE mapCache' # mapCache
      <4>1. MappingCacheAdd(handle[a].mod, PartitionIn(Seen(0).env, handle[a].mod))
        BY <1>7, <3>2 DEF LookupMiss
      <4>2. handle[a].mod \in Modules
        BY <1>1, <2>1 DEF SessionAt
      <4> QED
        BY <1>1, <2>1, <2>2, <4>1, <4>2, MapAdded
    <3> QED
      BY <3>1, <3>2
  <2>4. pc'[a] \in {"load", "release"} /\ ret'[a] = ret[a]
    BY <1>1, <1>7 DEF LookupMiss, Goto, TypeOK, SessionAt
  <2> QED
    BY <2>2, <2>3, <2>4 DEF Refills
<1>8. CASE Load(a)
  <2>1. /\ ReadPartition(handle[a].part) /\ flash' = flash /\ pc[a] = "load" /\ Quiet(a)
        /\ handle[a].part \in Pages /\ mapCache' = mapCache
    BY <1>1, <1>3, <1>8 DEF Load, TypeOK, Handle
  <2>2. Seen(0)'.env = Seen(0).env /\ (cacheNum' = 0 => ~unsaved')
    BY <1>1, <2>1, ReadKeepsMeta
  <2>3. SlotsSound'
    BY <1>1, <2>1, <2>2, MapStays DEF PartitionIn
  <2>4. pc'[a] \in {"using", "release"}
    BY <1>1, <1>8 DEF Load, Goto, TypeOK
  <2> QED
    BY <2>2, <2>3, <2>4 DEF Refills
<1>9. CASE ErasePage(a) \/ ProgramPage(a)
  <2>1. /\ pc[a] \in {"erase", "write"} /\ cacheNum \in Pages
        /\ UNCHANGED <<mapCache, cacheNum, cacheBuf, ret>>
    BY <1>1, <1>9 DEF ErasePage, ProgramPage, ram, SessionAt
  <2>2. \E page : flash' = [flash EXCEPT ![cacheNum] = page]
    BY <1>9 DEF ErasePage, ProgramPage
  <2>3. Seen(0)' = Seen(0)
    BY <1>1, <2>1, <2>2, PagesType DEF Seen, Cached, TypeOK
  <2>4. SlotsSound'
    BY <1>1, <2>1, <2>3, MapStays DEF PartitionIn
  <2>5. CASE ErasePage(a)
    <3>1. pc'[a] = "write" /\ unsaved' = unsaved
      BY <1>1, <2>5 DEF ErasePage, Goto, TypeOK
    <3> QED
      BY <2>1, <2>4, <3>1 DEF Refills, SlotsEmpty
  <2>6. CASE ProgramPage(a)
    <3>1. pc'[a] = ret[a] /\ ~unsaved' /\ pc[a] = "write"
      BY <1>1, <2>6 DEF ProgramPage, EndWrite, Goto, TypeOK
    <3>2. ret[a] \in {"using", "release", "format"}
      BY <1>1, <2>1 DEF SessionAt
    <3> QED
      BY <2>1, <2>4, <3>1, <3>2 DEF Refills, SlotsEmpty
  <2> QED
    BY <1>9, <2>5, <2>6
<1>10. CASE ErasePageFails(a) \/ ProgramPageFails(a) \/ WipeFails(a)
  BY <1>1, <1>10 DEF ErasePageFails, ProgramPageFails, WipeFails, TypeOK
<1>11. CASE WipePage(a)
  BY <1>11 DEF WipePage, ram, Refills
<1>12. CASE WipeDone(a)
  <2>1. SlotsEmpty'
    BY <1>1, <1>12 DEF WipeDone, SlotsEmpty, TypeOK, Slot
  <2>2. cacheNum' # 0 /\ pc'[a] = "erase"
    BY <1>1, <1>12, SizesAssumption DEF WipeDone, WriteThen, Goto, TypeOK
  <2> QED
    BY <2>1, <2>2 DEF SlotsEmpty, SlotsSound
<1>13. CASE FormatNext(a)
  <2>1. SlotsEmpty /\ ~unsaved /\ mapCache' = mapCache /\ unsaved' = unsaved
    BY <1>13 DEF FormatNext, Refills
  <2>2. SlotsEmpty' /\ SlotsSound'
    BY <2>1 DEF SlotsEmpty, SlotsSound
  <2> QED
    BY <2>1, <2>2
<1> QED
  BY <1>5, <1>6, <1>7, <1>8, <1>9, <1>10, <1>11, <1>12, <1>13 DEF Inside

LEMMA MapCall ==
    ASSUME BaseInv, MapInv, NEW t \in Tasks, Call(t)
    PROVE  MapInv'
<1>1. /\ TypeOK /\ CacheInv /\ SessionAt(t) /\ t \in Actors
      /\ Alone(t) /\ Alone(t)'
  BY AloneCall DEF BaseInv, SessionInv, Actors
<1>2. errs' = errs
  BY DEF Call, Open, GetPartitionId, Set, Commit, Close, Register, ErasePartition,
         EraseAndInit, counters
<1>3. Ready(t) => Quiet(t) /\ pc[t] = "idle"
  BY <1>1 DEF BaseInv, DirtyInv, Quiet, Ready
<1>4. errs = 0 => MapAt(t)
  BY <1>1, MapHere
<1> SUFFICES ASSUME errs = 0, MapAt(t) PROVE MapAt(t)'
  BY <1>1, <1>2, <1>4, MapAlone
<1> USE DEF MapAt, RefillAt
<1>5. ASSUME NEW m \in Modules, Open(t, m) \/ GetPartitionId(t, m)
      PROVE  MapAt(t)'
  <2>1. SlotsSound'
    BY <1>3, <1>5, MapSame DEF Open, GetPartitionId, ram
  <2> QED
    BY <1>1, <1>5, <2>1 DEF Open, GetPartitionId, ram, Goto, TypeOK, Refills
<1>6. ASSUME NEW x \in Vars, NEW v \in Vals, Set(t, x, v)
      PROVE  MapAt(t)'
  <2>1. cacheNum # 0 /\ cacheNum' = cacheNum /\ UNCHANGED <<pc, mapCache, flash>>
    BY <1>1, <1>6 DEF Set, SessionAt
  <2>2. SlotsSound'
    BY <1>6, <2>1 DEF Set, SlotsSound, Seen
  <2> QED
    BY <1>6, <2>1, <2>2 DEF Set, Refills
<1>7. CASE Commit(t) \/ Close(t)
  <2>1. SlotsSound'
    BY <1>7, MapSame DEF Commit, Close, ram
  <2>2. cacheNum' # 0 /\ ~Refills(t)'
    BY <1>1, <1>7 DEF Commit, Close, ram, SessionAt, WriteThen, Goto, TypeOK, Refills
  <2> QED
    BY <1>1, <1>7, <2>1, <2>2 DEF Refills
<1>8. ASSUME NEW m \in Modules, NEW k \in Keys, NEW creat \in BOOLEAN,
             Register(t, m, k, creat)
      PROVE  MapAt(t)'
  <2>1. Ready(t) /\ flash' = flash /\ mapCache' = mapCache /\ Seen(0).env \in Env
    BY <1>1, <1>8, SeenType, PagesType DEF Register, Page
  <2>2. CASE Seen(0).ok /\ CanRegister(Seen(0).env, m, k, creat)
    <3>1. /\ Seen(0)'.env = Registered(Seen(0).env, m, k)
          /\ ~unsaved'
      BY <1>3, <1>8, <2>1, <2>2 DEF Register, Seen, Cached
    <3>2. SlotsSound'
      BY <1>1, <1>3, <2>1, <2>2, <3>1, MapStays, RegisteredKeeps
    <3>3. pc'[t] = "erase" /\ ret'[t] = "release"
      BY <1>1, <1>8, <2>2 DEF Register, WriteThen, Goto, TypeOK
    <3> QED
      BY <3>1, <3>2, <3>3 DEF Refills
  <2>3. CASE ~(Seen(0).ok /\ CanRegister(Seen(0).env, m, k, creat))
    <3>1. ReadPartition(0) /\ pc'[t] = "release"
      BY <1>1, <1>8, <2>3 DEF Register, Goto, TypeOK
    <3>2. Seen(0)'.env = Seen(0).env /\ (cacheNum' = 0 => ~unsaved')
      BY <1>1, <1>3, <2>1, <3>1, ReadKeepsMeta, PagesType
    <3>3. SlotsSound'
      BY <1>1, <1>3, <2>1, <3>2, MapStays DEF PartitionIn
    <3> QED
      BY <3>1, <3>2, <3>3 DEF Refills
  <2> QED
    BY <2>2, <2>3
<1>9. ASSUME NEW n \in 1 .. NParts, ErasePartition(t, n)
      PROVE  MapAt(t)'
  <2>1. /\ Ready(t) /\ UNCHANGED <<flash, mapCache>>
        /\ cacheNum' # 0 /\ pc'[t] = "erase" /\ ret'[t] = "release"
    BY <1>1, <1>9 DEF ErasePartition, WriteThen, Goto, TypeOK
  <2>2. cacheNum = 0 => flash[0] = Cached
    <3>1. \A b \in Actors : Quiet(b)
      BY <1>1, <1>3, <2>1 DEF Alone, Quiet
    <3> QED
      BY <1>1, <3>1 DEF CacheInv
  <2>3. Seen(0)' = Seen(0)
    BY <2>1, <2>2 DEF Seen, Cached
  <2>4. SlotsSound'
    BY <1>1, <1>3, <2>1, <2>3, MapStays DEF PartitionIn
  <2> QED
    BY <2>1, <2>4 DEF Refills
<1>10. CASE EraseAndInit(t)
  BY <1>1, <1>10 DEF EraseAndInit, StartFormat, Goto, TypeOK, Refills, ram
<1> QED
  BY <1>5, <1>6, <1>7, <1>8, <1>9, <1>10 DEF Call

LEMMA MapBoot ==
    ASSUME BaseInv, MapInv, BootFinds(Boot) \/ BootFormats(Boot)
    PROVE  MapInv'
<1>1. /\ TypeOK /\ CacheInv /\ Alone(Boot) /\ Alone(Boot)' /\ pc[Boot] = "init"
      /\ Boot \in Actors /\ ~handle[Boot].dirty
  BY AloneBoot DEF BaseInv, DirtyInv
<1>2. errs' = errs
  BY DEF BootFinds, BootFormats, counters
<1>3. errs = 0 => MapAt(Boot)
  BY <1>1, MapHere
<1> SUFFICES ASSUME errs = 0, MapAt(Boot) PROVE MapAt(Boot)'
  BY <1>1, <1>2, <1>3, MapAlone
<1> USE DEF MapAt, RefillAt
<1>4. CASE BootFinds(Boot)
  <2>1. ReadPartition(0) /\ UNCHANGED <<flash, mapCache>> /\ pc'[Boot] = "idle"
    BY <1>1, <1>4 DEF BootFinds, Goto, TypeOK
  <2>2. Seen(0)'.env = Seen(0).env /\ (cacheNum' = 0 => ~unsaved')
    BY <1>1, <2>1, ReadKeepsMeta, PagesType DEF Quiet
  <2>3. SlotsSound'
    BY <1>1, <2>1, <2>2, MapStays DEF PartitionIn
  <2> QED
    BY <2>1, <2>2, <2>3 DEF Refills
<1>5. CASE BootFormats(Boot)
  BY <1>1, <1>5 DEF BootFormats, StartFormat, Goto, TypeOK, Refills, ram
<1> QED
  BY <1>4, <1>5

(* Until a flash operation fails, the mapping cache never answers for a    *)
(* metadata page that is gone: a format flushes it before psm can be used  *)
(* again, registrations only add to what it was filled from, and its ring  *)
(* overwrites whole entries.                                               *)
THEOREM MapCacheCoherent == Spec => []MapCacheSound
<1>1. Init => MapInv
  BY DEF Init, MapInv, RefillAt, Refills, SlotsSound, NoSlot
<1>2. BaseInv /\ MapInv /\ [Next]_vars => MapInv'
  <2> SUFFICES ASSUME BaseInv, MapInv, [Next]_vars PROVE MapInv'
    OBVIOUS
  <2>1. ASSUME NEW a \in Actors, Inside(a) PROVE MapInv'
    BY <2>1, MapInside
  <2>2. ASSUME NEW t \in Tasks, Call(t) PROVE MapInv'
    BY <2>2, MapCall
  <2>3. CASE BootFinds(Boot) \/ BootFormats(Boot)
    BY <2>3, MapBoot
  <2>4. CASE Crash
    BY <2>4 DEF Crash, ColdRam, MapInv, RefillAt, Refills, SlotsSound, NoSlot
  <2>5. CASE UNCHANGED vars
    BY <2>5 DEF vars, ram, counters, MapInv, RefillAt, Refills, SlotsSound,
                SlotsEmpty, Seen, Cached
  <2> QED
    BY <2>1, <2>2, <2>3, <2>4, <2>5 DEF Next
<1>3. TypeOK /\ MapInv => MapCacheSound
  <2> SUFFICES ASSUME TypeOK, MapInv, errs = 0, ~Formatting,
                      NEW m \in Modules, CachedPartition(m) # 0
               PROVE  CachedPartition(m) = PartitionIn(Seen(0).env, m)
    BY DEF MapCacheSound
  <2>1. SlotsSound
    BY DEF MapInv, Formatting
  <2> DEFINE i == CHOOSE i \in Hits(m) : TRUE
  <2>2. Hits(m) # {} /\ CachedPartition(m) = mapCache[i].part
    BY DEF CachedPartition
  <2>3. i \in Hits(m)
    BY <2>2
  <2>4. i \in 0 .. MapSize - 1 /\ mapCache[i].mod = m
    BY <2>3 DEF Hits
  <2> QED
    BY <2>1, <2>2, <2>4 DEF SlotsSound
<1> QED
  BY <1>1, <1>2, <1>3, TypeCorrect, BaseInvariant, PTL DEF Spec
----------------------------------------------------------------------------
(* A page of a module holds variables only                                 *)

VarsOnly(env) == \A x \in Names \ (Modules \X Vars) : env[x] = NoVal

VarsInv ==
    /\ \A n \in 1 .. NParts : VarsOnly(flash[n].env)
    /\ cacheNum \in 1 .. NParts => VarsOnly(cacheBuf)

LEMMA VarsInside ==
    ASSUME TypeOK, VarsInv, NEW a \in Actors, Inside(a)
    PROVE  VarsInv'
<1> USE DEF VarsInv
<1>0. VarsOnly(EmptyEnv) /\ VarsOnly(Blank.env) /\ Cached.env = cacheBuf
  BY DEF VarsOnly, EmptyEnv, Blank, Cached
<1>1. \A n \in 1 .. NParts : n \in Pages
  BY SizesAssumption DEF Pages
<1>2. CASE Release(a) \/ LookupHit(a) \/ ProgramPageFails(a)
  BY <1>2 DEF Release, LookupHit, ProgramPageFails, ram
<1>3. CASE ErasePage(a) \/ ErasePageFails(a) \/ ProgramPage(a)
  BY <1>0, <1>1, <1>3 DEF ErasePage, ErasePageFails, ProgramPage, ram, TypeOK
<1>4. CASE LookupMiss(a) \/ Load(a)
  BY <1>4, SizesAssumption DEF LookupMiss, Load, ReadPartition
<1>5. CASE WipePage(a) \/ WipeFails(a)
  BY <1>0, <1>1, <1>5 DEF WipePage, WipeFails, ram, TypeOK
<1>6. CASE WipeDone(a)
  BY <1>0, <1>6 DEF WipeDone
<1>7. CASE FormatNext(a)
  BY <1>0, <1>7, SizesAssumption DEF FormatNext
<1> QED
  BY <1>2, <1>3, <1>4, <1>5, <1>6, <1>7 DEF Inside

LEMMA VarsCall ==
    ASSUME TypeOK, SessionInv, VarsInv, NEW t \in Tasks, Call(t)
    PROVE  VarsInv'
<1> USE DEF VarsInv
<1>1. ASSUME NEW x \in Vars, NEW v \in Vals, Set(t, x, v)
      PROVE  VarsInv'
  <2>1. /\ cacheNum \in 1 .. NParts /\ handle[t].mod \in Modules
        /\ cacheNum' = cacheNum /\ flash' = flash
    BY <1>1 DEF Set, SessionInv, SessionAt, Actors
  <2>2. <<handle[t].mod, x>> \in Modules \X Vars
    BY <2>1
  <2>3. VarsOnly(cacheBuf')
    BY <1>1, <2>1, <2>2 DEF Set, SetVar, VarsOnly, TypeOK, Env
  <2> QED
    BY <2>1, <2>3
<1>2. ASSUME NEW m \in Modules, NEW k \in Keys, NEW creat \in BOOLEAN,
             Register(t, m, k, creat)
      PROVE  VarsInv'
  BY <1>2 DEF Register, ReadPartition
<1>3. ASSUME NEW n \in 1 .. NParts, ErasePartition(t, n)
      PROVE  VarsInv'
  BY <1>3 DEF ErasePartition, VarsOnly, EmptyEnv
<1>4. ASSUME NEW m \in Modules, Open(t, m) \/ GetPartitionId(t, m)
      PROVE  VarsInv'
  BY <1>4 DEF Open, GetPartitionId, ram
<1>5. CASE Commit(t) \/ Close(t) \/ EraseAndInit(t)
  BY <1>5 DEF Commit, Close, EraseAndInit, ram
<1> QED
  BY <1>1, <1>2, <1>3, <1>4, <1>5 DEF Call

LEMMA VarsAlways == Spec => []VarsInv
<1>1. Init => VarsInv
  BY SizesAssumption DEF Init, VarsInv, VarsOnly, Blank, EmptyEnv, Pages
<1>2. BaseInv /\ VarsInv /\ [Next]_vars => VarsInv'
  <2> SUFFICES ASSUME TypeOK, SessionInv, VarsInv, [Next]_vars PROVE VarsInv'
    BY DEF BaseInv
  <2>1. ASSUME NEW a \in Actors, Inside(a) PROVE VarsInv'
    BY <2>1, VarsInside
  <2>2. ASSUME NEW t \in Tasks, Call(t) PROVE VarsInv'
    BY <2>2, VarsCall
  <2>3. CASE BootFinds(Boot) \/ BootFormats(Boot)
    BY <2>3, SizesAssumption DEF BootFinds, BootFormats, ReadPartition, VarsInv, ram
  <2>4. CASE Crash
    BY <2>4 DEF Crash, ColdRam, VarsInv
  <2>5. CASE UNCHANGED vars
    BY <2>5 DEF vars, ram, VarsInv
  <2> QED
    BY <2>1, <2>2, <2>3, <2>4, <2>5 DEF Next
<1> QED
  BY <1>1, <1>2, BaseInvariant, PTL DEF Spec
----------------------------------------------------------------------------
(* What formatting leaves behind, while flash operations succeed           *)

\* All the variables of all modules fit in one page.
Roomy ==
    \A env \in Env, x \in Modules \X Vars : VarsOnly(env) => Fits(env, VarCap, x)

FormatAt(a) ==
    /\ pc[a] = "wipe" => \A n \in Pages : n < wiped => flash[n] = Blank
    /\ Refills(a) =>
           /\ \A n \in Pages : n > cacheNum => flash[n] = FreshPage(n)
           /\ cacheNum # 0 => flash[0] = Blank
           /\ pc[a] # "format" => Cached = FreshPage(cacheNum)
           /\ pc[a] = "format" => flash[cacheNum] = FreshPage(cacheNum)
    /\ pc[a] = "write" => flash[cacheNum] = Blank
    /\ a = Boot /\ pc[a] = "release" => flash[0].ok

\* Nothing has failed, and the page being written is erased.
FormatInv ==
    /\ errs = 0 /\ ~unsaved
    /\ mutex # NoTask => pc[mutex] # "idle"
    /\ \A a \in Actors : FormatAt(a)

LEMMA FormatAlone ==
    ASSUME NEW a \in Actors, Alone(a)', FormatAt(a)'
    PROVE  \A b \in Actors : FormatAt(b)'
BY DEF Alone, FormatAt, Refills

LEMMA HeldInside ==
    ASSUME TypeOK, LockInv, mutex # NoTask => pc[mutex] # "idle",
           NEW a \in Actors, Inside(a), Alone(a)
    PROVE  mutex' # NoTask => pc'[mutex'] # "idle"
<1>1. pc[a] # "idle"
  BY InsideNotIdle
<1>2. mutex # NoTask => mutex = a
  BY DEF Alone, TypeOK, Actors
<1>3. CASE Release(a)
  BY <1>3 DEF Release
<1>4. CASE ~Release(a)
  <2>1. mutex' = mutex
    BY <1>4 DEF Inside, ErasePage, ErasePageFails, ProgramPage, ProgramPageFails,
                LookupHit, LookupMiss, Load, WipePage, WipeFails, WipeDone, FormatNext
  <2>2. ret[a] # "idle"
    BY DEF TypeOK, Returns
  <2>3. pc'[a] # "idle"
    BY <1>1, <1>4, <2>2
    DEF Inside, ErasePage, ErasePageFails, ProgramPage, ProgramPageFails, LookupHit,
        LookupMiss, Load, WipePage, WipeFails, WipeDone, FormatNext, WriteThen,
        EndWrite, Goto, TypeOK
  <2> QED
    BY <1>2, <2>1, <2>3
<1> QED
  BY <1>3, <1>4

LEMMA FormatInside ==
    ASSUME MaxErrs = 0, BaseInv, FormatInv, NEW a \in Actors, Inside(a)
    PROVE  FormatInv'
<1>1. TypeOK /\ SessionAt(a) /\ FormatAt(a) /\ Alone(a)' /\ errs = 0 /\ ~unsaved
  BY AloneInside DEF BaseInv, SessionInv, FormatInv
<1>2. mutex' # NoTask => pc'[mutex'] # "idle"
  BY HeldInside, AloneInside DEF BaseInv, FormatInv
<1>3. ~ErasePageFails(a) /\ ~ProgramPageFails(a) /\ ~WipeFails(a)
  BY <1>1 DEF ErasePageFails, ProgramPageFails, WipeFails
<1>4. errs' = 0 /\ ~unsaved'
  BY <1>1, <1>3 DEF Inside, Release, ErasePage, ProgramPage, LookupHit, LookupMiss,
     Load, WipePage, WipeDone, FormatNext, ReadPartition, counters
<1> SUFFICES FormatAt(a)'
  BY <1>1, <1>2, <1>4, FormatAlone DEF FormatInv
<1> USE DEF FormatAt, Refills
<1>5. CASE Release(a) \/ LookupHit(a)
  BY <1>1, <1>5 DEF Release, LookupHit, Goto, TypeOK, SessionAt
<1>6. CASE LookupMiss(a) \/ Load(a)
  BY <1>1, <1>6 DEF LookupMiss, Load, Goto, TypeOK, SessionAt
<1>7. CASE ErasePage(a)
  <2>1. pc[a] = "erase" /\ pc'[a] = "write" /\ cacheNum \in Pages
    BY <1>1, <1>7 DEF ErasePage, Goto, TypeOK, SessionAt
  <2>2. /\ flash'[cacheNum] = Blank
        /\ \A n \in Pages \ {cacheNum} : flash'[n] = flash[n]
    BY <1>1, <1>7, <2>1 DEF ErasePage, TypeOK
  <2>3. UNCHANGED <<ret, cacheNum, cacheBuf>>
    BY <1>7 DEF ErasePage, ram
  <2> QED
    BY <1>1, <2>1, <2>2, <2>3, PagesType DEF Cached
<1>8. CASE ProgramPage(a)
  <2>1. /\ pc[a] = "write" /\ pc'[a] = ret[a] /\ cacheNum \in Pages
        /\ ret[a] \in {"using", "release", "format"} /\ (a = Boot => ret[a] = "format")
    BY <1>1, <1>8 DEF ProgramPage, EndWrite, Goto, TypeOK, SessionAt
  <2>2. /\ flash'[cacheNum] = Cached
        /\ \A n \in Pages \ {cacheNum} : flash'[n] = flash[n]
    BY <1>1, <1>8, <2>1 DEF ProgramPage, TypeOK
  <2>3. UNCHANGED <<ret, cacheNum, cacheBuf>>
    BY <1>8 DEF ProgramPage, ram
  <2> QED
    BY <1>1, <2>1, <2>2, <2>3, PagesType DEF Cached
<1>9. CASE WipePage(a)
  <2>1. wiped \in Pages /\ wiped' = wiped + 1 /\ pc' = pc /\ pc[a] = "wipe"
    BY <1>1, <1>9, SizesAssumption DEF WipePage, TypeOK, Pages
  <2>2. /\ flash'[wiped] = Blank
        /\ \A n \in Pages \ {wiped} : flash'[n] = flash[n]
    BY <1>1, <1>9, <2>1 DEF WipePage, TypeOK
  <2>3. \A n \in Pages : n < wiped' => n = wiped \/ n < wiped
    BY <2>1, SizesAssumption DEF Pages
  <2> QED
    BY <1>1, <2>1, <2>2, <2>3
<1>10. CASE WipeDone(a)
  <2>1. /\ pc[a] = "wipe" /\ wiped = NParts + 1 /\ flash' = flash
        /\ cacheNum' = NParts /\ cacheBuf' = EmptyEnv
        /\ pc'[a] = "erase" /\ ret'[a] = "format"
    BY <1>1, <1>10 DEF WipeDone, WriteThen, Goto, TypeOK
  <2>2. flash[0] = Blank
    BY <1>1, <2>1, SizesAssumption DEF Pages
  <2>3. Cached' = FreshPage(NParts)
    BY <2>1, SizesAssumption DEF Cached, FreshPage
  <2>4. \A n \in Pages : ~(n > NParts)
    BY SizesAssumption DEF Pages
  <2> QED
    BY <1>1, <2>1, <2>2, <2>3, <2>4
<1>11. CASE FormatNext(a)
  <2>1. /\ pc[a] = "format" /\ flash' = flash /\ cacheNum \in Pages
        /\ flash[cacheNum] = FreshPage(cacheNum)
    BY <1>1, <1>11 DEF FormatNext, SessionAt
  <2>2. CASE cacheNum > 0
    <3>1. /\ pc'[a] = "erase" /\ ret'[a] = "format"
          /\ cacheNum' = cacheNum - 1
          /\ cacheBuf' = IF cacheNum = 1 THEN FreshMeta ELSE EmptyEnv
      BY <1>1, <1>11, <2>2 DEF FormatNext, WriteThen, Goto, TypeOK
    <3>2. Cached' = FreshPage(cacheNum')
      BY <2>1, <2>2, <3>1, SizesAssumption DEF Cached, FreshPage, Pages
    <3>3. \A n \in Pages : n > cacheNum' => n = cacheNum \/ n > cacheNum
      BY <2>1, <3>1, SizesAssumption DEF Pages
    <3> QED
      BY <1>1, <2>1, <2>2, <3>1, <3>2, <3>3
  <2>3. CASE ~(cacheNum > 0)
    <3>1. cacheNum = 0 /\ pc'[a] = "release"
      BY <1>1, <1>11, <2>1, <2>3, SizesAssumption DEF FormatNext, Goto, TypeOK, Pages
    <3> QED
      BY <2>1, <3>1 DEF FreshPage
  <2> QED
    BY <2>2, <2>3
<1> QED
  BY <1>3, <1>5, <1>6, <1>7, <1>8, <1>9, <1>10, <1>11 DEF Inside

\* What a call leaves: the mutex taken, and nothing formatted yet.
CallLeaves(t) ==
    /\ errs' = 0 /\ ~unsaved'
    /\ mutex' = t /\ pc'[t] # "idle"
    /\ pc'[t] # "write" /\ ~Refills(t)'
    /\ pc'[t] = "wipe" => wiped' = 0

LEMMA FormatCall ==
    ASSUME Roomy, BaseInv, VarsInv, FormatInv, NEW t \in Tasks, Call(t)
    PROVE  FormatInv'
<1>1. /\ TypeOK /\ SessionAt(t) /\ Alone(t)' /\ errs = 0 /\ ~unsaved
      /\ t \in Actors /\ t # Boot /\ LockInv
  BY AloneCall, ActorsAssumption DEF BaseInv, SessionInv, FormatInv, Actors
<1> SUFFICES CallLeaves(t)
  <2>1. \A n \in Pages : ~(n < 0)
    BY SizesAssumption DEF Pages
  <2>2. ASSUME CallLeaves(t) PROVE FormatInv'
    <3>1. FormatAt(t)'
      BY <1>1, <2>1, <2>2 DEF FormatAt, CallLeaves
    <3> QED
      BY <1>1, <2>2, <3>1, FormatAlone DEF FormatInv, CallLeaves
  <2> QED
    BY <2>2
<1> USE DEF CallLeaves, Refills
<1>2. ASSUME NEW m \in Modules, Open(t, m) \/ GetPartitionId(t, m)
      PROVE  CallLeaves(t)
  BY <1>1, <1>2 DEF Open, GetPartitionId, GetMutex, Goto, TypeOK, counters
<1>3. ASSUME NEW x \in Vars, NEW v \in Vals, Set(t, x, v)
      PROVE  CallLeaves(t)
  <2>1. handle[t].mod \in Modules /\ VarsOnly(cacheBuf)
    BY <1>1, <1>3 DEF Set, SessionAt, VarsInv
  <2>2. pc[t] = "using" /\ pc' = pc /\ mutex' = mutex /\ mutex = t
    BY <1>1, <1>3 DEF Set, LockInv
  <2>3. errs' = 0 /\ ~unsaved'
    BY <1>1, <1>3, <2>1 DEF Set, counters, Roomy, TypeOK, SessionAt
  <2> QED
    BY <2>2, <2>3
<1>4. CASE Commit(t) \/ Close(t)
  BY <1>1, <1>4 DEF Commit, Close, WriteThen, Goto, TypeOK, counters, LockInv, SessionAt
<1>5. ASSUME NEW m \in Modules, NEW k \in Keys, NEW creat \in BOOLEAN,
             Register(t, m, k, creat)
      PROVE  CallLeaves(t)
  BY <1>1, <1>5
  DEF Register, GetMutex, WriteThen, Goto, TypeOK, counters, ReadPartition
<1>6. ASSUME NEW n \in 1 .. NParts, ErasePartition(t, n)
      PROVE  CallLeaves(t)
  BY <1>1, <1>6 DEF ErasePartition, GetMutex, WriteThen, Goto, TypeOK, counters
<1>7. CASE EraseAndInit(t)
  BY <1>1, <1>7 DEF EraseAndInit, GetMutex, StartFormat, Goto, TypeOK
<1> QED
  BY <1>2, <1>3, <1>4, <1>5, <1>6, <1>7 DEF Call

LEMMA FormatStep ==
    ASSUME MaxErrs = 0, Roomy, BaseInv, VarsInv, FormatInv, [Next]_vars
    PROVE  FormatInv'
<1>1. ASSUME NEW a \in Actors, Inside(a) PROVE FormatInv'
  BY <1>1, FormatInside
<1>2. ASSUME NEW t \in Tasks, Call(t) PROVE FormatInv'
  BY <1>2, FormatCall
<1>3. CASE BootFinds(Boot) \/ BootFormats(Boot)
  <2>1. /\ Alone(Boot)' /\ pc[Boot] = "init" /\ Boot \in Actors
        /\ mutex = NoTask
    BY <1>3, AloneBoot, ActorsAssumption DEF BaseInv, FormatInv, Alone, TypeOK, Actors
  <2>2. mutex' = mutex /\ errs' = 0 /\ ~unsaved'
    BY <1>3 DEF BootFinds, BootFormats, ReadPartition, counters, FormatInv
  <2>3. \A n \in Pages : ~(n < 0)
    BY SizesAssumption DEF Pages
  <2>4. FormatAt(Boot)'
    BY <1>3, <2>1, <2>3
    DEF BootFinds, BootFormats, StartFormat, Goto, BaseInv, TypeOK, FormatAt, Refills
  <2> QED
    BY <2>1, <2>2, <2>4, FormatAlone DEF FormatInv
<1>4. CASE Crash
  BY <1>4 DEF Crash, ColdRam, FormatInv, FormatAt, Refills
<1>5. CASE UNCHANGED vars
  BY <1>5 DEF vars, ram, counters, FormatInv, FormatAt, Refills, Cached
<1> QED
  BY <1>1, <1>2, <1>3, <1>4, <1>5 DEF Next
----------------------------------------------------------------------------
(* Psm implements PsmStore                                                 *)

LEMMA BlankPage == Blank \in Page /\ \A env : [ok |-> TRUE, env |-> env] # Blank
BY FreshMetaType DEF Blank, Page

InSession(a) == pc[a] \in {"using", "erase", "write"} /\ ret[a] # "format"

Formats(a) == pc[a] = "wipe" \/ Refills(a)

\* The abstract state, while nobody but a is inside psm.
ViewOf(a) ==
    /\ StoreDisk = IF pc[a] = "write" THEN [flash EXCEPT ![cacheNum] = Cached] ELSE flash
    /\ StorePage = IF InSession(a) THEN cacheNum ELSE NoTask
    /\ StoreDraft = IF InSession(a) THEN Cached ELSE Blank
    /\ Formatting = Formats(a)

LEMMA View ==
    ASSUME NEW a \in Actors, Alone(a), flash \in [Pages -> Page]
    PROVE  ViewOf(a)
<1>1. (Writer # {}) = (pc[a] = "write")
  BY DEF Alone, Writer
<1>2. (Session # {}) = InSession(a)
  BY DEF Alone, Session, InSession
<1>3. Formatting = Formats(a)
  BY DEF Alone, Formatting, Formats, Refills
<1> QED
  BY <1>1, <1>2, <1>3 DEF StoreDisk, StorePage, StoreDraft, ViewOf

LEMMA ViewNext ==
    ASSUME NEW a \in Actors, Alone(a)', flash' \in [Pages -> Page]
    PROVE  ViewOf(a)'
<1>1. (Writer # {})' = (pc'[a] = "write")
  BY DEF Alone, Writer
<1>2. (Session # {})' = InSession(a)'
  BY DEF Alone, Session, InSession
<1>3. Formatting' = Formats(a)'
  BY DEF Alone, Formatting, Formats, Refills
<1> QED
  BY <1>1, <1>2, <1>3 DEF StoreDisk, StorePage, StoreDraft, ViewOf

\* A step that nobody sees.
Unseen == UNCHANGED <<StoreDisk, StoreUp, Formatting, mutex, StorePage, StoreDraft>>

LEMMA UnseenStep == Unseen => UNCHANGED Store!svars
BY DEF Unseen, Store!svars

LEMMA StoreLookup ==
    ASSUME BaseInv, FormatInv, NEW a \in Actors, ViewOf(a), ViewOf(a)',
           LookupHit(a) \/ LookupMiss(a)
    PROVE  Unseen
<1>1. TypeOK /\ SessionAt(a) /\ FormatAt(a) /\ pc[a] = "lookup"
  BY DEF BaseInv, SessionInv, FormatInv, LookupHit, LookupMiss
<1>2. pc'[a] \in {"load", "release"} /\ pc'[Boot] = pc[Boot]
  <2>1. a # Boot /\ ret[a] \in {"load", "release"}
    BY <1>1 DEF FormatAt, SessionAt
  <2>2. \E label \in {ret[a], "release"} : Goto(a, label)
    BY DEF LookupHit, LookupMiss
  <2> QED
    BY <1>1, <2>1, <2>2 DEF Goto, TypeOK
<1>3. flash' = flash /\ mutex' = mutex
  BY DEF LookupHit, LookupMiss
<1> QED
  BY <1>1, <1>2, <1>3 DEF ViewOf, InSession, Formats, Refills, Unseen, StoreUp

\* psm_open reads the page of its module as it is on the flash.
LEMMA StoreLoad ==
    ASSUME BaseInv, FormatInv, NEW a \in Actors, Alone(a), ViewOf(a), ViewOf(a)', Load(a)
    PROVE  Unseen \/ \E p \in Pages : Store!Read(p)
<1> DEFINE n == handle[a].part
<1>1. /\ TypeOK /\ CacheInv /\ SessionAt(a) /\ FormatAt(a) /\ pc[a] = "load"
      /\ n \in Pages /\ ~unsaved /\ LockInv
  BY SizesAssumption DEF BaseInv, SessionInv, FormatInv, Load, SessionAt, Pages
<1>2. /\ pc'[a] = IF Seen(n).ok THEN "using" ELSE "release"
      /\ ret'[a] = "load" /\ flash' = flash /\ mutex' = mutex
      /\ a # Boot /\ pc'[Boot] = pc[Boot]
  BY <1>1 DEF Load, Goto, TypeOK, SessionAt, FormatAt
<1>3. CASE Seen(n).ok
  <2>1. \A b \in Actors : Quiet(b)
    BY <1>1 DEF BaseInv, DirtyInv, Alone, Quiet
  <2>2. cacheNum = n => flash[n] = Cached
    BY <1>1, <2>1, SizesAssumption DEF CacheInv, Pages
  <2>3. cacheNum' = n /\ Cached' = flash[n] /\ flash[n].ok
    <3>1. CASE cacheNum = n
      BY <1>1, <2>2, <3>1 DEF Load, ReadPartition, Cached
    <3>2. CASE cacheNum # n
      <4>1. flash[n].ok
        BY <1>3, <3>2 DEF Seen
      <4>2. flash[n] \in Page
        BY <1>1 DEF TypeOK
      <4>3. cacheNum' = n /\ cacheBuf' = flash[n].env
        BY <3>2, <4>1 DEF Load, ReadPartition
      <4> QED
        BY <4>1, <4>2, <4>3 DEF Cached, Page
    <3> QED
      BY <3>1, <3>2
  <2>4. flash[n] # Blank
    BY <2>3 DEF Blank
  <2>5. mutex # NoTask
    BY <1>1, <1>2, ActorsAssumption DEF LockInv, Actors
  <2>6. /\ StoreDisk = flash /\ StoreDisk' = flash
        /\ StorePage = NoTask /\ StorePage' = n
        /\ StoreDraft' = flash[n]
        /\ Formatting' = Formatting /\ StoreUp' = StoreUp
    BY <1>1, <1>2, <1>3, <2>3 DEF ViewOf, InSession, Formats, Refills, StoreUp
  <2>7. Store!Read(n)
    BY <1>2, <2>4, <2>5, <2>6 DEF Store!Read
  <2> QED
    BY <1>1, <2>7
<1>4. CASE ~Seen(n).ok
  BY <1>1, <1>2, <1>4 DEF ViewOf, InSession, Formats, Refills, Unseen, StoreUp
<1> QED
  BY <1>3, <1>4

\* An erased page counts as committed, or as formatted.
LEMMA StoreErase ==
    ASSUME BaseInv, FormatInv, NEW a \in Actors, ViewOf(a), ViewOf(a)', ErasePage(a)
    PROVE  Store!CommitDraft \/ \E p \in Pages : Store!FormatPage(p)
<1>1. /\ TypeOK /\ LockInv /\ SessionAt(a) /\ FormatAt(a)
      /\ pc[a] = "erase" /\ cacheNum \in Pages
  BY DEF BaseInv, SessionInv, FormatInv, ErasePage, SessionAt
<1>2. /\ pc'[a] = "write" /\ UNCHANGED <<ret, cacheNum, cacheBuf, mutex>>
      /\ flash' = [flash EXCEPT ![cacheNum] = Blank]
      /\ StoreUp' = StoreUp
  BY <1>1 DEF ErasePage, Goto, TypeOK, ram, StoreUp, Actors
<1>3. /\ StoreDisk = flash
      /\ StoreDisk' = [flash EXCEPT ![cacheNum] = Cached]
  <2>1. StoreDisk' = [flash' EXCEPT ![cacheNum] = Cached]
    BY <1>2 DEF ViewOf, Cached
  <2>2. [flash' EXCEPT ![cacheNum] = Cached] = [flash EXCEPT ![cacheNum] = Cached]
    BY <1>1, <1>2 DEF TypeOK
  <2> QED
    BY <1>1, <2>1, <2>2 DEF ViewOf
<1>4. Cached' = Cached
  BY <1>2 DEF Cached
<1>5. CASE ret[a] # "format"
  <2>1. /\ StorePage = cacheNum /\ StorePage' = cacheNum
        /\ StoreDraft = Cached /\ StoreDraft' = Cached
        /\ Formatting = FALSE /\ Formatting' = FALSE
    BY <1>1, <1>2, <1>4, <1>5 DEF ViewOf, InSession, Formats, Refills
  <2>2. mutex # NoTask /\ cacheNum # NoTask
    BY <1>1, <1>5, ActorsAssumption DEF LockInv, Actors, SessionAt
  <2> QED
    BY <1>2, <1>3, <2>1, <2>2 DEF Store!CommitDraft
<1>6. CASE ret[a] = "format"
  <2>1. /\ StorePage = NoTask /\ StorePage' = NoTask
        /\ StoreDraft = Blank /\ StoreDraft' = Blank
        /\ Formatting /\ Formatting'
    BY <1>1, <1>2, <1>6 DEF ViewOf, InSession, Formats, Refills
  <2>2. /\ cacheNum # 0 => flash[0] = Blank
        /\ \A n \in Pages : n > cacheNum => flash[n] = FreshPage(n)
        /\ Cached = FreshPage(cacheNum)
    BY <1>1, <1>6 DEF FormatAt, Refills
  <2>3. cacheNum = 0 => \A q \in Pages \ {0} : flash[q] = FreshPage(q)
    BY <2>2, SizesAssumption DEF Pages
  <2>4. Store!FormatPage(cacheNum)
    BY <1>1, <1>2, <1>3, <2>1, <2>2, <2>3 DEF Store!FormatPage
  <2> QED
    BY <1>1, <2>4
<1> QED
  BY <1>5, <1>6

LEMMA StoreProgram ==
    ASSUME BaseInv, FormatInv, NEW a \in Actors, ViewOf(a), ViewOf(a)', ProgramPage(a)
    PROVE  Unseen \/ Store!Settle
<1>1. /\ TypeOK /\ LockInv /\ SessionAt(a) /\ FormatAt(a)
      /\ pc[a] = "write" /\ cacheNum \in Pages
      /\ ret[a] \in {"using", "release", "format"}
  BY DEF BaseInv, SessionInv, FormatInv, ProgramPage, SessionAt
<1>2. /\ pc'[a] = ret[a] /\ UNCHANGED <<ret, cacheNum, cacheBuf, mutex>>
      /\ flash' = [flash EXCEPT ![cacheNum] = Cached]
      /\ Cached' = Cached
  BY <1>1 DEF ProgramPage, EndWrite, Goto, TypeOK, ram, Cached
<1>3. StoreUp' = StoreUp
  <2>1. pc'[Boot] = "idle" <=> pc[Boot] = "idle"
    BY <1>1, <1>2 DEF ProgramPage, EndWrite, Goto, TypeOK, Actors
  <2> QED
    BY <2>1 DEF StoreUp
<1>4. StoreDisk = [flash EXCEPT ![cacheNum] = Cached] /\ StoreDisk' = StoreDisk
  BY <1>1, <1>2 DEF ViewOf
<1>5. CASE ret[a] = "release"
  <2>1. /\ StorePage = cacheNum /\ StorePage' = NoTask
        /\ StoreDraft = Cached /\ StoreDraft' = Blank
        /\ Formatting = FALSE /\ Formatting' = FALSE
    BY <1>1, <1>2, <1>5 DEF ViewOf, InSession, Formats, Refills
  <2>2. mutex # NoTask /\ cacheNum # NoTask
    BY <1>1, <1>5, ActorsAssumption DEF LockInv, Actors, SessionAt
  <2>3. StoreDisk[StorePage] = StoreDraft
    BY <1>1, <1>4, <2>1 DEF TypeOK
  <2> QED
    BY <1>2, <1>3, <1>4, <2>1, <2>2, <2>3 DEF Store!Settle
<1>6. CASE ret[a] # "release"
  BY <1>1, <1>2, <1>3, <1>4, <1>6 DEF ViewOf, InSession, Formats, Refills, Unseen
<1> QED
  BY <1>5, <1>6

LEMMA StoreFormat ==
    ASSUME BaseInv, FormatInv, NEW a \in Actors, ViewOf(a), ViewOf(a)',
           WipePage(a) \/ WipeDone(a) \/ FormatNext(a)
    PROVE  Unseen \/ Store!EndFormat \/ \E p \in Pages : Store!FormatPage(p)
<1>1. /\ TypeOK /\ SessionAt(a) /\ FormatAt(a) /\ mutex' = mutex
  BY DEF BaseInv, SessionInv, FormatInv, WipePage, WipeDone, FormatNext
<1>2. StoreUp' = StoreUp
  BY <1>1 DEF StoreUp, WipePage, WipeDone, FormatNext, WriteThen, Goto, TypeOK, Actors
<1>3. CASE WipePage(a)
  <2>1. /\ pc[a] = "wipe" /\ UNCHANGED <<pc, ret, cacheNum, cacheBuf>>
        /\ flash' = [flash EXCEPT ![wiped] = Blank] /\ wiped \in Pages
    BY <1>1, <1>3, SizesAssumption DEF WipePage, ram, TypeOK, Pages
  <2>2. /\ StoreDisk = flash /\ StoreDisk' = flash'
        /\ StorePage' = StorePage /\ StoreDraft' = StoreDraft
        /\ Formatting /\ Formatting'
    BY <2>1 DEF ViewOf, InSession, Formats, Refills
  <2>3. wiped = 0 \/ flash[0] = Blank
    BY <1>1, <2>1, PagesType, SizesAssumption DEF FormatAt, Pages
  <2>4. Store!FormatPage(wiped)
    BY <1>1, <1>2, <2>1, <2>2, <2>3 DEF Store!FormatPage
  <2> QED
    BY <2>1, <2>4
<1>4. CASE WipeDone(a)
  <2>1. pc[a] = "wipe" /\ pc'[a] = "erase" /\ ret'[a] = "format" /\ flash' = flash
    BY <1>1, <1>4 DEF WipeDone, WriteThen, Goto, TypeOK
  <2> QED
    BY <1>1, <1>2, <2>1 DEF ViewOf, InSession, Formats, Refills, Unseen
<1>5. CASE FormatNext(a) /\ cacheNum > 0
  <2>1. pc[a] = "format" /\ pc'[a] = "erase" /\ ret'[a] = "format" /\ flash' = flash
    BY <1>1, <1>5 DEF FormatNext, WriteThen, Goto, TypeOK
  <2> QED
    BY <1>1, <1>2, <2>1 DEF ViewOf, InSession, Formats, Refills, Unseen
<1>6. CASE FormatNext(a) /\ ~(cacheNum > 0)
  <2>1. pc[a] = "format" /\ pc'[a] = "release" /\ flash' = flash
    BY <1>1, <1>6 DEF FormatNext, Goto, TypeOK
  <2>2. cacheNum = 0
    BY <1>1, <1>6, <2>1, SizesAssumption DEF SessionAt, Pages
  <2>3. \A n \in Pages : flash[n] = FreshPage(n)
    BY <1>1, <2>1, <2>2, SizesAssumption DEF FormatAt, Refills, Pages
  <2>4. flash = [n \in Pages |-> FreshPage(n)]
    BY <1>1, <2>3 DEF TypeOK
  <2>5. /\ StoreDisk = flash /\ StoreDisk' = flash
        /\ StorePage' = StorePage /\ StoreDraft' = StoreDraft
        /\ Formatting /\ ~Formatting'
    BY <2>1 DEF ViewOf, InSession, Formats, Refills
  <2> QED
    BY <1>1, <1>2, <2>4, <2>5 DEF Store!EndFormat
<1> QED
  BY <1>3, <1>4, <1>5, <1>6

LEMMA StoreRelease ==
    ASSUME BaseInv, FormatInv, NEW a \in Actors, ViewOf(a), ViewOf(a)', Release(a)
    PROVE  Store!End \/ Store!Start
<1>1. /\ TypeOK /\ LockInv /\ FormatAt(a) /\ pc[a] = "release" /\ pc'[a] = "idle"
      /\ mutex' = NoTask /\ flash' = flash
  BY DEF BaseInv, FormatInv, Release, Goto, TypeOK
<1>2. /\ StoreDisk = flash /\ StoreDisk' = flash
      /\ StorePage = NoTask /\ StorePage' = NoTask
      /\ StoreDraft = Blank /\ StoreDraft' = Blank
      /\ Formatting = FALSE /\ Formatting' = FALSE
  BY <1>1 DEF ViewOf, InSession, Formats, Refills
<1>3. CASE a = Boot
  <2>1. flash[0] # Blank
    BY <1>1, <1>3 DEF FormatAt, Blank
  <2>2. mutex = NoTask
    BY <1>1, <1>3, ActorsAssumption DEF FormatInv, LockInv, TypeOK
  <2>3. StoreUp' = TRUE
    BY <1>1, <1>3 DEF StoreUp
  <2> QED
    BY <1>1, <1>2, <2>1, <2>2, <2>3 DEF Store!Start
<1>4. CASE a # Boot
  <2>1. mutex # NoTask
    BY <1>1, <1>4, ActorsAssumption DEF LockInv, Actors
  <2>2. StoreUp' = StoreUp
    BY <1>1, <1>4 DEF StoreUp, Release, Goto, TypeOK, Actors
  <2> QED
    BY <1>1, <1>2, <2>1, <2>2 DEF Store!End
<1> QED
  BY <1>3, <1>4

LEMMA StoreInside ==
    ASSUME MaxErrs = 0, BaseInv, FormatInv, NEW a \in Actors, Inside(a), TypeOK'
    PROVE  [Store!StoreNext]_(Store!svars)
<1>1. Alone(a) /\ ViewOf(a) /\ ViewOf(a)'
  BY AloneInside, View, ViewNext DEF BaseInv, TypeOK
<1>2. ~ErasePageFails(a) /\ ~ProgramPageFails(a) /\ ~WipeFails(a)
  BY DEF ErasePageFails, ProgramPageFails, WipeFails, FormatInv
<1>3. CASE LookupHit(a) \/ LookupMiss(a)
  BY <1>1, <1>3, StoreLookup, UnseenStep
<1>4. CASE Load(a)
  BY <1>1, <1>4, StoreLoad, UnseenStep DEF Store!StoreNext
<1>5. CASE ErasePage(a)
  BY <1>1, <1>5, StoreErase DEF Store!StoreNext
<1>6. CASE ProgramPage(a)
  BY <1>1, <1>6, StoreProgram, UnseenStep DEF Store!StoreNext
<1>7. CASE WipePage(a) \/ WipeDone(a) \/ FormatNext(a)
  BY <1>1, <1>7, StoreFormat, UnseenStep DEF Store!StoreNext
<1>8. CASE Release(a)
  BY <1>1, <1>8, StoreRelease DEF Store!StoreNext
<1> QED
  BY <1>2, <1>3, <1>4, <1>5, <1>6, <1>7, <1>8 DEF Inside

\* A session starts.
LEMMA StoreBegins ==
    ASSUME BaseInv, NEW t \in Tasks, Ready(t), GetMutex(t), ViewOf(t), ViewOf(t)',
           flash' = flash, pc'[Boot] = "idle", TypeOK',
           ~Formats(t)', pc'[t] # "write",
           InSession(t)' => cacheNum' \in Pages
    PROVE  Store!Begin(t)
<1>1. TypeOK /\ pc[t] = "idle" /\ pc[Boot] = "idle" /\ mutex = NoTask /\ mutex' = t
  BY DEF BaseInv, Ready, GetMutex
<1>2. /\ StoreDisk' = StoreDisk /\ StoreUp /\ StoreUp'
      /\ StorePage = NoTask /\ StoreDraft = Blank
      /\ Formatting = FALSE /\ Formatting' = FALSE
  BY <1>1 DEF ViewOf, InSession, Formats, Refills, StoreUp
<1>3. Cached' \in Page
  BY DEF TypeOK, Cached, Page
<1>4. \/ StorePage' = NoTask /\ StoreDraft' = Blank
      \/ StorePage' \in Pages /\ StoreDraft' \in Page
  BY <1>3 DEF ViewOf
<1>5. StoreUp' = StoreUp
  BY <1>1 DEF StoreUp
<1> QED
  BY <1>1, <1>2, <1>4, <1>5 DEF Store!Begin

LEMMA StoreCall ==
    ASSUME BaseInv, FormatInv, NEW t \in Tasks, Call(t), TypeOK'
    PROVE  [Store!StoreNext]_(Store!svars)
<1>1. /\ TypeOK /\ LockInv /\ CacheInv /\ SessionAt(t) /\ Alone(t) /\ ~unsaved
      /\ ViewOf(t) /\ ViewOf(t)' /\ t \in Actors /\ t # Boot
      /\ pc[Boot] = "idle" /\ t # NoTask
  BY AloneCall, View, ViewNext, ActorsAssumption
  DEF BaseInv, SessionInv, FormatInv, TypeOK, Actors
<1>2. pc'[Boot] = "idle"
  BY <1>1, AloneCall, ActorsAssumption DEF BaseInv, Alone, Actors
<1>3. StoreUp' = StoreUp
  BY <1>1, <1>2 DEF StoreUp
<1>4. ASSUME NEW m \in Modules, Open(t, m) \/ GetPartitionId(t, m)
      PROVE  \E u \in Tasks : Store!Begin(u)
  <2>1. pc'[t] = "lookup" /\ flash' = flash /\ Ready(t) /\ GetMutex(t)
    BY <1>1, <1>4 DEF Open, GetPartitionId, Goto, TypeOK
  <2> QED
    BY <1>1, <1>2, <2>1, StoreBegins DEF InSession, Formats, Refills
<1>5. ASSUME NEW x \in Vars, NEW v \in Vals, Set(t, x, v)
      PROVE  Store!Edit
  <2>1. /\ pc[t] = "using" /\ UNCHANGED <<pc, ret, mutex, flash, cacheNum>>
        /\ cacheNum \in Pages /\ ret[t] # "format" /\ mutex = t
    BY <1>1, <1>5, SizesAssumption DEF Set, SessionAt, LockInv, Pages
  <2>2. /\ StoreDisk' = StoreDisk
        /\ StorePage = cacheNum /\ StorePage' = cacheNum
        /\ StoreDraft' = Cached'
        /\ Formatting = FALSE /\ Formatting' = FALSE
    BY <1>1, <2>1 DEF ViewOf, InSession, Formats, Refills
  <2>3. Cached' \in Page
    BY DEF TypeOK, Cached, Page
  <2>4. cacheNum # NoTask
    BY <2>1, ActorsAssumption
  <2> QED
    BY <1>1, <1>3, <2>1, <2>2, <2>3, <2>4 DEF Store!Edit
<1>6. CASE Commit(t) \/ (Close(t) /\ handle[t].dirty)
  <2>1. /\ pc[t] = "using" /\ UNCHANGED <<mutex, flash, cacheNum, cacheBuf>>
        /\ pc'[t] = "erase" /\ ret'[t] \in {"using", "release"}
        /\ ret[t] # "format" /\ Cached' = Cached
    BY <1>1, <1>6 DEF Commit, Close, WriteThen, Goto, TypeOK, SessionAt, ram, Cached
  <2>2. Unseen
    BY <1>1, <1>3, <2>1 DEF ViewOf, InSession, Formats, Refills, Unseen
  <2> QED
    BY <2>2, UnseenStep
<1>7. CASE Close(t) /\ ~handle[t].dirty
  <2>1. /\ pc[t] = "using" /\ UNCHANGED <<mutex, flash, cacheNum, cacheBuf>>
        /\ pc'[t] = "release" /\ ret[t] # "format" /\ mutex = t
        /\ cacheNum \in Pages /\ cacheNum # -1 /\ cacheNum # NoTask
    BY <1>1, <1>7, SizesAssumption, ActorsAssumption
    DEF Close, Goto, TypeOK, SessionAt, LockInv, ram, Pages
  <2>2. \A b \in Actors : Quiet(b)
    BY <1>1, <1>7, <2>1 DEF Alone, Quiet
  <2>3. flash[cacheNum] = Cached
    BY <1>1, <2>1, <2>2 DEF CacheInv
  <2>4. /\ StoreDisk = flash /\ StoreDisk' = flash
        /\ StorePage = cacheNum /\ StorePage' = NoTask
        /\ StoreDraft = Cached /\ StoreDraft' = Blank
        /\ Formatting = FALSE /\ Formatting' = FALSE
    BY <1>1, <2>1 DEF ViewOf, InSession, Formats, Refills
  <2>5. Store!Settle
    BY <1>1, <1>3, <2>1, <2>3, <2>4 DEF Store!Settle
  <2> QED
    BY <2>5 DEF Store!StoreNext
<1>8. ASSUME NEW m \in Modules, NEW k \in Keys, NEW creat \in BOOLEAN,
             Register(t, m, k, creat)
      PROVE  \E u \in Tasks : Store!Begin(u)
  <2>1. /\ flash' = flash /\ Ready(t) /\ GetMutex(t)
        /\ \/ pc'[t] = "release"
           \/ pc'[t] = "erase" /\ ret'[t] = "release" /\ cacheNum' \in Pages
    BY <1>1, <1>8, PagesType DEF Register, WriteThen, Goto, TypeOK
  <2> QED
    BY <1>1, <1>2, <2>1, StoreBegins DEF InSession, Formats, Refills
<1>9. ASSUME NEW n \in 1 .. NParts, ErasePartition(t, n)
      PROVE  \E u \in Tasks : Store!Begin(u)
  <2>1. /\ flash' = flash /\ Ready(t) /\ GetMutex(t)
        /\ pc'[t] = "erase" /\ ret'[t] = "release" /\ cacheNum' \in Pages
    BY <1>1, <1>9, SizesAssumption DEF ErasePartition, WriteThen, Goto, TypeOK, Pages
  <2> QED
    BY <1>1, <1>2, <2>1, StoreBegins DEF InSession, Formats, Refills
<1>10. CASE EraseAndInit(t)
  <2>1. /\ flash' = flash /\ mutex = NoTask /\ mutex' = t
        /\ pc[t] = "idle" /\ pc'[t] = "wipe"
    BY <1>1, <1>10 DEF EraseAndInit, Ready, GetMutex, StartFormat, Goto, TypeOK
  <2>2. /\ StoreDisk' = StoreDisk /\ StoreUp
        /\ StorePage' = StorePage /\ StoreDraft' = StoreDraft
        /\ Formatting = FALSE /\ Formatting' = TRUE
    BY <1>1, <2>1 DEF ViewOf, InSession, Formats, Refills, StoreUp
  <2>3. Store!BeginFormat
    BY <1>3, <2>1, <2>2 DEF Store!BeginFormat
  <2> QED
    BY <2>3 DEF Store!StoreNext
<1> QED
  BY <1>4, <1>5, <1>6, <1>7, <1>8, <1>9, <1>10 DEF Call, Store!StoreNext

LEMMA StoreBoot ==
    ASSUME BaseInv, FormatInv, BootFinds(Boot) \/ BootFormats(Boot), TypeOK'
    PROVE  Store!Start \/ Store!BeginFormat
<1>1. /\ TypeOK /\ ViewOf(Boot) /\ ViewOf(Boot)' /\ Boot \in Actors
      /\ pc[Boot] = "init"
  BY AloneBoot, View, ViewNext DEF BaseInv, TypeOK
<1>2. flash' = flash /\ mutex' = mutex
  BY DEF BootFinds, BootFormats
<1>3. CASE BootFinds(Boot)
  <2>1. pc'[Boot] = "idle" /\ flash[0] # Blank
    BY <1>1, <1>3 DEF BootFinds, Goto, TypeOK, Blank
  <2>2. /\ StoreDisk = flash /\ StoreDisk' = flash
        /\ StorePage' = StorePage /\ StoreDraft' = StoreDraft
        /\ Formatting' = Formatting
    BY <1>1, <1>2, <2>1 DEF ViewOf, InSession, Formats, Refills
  <2>3. StoreUp' = TRUE
    BY <2>1 DEF StoreUp
  <2> QED
    BY <1>2, <2>1, <2>2, <2>3 DEF Store!Start
<1>4. CASE BootFormats(Boot)
  <2>1. pc'[Boot] = "wipe"
    BY <1>1, <1>4 DEF BootFormats, StartFormat, Goto, TypeOK
  <2>2. /\ StoreDisk' = StoreDisk
        /\ StorePage' = StorePage /\ StoreDraft' = StoreDraft
        /\ Formatting = FALSE /\ Formatting' = TRUE
    BY <1>1, <1>2, <2>1 DEF ViewOf, InSession, Formats, Refills
  <2>3. StoreUp = FALSE /\ StoreUp' = FALSE
    BY <1>1, <2>1 DEF StoreUp
  <2> QED
    BY <1>2, <2>2, <2>3 DEF Store!BeginFormat
<1> QED
  BY <1>3, <1>4

\* Whoever was writing had erased its page.
LEMMA StoreCrash ==
    ASSUME BaseInv, FormatInv, Crash
    PROVE  Store!PowerFailure
<1>1. /\ StoreDisk' = flash /\ StoreUp' = FALSE /\ Formatting' = FALSE
      /\ mutex' = NoTask /\ StorePage' = NoTask /\ StoreDraft' = Blank
  <2>1. Writer' = {} /\ Session' = {}
    BY DEF Crash, ColdRam, Writer, Session
  <2>2. flash' = flash /\ mutex' = NoTask /\ pc'[Boot] = "init" /\ Formatting' = FALSE
    BY DEF Crash, ColdRam, Formatting, Actors
  <2>3. StoreDisk' = flash
    BY <2>1, <2>2 DEF StoreDisk, BaseInv, TypeOK
  <2> QED
    BY <2>1, <2>2, <2>3 DEF StoreUp, StorePage, StoreDraft
<1>2. CASE Writer = {}
  <2>1. StoreDisk = flash
    BY <1>2 DEF StoreDisk, BaseInv, TypeOK
  <2> QED
    BY <1>1, <2>1 DEF Store!PowerFailure
<1>3. CASE Writer # {}
  <2>1. PICK a \in Actors : pc[a] = "write"
    BY <1>3 DEF Writer
  <2>2. /\ TypeOK /\ FormatAt(a) /\ SessionAt(a) /\ Alone(a)
    BY <2>1, ActorsAssumption
    DEF BaseInv, FormatInv, SessionInv, Alone, LockInv, DirtyInv, Actors
  <2>3. cacheNum \in Pages /\ flash[cacheNum] = Blank /\ ViewOf(a)
    BY <2>1, <2>2, View DEF FormatAt, SessionAt, TypeOK
  <2>4. StoreDisk = [flash EXCEPT ![cacheNum] = Cached]
    BY <2>1, <2>3 DEF ViewOf
  <2>5. flash = [StoreDisk EXCEPT ![cacheNum] = Blank]
    BY <2>2, <2>3, <2>4 DEF TypeOK
  <2>6. CASE ret[a] = "format"
    <3>1. Formatting
      BY <2>1, <2>3, <2>6 DEF ViewOf, Formats, Refills
    <3>2. cacheNum = 0 \/ StoreDisk[0] = Blank
      BY <2>1, <2>2, <2>3, <2>4, <2>6, PagesType DEF FormatAt, Refills, TypeOK
    <3> QED
      BY <1>1, <2>3, <2>5, <3>1, <3>2 DEF Store!PowerFailure
  <2>7. CASE ret[a] # "format"
    <3>1. StorePage = cacheNum /\ cacheNum # NoTask
      BY <2>1, <2>3, <2>7, ActorsAssumption DEF ViewOf, InSession
    <3> QED
      BY <1>1, <2>5, <3>1 DEF Store!PowerFailure
  <2> QED
    BY <2>6, <2>7
<1> QED
  BY <1>2, <1>3

(* What psm promises its callers: while flash operations and psm_set       *)
(* succeed, the store behaves, through every interleaving of the tasks and *)
(* every power failure, as a set of pages that only whole sessions change. *)
THEOREM StoreImplemented ==
    ASSUME MaxErrs = 0, Roomy
    PROVE  Spec => ImplementsStore
<1>1. Init => FormatInv
  BY DEF Init, FormatInv, FormatAt, Refills
<1>2. BaseInv /\ VarsInv /\ FormatInv /\ [Next]_vars => FormatInv'
  BY FormatStep
<1>3. Init => Store!StoreInit
  <2> SUFFICES ASSUME Init PROVE Store!StoreInit
    OBVIOUS
  <2>1. Writer = {} /\ Session = {} /\ Formatting = FALSE
    BY DEF Init, Writer, Session, Formatting
  <2>2. StoreDisk = [n \in Pages |-> Blank]
    BY <2>1 DEF StoreDisk, Init
  <2>3. StoreUp = FALSE /\ StorePage = NoTask /\ StoreDraft = Blank /\ mutex = NoTask
    BY <2>1 DEF StoreUp, StorePage, StoreDraft, Init, Actors
  <2> QED
    BY <2>1, <2>2, <2>3 DEF Store!StoreInit
<1>4. BaseInv /\ FormatInv /\ TypeOK' /\ [Next]_vars => [Store!StoreNext]_(Store!svars)
  <2> SUFFICES ASSUME BaseInv, FormatInv, TypeOK', [Next]_vars
               PROVE  [Store!StoreNext]_(Store!svars)
    OBVIOUS
  <2>1. ASSUME NEW a \in Actors, Inside(a)
        PROVE  [Store!StoreNext]_(Store!svars)
    BY <2>1, StoreInside
  <2>2. ASSUME NEW t \in Tasks, Call(t)
        PROVE  [Store!StoreNext]_(Store!svars)
    BY <2>2, StoreCall
  <2>3. CASE BootFinds(Boot) \/ BootFormats(Boot)
    BY <2>3, StoreBoot DEF Store!StoreNext
  <2>4. CASE Crash
    BY <2>4, StoreCrash DEF Store!StoreNext
  <2>5. CASE UNCHANGED vars
    <3>1. Unseen
      BY <2>5 DEF vars, ram, Unseen, StoreDisk, StoreUp, StorePage, StoreDraft,
                  Formatting, Writer, Session, Cached
    <3> QED
      BY <3>1, UnseenStep
  <2> QED
    BY <2>1, <2>2, <2>3, <2>4, <2>5 DEF Next
<1> QED
  BY <1>1, <1>2, <1>3, <1>4, TypeCorrect, BaseInvariant, VarsAlways, PTL
  DEF Spec, ImplementsStore, Store!StoreSpec
----------------------------------------------------------------------------
(* How many pages failures can cost                                        *)

\* The unreadable pages from k on.
LostFrom(k) == {n \in Pages : n >= k /\ ~flash[n].ok}

LEMMA PagesCounted ==
    ASSUME NEW S \in SUBSET Pages
    PROVE  IsFiniteSet(S) /\ Cardinality(S) \in Nat
<1>1. IsFiniteSet(Pages)
  BY FS_Interval, SizesAssumption DEF Pages
<1>2. IsFiniteSet(S)
  BY <1>1, FS_Subset
<1> QED
  BY <1>2, FS_CardinalityType

LEMMA FewerPages ==
    ASSUME NEW T \in SUBSET Pages, NEW S \in SUBSET T
    PROVE  Cardinality(S) <= Cardinality(T)
BY PagesCounted, FS_Subset

LEMMA OnePageMore ==
    ASSUME NEW T \in SUBSET Pages, NEW p, NEW S \in SUBSET Pages, S \subseteq T \cup {p}
    PROVE  Cardinality(S) <= Cardinality(T) + 1
<1>1. IsFiniteSet(T) /\ Cardinality(T) \in Nat /\ Cardinality(S) \in Nat
  BY PagesCounted
<1>2. IsFiniteSet(T \cup {p}) /\ Cardinality(T \cup {p}) <= Cardinality(T) + 1
  BY <1>1, FS_AddElement
<1>3. Cardinality(S) <= Cardinality(T \cup {p})
  BY <1>2, FS_Subset
<1>4. Cardinality(T \cup {p}) \in Nat
  BY <1>2, FS_CardinalityType
<1> QED
  BY <1>1, <1>2, <1>3, <1>4

\* The pages lost so far, but for the one being written.
Spoilt(a) == IF pc[a] = "write" THEN LostFrom(0) \ {cacheNum} ELSE LostFrom(0)

\* The pages a format has not made readable again.
Unfilled(a) == LostFrom(IF pc[a] = "format" THEN cacheNum ELSE cacheNum + 1)

\* For the only actor inside psm.
LossAt(a) ==
    /\ ~Refills(a) /\ (flash[0].ok \/ (pc[a] # "wipe" /\ pc[Boot] \in {"idle", "release"}))
           => Cardinality(Spoilt(a)) <= crashes + errs
    /\ pc[a] = "wipe" => /\ flash[0].ok => wiped = 0
                         /\ a # Boot \/ flash[0].ok => formats > 0
    /\ Refills(a) => /\ Cardinality(Unfilled(a)) <= errs
                     /\ flash[0].ok => pc[a] = "format" /\ cacheNum = 0
    /\ pc[Boot] = "failed" => ~flash[0].ok

LossInv == errs = 0 \/ formats = 0 => \E a \in Actors : Alone(a) /\ LossAt(a)

LEMMA LossHere ==
    ASSUME LossInv, errs = 0 \/ formats = 0, NEW b \in Actors, Alone(b)
    PROVE  LossAt(b)
<1>1. PICK a \in Actors : Alone(a) /\ LossAt(a)
  BY DEF LossInv
<1>2. CASE a = b
  BY <1>1, <1>2
<1>3. CASE a # b
  <2>1. pc[a] = "idle" /\ pc[b] = "idle"
    BY <1>1, <1>3 DEF Alone
  <2> QED
    BY <1>1, <2>1 DEF LossAt, Refills, Spoilt, Unfilled
<1> QED
  BY <1>2, <1>3

\* Steps that write nothing, outside a format.
LEMMA LossQuiet ==
    ASSUME NEW a \in Actors, LossAt(a), UNCHANGED <<flash, crashes, errs>>,
           ~Refills(a), ~Refills(a)', pc[a] \notin {"wipe", "write"},
           pc'[a] \notin {"wipe", "write"},
           pc'[Boot] \in {"idle", "release"} => pc[Boot] \in {"idle", "release"} \/ flash[0].ok,
           pc'[Boot] # "failed"
    PROVE  LossAt(a)'
<1>1. Spoilt(a) = LostFrom(0) /\ Spoilt(a)' = LostFrom(0)
  BY DEF Spoilt, LostFrom
<1> QED
  BY <1>1 DEF LossAt

LEMMA LossWrite ==
    ASSUME BaseInv, NEW a \in Actors, LossAt(a), errs' = 0 \/ formats = 0,
           ErasePage(a) \/ ErasePageFails(a) \/ ProgramPage(a) \/ ProgramPageFails(a)
    PROVE  LossAt(a)'
<1>1. /\ TypeOK /\ SessionAt(a) /\ LockInv
      /\ pc[a] \in {"erase", "write"} /\ cacheNum \in Pages
      /\ ret[a] \in {"using", "release", "format"}
      /\ a = Boot => ret[a] = "format"
      /\ UNCHANGED <<ret, cacheNum, crashes>>
  BY DEF BaseInv, SessionInv, SessionAt, ErasePage, ErasePageFails, ProgramPage,
         ProgramPageFails, ram, counters
<1>2. /\ \E page : flash' = [flash EXCEPT ![cacheNum] = page]
      /\ \A n \in Pages \ {cacheNum} : flash'[n] = flash[n]
  <2>1. \E page : flash' = [flash EXCEPT ![cacheNum] = page]
    <3>1. CASE ProgramPageFails(a)
      <4>1. flash' = [flash EXCEPT ![cacheNum] = flash[cacheNum]]
        BY <1>1, <3>1 DEF ProgramPageFails, TypeOK
      <4> QED
        BY <4>1
    <3>2. CASE ErasePage(a) \/ ErasePageFails(a) \/ ProgramPage(a)
      BY <3>2 DEF ErasePage, ErasePageFails, ProgramPage
    <3> QED
      BY <3>1, <3>2
  <2> QED
    BY <1>1, <2>1 DEF TypeOK
<1>3. a # Boot => pc[Boot] = "idle" /\ pc'[Boot] = "idle"
  <2>1. a # Boot => a \in Tasks /\ pc[Boot] = "idle"
    BY <1>1 DEF Actors, LockInv
  <2> QED
    BY <1>1, <2>1 DEF ErasePage, ErasePageFails, ProgramPage, ProgramPageFails,
                      EndWrite, Goto, TypeOK, Actors
<1>4. CASE ErasePage(a)
  <2>1. /\ pc[a] = "erase" /\ pc'[a] = "write" /\ errs' = errs
        /\ flash'[cacheNum] = Blank
    BY <1>1, <1>4 DEF ErasePage, Goto, TypeOK, counters
  <2>2. CASE ret[a] # "format"
    <3>1. Spoilt(a)' \subseteq Spoilt(a)
      BY <1>1, <1>2, <2>1 DEF Spoilt, LostFrom
    <3>2. Cardinality(Spoilt(a)') <= Cardinality(Spoilt(a))
      BY <3>1, FewerPages DEF Spoilt, LostFrom
    <3>3. a # Boot /\ ~Refills(a) /\ ~Refills(a)' /\ pc'[a] # "wipe" /\ pc'[Boot] # "failed"
      BY <1>1, <1>3, <2>1, <2>2 DEF Refills
    <3>4. Cardinality(Spoilt(a)) <= crashes + errs
      BY <1>3, <2>1, <3>3 DEF LossAt
    <3> QED
      BY <1>1, <2>1, <3>2, <3>3, <3>4, PagesCounted DEF LossAt, Spoilt, LostFrom, TypeOK
  <2>3. CASE ret[a] = "format"
    <3>1. Unfilled(a)' = Unfilled(a)
      BY <1>1, <1>2, <2>1, SizesAssumption DEF Unfilled, LostFrom, Pages
    <3>2. Refills(a) /\ Refills(a)' /\ ~flash'[0].ok
      BY <1>1, <1>2, <2>1, <2>3, PagesType DEF Refills, LossAt, Blank
    <3>3. pc'[Boot] # "failed"
      BY <1>1, <1>3, <2>1
    <3> QED
      BY <2>1, <3>1, <3>2, <3>3 DEF LossAt
  <2> QED
    BY <2>2, <2>3
<1>5. CASE ProgramPage(a)
  <2>1. /\ pc[a] = "write" /\ pc'[a] = ret[a] /\ errs' = errs
        /\ flash'[cacheNum].ok
    BY <1>1, <1>5 DEF ProgramPage, EndWrite, Goto, TypeOK, counters, Cached
  <2>2. CASE ret[a] # "format"
    <3>1. Spoilt(a)' \subseteq Spoilt(a)
      BY <1>1, <1>2, <2>1 DEF Spoilt, LostFrom
    <3>2. Cardinality(Spoilt(a)') <= Cardinality(Spoilt(a))
      BY <3>1, FewerPages DEF Spoilt, LostFrom
    <3>3. a # Boot /\ ~Refills(a) /\ ~Refills(a)' /\ pc'[a] # "wipe" /\ pc'[Boot] # "failed"
      BY <1>1, <1>3, <2>1, <2>2 DEF Refills
    <3>4. Cardinality(Spoilt(a)) <= crashes + errs
      BY <1>3, <2>1, <3>3 DEF LossAt
    <3> QED
      BY <1>1, <2>1, <3>2, <3>3, <3>4, PagesCounted DEF LossAt, Spoilt, LostFrom, TypeOK
  <2>3. CASE ret[a] = "format"
    <3>1. Unfilled(a)' \subseteq Unfilled(a)
      BY <1>1, <1>2, <2>1, <2>3, SizesAssumption DEF Unfilled, LostFrom, Pages
    <3>2. Cardinality(Unfilled(a)') <= Cardinality(Unfilled(a))
      BY <3>1, FewerPages DEF Unfilled, LostFrom
    <3>3. /\ Refills(a) /\ Refills(a)' /\ pc'[a] = "format"
          /\ flash'[0].ok => cacheNum = 0
      BY <1>1, <1>2, <2>1, <2>3, PagesType DEF Refills, LossAt
    <3>4. pc'[Boot] # "failed"
      BY <1>1, <1>3, <2>1, <2>3
    <3> QED
      BY <1>1, <2>1, <3>2, <3>3, <3>4, PagesCounted DEF LossAt, Unfilled, LostFrom, TypeOK
  <2> QED
    BY <2>2, <2>3
<1>6. CASE ErasePageFails(a) \/ ProgramPageFails(a)
  <2>1. pc'[a] = ret[a] /\ errs' = errs + 1
    BY <1>1, <1>6 DEF ErasePageFails, ProgramPageFails, EndWrite, Goto, TypeOK
  <2>2. CASE ret[a] # "format"
    <3>1. Spoilt(a)' \subseteq Spoilt(a) \cup {cacheNum}
      BY <1>1, <1>2, <2>1 DEF Spoilt, LostFrom
    <3>2. Cardinality(Spoilt(a)') <= Cardinality(Spoilt(a)) + 1
      BY <3>1, OnePageMore DEF Spoilt, LostFrom
    <3>3. a # Boot /\ ~Refills(a) /\ ~Refills(a)' /\ pc'[a] # "wipe" /\ pc'[Boot] # "failed"
      BY <1>1, <1>3, <2>1, <2>2 DEF Refills
    <3>4. Cardinality(Spoilt(a)) <= crashes + errs
      BY <1>1, <1>3, <2>1, <3>3 DEF LossAt
    <3> QED
      BY <1>1, <2>1, <3>2, <3>3, <3>4, PagesCounted DEF LossAt, Spoilt, LostFrom, TypeOK
  <2>3. CASE ret[a] = "format"
    <3>1. Unfilled(a)' \subseteq Unfilled(a) \cup {cacheNum}
      BY <1>1, <1>2, <2>1, <2>3, SizesAssumption DEF Unfilled, LostFrom, Pages
    <3>2. Cardinality(Unfilled(a)') <= Cardinality(Unfilled(a)) + 1
      BY <3>1, OnePageMore DEF Unfilled, LostFrom
    <3>3. /\ Refills(a) /\ Refills(a)' /\ pc'[a] = "format" /\ ~flash[0].ok
      BY <1>1, <2>1, <2>3 DEF Refills, LossAt
    <3>4. ~flash'[0].ok
      BY <1>1, <1>6, <3>3, PagesType DEF ErasePageFails, ProgramPageFails, Blank, TypeOK
    <3>5. pc'[Boot] # "failed"
      BY <1>1, <1>3, <2>1, <2>3
    <3> QED
      BY <1>1, <2>1, <3>2, <3>3, <3>4, <3>5, PagesCounted
      DEF LossAt, Unfilled, LostFrom, TypeOK
  <2> QED
    BY <2>2, <2>3
<1> QED
  BY <1>4, <1>5, <1>6

LEMMA LossFormat ==
    ASSUME BaseInv, NEW a \in Actors, LossAt(a), errs' = 0 \/ formats = 0,
           WipePage(a) \/ WipeFails(a) \/ WipeDone(a) \/ FormatNext(a)
    PROVE  LossAt(a)'
<1>1. /\ TypeOK /\ SessionAt(a) /\ LockInv /\ crashes' = crashes /\ formats' = formats
      /\ pc[a] \in {"wipe", "format"}
  BY DEF BaseInv, SessionInv, WipePage, WipeFails, WipeDone, FormatNext, counters
<1>2. a # Boot => pc'[Boot] = "idle"
  <2>1. a # Boot => a \in Tasks /\ pc[Boot] = "idle"
    BY <1>1 DEF Actors, LockInv
  <2> QED
    BY <1>1, <2>1 DEF WipePage, WipeFails, WipeDone, FormatNext,
                      WriteThen, Goto, TypeOK, Actors
<1>3. CASE WipePage(a)
  <2>1. /\ pc[a] = "wipe" /\ pc' = pc /\ wiped \in Pages
        /\ flash' = [flash EXCEPT ![wiped] = Blank]
    BY <1>1, <1>3, SizesAssumption DEF WipePage, TypeOK, Pages
  <2>2. ~flash'[0].ok
    BY <1>1, <2>1, PagesType DEF LossAt, TypeOK, Blank
  <2>3. a # Boot => formats > 0
    BY <2>1 DEF LossAt
  <2> QED
    BY <1>1, <1>2, <2>1, <2>2, <2>3 DEF LossAt, Refills
<1>4. CASE WipeFails(a)
  <2>0. \/ flash' = [flash EXCEPT ![wiped] = flash[wiped]]
        \/ flash' = [flash EXCEPT ![wiped] = Blank]
    BY <1>4 DEF WipeFails
  <2>1. /\ pc[a] = "wipe" /\ wiped \in Pages /\ errs' = errs + 1
    BY <1>1, <1>4, SizesAssumption DEF WipeFails, TypeOK, Pages
  <2>2. formats = 0
    BY <1>1, <2>1 DEF TypeOK
  <2>3. a = Boot /\ ~flash[0].ok
    BY <2>1, <2>2 DEF LossAt
  <2>4. ~flash'[0].ok /\ pc'[a] = "failed"
    BY <1>1, <1>4, <2>0, <2>1, <2>3, PagesType DEF WipeFails, Goto, TypeOK, Blank
  <2> QED
    BY <2>3, <2>4 DEF LossAt, Refills
<1>5. CASE WipeDone(a)
  <2>1. /\ pc[a] = "wipe" /\ pc'[a] = "erase" /\ ret'[a] = "format"
        /\ wiped = NParts + 1 /\ cacheNum' = NParts /\ UNCHANGED <<flash, errs>>
    BY <1>1, <1>5 DEF WipeDone, WriteThen, Goto, TypeOK, counters
  <2>2. ~flash[0].ok
    BY <2>1, SizesAssumption DEF LossAt
  <2>3. Unfilled(a)' = {}
    BY <2>1, SizesAssumption DEF Unfilled, LostFrom, Pages
  <2>4. Cardinality(Unfilled(a)') = 0 /\ errs >= 0
    BY <1>1, <2>3, FS_EmptySet DEF TypeOK
  <2>5. pc'[Boot] # "failed"
    BY <1>2, <2>1
  <2> QED
    BY <2>1, <2>2, <2>4, <2>5 DEF LossAt, Refills
<1>6. CASE FormatNext(a) /\ cacheNum > 0
  <2>1. /\ pc[a] = "format" /\ pc'[a] = "erase" /\ ret'[a] = "format"
        /\ cacheNum \in Pages /\ cacheNum' = cacheNum - 1 /\ UNCHANGED <<flash, errs>>
    BY <1>1, <1>6 DEF FormatNext, WriteThen, Goto, TypeOK, counters, SessionAt
  <2>2. cacheNum' + 1 = cacheNum /\ cacheNum # 0
    BY <1>6, <2>1, SizesAssumption DEF Pages
  <2>3. Unfilled(a)' = Unfilled(a)
    BY <2>1, <2>2 DEF Unfilled, LostFrom
  <2>4. pc'[Boot] # "failed"
    BY <1>2, <2>1
  <2> QED
    BY <1>6, <2>1, <2>2, <2>3, <2>4 DEF LossAt, Refills
<1>7. CASE FormatNext(a) /\ ~(cacheNum > 0)
  <2>1. /\ pc[a] = "format" /\ pc'[a] = "release" /\ UNCHANGED <<flash, errs>>
        /\ cacheNum = 0
    BY <1>1, <1>7, SizesAssumption DEF FormatNext, Goto, TypeOK, counters, SessionAt, Pages
  <2>2. Spoilt(a)' = Unfilled(a)
    BY <2>1 DEF Unfilled, Spoilt, LostFrom
  <2>3. Cardinality(Unfilled(a)) <= errs /\ Cardinality(Unfilled(a)) \in Nat
    BY <2>1, PagesCounted DEF LossAt, Refills, Unfilled, LostFrom
  <2>4. pc'[Boot] # "failed"
    BY <1>2, <2>1
  <2> QED
    BY <1>1, <2>1, <2>2, <2>3, <2>4 DEF LossAt, Refills, TypeOK
<1> QED
  BY <1>3, <1>4, <1>5, <1>6, <1>7

LEMMA LossInside ==
    ASSUME BaseInv, NEW a \in Actors, LossAt(a), errs' = 0 \/ formats' = 0, Inside(a)
    PROVE  LossAt(a)'
<1>1. TypeOK /\ SessionAt(a) /\ LockInv
  BY DEF BaseInv, SessionInv
<1>2. CASE ErasePage(a) \/ ErasePageFails(a) \/ ProgramPage(a) \/ ProgramPageFails(a)
  <2>1. formats' = formats
    BY <1>2 DEF ErasePage, ErasePageFails, ProgramPage, ProgramPageFails, counters
  <2> QED
    BY <1>2, <2>1, LossWrite
<1>3. CASE WipePage(a) \/ WipeFails(a) \/ WipeDone(a) \/ FormatNext(a)
  <2>1. formats' = formats
    BY <1>3 DEF WipePage, WipeFails, WipeDone, FormatNext, counters
  <2> QED
    BY <1>3, <2>1, LossFormat
<1>4. CASE Release(a) \/ LookupHit(a) \/ LookupMiss(a) \/ Load(a)
  <2>1. UNCHANGED <<flash, crashes, errs>>
    BY <1>4 DEF Release, LookupHit, LookupMiss, Load, counters
  <2>2. /\ pc[a] \in {"release", "lookup", "load"}
        /\ pc'[a] \in {"idle", "load", "release", "using"}
    BY <1>1, <1>4 DEF Release, LookupHit, LookupMiss, Load, Goto, TypeOK, SessionAt
  <2>3. /\ pc'[Boot] \in {"idle", "release"} => pc[Boot] \in {"idle", "release"}
        /\ pc'[Boot] # "failed"
    <3>1. CASE a = Boot
      BY <1>1, <2>2, <3>1 DEF SessionAt
    <3>2. CASE a # Boot
      <4>1. pc[Boot] = "idle" /\ pc'[Boot] = "idle"
        BY <3>2, AloneInside DEF BaseInv, Alone, Actors
      <4> QED
        BY <4>1
    <3> QED
      BY <3>1, <3>2
  <2> QED
    BY <2>1, <2>2, <2>3, LossQuiet DEF Refills
<1> QED
  BY <1>2, <1>3, <1>4 DEF Inside

LEMMA LossCall ==
    ASSUME BaseInv, NEW t \in Tasks, LossAt(t), errs' = 0 \/ formats' = 0, Call(t)
    PROVE  LossAt(t)'
<1>1. /\ TypeOK /\ SessionAt(t) /\ t \in Actors /\ t # Boot
      /\ pc[Boot] = "idle" /\ pc'[Boot] = "idle"
  BY AloneCall, ActorsAssumption DEF BaseInv, SessionInv, Actors, Alone
<1>2. pc[t] \in {"idle", "using"}
  BY <1>1, CallMutex DEF Ready
<1>3. CASE EraseAndInit(t)
  <2>1. /\ pc[t] = "idle" /\ pc'[t] = "wipe" /\ wiped' = 0 /\ formats' = formats + 1
        /\ UNCHANGED <<flash, crashes, errs>>
    BY <1>1, <1>3 DEF EraseAndInit, Ready, StartFormat, Goto, TypeOK
  <2>2. Spoilt(t)' = Spoilt(t)
    BY <2>1 DEF Spoilt, LostFrom
  <2> QED
    BY <1>1, <2>1, <2>2 DEF LossAt, Refills, TypeOK
<1>4. CASE ~EraseAndInit(t)
  <2>1. UNCHANGED <<flash, crashes, errs>>
    BY <1>4 DEF Call, Open, GetPartitionId, Set, Commit, Close, Register,
                ErasePartition, counters
  <2>2. pc'[t] # "wipe" /\ pc'[t] # "write" /\ ~Refills(t)'
    BY <1>1, <1>2, <1>4
    DEF Call, Open, GetPartitionId, Set, Commit, Close, Register, ErasePartition,
        WriteThen, Goto, TypeOK, Refills
  <2> QED
    BY <1>1, <1>2, <2>1, <2>2, LossQuiet DEF Refills
<1> QED
  BY <1>3, <1>4

LEMMA LossBoot ==
    ASSUME BaseInv, LossAt(Boot), errs' = 0 \/ formats' = 0,
           BootFinds(Boot) \/ BootFormats(Boot)
    PROVE  LossAt(Boot)'
<1>1. TypeOK /\ Boot \in Actors /\ pc[Boot] = "init" /\ UNCHANGED <<flash, crashes, errs>>
  BY AloneBoot DEF BaseInv, BootFinds, BootFormats, counters
<1>2. CASE BootFinds(Boot)
  <2>1. pc'[Boot] = "idle" /\ flash[0].ok
    BY <1>1, <1>2 DEF BootFinds, Goto, TypeOK
  <2> QED
    BY <1>1, <2>1, LossQuiet DEF Refills
<1>3. CASE BootFormats(Boot)
  <2>1. pc'[Boot] = "wipe" /\ wiped' = 0 /\ (flash[0].ok => formats' = formats + 1)
    BY <1>1, <1>3 DEF BootFormats, StartFormat, Goto, TypeOK
  <2>2. Spoilt(Boot)' = Spoilt(Boot)
    BY <1>1, <2>1 DEF Spoilt, LostFrom
  <2> QED
    BY <1>1, <2>1, <2>2 DEF LossAt, Refills, TypeOK
<1> QED
  BY <1>2, <1>3

\* A power failure costs the page being written.
LEMMA LossCrash ==
    ASSUME TypeOK, NEW a \in Actors, SessionAt(a), LossAt(a), Crash
    PROVE  LossAt(Boot)'
<1>1. /\ flash' = flash /\ errs' = errs /\ Boot \in Actors
      /\ pc'[Boot] = "init" /\ ~Refills(Boot)'
  BY DEF Crash, ColdRam, Actors, Refills
<1>2. Spoilt(Boot)' = LostFrom(0)
  BY <1>1 DEF Spoilt, LostFrom
<1>3. SUFFICES ASSUME flash[0].ok
               PROVE  Cardinality(LostFrom(0)) <= crashes' + errs
  BY <1>1, <1>2 DEF LossAt
<1>4. crashes' = crashes + 1
  BY <1>3 DEF LossAt, Crash
<1>5. CASE Refills(a)
  <2>1. Unfilled(a) = LostFrom(0)
    BY <1>3, <1>5 DEF LossAt, Unfilled
  <2>2. Cardinality(LostFrom(0)) <= errs /\ Cardinality(LostFrom(0)) \in Nat
    BY <1>5, <2>1, PagesCounted DEF LossAt, LostFrom
  <2> QED
    BY <1>4, <2>2 DEF TypeOK
<1>6. CASE ~Refills(a)
  <2>1. LostFrom(0) \subseteq Spoilt(a) \cup {cacheNum}
    BY DEF Spoilt
  <2>2. Cardinality(LostFrom(0)) <= Cardinality(Spoilt(a)) + 1
    BY <2>1, OnePageMore DEF Spoilt, LostFrom
  <2>3. Cardinality(Spoilt(a)) <= crashes + errs
    BY <1>3, <1>6 DEF LossAt
  <2>4. Cardinality(Spoilt(a)) \in Nat /\ Cardinality(LostFrom(0)) \in Nat
    BY PagesCounted DEF Spoilt, LostFrom
  <2> QED
    BY <1>4, <2>2, <2>3, <2>4 DEF TypeOK
<1> QED
  BY <1>5, <1>6

LEMMA CountersGrow ==
    ASSUME TypeOK, [Next]_vars
    PROVE  errs' \in {errs, errs + 1} /\ formats' \in {formats, formats + 1}
<1>1. ASSUME NEW a \in Actors, Inside(a)
      PROVE  errs' \in {errs, errs + 1} /\ formats' = formats
  BY <1>1 DEF Inside, Release, ErasePage, ErasePageFails, ProgramPage,
              ProgramPageFails, LookupHit, LookupMiss, Load, WipePage, WipeFails,
              WipeDone, FormatNext, counters
<1>2. ASSUME NEW t \in Tasks, Call(t)
      PROVE  errs' = errs /\ formats' \in {formats, formats + 1}
  BY <1>2 DEF Call, Open, GetPartitionId, Set, Commit, Close, Register,
              ErasePartition, EraseAndInit, counters
<1>3. CASE BootFinds(Boot) \/ BootFormats(Boot) \/ Crash
  BY <1>3 DEF BootFinds, BootFormats, Crash, counters
<1>4. CASE UNCHANGED vars
  BY <1>4 DEF vars, counters
<1> QED
  BY <1>1, <1>2, <1>3, <1>4 DEF Next

LEMMA LossStep ==
    ASSUME BaseInv, LossInv, [Next]_vars
    PROVE  LossInv'
<1> SUFFICES ASSUME errs' = 0 \/ formats' = 0
             PROVE  \E a \in Actors : Alone(a)' /\ LossAt(a)'
  BY DEF LossInv
<1>1. TypeOK /\ LockInv /\ DirtyInv /\ SessionInv
  BY DEF BaseInv
<1>2. errs = 0 \/ formats = 0
  BY <1>1, CountersGrow DEF TypeOK
<1>3. ASSUME NEW a \in Actors, Inside(a)
      PROVE  Alone(a)' /\ LossAt(a)'
  BY <1>1, <1>2, <1>3, AloneInside, LossHere, LossInside
<1>4. ASSUME NEW t \in Tasks, Call(t)
      PROVE  t \in Actors /\ Alone(t)' /\ LossAt(t)'
  BY <1>1, <1>2, <1>4, AloneCall, LossHere, LossCall DEF Actors
<1>5. CASE BootFinds(Boot) \/ BootFormats(Boot)
  BY <1>1, <1>2, <1>5, AloneBoot, LossHere, LossBoot
<1>6. PICK a \in Actors : Alone(a) /\ LossAt(a)
  BY <1>2 DEF LossInv
<1>7. CASE Crash
  <2>1. Alone(Boot)' /\ Boot \in Actors
    BY <1>7 DEF Crash, ColdRam, Alone, NoHandle, Actors
  <2> QED
    BY <1>1, <1>6, <1>7, <2>1, LossCrash DEF SessionInv
<1>8. CASE UNCHANGED vars
  BY <1>6, <1>8
  DEF vars, ram, counters, Alone, LossAt, Refills, Spoilt, Unfilled, LostFrom
<1> QED
  BY <1>3, <1>4, <1>5, <1>7, <1>8 DEF Next

(* Failures are contained: with a flash that refuses operations, or one    *)
(* that is formatted while it runs, but not both, each power failure and   *)
(* each refused operation costs at most the page then being written.       *)
THEOREM LossContained == Spec => []LostPagesBound
<1>1. Init => LossInv
  <2> SUFFICES ASSUME Init PROVE Alone(Boot) /\ LossAt(Boot) /\ Boot \in Actors
    BY DEF LossInv
  <2>1. ~flash[0].ok
    BY PagesType DEF Init, Blank
  <2> QED
    BY <2>1 DEF Init, Actors, Alone, LossAt, Refills, NoHandle
<1>2. BaseInv /\ LossInv /\ [Next]_vars => LossInv'
  BY LossStep
<1>3. BaseInv /\ LossInv => LostPagesBound
  <2> DEFINE writing == {a \in Actors : pc[a] = "write"}
             lost == {n \in Pages : ~flash[n].ok}
  <2> SUFFICES ASSUME BaseInv, LossInv, pc[Boot] = "idle", ~Formatting,
                      errs = 0 \/ formats = 0
               PROVE  Cardinality(lost) <= crashes + errs + Cardinality(writing)
    BY DEF LostPagesBound
  <2>1. PICK a \in Actors : Alone(a) /\ LossAt(a)
    BY DEF LossInv
  <2>2. ~Refills(a) /\ pc[a] # "wipe"
    BY DEF Formatting, Refills
  <2>3. Cardinality(Spoilt(a)) <= crashes + errs
    BY <2>1, <2>2 DEF LossAt
  <2>4. lost = LostFrom(0)
    BY SizesAssumption DEF LostFrom, Pages
  <2>5. Cardinality(Spoilt(a)) \in Nat /\ Cardinality(lost) \in Nat
    BY PagesCounted DEF Spoilt, LostFrom
  <2>6. CASE pc[a] = "write"
    <3>1. writing = {a}
      BY <2>1, <2>6 DEF Alone
    <3>2. Cardinality(writing) = 1
      BY <3>1, FS_Singleton
    <3>3. Cardinality(lost) <= Cardinality(Spoilt(a)) + 1
      BY <2>4, <2>6, OnePageMore DEF Spoilt, LostFrom
    <3> QED
      BY <2>3, <2>5, <3>2, <3>3 DEF BaseInv, TypeOK
  <2>7. CASE pc[a] # "write"
    <3>1. writing = {}
      BY <2>1, <2>7 DEF Alone
    <3>2. Cardinality(writing) = 0
      BY <3>1, FS_EmptySet
    <3>3. Spoilt(a) = lost
      BY <2>4, <2>7 DEF Spoilt
    <3> QED
      BY <2>3, <2>5, <3>2, <3>3 DEF BaseInv, TypeOK
  <2> QED
    BY <2>6, <2>7
<1> QED
  BY <1>1, <1>2, <1>3, BaseInvariant, PTL DEF Spec
============================================================================
