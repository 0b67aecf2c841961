---------------------------- MODULE WlanPsProofs ----------------------------
(***************************************************************************)
(* Proofs about RwLock, for any finite number of readers and any number of *)
(* writers, whichever of them limits its wait; and about WlanPs, which     *)
(* runs the power save of the connection manager over that lock, for any   *)
(* number of senders and requesters and any capacity of the queue.         *)
(***************************************************************************)
EXTENDS WlanPs, FiniteSetTheorems, TLAPS

(* I. The reader-writer lock                                               *)

Types ==
    /\ reader_mutex \in Tasks \cup {Nobody}
    /\ rw_lock \in BOOLEAN
    /\ pc \in [Tasks -> PCs]
    /\ wait \in [Tasks -> {"forever", "finite"}]

(* The inductive invariant, in two parts: Exclusion needs to know what      *)
(* rw_lock and reader_count stand for, but not that rw_lock is free when   *)
(* nobody is in, which a task that forgets the lock it has would break.    *)
LockSafe ==
    /\ Types
    /\ CountExact
    /\ rw_lock => Reading = {} /\ Writing = {}
    /\ Exclusion

LockHeld == Reading = {} /\ Writing = {} => rw_lock

LockInv == LockSafe /\ LockHeld

LEMMA CountedFinite ==
    /\ IsFiniteSet(Counted) /\ Cardinality(Counted) \in Nat
    /\ Cardinality(Counted) <= Cardinality(Readers)
    /\ Cardinality(Readers) \in Nat
<1>1. Counted \subseteq Readers /\ IsFiniteSet(Readers)
  BY TasksAssumption DEF Counted
<1> QED
  BY <1>1, FS_Subset, FS_CardinalityType

LEMMA CountBounded == LockSafe => TypeOK
<1> SUFFICES ASSUME LockSafe PROVE TypeOK
  OBVIOUS
<1>1. reader_count \in 0 .. Cardinality(Readers)
  BY CountedFinite DEF LockSafe, CountExact
<1> QED
  BY <1>1 DEF LockSafe, Types, TypeOK

\* While nobody holds reader_mutex, the readers counted are those reading.
LEMMA CountedRead ==
    ASSUME LockSafe, reader_mutex = Nobody
    PROVE  Counted = Reading
<1>1. \A t \in Readers : pc[t] # "first"
  BY TasksAssumption DEF LockSafe, CountExact, Tasks
<1> QED
  BY <1>1 DEF Counted, Reading

LEMMA InitLock == Init => LockInv
<1> SUFFICES ASSUME Init PROVE LockInv
  OBVIOUS
<1>1. Types
  BY DEF Init, Types, PCs
<1>2. Counted = {} /\ Reading = {} /\ Writing = {}
  BY DEF Init, Counted, Reading, Writing, Tasks
<1>3. CountExact
  BY <1>2, FS_EmptySet, TasksAssumption DEF Init, CountExact, Tasks
<1> QED
  BY <1>1, <1>2, <1>3 DEF Init, LockInv, LockSafe, LockHeld, Exclusion
----------------------------------------------------------------------------
(* Each action                                                             *)

\* A call, or a return, that only moves a task between places where it is
\* neither counted nor waiting for rw_lock nor in.
LEMMA CallKeeps ==
    ASSUME LockSafe, NEW t \in Tasks,
           \/ \E time \in {"forever", "finite"} : ReadLock(t, time) \/ WriteLock(t, time)
           \/ t \in Writers /\ pc[t] = "enter" /\ WriterTimesOut(t)
           \/ t \in Readers /\ ReadUnlock(t)
    PROVE  LockSafe' /\ (LockHeld => LockHeld')
<1>1. Types'
  BY DEF LockSafe, Types, ReadLock, WriteLock, ReadUnlock, WriterTimesOut, Goto, PCs
<1>2. Counted' = Counted /\ Reading' = Reading /\ Writing' = Writing
  BY TasksAssumption DEF LockSafe, Types, ReadLock, WriteLock, ReadUnlock,
     WriterTimesOut, Goto, Counted, Reading, Writing, Tasks
<1>3. /\ UNCHANGED <<reader_mutex, rw_lock, reader_count>>
      /\ \A u \in Tasks : pc'[u] = "first" <=> pc[u] = "first"
  BY DEF LockSafe, Types, ReadLock, WriteLock, ReadUnlock, WriterTimesOut, Goto
<1> QED
  BY <1>1, <1>2, <1>3 DEF LockSafe, CountExact, LockHeld, Exclusion

LEMMA ReaderGetsMutexKeeps ==
    ASSUME LockSafe, NEW t \in Readers, ReaderGetsMutex(t)
    PROVE  LockSafe' /\ (LockHeld => LockHeld')
<1>1. Types'
  BY DEF LockSafe, Types, ReaderGetsMutex, Goto, PCs, Tasks
<1>2. Counted' = Counted \cup {t} /\ t \notin Counted /\ Writing' = Writing
  BY TasksAssumption DEF LockSafe, Types, ReaderGetsMutex, Goto, Counted, Writing, Tasks
<1>3. CountExact'
  <2>1. reader_count' = Cardinality(Counted)'
    BY <1>2, CountedFinite, FS_AddElement DEF ReaderGetsMutex, LockSafe, CountExact
  <2>2. \A u \in Tasks : pc'[u] = "first" <=> reader_mutex' = u
    BY TasksAssumption
    DEF ReaderGetsMutex, Goto, LockSafe, CountExact, Types, Tasks
  <2> QED
    BY <2>1, <2>2 DEF CountExact
<1>4. CASE reader_count = 0
  <2>1. Counted = {}
    BY <1>4, CountedFinite, FS_EmptySet DEF LockSafe, CountExact
  <2>2. Reading' = Reading
    BY <1>4, <2>1 DEF LockSafe, Types, ReaderGetsMutex, Goto, Reading, Tasks
  <2> QED
    BY <1>1, <1>2, <1>3, <2>2 DEF LockSafe, LockHeld, Exclusion, ReaderGetsMutex
<1>5. CASE reader_count # 0
  <2>1. Reading # {}
    BY <1>5, CountedRead, CountedFinite, FS_EmptySet
    DEF LockSafe, CountExact, ReaderGetsMutex
  <2>2. Reading \subseteq Reading'
    BY DEF LockSafe, Types, ReaderGetsMutex, Goto, Reading, Tasks
  <2> QED
    BY <1>1, <1>2, <1>3, <2>1, <2>2
    DEF LockSafe, LockHeld, Exclusion, ReaderGetsMutex
<1> QED
  BY <1>4, <1>5

LEMMA GetsRwLockKeeps ==
    ASSUME LockSafe, NEW t \in Tasks, GetsRwLock(t)
    PROVE  LockSafe' /\ (LockHeld => LockHeld')
<1>1. Types'
  BY DEF LockSafe, Types, GetsRwLock, Goto, PCs
<1>2. Counted' = Counted
  BY DEF LockSafe, Types, GetsRwLock, Goto, Counted, Tasks
<1>3. CountExact'
  BY <1>2, TasksAssumption DEF GetsRwLock, Goto, LockSafe, CountExact, Types, Tasks
<1>4. Reading = {} /\ Writing = {}
  BY DEF GetsRwLock, LockSafe, LockHeld
<1>5. /\ Reading' = IF t \in Readers THEN {t} ELSE {}
      /\ Writing' = IF t \in Readers THEN {} ELSE {t}
  BY <1>4, TasksAssumption
  DEF LockSafe, Types, GetsRwLock, Goto, Reading, Writing, Tasks
<1> QED
  BY <1>1, <1>3, <1>5 DEF GetsRwLock, LockSafe, LockHeld, Exclusion

LEMMA ReaderTimesOutKeeps ==
    ASSUME LockSafe, NEW t \in Readers, ReaderTimesOut(t)
    PROVE  LockSafe' /\ (LockHeld => LockHeld')
<1>1. Types'
  BY DEF LockSafe, Types, ReaderTimesOut, Goto, PCs, Tasks
<1>2. /\ Counted' = Counted \ {t} /\ t \in Counted
      /\ Reading' = Reading /\ Writing' = Writing
  BY TasksAssumption
  DEF LockSafe, Types, ReaderTimesOut, Goto, Counted, Reading, Writing, Tasks
<1>3. reader_count' = Cardinality(Counted)'
  BY <1>2, CountedFinite, FS_RemoveElement DEF ReaderTimesOut, LockSafe, CountExact
<1>4. \A u \in Tasks : pc'[u] = "first" <=> reader_mutex' = u
  BY TasksAssumption DEF ReaderTimesOut, Goto, LockSafe, CountExact, Types, Tasks
<1> QED
  BY <1>1, <1>2, <1>3, <1>4
  DEF LockSafe, CountExact, LockHeld, Exclusion, ReaderTimesOut

LEMMA ReaderLeavesKeeps ==
    ASSUME LockSafe, NEW t \in Readers, ReaderLeaves(t)
    PROVE  LockSafe' /\ (LockHeld => LockHeld')
<1>1. Types'
  BY DEF LockSafe, Types, ReaderLeaves, Goto, PCs, Tasks
<1>2. /\ Counted' = Counted \ {t} /\ t \in Counted
      /\ Reading' = Reading \ {t} /\ t \in Reading /\ Writing' = Writing
  BY TasksAssumption
  DEF LockSafe, Types, ReaderLeaves, Goto, Counted, Reading, Writing, Tasks
<1>3. CountExact'
  <2>1. reader_count' = Cardinality(Counted)'
    BY <1>2, CountedFinite, FS_RemoveElement DEF ReaderLeaves, LockSafe, CountExact
  <2>2. \A u \in Tasks : pc'[u] = "first" <=> reader_mutex' = u
    BY TasksAssumption DEF ReaderLeaves, Goto, LockSafe, CountExact, Types, Tasks
  <2> QED
    BY <2>1, <2>2 DEF CountExact
<1>4. reader_count = 1 <=> Reading' = {}
  <2>1. IsFiniteSet(Counted') /\ Cardinality(Counted') = reader_count - 1
    BY <1>2, CountedFinite, FS_RemoveElement DEF LockSafe, CountExact
  <2>2. Counted' = Reading'
    BY <1>2, CountedRead DEF ReaderLeaves
  <2>3. reader_count \in Nat
    BY CountedFinite DEF LockSafe, CountExact
  <2> QED
    BY <2>1, <2>2, <2>3, FS_EmptySet
<1>5. ~rw_lock /\ Writing = {}
  BY <1>2 DEF LockSafe, LockHeld, Exclusion
<1> QED
  BY <1>1, <1>2, <1>3, <1>4, <1>5
  DEF LockSafe, LockHeld, Exclusion, ReaderLeaves

LEMMA WriterMutexKeeps ==
    ASSUME LockSafe, NEW t \in Writers,
           WriterGetsMutex(t) \/ (pc[t] = "first" /\ WriterTimesOut(t))
    PROVE  LockSafe' /\ (LockHeld => LockHeld')
<1>1. Types'
  BY DEF LockSafe, Types, WriterGetsMutex, WriterTimesOut, Goto, PCs, Tasks
<1>2. Counted' = Counted /\ Reading' = Reading /\ Writing' = Writing
  BY TasksAssumption DEF LockSafe, Types, WriterGetsMutex, WriterTimesOut, Goto,
     Counted, Reading, Writing, Tasks
<1>3. \A u \in Tasks : pc'[u] = "first" <=> reader_mutex' = u
  BY TasksAssumption
  DEF WriterGetsMutex, WriterTimesOut, Goto, LockSafe, CountExact, Types, Tasks
<1>4. UNCHANGED <<rw_lock, reader_count>>
  BY DEF WriterGetsMutex, WriterTimesOut
<1> QED
  BY <1>1, <1>2, <1>3, <1>4 DEF LockSafe, CountExact, LockHeld, Exclusion

LEMMA WriteUnlockKeeps ==
    ASSUME LockSafe, NEW t \in Writers, WriteUnlock(t)
    PROVE  LockSafe' /\ (LockHeld => LockHeld')
<1>1. Types'
  BY DEF LockSafe, Types, WriteUnlock, Goto, PCs, Tasks
<1>2. Counted' = Counted /\ Reading' = Reading /\ Writing' = Writing \ {t} /\ t \in Writing
  BY TasksAssumption DEF LockSafe, Types, WriteUnlock, Goto, Counted, Reading, Writing, Tasks
<1>3. CountExact'
  BY <1>2 DEF WriteUnlock, Goto, LockSafe, CountExact, Types, Tasks
<1>4. Reading' = {} /\ Writing' = {}
  BY <1>2 DEF LockSafe, Exclusion
<1> QED
  BY <1>1, <1>3, <1>4 DEF LockSafe, LockHeld, Exclusion, WriteUnlock
----------------------------------------------------------------------------
LEMMA LockStep == LockInv /\ [Next]_vars => LockInv'
<1> SUFFICES ASSUME LockSafe, [Next]_vars PROVE LockSafe' /\ (LockHeld => LockHeld')
  BY DEF LockInv
<1>1. ASSUME NEW t \in Readers,
             \/ \E time \in {"forever", "finite"} : ReadLock(t, time)
             \/ ReadUnlock(t) \/ ReaderStep(t)
      PROVE  LockSafe' /\ (LockHeld => LockHeld')
  BY <1>1, CallKeeps, ReaderGetsMutexKeeps, GetsRwLockKeeps, ReaderTimesOutKeeps,
     ReaderLeavesKeeps DEF ReaderStep, Tasks
<1>2. ASSUME NEW t \in Writers,
             \/ \E time \in Waits : WriteLock(t, time)
             \/ WriteUnlock(t) \/ WriterStep(t)
      PROVE  LockSafe' /\ (LockHeld => LockHeld')
  <2>1. WriterTimesOut(t) => pc[t] \in {"enter", "first"}
    BY DEF WriterTimesOut
  <2> QED
    BY <1>2, <2>1, CallKeeps, WriterMutexKeeps, GetsRwLockKeeps, WriteUnlockKeeps,
       WaitsAssumption DEF WriterStep, Tasks
<1>3. CASE UNCHANGED vars
  BY <1>3 DEF vars, LockSafe, Types, CountExact, LockHeld, Exclusion,
     Counted, Reading, Writing
<1> QED
  BY <1>1, <1>2, <1>3 DEF Next

LEMMA LockAlways == Spec => []LockInv
BY InitLock, LockStep, PTL DEF Spec

(* Every reachable state is typed; reader_count never passes the number of *)
(* readers and never drops below zero (os_rwlock_read_unlock).             *)
THEOREM TypeCorrect == Spec => []TypeOK
<1>1. LockInv => TypeOK
  BY CountBounded DEF LockInv
<1> QED
  BY <1>1, LockAlways, PTL

(* Writers exclude everybody, readers share the lock, however many of each *)
(* wait, time out and retry.                                               *)
THEOREM Excludes == Spec => []Exclusion
<1>1. LockInv => Exclusion
  BY DEF LockInv, LockSafe
<1> QED
  BY <1>1, LockAlways, PTL

(* A reader that timed out is not counted, and only who waits for rw_lock  *)
(* holds reader_mutex.                                                     *)
THEOREM CountsExactly == Spec => []CountExact
<1>1. LockInv => CountExact
  BY DEF LockInv, LockSafe
<1> QED
  BY <1>1, LockAlways, PTL

(* rw_lock is free exactly while nobody is in: it is never lost and never  *)
(* given back twice.                                                       *)
THEOREM LockNeverLost == Spec => []LockAccounted
<1>1. LockInv => LockAccounted
  BY DEF LockInv, LockSafe, LockHeld, LockAccounted
<1> QED
  BY <1>1, LockAlways, PTL
----------------------------------------------------------------------------
(* II. Power save over the lock                                            *)

Positions == 1 .. Len(events)

(* Of the lock, LockSafe still holds; LockHeld does not: the state machine *)
(* may forget the lock it has, and then wait for itself.                   *)

PsTypes ==
    /\ ieeeps_state \in PsStates /\ todo \in Todos
    /\ events \in Seq(Messages) /\ Len(events) <= MaxEvents
    /\ g_req_sl_confirm \in BOOLEAN /\ configured \in BOOLEAN /\ connected \in BOOLEAN
    /\ wakelock \in 0 .. WakelockMax
    /\ card \in [power : {"awake", "asleep"}, ps : BOOLEAN, poked : BOOLEAN]
    /\ asked \subseteq Requesters

(* Where cm_main is with the lock, and where the state machine is.         *)
MachineInv ==
    /\ pc[cm] # "leave"
    /\ todo = "lock" <=> pc[cm] \in {"enter", "first"}
    /\ todo = "lock" => ieeeps_state = "CONFIGURING"
    /\ todo = "confirm" => ieeeps_state = "PRE_SLEEP" /\ pc[cm] = "in"
    /\ ieeeps_state = "SLEEP" => pc[cm] = "in" /\ (todo = "ENTER" \/ ~g_req_sl_confirm)
    /\ ieeeps_state = "AWAKE" /\ todo = "ENTER" => pc[cm] = "in"

(* Requests name different tasks, each of which has the lock.              *)
IsRequest(i) == events[i].what \in {"DISCONNECT", "HEALTHMON"}

RequestInv ==
    /\ \A i \in Positions : IsRequest(i) => events[i].by \in asked
    /\ \A i, j \in Positions :
          IsRequest(i) /\ IsRequest(j) /\ events[i].by = events[j].by => i = j
    /\ \A r \in asked : pc[r] = "in"

(* A sleep confirm is answered once, while the state machine is in         *)
(* PRE_SLEEP with the lock, or has left it for DISABLING.                  *)
ConfirmInv ==
    /\ todo = "SLP_CFM" \/ Queued("SLP_CFM") =>
          /\ ieeeps_state \in {"PRE_SLEEP", "DISABLING"} /\ todo # "confirm"
          /\ ieeeps_state = "PRE_SLEEP" => pc[cm] = "in"
    /\ todo = "SLP_CFM" => ~Queued("SLP_CFM")
    /\ \A i, j \in Positions :
          events[i].what = "SLP_CFM" /\ events[j].what = "SLP_CFM" => i = j

(* The command that ends power save is sent once, and its answer comes     *)
(* after the one to the sleep confirm; the card is awake by then.          *)
ExitInv ==
    /\ todo = "DISABLE_DONE" \/ Queued("DIS_DONE") =>
          ieeeps_state = "DISABLING" /\ ~Asleep /\ todo # "ENTER"
    /\ todo = "DISABLE_DONE" => ~Queued("DIS_DONE") /\ ~Queued("SLP_CFM")
    /\ \A i, j \in Positions :
          /\ events[i].what = "DIS_DONE" /\ events[j].what = "DIS_DONE" => i = j
          /\ events[i].what = "SLP_CFM" /\ events[j].what = "DIS_DONE" => i < j

(* While the card sleeps the lock is kept, or power save is being left;    *)
(* what the card said before it slept is taken before the sleep is         *)
(* confirmed.                                                              *)
AsleepInv ==
    Asleep =>
        /\ \/ ieeeps_state \in {"PRE_SLEEP", "SLEEP"} /\ pc[cm] = "in"
           \/ ieeeps_state \in {"PRE_DISABLE", "DISABLING"}
        /\ todo # "confirm"
        /\ ieeeps_state = "SLEEP" =>
              /\ todo \notin {"AWAKE", "SLEEP"}
              /\ ~Queued("AWAKE") /\ ~Queued("SLEEP")
        /\ ieeeps_state = "PRE_SLEEP" =>
              /\ todo = "SLP_CFM" => ~Queued("AWAKE") /\ ~Queued("SLEEP")
              /\ \A i, j \in Positions :
                    /\ events[i].what = "SLP_CFM"
                    /\ events[j].what \in {"AWAKE", "SLEEP"}
                    => j < i

PsInv == LockSafe /\ PsTypes /\ MachineInv /\ RequestInv /\ ConfirmInv /\ ExitInv /\ AsleepInv

(* Who has a wakelock of his own: a sender that is in a call or            *)
(* transmits, a requester until its request is taken or lost, and the      *)
(* state machine while the card is awake for it.                           *)
Keeps(t) ==
    \/ t \in Senders /\ pc[t] # "out"
    \/ /\ t \in Requesters
       /\ \/ pc[t] \in {"enter", "first"}
          \/ pc[t] = "in" /\ t \notin asked
          \/ \E i \in Positions : IsRequest(i) /\ events[i].by = t

MachineKeeps ==
    \/ ieeeps_state = "AWAKE" /\ todo # "ENTER"
    \/ ieeeps_state = "PRE_SLEEP"
    \/ ieeeps_state = "SLEEP" /\ todo = "ENTER"

Keepers == {t \in Readers : Keeps(t)}

WakeInv == wakelock >= Cardinality(Keepers) + (IF MachineKeeps THEN 1 ELSE 0)
----------------------------------------------------------------------------
(* The queue *)

\* Each message of the new queue was d places further back, or is m, the
\* last one.
Moves(d, m) ==
    \A i \in Positions' :
       \/ i + d \in Positions /\ events'[i] = events[i + d]
       \/ i + d = Len(events) + 1 /\ events'[i] = m

LEMMA PlusFacts ==
    ASSUME NEW q \in Seq(Messages), Len(q) <= MaxEvents, NEW m \in Messages
    PROVE  /\ Plus(q, m) \in Seq(Messages) /\ Len(Plus(q, m)) <= MaxEvents
           /\ \A i \in 1 .. Len(Plus(q, m)) :
                 \/ i \in 1 .. Len(q) /\ Plus(q, m)[i] = q[i]
                 \/ i = Len(q) + 1 /\ Plus(q, m)[i] = m
<1>1. CASE Len(q) < MaxEvents
  <2>1. /\ Append(q, m) \in Seq(Messages) /\ Len(Append(q, m)) = Len(q) + 1
        /\ \A i \in 1 .. Len(q) : Append(q, m)[i] = q[i]
        /\ Append(q, m)[Len(q) + 1] = m /\ Len(q) \in Nat
    OBVIOUS
  <2> QED
    BY <1>1, <2>1, BoundsAssumption DEF Plus
<1>2. CASE ~(Len(q) < MaxEvents)
  BY <1>2 DEF Plus
<1> QED
  BY <1>1, <1>2

LEMMA TailFacts ==
    ASSUME NEW q \in Seq(Messages), q # <<>>
    PROVE  /\ Tail(q) \in Seq(Messages) /\ Len(Tail(q)) = Len(q) - 1
           /\ Len(q) \in Nat \ {0} /\ Head(q) = q[1] /\ q[1] \in Messages
           /\ \A i \in 1 .. Len(Tail(q)) : i + 1 \in 1 .. Len(q) /\ Tail(q)[i] = q[i + 1]
OBVIOUS

LEMMA MsgTypes ==
    \A w \in {"SLEEP", "AWAKE", "EN_DONE", "DIS_DONE", "SLP_CFM", "LINK_LOSS",
              "DEAUTH", "PS_ENTER", "PS_EXIT"} : Msg(w) \in Messages /\ Msg(w).what = w
BY DEF Msg, Messages

LEMMA MovesSame ==
    ASSUME PsTypes, events' = events, NEW m
    PROVE  Moves(0, m)
BY DEF Moves, Positions, PsTypes

LEMMA MovesPlus ==
    ASSUME PsTypes, NEW m \in Messages, events' = Plus(events, m)
    PROVE  Moves(0, m) /\ events' \in Seq(Messages) /\ Len(events') <= MaxEvents
<1>1. events \in Seq(Messages) /\ Len(events) <= MaxEvents /\ Len(events) \in Nat
  BY DEF PsTypes
<1>2. /\ events' \in Seq(Messages) /\ Len(events') <= MaxEvents
      /\ \A i \in Positions' :
            \/ i \in Positions /\ events'[i] = events[i]
            \/ i = Len(events) + 1 /\ events'[i] = m
  BY <1>1, PlusFacts DEF Positions
<1>3. \A i \in Positions' : i + 0 = i
  BY <1>2 DEF Positions
<1> QED
  BY <1>2, <1>3 DEF Moves

LEMMA MovesTail ==
    ASSUME PsTypes, events # <<>>, events' = Tail(events), NEW m
    PROVE  /\ Moves(1, m) /\ events' \in Seq(Messages) /\ Len(events') <= MaxEvents
           /\ 1 \in Positions /\ Head(events) = events[1] /\ events[1] \in Messages
<1>1. events \in Seq(Messages) /\ Len(events) <= MaxEvents /\ MaxEvents \in Nat
  BY BoundsAssumption DEF PsTypes
<1> QED
  BY <1>1, TailFacts DEF Moves, Positions

LEMMA MovesTailPlus ==
    ASSUME PsTypes, events # <<>>, NEW m \in Messages, events' = Plus(Tail(events), m)
    PROVE  /\ Moves(1, m) /\ events' \in Seq(Messages) /\ Len(events') <= MaxEvents
           /\ 1 \in Positions /\ Head(events) = events[1] /\ events[1] \in Messages
<1>1. events \in Seq(Messages) /\ Len(events) <= MaxEvents /\ MaxEvents \in Nat
  BY BoundsAssumption DEF PsTypes
<1>2. /\ Tail(events) \in Seq(Messages) /\ Len(Tail(events)) = Len(events) - 1
      /\ Len(events) \in Nat \ {0} /\ Head(events) = events[1] /\ events[1] \in Messages
      /\ \A i \in 1 .. Len(Tail(events)) :
            i + 1 \in 1 .. Len(events) /\ Tail(events)[i] = events[i + 1]
  BY <1>1, TailFacts
<1>3. /\ events' \in Seq(Messages) /\ Len(events') <= MaxEvents
      /\ \A i \in Positions' :
            \/ i \in 1 .. Len(Tail(events)) /\ events'[i] = Tail(events)[i]
            \/ i = Len(Tail(events)) + 1 /\ events'[i] = m
  <2> DEFINE q == Tail(events)
  <2>1. q \in Seq(Messages) /\ Len(q) <= MaxEvents /\ events' = Plus(q, m)
    BY <1>1, <1>2
  <2> HIDE DEF q
  <2>2. /\ events' \in Seq(Messages) /\ Len(events') <= MaxEvents
        /\ \A i \in Positions' :
              \/ i \in 1 .. Len(q) /\ events'[i] = q[i]
              \/ i = Len(q) + 1 /\ events'[i] = m
    BY <2>1, PlusFacts DEF Positions
  <2> QED
    BY <2>2 DEF q
<1>4. \A i \in Positions' : \/ i + 1 \in Positions /\ events'[i] = events[i + 1]
                            \/ i + 1 = Len(events) + 1 /\ events'[i] = m
  <2> SUFFICES ASSUME NEW i \in Positions'
               PROVE  \/ i + 1 \in Positions /\ events'[i] = events[i + 1]
                      \/ i + 1 = Len(events) + 1 /\ events'[i] = m
    OBVIOUS
  <2> DEFINE q == Tail(events)
  <2>1. CASE i \in 1 .. Len(q) /\ events'[i] = q[i]
    BY <2>1, <1>2 DEF Positions
  <2>2. CASE i = Len(q) + 1 /\ events'[i] = m
    BY <2>2, <1>2
  <2> QED
    BY <2>1, <2>2, <1>3
<1>5. Moves(1, m)
  BY <1>4 DEF Moves
<1>6. 1 \in Positions
  BY <1>2 DEF Positions
<1> QED
  BY <1>2, <1>3, <1>5, <1>6

\* What is queued was queued, or is the new message.
LEMMA QueuedBefore ==
    ASSUME PsTypes, PsTypes', NEW d \in {0, 1}, NEW m, Moves(d, m), NEW w, Queued(w)'
    PROVE  Queued(w) \/ m.what = w
<1>1. DOMAIN events = Positions /\ (DOMAIN events = Positions)'
  BY DEF PsTypes, Positions
<1> QED
  BY <1>1 DEF Moves, Queued
----------------------------------------------------------------------------
(* What the steps have in common *)

LEMMA Cm ==
    /\ cm \in Tasks /\ cm \in Writers /\ cm \notin Readers
    /\ Readers \subseteq Tasks /\ Senders \subseteq Readers /\ Requesters \subseteq Readers
    /\ Requesters \cap Senders = {}
BY PsTasks, TasksAssumption DEF Tasks

LEMMA CmLock ==
    ASSUME LockSafe
    PROVE  /\ pc[cm] = "in" => Reading = {} /\ ~rw_lock
           /\ pc[cm] = "first" <=> reader_mutex = cm
           /\ pc[cm] \in PCs
<1>1. pc[cm] = "in" => cm \in Writing
  BY Cm DEF Writing
<1> QED
  BY <1>1, Cm DEF LockSafe, Exclusion, CountExact, Types

\* The tasks other than cm_main, and the card, leave the state machine and
\* cm_main's place in the lock alone; they queue no answer, and the card
\* speaks only while it is awake.
EnvFrame ==
    /\ UNCHANGED <<ieeeps_state, todo, g_req_sl_confirm>>
    /\ pc'[cm] = pc[cm]
    /\ Asleep' => Asleep
    /\ \E m \in Messages : /\ Moves(0, m)
                           /\ m.what \notin {"SLP_CFM", "DIS_DONE"}
                           /\ m.what \in {"SLEEP", "AWAKE"} => ~Asleep'

\* A message is taken: what the state machine does next depends on it.
TakeFrame ==
    /\ UNCHANGED <<ieeeps_state, g_req_sl_confirm, card>> /\ todo = "none"
    /\ pc'[cm] = pc[cm]
    /\ 1 \in Positions /\ Moves(1, Msg("DEAUTH"))
    /\ \/ events[1].what \in {"SLEEP", "AWAKE", "SLP_CFM"} /\ todo' = events[1].what
       \/ events[1].what = "DIS_DONE" /\ todo' = "DISABLE_DONE"
       \/ todo' \in {"ENABLE", "ENABLE_DONE", "DISABLE", "none"}

LEMMA ReaderPlaces ==
    ASSUME LockSafe, NEW t \in Readers,
           ReaderStep(t) \/ ReadUnlock(t) \/ (\E w \in {"forever", "finite"} : ReadLock(t, w))
    PROVE  \A u \in Tasks : u # t => pc'[u] = pc[u]
BY Cm DEF LockSafe, Types, ReaderStep, ReaderGetsMutex, GetsRwLock, ReaderTimesOut,
   ReaderLeaves, ReadUnlock, ReadLock, Goto

\* The lock's part of the environment's steps.
LEMMA EnvLock ==
    ASSUME LockSafe, Environment
    PROVE  \/ UNCHANGED vars
           \/ \E t \in Readers : /\ ReaderStep(t) \/ ReadUnlock(t)
                                    \/ (\E w \in {"forever", "finite"} : ReadLock(t, w))
                                 /\ t \in Senders \/ ~ReadUnlock(t)
BY Cm DEF Environment, ReaderActs, Transmit, LockForRequest, SendRequest, PsRequest, AsksToSleep,
   SaysAwake, LosesLink, Connects, ReadUnlock, ReadLock, ReaderStep, ReaderGetsMutex, GetsRwLock,
   ReaderTimesOut, ReaderLeaves

LEMMA EnvQueue ==
    ASSUME PsTypes, Environment
    PROVE  /\ UNCHANGED <<ieeeps_state, todo, g_req_sl_confirm>>
           /\ Asleep' => Asleep
           /\ events' \in Seq(Messages) /\ Len(events') <= MaxEvents
           /\ \E m \in Messages : /\ Moves(0, m)
                                  /\ m.what \notin {"SLP_CFM", "DIS_DONE"}
                                  /\ m.what \in {"SLEEP", "AWAKE"} => ~Asleep'
<1>c. card \in [power : {"awake", "asleep"}, ps : BOOLEAN, poked : BOOLEAN]
      /\ events \in Seq(Messages) /\ Len(events) <= MaxEvents
  BY DEF PsTypes
<1>1. ASSUME NEW t \in Readers, ReaderActs(t) PROVE UNCHANGED events /\ (Asleep' => Asleep)
             /\ UNCHANGED <<ieeeps_state, todo, g_req_sl_confirm>>
  BY <1>1, <1>c DEF ReaderActs, cmVars, Asleep
<1>2. ASSUME \/ \E s \in Senders : Transmit(s)
             \/ \E r \in Requesters : LockForRequest(r)
             \/ Connects
      PROVE  UNCHANGED events /\ (Asleep' => Asleep)
             /\ UNCHANGED <<ieeeps_state, todo, g_req_sl_confirm>>
  BY <1>2 DEF Transmit, LockForRequest, Connects, cmVars, Asleep
<1>3. ASSUME NEW r \in Requesters, NEW what \in {"DISCONNECT", "HEALTHMON"}, SendRequest(r, what)
      PROVE  /\ events' = Plus(events, Request(r, what)) /\ UNCHANGED card
             /\ UNCHANGED <<ieeeps_state, todo, g_req_sl_confirm>>
             /\ Request(r, what) \in Messages /\ Request(r, what).what = what
  BY <1>3 DEF SendRequest, cmVars, Request, Messages, Requests
<1>4. ASSUME PsRequest \/ AsksToSleep \/ SaysAwake \/ LosesLink
      PROVE  /\ \/ events' = Plus(events, Msg("PS_EXIT")) /\ UNCHANGED card
                \/ events' = Plus(events, Msg("PS_ENTER")) /\ UNCHANGED card
                \/ events' = Plus(events, Msg("SLEEP")) /\ ~Asleep /\ UNCHANGED card
                \/ events' = Plus(events, Msg("AWAKE")) /\ ~Asleep'
                \/ events' = Plus(events, Msg("LINK_LOSS")) /\ UNCHANGED card
             /\ UNCHANGED <<ieeeps_state, todo, g_req_sl_confirm>>
  BY <1>4, <1>c DEF PsRequest, AsksToSleep, SaysAwake, LosesLink, cmVars, Asleep
<1>5. CASE UNCHANGED events /\ (Asleep' => Asleep) /\ UNCHANGED <<ieeeps_state, todo, g_req_sl_confirm>>
  <2>1. Moves(0, Msg("PS_ENTER"))
    BY <1>5, MovesSame
  <2> QED
    BY <1>5, <1>c, <2>1, MsgTypes
<1>6. ASSUME NEW m \in Messages, events' = Plus(events, m),
             m.what \notin {"SLP_CFM", "DIS_DONE"}, m.what \in {"SLEEP", "AWAKE"} => ~Asleep',
             UNCHANGED <<ieeeps_state, todo, g_req_sl_confirm>>, Asleep' => Asleep
      PROVE  /\ events' \in Seq(Messages) /\ Len(events') <= MaxEvents
             /\ Moves(0, m)
  BY <1>6, MovesPlus
<1>7. UNCHANGED card => (Asleep' <=> Asleep)
  BY DEF Asleep
<1>8. CASE \E r \in Requesters, what \in {"DISCONNECT", "HEALTHMON"} : SendRequest(r, what)
  BY <1>3, <1>6, <1>7, <1>8
<1>9. CASE PsRequest \/ AsksToSleep \/ SaysAwake \/ LosesLink
  BY <1>4, <1>6, <1>7, <1>9, MsgTypes
<1> QED
  BY <1>1, <1>2, <1>5, <1>8, <1>9 DEF Environment

LEMMA EnvFrames ==
    ASSUME LockSafe, PsTypes, Environment
    PROVE  EnvFrame
<1>1. pc'[cm] = pc[cm]
  BY EnvLock, ReaderPlaces, Cm DEF vars
<1> QED
  BY <1>1, EnvQueue DEF EnvFrame

\* A step that takes a message.
Take ==
    \/ RunsOn("SLEEP", "SLEEP") \/ RunsOn("AWAKE", "AWAKE")
    \/ RunsOn("EN_DONE", "ENABLE_DONE") \/ RunsOn("DIS_DONE", "DISABLE_DONE")
    \/ RunsOn("SLP_CFM", "SLP_CFM")
    \/ HandlePsRequest \/ HandleLoss \/ HandleRequest

LEMMA TakeQueue ==
    ASSUME PsTypes, Take
    PROVE  /\ events # <<>>
           /\ events' \in Seq(Messages) /\ Len(events') <= MaxEvents
           /\ 1 \in Positions /\ Moves(1, Msg("DEAUTH"))
           /\ Head(events) = events[1] /\ events[1] \in Messages
<1>1. \/ events # <<>> /\ events' = Tail(events)
      \/ events # <<>> /\ events' = Plus(Tail(events), Msg("DEAUTH"))
  BY DEF Take, RunsOn, HandlePsRequest, HandleLoss, HandleRequest, Takes
<1> QED
  BY <1>1, MovesTail, MovesTailPlus, MsgTypes

LEMMA TakeFrames ==
    ASSUME LockSafe, PsTypes, Take
    PROVE  TakeFrame
<1> USE TakeQueue DEF TakeFrame
<1>1. ASSUME NEW w, NEW e, RunsOn(w, e)
      PROVE  /\ UNCHANGED <<vars, ieeeps_state, g_req_sl_confirm, card>> /\ todo = "none"
             /\ Head(events).what = w /\ todo' = e
  BY <1>1 DEF RunsOn, Takes, Idle
<1>2. CASE HandlePsRequest \/ HandleLoss
  BY <1>2 DEF HandlePsRequest, HandleLoss, Takes, Idle, vars
<1>3. CASE HandleRequest
  <2>1. Head(events).by \in Requesters
    BY <1>3 DEF HandleRequest, Messages, Requests
  <2>2. pc'[cm] = pc[cm]
    BY <1>3, <2>1, Cm DEF HandleRequest, Goto, LockSafe, Types
  <2> QED
    BY <1>3, <2>2 DEF HandleRequest, Idle
<1> QED
  BY <1>1, <1>2, <1>3 DEF Take, vars

LEMMA WakelockTypes ==
    ASSUME wakelock \in 0 .. WakelockMax, WakelockGet \/ WakelockPut \/ UNCHANGED wakelock
    PROVE  wakelock' \in 0 .. WakelockMax
BY BoundsAssumption DEF WakelockGet, WakelockPut

LEMMA CardTypes ==
    ASSUME PsTypes,
           \/ UNCHANGED card
           \/ card' = [card EXCEPT !.ps = TRUE]
           \/ \E p \in {"awake", "asleep"} : card' = [card EXCEPT !.power = p, !.poked = FALSE]
           \/ card' = [card EXCEPT !.poked = TRUE]
           \/ card' = [power |-> "awake", ps |-> FALSE, poked |-> FALSE]
    PROVE  card' \in [power : {"awake", "asleep"}, ps : BOOLEAN, poked : BOOLEAN]
<1> DEFINE Cards == [power : {"awake", "asleep"}, ps : BOOLEAN, poked : BOOLEAN]
<1>1. card \in Cards
  BY DEF PsTypes
<1>2. ASSUME NEW p \in {"awake", "asleep"}, card' = [card EXCEPT !.power = p, !.poked = FALSE]
      PROVE  card' \in Cards
  <2>1. card' = [power |-> p, ps |-> card.ps, poked |-> FALSE]
    BY <1>1, <1>2
  <2> QED
    BY <1>1, <2>1
<1>3. CASE UNCHANGED card
  BY <1>1, <1>3
<1>4. CASE card' = [card EXCEPT !.ps = TRUE] \/ card' = [card EXCEPT !.poked = TRUE]
  BY <1>1, <1>4
<1>5. CASE card' = [power |-> "awake", ps |-> FALSE, poked |-> FALSE]
  BY <1>5
<1> QED
  BY <1>2, <1>3, <1>4, <1>5

LEMMA CmStepSplit ==
    ASSUME CmStep
    PROVE  Take \/ RetryConfirm \/ StateMachine
BY DEF CmStep, Take

LEMMA TypesKept ==
    ASSUME LockSafe, PsTypes, [PsNext]_allVars
    PROVE  PsTypes'
<1>0. wakelock' \in 0 .. WakelockMax
  <2>1. WakelockGet \/ WakelockPut \/ UNCHANGED wakelock
    BY DEF PsNext, allVars, psVars, CmStep, StateMachine, InInit, InConfiguring, WaitsForLock, InAwake,
       InPreSleep, ConfirmSleep, InSleep, InPreDisable, InDisabling, RunsOn, HandlePsRequest, HandleLoss,
       HandleRequest, RetryConfirm, Environment, ReaderActs, Transmit, LockForRequest, SendRequest,
       PsRequest, AsksToSleep, SaysAwake, LosesLink, Connects
  <2> QED
    BY <2>1, WakelockTypes DEF PsTypes
<1> USE <1>0
<1>1. CASE Environment
  <2>1. /\ UNCHANGED <<ieeeps_state, todo, g_req_sl_confirm>>
        /\ events' \in Seq(Messages) /\ Len(events') <= MaxEvents
    BY <1>1, EnvQueue
  <2>2. /\ configured' \in BOOLEAN /\ connected' \in BOOLEAN
        /\ asked' \subseteq Requesters
    BY <1>1 DEF PsTypes, Environment, ReaderActs, Transmit, LockForRequest, SendRequest,
       PsRequest, AsksToSleep, SaysAwake, LosesLink, Connects, cmVars
  <2>3. card' \in [power : {"awake", "asleep"}, ps : BOOLEAN, poked : BOOLEAN]
    BY <1>1 DEF PsTypes, Environment, ReaderActs, Transmit, LockForRequest, SendRequest,
       PsRequest, AsksToSleep, SaysAwake, LosesLink, Connects
  <2> QED
    BY <2>1, <2>2, <2>3 DEF PsTypes
<1>2. CASE Take
  <2>1. events' \in Seq(Messages) /\ Len(events') <= MaxEvents
    BY <1>2, TakeQueue
  <2>2. /\ UNCHANGED <<ieeeps_state, g_req_sl_confirm, card>> /\ todo' \in Todos
        /\ configured' \in BOOLEAN /\ connected' \in BOOLEAN
        /\ asked' \subseteq Requesters
    BY <1>2 DEF PsTypes, Take, RunsOn, HandlePsRequest, HandleLoss, HandleRequest, Todos, SmEvents
  <2> QED
    BY <2>1, <2>2 DEF PsTypes
<1>3. CASE RetryConfirm
  BY <1>3 DEF RetryConfirm, PsTypes, Todos, SmEvents
<1>4. CASE StateMachine
  <2> USE <1>4 DEF StateMachine, InInit, InConfiguring, WaitsForLock, InAwake,
       InPreSleep, ConfirmSleep, InSleep, InPreDisable, InDisabling
  <2>1. events' \in Seq(Messages) /\ Len(events') <= MaxEvents
    <3>1. \/ UNCHANGED events
          \/ \E w \in {"EN_DONE", "SLP_CFM", "DIS_DONE"} : events' = Plus(events, Msg(w))
      OBVIOUS
    <3> QED
      BY <3>1, MovesPlus, MsgTypes DEF PsTypes
  <2>2. ieeeps_state' \in PsStates /\ todo' \in Todos
    BY DEF PsTypes, Become, Stay, PsStates, Todos, SmEvents
  <2>3. g_req_sl_confirm' \in BOOLEAN
    BY DEF PsTypes
  <2>4. configured' \in BOOLEAN /\ connected' \in BOOLEAN /\ asked' \subseteq Requesters
    BY DEF PsTypes
  <2>5. \/ UNCHANGED card
        \/ card' = [card EXCEPT !.ps = TRUE]
        \/ \E p \in {"awake", "asleep"} : card' = [card EXCEPT !.power = p, !.poked = FALSE]
        \/ card' = [card EXCEPT !.poked = TRUE]
        \/ card' = [power |-> "awake", ps |-> FALSE, poked |-> FALSE]
    OBVIOUS
  <2>6. card' \in [power : {"awake", "asleep"}, ps : BOOLEAN, poked : BOOLEAN]
    BY <2>5, CardTypes
  <2> QED
    BY <2>1, <2>2, <2>3, <2>4, <2>6 DEF PsTypes
<1>5. CASE UNCHANGED allVars
  BY <1>5 DEF allVars, psVars, PsTypes
<1> QED
  BY <1>1, <1>2, <1>3, <1>4, <1>5, CmStepSplit DEF PsNext
----------------------------------------------------------------------------
(* The lock *)

\* cm_main starts to wait for the lock, and forgets it if it has it.
Forgets ==
    /\ pc[cm] \notin {"enter", "first"} /\ Goto(cm, "enter")
    /\ wait' = [wait EXCEPT ![cm] = "forever"]
    /\ UNCHANGED <<reader_mutex, rw_lock, reader_count>>

TakesAtOnce ==
    /\ LockFree /\ pc[cm] \notin {"enter", "first"}
    /\ rw_lock' = FALSE /\ Goto(cm, "in")
    /\ UNCHANGED <<reader_mutex, reader_count, wait>>

\* What the state machine does to the lock: it gives back its own only.
LEMMA MachineLock ==
    ASSUME LockSafe, PsTypes, MachineInv, AsleepInv, StateMachine
    PROVE  \/ UNCHANGED vars
           \/ Forgets \/ TakesAtOnce
           \/ WriterGetsMutex(cm) \/ GetsRwLock(cm) \/ WriteUnlock(cm)
<1>1. pc[cm] = "in" /\ WriteUnlocked => WriteUnlock(cm)
  BY DEF WriteUnlocked, WriteUnlock
<1>2. CASE InInit \/ InPreDisable \/ InDisabling
  BY <1>2 DEF InInit, InPreDisable, InDisabling
<1>3. CASE InConfiguring
  BY <1>3 DEF InConfiguring, MachineInv, Forgets, vars, SmEvents
<1>4. CASE WaitsForLock
  BY <1>4 DEF WaitsForLock
<1>5. CASE InAwake
  BY <1>1, <1>5 DEF InAwake, MachineInv
<1>6. CASE InPreSleep
  BY <1>6 DEF InPreSleep, MachineInv, TakesAtOnce, SmEvents
<1>7. CASE ConfirmSleep
  BY <1>1, <1>7 DEF ConfirmSleep, MachineInv
<1>8. CASE InSleep
  BY <1>1, <1>8 DEF InSleep, MachineInv
<1> QED
  BY <1>2, <1>3, <1>4, <1>5, <1>6, <1>7, <1>8 DEF StateMachine

LEMMA ForgetsKeeps ==
    ASSUME LockSafe, Forgets
    PROVE  LockSafe'
<1>1. Types'
  BY Cm DEF LockSafe, Types, Forgets, Goto, PCs
<1>2. /\ Counted' = Counted /\ Reading' = Reading
      /\ Writing' \subseteq Writing
  BY Cm DEF LockSafe, Types, Forgets, Goto, Counted, Reading, Writing, Tasks
<1>3. \A u \in Tasks : pc'[u] = "first" <=> pc[u] = "first"
  BY DEF LockSafe, Types, Forgets, Goto
<1>4. CountExact'
  BY <1>2, <1>3 DEF LockSafe, CountExact, Forgets
<1> QED
  BY <1>1, <1>2, <1>4 DEF LockSafe, Exclusion, Forgets

LEMMA TakesAtOnceKeeps ==
    ASSUME LockSafe, TakesAtOnce
    PROVE  LockSafe'
<1>1. Types'
  BY Cm DEF LockSafe, Types, TakesAtOnce, Goto, PCs
<1>2. Counted' = Counted /\ Reading' = Reading
  BY Cm DEF LockSafe, Types, TakesAtOnce, Goto, Counted, Reading, Tasks
<1>3. \A u \in Tasks : pc'[u] = "first" <=> pc[u] = "first"
  BY Cm DEF LockSafe, Types, TakesAtOnce, Goto
<1>4. CountExact'
  BY <1>2, <1>3 DEF LockSafe, CountExact, TakesAtOnce
<1>5. Reading = {}
  BY DEF LockSafe, TakesAtOnce, LockFree
<1> QED
  BY <1>1, <1>2, <1>4, <1>5, PsTasks DEF LockSafe, Exclusion, TakesAtOnce, Writing

\* A request is taken from a task that has the lock.
LEMMA RequestLock ==
    ASSUME PsTypes, RequestInv, HandleRequest
    PROVE  /\ Head(events).by \in Requesters /\ Head(events).by \in asked
           /\ ReadUnlock(Head(events).by)
<1>1. /\ 1 \in Positions /\ Head(events) = events[1] /\ events[1] \in Messages
      /\ IsRequest(1)
  BY TakeQueue DEF Take, HandleRequest, IsRequest
<1>2. events[1].by \in asked /\ pc[events[1].by] = "in"
  BY <1>1 DEF RequestInv
<1> QED
  BY <1>1, <1>2 DEF PsTypes, HandleRequest, ReadUnlock

LEMMA LockKept ==
    ASSUME PsInv, [PsNext]_allVars
    PROVE  LockSafe'
<1>0. CASE UNCHANGED vars
  BY <1>0 DEF PsInv, vars, LockSafe, Types, CountExact, Exclusion, Counted, Reading, Writing
<1> USE DEF PsInv
<1>1. CASE Environment
  <2>2. ASSUME NEW t \in Readers,
               ReaderStep(t) \/ ReadUnlock(t) \/ (\E w \in {"forever", "finite"} : ReadLock(t, w))
        PROVE  LockSafe'
    BY <2>2, Cm, CallKeeps, ReaderGetsMutexKeeps, GetsRwLockKeeps, ReaderTimesOutKeeps,
       ReaderLeavesKeeps DEF ReaderStep
  <2> QED
    BY <1>0, <1>1, <2>2, EnvLock
<1>2. CASE Take
  <2>1. CASE HandleRequest
    BY <2>1, RequestLock, CallKeeps, Cm
  <2> QED
    BY <1>0, <1>2, <2>1 DEF Take, RunsOn, HandlePsRequest, HandleLoss
<1>3. CASE StateMachine
  BY <1>0, <1>3, MachineLock, ForgetsKeeps, TakesAtOnceKeeps, WriterMutexKeeps, GetsRwLockKeeps,
     WriteUnlockKeeps, Cm
<1>4. CASE RetryConfirm \/ UNCHANGED allVars
  BY <1>0, <1>4 DEF RetryConfirm, allVars
<1> QED
  BY <1>1, <1>2, <1>3, <1>4, CmStepSplit DEF PsNext
----------------------------------------------------------------------------
(* The state machine *)

LEMMA MachineKept ==
    ASSUME PsInv, [PsNext]_allVars
    PROVE  MachineInv'
<1> USE DEF PsInv
<1>p. pc \in [Tasks -> PCs] /\ cm \in Tasks
  BY Cm DEF LockSafe, Types
<1>1. CASE Environment
  BY <1>1, EnvFrames DEF EnvFrame, MachineInv
<1>2. CASE Take
  BY <1>2, TakeFrames DEF TakeFrame, MachineInv
<1>3. CASE RetryConfirm
  BY <1>3 DEF RetryConfirm, MachineInv, Idle, vars
<1>4. CASE InInit \/ InPreDisable \/ InDisabling
  BY <1>4 DEF InInit, InPreDisable, InDisabling, MachineInv, Become, Stay, vars, SmEvents
<1>5. CASE InConfiguring
  BY <1>5, <1>p DEF InConfiguring, MachineInv, Become, Stay, SmEvents, Goto
<1>6. CASE WaitsForLock
  BY <1>6, <1>p DEF WaitsForLock, MachineInv, Become, WriterGetsMutex, GetsRwLock, Goto
<1>7. CASE InAwake
  BY <1>7, <1>p DEF InAwake, MachineInv, Become, Stay, SmEvents, WriteUnlocked, Goto, vars
<1>8. CASE InPreSleep
  <2>1. pc[cm] = "in" => ~LockFree
    BY CmLock DEF LockFree
  <2>2. todo = "SLP_CFM" => pc[cm] = "in"
    BY <1>8 DEF ConfirmInv, InPreSleep
  <2> QED
    BY <1>8, <1>p, <2>1, <2>2 DEF InPreSleep, MachineInv, Become, Stay, SmEvents, Goto, vars
<1>9. CASE ConfirmSleep
  BY <1>9, <1>p DEF ConfirmSleep, MachineInv, WriteUnlocked, Goto, vars
<1>10. CASE InSleep
  BY <1>10, <1>p DEF InSleep, MachineInv, Become, Stay, SmEvents, WriteUnlocked, Goto, vars
<1>11. CASE UNCHANGED allVars
  BY <1>11 DEF allVars, vars, psVars, MachineInv
<1> QED
  BY <1>1, <1>2, <1>3, <1>4, <1>5, <1>6, <1>7, <1>8, <1>9, <1>10, <1>11, CmStepSplit
  DEF PsNext, StateMachine

\* pc of the requesters in asked
LEMMA RequestKept ==
    ASSUME PsInv, [PsNext]_allVars
    PROVE  RequestInv'
<1> USE DEF PsInv
<1>p. pc \in [Tasks -> PCs] /\ asked \subseteq Requesters /\ asked \subseteq Tasks /\ cm \notin asked
  BY Cm DEF LockSafe, Types, PsTypes
<1>s. ASSUME NEW d \in {0, 1}, NEW m, Moves(d, m), m.what \notin {"DISCONNECT", "HEALTHMON"},
             UNCHANGED asked, \A r \in asked : pc'[r] = pc[r]
      PROVE  RequestInv'
  <2>1. \A i \in Positions' : IsRequest(i)' => i + d \in Positions /\ events'[i] = events[i + d]
    BY <1>s DEF Moves, IsRequest
  <2>2. \A i \in Positions' : i \in Nat
    BY DEF Positions
  <2> QED
    BY <1>s, <2>1, <2>2 DEF RequestInv, IsRequest
<1>1. CASE Environment /\ UNCHANGED <<events, asked>>
  <2>1. \A r \in asked : pc'[r] = pc[r]
    <3>1. CASE UNCHANGED vars
      BY <3>1 DEF vars
    <3>2. ASSUME NEW t \in Readers,
                 ReaderStep(t) \/ ReadUnlock(t) \/ (\E w \in {"forever", "finite"} : ReadLock(t, w)),
                 t \in Senders \/ ~ReadUnlock(t)
          PROVE  \A r \in asked : pc'[r] = pc[r]
      <4>1. t \notin asked
        BY <1>p, <3>2, Cm DEF RequestInv, ReaderStep, ReaderGetsMutex, GetsRwLock, ReaderTimesOut,
           ReaderLeaves, ReadLock
      <4> QED
        BY <1>p, <3>2, <4>1, ReaderPlaces
    <3> QED
      BY <1>1, <3>1, <3>2, EnvLock
  <2>2. Moves(0, Msg("DEAUTH"))
    BY <1>1, MovesSame
  <2> QED
    BY <1>1, <1>s, <2>1, <2>2, MsgTypes
<1>2. CASE PsRequest \/ AsksToSleep \/ SaysAwake \/ LosesLink
  <2>1. \E w \in {"PS_EXIT", "PS_ENTER", "SLEEP", "AWAKE", "LINK_LOSS"} : events' = Plus(events, Msg(w))
    BY <1>2 DEF PsRequest, AsksToSleep, SaysAwake, LosesLink
  <2>2. UNCHANGED asked /\ UNCHANGED pc
    BY <1>2 DEF PsRequest, AsksToSleep, SaysAwake, LosesLink, vars
  <2> QED
    BY <1>s, <2>1, <2>2, MsgTypes, MovesPlus
<1>3. ASSUME NEW r \in Requesters, NEW what \in {"DISCONNECT", "HEALTHMON"}, SendRequest(r, what)
      PROVE  RequestInv'
  <2> DEFINE m == Request(r, what)
  <2>1. m \in Messages /\ m.by = r /\ m.what = what
    BY DEF Request, Messages, Requests
  <2>2. events' = Plus(events, m) /\ asked' = asked \cup {r} /\ pc' = pc /\ pc[r] = "in" /\ r \notin asked
    BY <1>3 DEF SendRequest, vars
  <2> HIDE DEF m
  <2>3. Moves(0, m)
    BY <2>1, <2>2, MovesPlus
  <2>4. \A i \in Positions' : \/ i \in Positions /\ events'[i] = events[i]
                              \/ i = Len(events) + 1 /\ events'[i] = m
    <3>1. \A i \in Positions' : i + 0 = i
      BY DEF Positions
    <3> QED
      BY <2>3, <3>1 DEF Moves
  <2> QED
    BY <2>1, <2>2, <2>4 DEF RequestInv, IsRequest
<1>4. CASE HandleRequest
  <2> DEFINE r == events[1].by
  <2>1. /\ 1 \in Positions /\ Head(events) = events[1] /\ IsRequest(1) /\ Moves(1, Msg("DEAUTH"))
    BY <1>4, TakeQueue DEF Take, HandleRequest, IsRequest
  <2>2. r \in asked /\ asked' = asked \ {r} /\ pc' = [pc EXCEPT ![r] = "leave"]
    BY <1>4, <2>1, RequestLock DEF HandleRequest, Goto
  <2> HIDE DEF r
  <2>3. \A i \in Positions' : IsRequest(i)' => i + 1 \in Positions /\ events'[i] = events[i + 1]
    BY <2>1, MsgTypes DEF Moves, IsRequest
  <2>4. \A i \in Positions' : i \in Nat /\ i + 1 # 1
    BY DEF Positions
  <2>5. \A i \in Positions' : IsRequest(i)' => events'[i].by # r
    BY <2>1, <2>3, <2>4 DEF RequestInv, IsRequest, r
  <2> QED
    BY <1>p, <2>2, <2>3, <2>4, <2>5 DEF RequestInv, IsRequest
<1>5. CASE Take /\ ~HandleRequest
  <2>1. UNCHANGED <<vars, asked>>
    BY <1>5 DEF Take, RunsOn, HandlePsRequest, HandleLoss
  <2> QED
    BY <1>5, <1>s, <2>1, TakeQueue, MsgTypes DEF vars
<1>6. CASE StateMachine
  <2>1. UNCHANGED asked
    BY <1>6 DEF StateMachine
  <2>2. \A r \in asked : pc'[r] = pc[r]
    BY <1>6, <1>p, MachineLock DEF vars, Forgets, TakesAtOnce, WriterGetsMutex, GetsRwLock, WriteUnlock, Goto
  <2>3. \/ UNCHANGED events
        \/ \E w \in {"EN_DONE", "SLP_CFM", "DIS_DONE"} : events' = Plus(events, Msg(w))
    BY <1>6 DEF StateMachine, InInit, InConfiguring, WaitsForLock, InAwake,
       InPreSleep, ConfirmSleep, InSleep, InPreDisable, InDisabling
  <2> QED
    BY <1>s, <2>1, <2>2, <2>3, MovesSame, MovesPlus, MsgTypes
<1>7. CASE RetryConfirm \/ UNCHANGED allVars
  BY <1>7 DEF RetryConfirm, allVars, psVars, vars, RequestInv, IsRequest, Positions
<1>8. Environment => \/ UNCHANGED <<events, asked>>
                     \/ PsRequest \/ AsksToSleep \/ SaysAwake \/ LosesLink
                     \/ \E r \in Requesters, what \in {"DISCONNECT", "HEALTHMON"} : SendRequest(r, what)
  BY DEF Environment, ReaderActs, Transmit, LockForRequest, Connects
<1> QED
  BY <1>1, <1>2, <1>3, <1>4, <1>5, <1>6, <1>7, <1>8, CmStepSplit DEF PsNext

\* A message that is queued is so at a place.
LEMMA QueuedAt ==
    ASSUME PsTypes, NEW w
    PROVE  Queued(w) <=> \E i \in Positions : events[i].what = w
<1>1. DOMAIN events = Positions
  BY DEF PsTypes, Positions
<1> QED
  BY <1>1 DEF Queued

\* A message of a kind that is not the new one's was in the queue.
LEMMA WasAt ==
    ASSUME NEW d \in {0, 1}, NEW m, Moves(d, m), NEW i \in Positions', events'[i].what # m.what
    PROVE  i \in Nat \ {0} /\ i + d \in Positions /\ events'[i] = events[i + d]
BY DEF Moves, Positions

\* What the state machine puts into the queue.
LEMMA MachineQueue ==
    ASSUME StateMachine
    PROVE  \/ UNCHANGED events
           \/ InInit /\ events' = Plus(events, Msg("EN_DONE"))
           \/ ConfirmSleep /\ events' = Plus(events, Msg("SLP_CFM")) /\ UNCHANGED vars
           \/ InDisabling /\ todo = "ENTER" /\ events' = Plus(events, Msg("DIS_DONE"))
BY DEF StateMachine, InInit, InConfiguring, WaitsForLock, InAwake, InPreSleep, ConfirmSleep,
   InSleep, InPreDisable, InDisabling

\* What the state machine may become, and on what.
LEMMA MachineMoves ==
    ASSUME StateMachine
    PROVE  /\ todo' \in {"ENTER", "none", "lock", "confirm"}
           /\ \/ UNCHANGED ieeeps_state
              \/ ieeeps_state = "INIT" /\ ieeeps_state' = "CONFIGURING" /\ todo = "ENABLE_DONE"
              \/ ieeeps_state = "CONFIGURING" /\ ieeeps_state' = "PRE_SLEEP" /\ todo = "SLEEP"
              \/ todo = "lock" /\ ieeeps_state' = "AWAKE" /\ pc'[cm] = "in"
              \/ ieeeps_state = "AWAKE" /\ ieeeps_state' = "PRE_SLEEP" /\ todo = "SLEEP"
              \/ ieeeps_state = "AWAKE" /\ ieeeps_state' = "DISABLING" /\ todo = "DISABLE"
              \/ ieeeps_state = "PRE_SLEEP" /\ ieeeps_state' = "SLEEP" /\ todo = "SLP_CFM"
              \/ ieeeps_state = "PRE_SLEEP" /\ ieeeps_state' = "DISABLING" /\ todo = "DISABLE"
              \/ ieeeps_state = "SLEEP" /\ ieeeps_state' = "AWAKE" /\ todo = "AWAKE"
              \/ ieeeps_state = "SLEEP" /\ ieeeps_state' = "PRE_SLEEP" /\ todo = "SLEEP"
              \/ /\ ieeeps_state = "SLEEP" /\ todo = "DISABLE"
                 /\ ieeeps_state' \in {"PRE_DISABLE", "DISABLING"}
              \/ ieeeps_state = "PRE_DISABLE" /\ ieeeps_state' = "DISABLING" /\ todo = "AWAKE"
              \/ ieeeps_state = "DISABLING" /\ ieeeps_state' = "INIT" /\ todo = "DISABLE_DONE"
           /\ ieeeps_state' # ieeeps_state => todo' = "ENTER" /\ UNCHANGED events
BY DEF StateMachine, InInit, InConfiguring, WaitsForLock, InAwake, InPreSleep, ConfirmSleep,
   InSleep, InPreDisable, InDisabling, Become, Stay, SmEvents

LEMMA ConfirmKept ==
    ASSUME PsInv, [PsNext]_allVars
    PROVE  ConfirmInv'
<1> USE DEF PsInv
<1>t. PsTypes'
  BY TypesKept
<1>m. MachineInv'
  BY MachineKept
<1>q. ASSUME NEW d \in {0, 1}, NEW m, Moves(d, m), m.what # "SLP_CFM"
      PROVE  /\ Queued("SLP_CFM")' => Queued("SLP_CFM")
             /\ d = 1 /\ events[1].what = "SLP_CFM" /\ 1 \in Positions => ~Queued("SLP_CFM")'
             /\ \A i, j \in Positions' :
                   events'[i].what = "SLP_CFM" /\ events'[j].what = "SLP_CFM" => i = j
  <2>1. \A i \in Positions' : events'[i].what = "SLP_CFM" =>
           i \in Nat \ {0} /\ i + d \in Positions /\ events'[i] = events[i + d]
    BY <1>q, WasAt
  <2>2. Queued("SLP_CFM")' <=> \E i \in Positions' : events'[i].what = "SLP_CFM"
    BY <1>t, QueuedAt DEF Positions, PsTypes, Queued
  <2>3. Queued("SLP_CFM") <=> \E i \in Positions : events[i].what = "SLP_CFM"
    BY QueuedAt
  <2> QED
    BY <2>1, <2>2, <2>3 DEF ConfirmInv
<1>1. CASE Environment
  BY <1>1, <1>q, EnvFrames DEF EnvFrame, ConfirmInv
<1>2. CASE Take
  <2>1. Queued("SLP_CFM") <=> \E i \in Positions : events[i].what = "SLP_CFM"
    BY QueuedAt
  <2> QED
    BY <1>2, <1>q, <2>1, TakeFrames, MsgTypes DEF TakeFrame, ConfirmInv
<1>3. CASE RetryConfirm \/ UNCHANGED allVars
  BY <1>3 DEF RetryConfirm, allVars, psVars, vars, ConfirmInv, Queued, Positions
<1>4. CASE StateMachine /\ UNCHANGED events
  <2>1. (Queued("SLP_CFM")' <=> Queued("SLP_CFM")) /\ Positions' = Positions
    BY <1>4 DEF Queued, Positions
  <2>2. todo' # "SLP_CFM"
    BY <1>4, MachineMoves
  <2>3. ASSUME Queued("SLP_CFM")
        PROVE  /\ ieeeps_state' \in {"PRE_SLEEP", "DISABLING"} /\ todo' # "confirm"
               /\ ieeeps_state' = "PRE_SLEEP" => pc'[cm] = "in"
    <3>1. ieeeps_state \in {"PRE_SLEEP", "DISABLING"}
          /\ (ieeeps_state = "PRE_SLEEP" => pc[cm] = "in") /\ todo # "SLP_CFM" /\ todo # "confirm"
          /\ todo # "DISABLE_DONE"
      BY <2>3 DEF ConfirmInv, ExitInv
    <3>2. ieeeps_state = "PRE_SLEEP" => ~LockFree
      BY <3>1, CmLock DEF LockFree
    <3>3. ieeeps_state' \in {"PRE_SLEEP", "DISABLING"}
          /\ (ieeeps_state' = "PRE_SLEEP" => ieeeps_state = "PRE_SLEEP")
      BY <1>4, <3>1, MachineMoves DEF MachineInv
    <3>4. ieeeps_state = "PRE_SLEEP" => InPreSleep
      BY <1>4, <3>1 DEF StateMachine, InInit, InConfiguring, WaitsForLock, InAwake, ConfirmSleep,
         InSleep, InPreDisable, InDisabling, MachineInv
    <3>5. ieeeps_state = "PRE_SLEEP" => todo' # "confirm" /\ UNCHANGED pc
      BY <3>2, <3>4, <3>1 DEF InPreSleep, Become, Stay, vars
    <3> QED
      BY <1>m, <3>1, <3>3, <3>5 DEF MachineInv
  <2>4. \A i, j \in Positions' :
           events'[i].what = "SLP_CFM" /\ events'[j].what = "SLP_CFM" => i = j
    BY <1>4, <2>1 DEF ConfirmInv
  <2> QED
    BY <2>1, <2>2, <2>3, <2>4 DEF ConfirmInv
<1>5. CASE ConfirmSleep /\ events' = Plus(events, Msg("SLP_CFM")) /\ UNCHANGED vars
  <2>1. ~Queued("SLP_CFM") /\ ieeeps_state' = "PRE_SLEEP" /\ todo' = "none" /\ pc'[cm] = "in"
    BY <1>5 DEF ConfirmInv, MachineInv, ConfirmSleep, vars
  <2>2. \A i \in Positions' : events'[i].what = "SLP_CFM" => i = Len(events) + 1
    <3>1. Moves(0, Msg("SLP_CFM")) /\ \A i \in Positions' : i + 0 = i
      BY <1>5, MovesPlus, MsgTypes DEF Positions
    <3>2. \A i \in Positions : events[i].what # "SLP_CFM"
      BY <2>1, QueuedAt
    <3> QED
      BY <3>1, <3>2 DEF Moves
  <2> QED
    BY <2>1, <2>2 DEF ConfirmInv
<1>6. CASE InInit /\ events' = Plus(events, Msg("EN_DONE"))
  <2>1. Moves(0, Msg("EN_DONE"))
    BY <1>6, MovesPlus, MsgTypes
  <2>2. ieeeps_state' \notin {"PRE_SLEEP", "DISABLING"} /\ todo' # "SLP_CFM"
        /\ ieeeps_state \notin {"PRE_SLEEP", "DISABLING"}
    BY <1>6 DEF InInit, Become, Stay
  <2> QED
    BY <2>1, <2>2, <1>q, MsgTypes DEF ConfirmInv
<1>7. CASE InDisabling /\ events' = Plus(events, Msg("DIS_DONE")) /\ todo = "ENTER"
  <2>1. Moves(0, Msg("DIS_DONE"))
    BY <1>7, MovesPlus, MsgTypes
  <2>2. ieeeps_state' = "DISABLING" /\ todo' = "none"
    BY <1>7 DEF InDisabling, Become, Stay
  <2> QED
    BY <2>1, <2>2, <1>q, MsgTypes DEF ConfirmInv
<1> QED
  BY <1>1, <1>2, <1>3, <1>4, <1>5, <1>6, <1>7, CmStepSplit, MachineQueue DEF PsNext

LEMMA ExitKept ==
    ASSUME PsInv, [PsNext]_allVars
    PROVE  ExitInv'
<1> USE DEF PsInv
<1>t. PsTypes'
  BY TypesKept
<1>a. card.power \in {"awake", "asleep"}
  BY DEF PsTypes
<1>w. \A w : (Queued(w) <=> \E i \in Positions : events[i].what = w)
             /\ (Queued(w)' <=> \E i \in Positions' : events'[i].what = w)
  BY <1>t, QueuedAt DEF Positions, PsTypes, Queued
<1>q. ASSUME NEW d \in {0, 1}, NEW m, Moves(d, m), m.what # "DIS_DONE"
      PROVE  /\ Queued("DIS_DONE")' => Queued("DIS_DONE")
             /\ d = 1 /\ events[1].what = "DIS_DONE" /\ 1 \in Positions =>
                   ~Queued("DIS_DONE")' /\ (m.what # "SLP_CFM" => ~Queued("SLP_CFM")')
             /\ m.what # "SLP_CFM" \/ ~Queued("DIS_DONE") => \A i, j \in Positions' :
                   /\ events'[i].what = "DIS_DONE" /\ events'[j].what = "DIS_DONE" => i = j
                   /\ events'[i].what = "SLP_CFM" /\ events'[j].what = "DIS_DONE" => i < j
  <2>1. \A i \in Positions' : events'[i].what # m.what =>
           i \in Nat \ {0} /\ i + d \in Positions /\ events'[i] = events[i + d]
    BY <1>q, WasAt
  <2>2. 1 \in Positions /\ events[1].what = "DIS_DONE" =>
           \A i \in Positions : events[i].what = "SLP_CFM" => i < 1
    BY DEF ExitInv
  <2>3. m.what # "SLP_CFM" => \A i \in Positions' : events'[i].what = "SLP_CFM" =>
           i \in Nat \ {0} /\ i + d \in Positions /\ events'[i] = events[i + d]
    BY <2>1
  <2>4. \A i \in Positions' : events'[i].what = "DIS_DONE" =>
           i \in Nat \ {0} /\ i + d \in Positions /\ events'[i] = events[i + d]
    BY <1>q, <2>1
  <2>5. Queued("DIS_DONE")' => Queued("DIS_DONE")
    BY <2>4, <1>w
  <2>6. d = 1 /\ events[1].what = "DIS_DONE" /\ 1 \in Positions =>
           ~Queued("DIS_DONE")' /\ (m.what # "SLP_CFM" => ~Queued("SLP_CFM")')
    <3> SUFFICES ASSUME d = 1, events[1].what = "DIS_DONE", 1 \in Positions
                 PROVE  ~Queued("DIS_DONE")' /\ (m.what # "SLP_CFM" => ~Queued("SLP_CFM")')
      OBVIOUS
    <3>1. \A i \in Positions' : events'[i].what # "DIS_DONE"
      BY <2>4 DEF ExitInv
    <3>2. m.what # "SLP_CFM" => \A i \in Positions' : events'[i].what # "SLP_CFM"
      BY <2>2, <2>3
    <3> QED
      BY <3>1, <3>2, <1>w
  <2>7. ASSUME m.what # "SLP_CFM" \/ ~Queued("DIS_DONE"), NEW i \in Positions', NEW j \in Positions'
        PROVE  /\ events'[i].what = "DIS_DONE" /\ events'[j].what = "DIS_DONE" => i = j
               /\ events'[i].what = "SLP_CFM" /\ events'[j].what = "DIS_DONE" => i < j
    <3>1. CASE m.what # "SLP_CFM"
      BY <2>3, <2>4, <3>1 DEF ExitInv
    <3>2. CASE ~Queued("DIS_DONE")
      BY <2>4, <3>2, <1>w
    <3> QED
      BY <2>7, <3>1, <3>2
  <2> QED
    BY <2>5, <2>6, <2>7
<1>1. CASE Environment
  <2>1. PICK m \in Messages : Moves(0, m) /\ m.what \notin {"SLP_CFM", "DIS_DONE"}
    BY <1>1, EnvFrames DEF EnvFrame
  <2>2. UNCHANGED <<ieeeps_state, todo>> /\ (Asleep' => Asleep)
    BY <1>1, EnvFrames DEF EnvFrame
  <2>3. /\ Queued("DIS_DONE")' => Queued("DIS_DONE")
        /\ \A i, j \in Positions' :
              /\ events'[i].what = "DIS_DONE" /\ events'[j].what = "DIS_DONE" => i = j
              /\ events'[i].what = "SLP_CFM" /\ events'[j].what = "DIS_DONE" => i < j
    BY <2>1, <1>q
  <2>4. todo = "DISABLE_DONE" => ~Queued("SLP_CFM")'
    BY <2>1, <1>w, WasAt DEF ExitInv
  <2> QED
    BY <2>2, <2>3, <2>4 DEF ExitInv
<1>2. CASE Take
  <2>1. /\ card' = card /\ UNCHANGED ieeeps_state /\ todo = "none" /\ 1 \in Positions
        /\ Moves(1, Msg("DEAUTH")) /\ todo' # "ENTER"
        /\ todo' = "DISABLE_DONE" => events[1].what = "DIS_DONE"
    BY <1>2, TakeFrames DEF TakeFrame
  <2>2. todo' = "DISABLE_DONE" => Queued("DIS_DONE")
    BY <2>1, <1>w
  <2>3. Queued("DIS_DONE") => ieeeps_state' = "DISABLING" /\ ~Asleep'
    BY <2>1 DEF ExitInv, Asleep
  <2> QED
    BY <2>1, <2>2, <2>3, <1>q, MsgTypes DEF ExitInv
<1>3. CASE RetryConfirm \/ UNCHANGED allVars
  BY <1>3 DEF RetryConfirm, allVars, psVars, vars, ExitInv, Queued, Positions, Asleep
<1>4. CASE StateMachine /\ UNCHANGED events
  <2>1. (\A w : Queued(w)' <=> Queued(w)) /\ Positions' = Positions
    BY <1>4 DEF Queued, Positions
  <2>2. todo' # "DISABLE_DONE"
    BY <1>4, MachineMoves
  <2>3. ASSUME Queued("DIS_DONE")
        PROVE  ieeeps_state' = "DISABLING" /\ ~Asleep' /\ todo' # "ENTER"
    <3>1. ieeeps_state = "DISABLING" /\ ~Asleep /\ todo # "DISABLE_DONE" /\ todo # "ENTER"
      BY <2>3 DEF ExitInv
    <3>2. InDisabling
      BY <1>4, <3>1 DEF StateMachine, InInit, InConfiguring, WaitsForLock, InAwake, ConfirmSleep,
         InPreSleep, InSleep, InPreDisable, MachineInv
    <3> QED
      BY <3>1, <3>2 DEF InDisabling, Become, Stay, Asleep
  <2>4. \A i, j \in Positions' :
          /\ events'[i].what = "DIS_DONE" /\ events'[j].what = "DIS_DONE" => i = j
          /\ events'[i].what = "SLP_CFM" /\ events'[j].what = "DIS_DONE" => i < j
    BY <1>4, <2>1 DEF ExitInv
  <2> QED
    BY <2>1, <2>2, <2>3, <2>4 DEF ExitInv
<1>5. CASE (ConfirmSleep \/ InInit)
           /\ \E w \in {"SLP_CFM", "EN_DONE"} : events' = Plus(events, Msg(w))
  <2>1. PICK w \in {"SLP_CFM", "EN_DONE"} : events' = Plus(events, Msg(w))
    BY <1>5
  <2>2. Moves(0, Msg(w)) /\ Msg(w).what = w
    BY <2>1, MovesPlus, MsgTypes
  <2>3. ~Queued("DIS_DONE")
    BY <1>5 DEF ExitInv, MachineInv, ConfirmSleep, InInit
  <2>4. todo' # "DISABLE_DONE"
    BY <1>5 DEF ConfirmSleep, InInit, Become, Stay
  <2> QED
    BY <2>2, <2>3, <2>4, <1>q DEF ExitInv
<1>6. CASE InDisabling /\ events' = Plus(events, Msg("DIS_DONE")) /\ todo = "ENTER"
  <2>1. Moves(0, Msg("DIS_DONE")) /\ Msg("DIS_DONE").what = "DIS_DONE"
    BY <1>6, MovesPlus, MsgTypes
  <2>2. ieeeps_state' = "DISABLING" /\ todo' = "none"
    BY <1>6 DEF InDisabling, Become, Stay
  <2>3. ~Queued("DIS_DONE")
    BY <1>6 DEF ExitInv
  <2>4. \A i \in Positions' : \/ i \in Positions /\ events'[i] = events[i]
                              \/ i = Len(events) + 1 /\ events'[i] = Msg("DIS_DONE")
    <3>1. \A i \in Positions' : i + 0 = i
      BY DEF Positions
    <3> QED
      BY <2>1, <3>1 DEF Moves
  <2>5. \A i \in Positions : i < Len(events) + 1 /\ events[i].what # "DIS_DONE"
    BY <2>3, <1>w DEF Positions, PsTypes
  <2>6. \A i, j \in Positions' :
          /\ events'[i].what = "DIS_DONE" /\ events'[j].what = "DIS_DONE" => i = j
          /\ events'[i].what = "SLP_CFM" /\ events'[j].what = "DIS_DONE" => i < j
    BY <2>1, <2>4, <2>5
  <2>7. Queued("DIS_DONE")' => ~Asleep'
    <3>1. CASE card' = [power |-> "awake", ps |-> FALSE, poked |-> FALSE]
      BY <3>1 DEF Asleep
    <3>2. CASE UNCHANGED events
      BY <2>3, <3>2 DEF Queued
    <3> QED
      BY <1>6, <3>1, <3>2 DEF InDisabling
  <2> QED
    BY <2>2, <2>6, <2>7 DEF ExitInv
<1> QED
  BY <1>1, <1>2, <1>3, <1>4, <1>5, <1>6, CmStepSplit, MachineQueue DEF PsNext

LEMMA AsleepKept ==
    ASSUME PsInv, [PsNext]_allVars
    PROVE  AsleepInv'
<1> USE DEF PsInv
<1>t. PsTypes'
  BY TypesKept
<1>w. \A w : (Queued(w) <=> \E i \in Positions : events[i].what = w)
             /\ (Queued(w)' <=> \E i \in Positions' : events'[i].what = w)
  BY <1>t, QueuedAt DEF Positions, PsTypes, Queued
<1>1. CASE Environment
  <2> SUFFICES ASSUME Asleep' PROVE AsleepInv'
    BY DEF AsleepInv
  <2>1. /\ UNCHANGED <<ieeeps_state, todo>> /\ pc'[cm] = pc[cm] /\ Asleep
    BY <1>1, EnvFrames DEF EnvFrame
  <2>2. PICK m \in Messages : Moves(0, m) /\ m.what \notin {"SLP_CFM", "DIS_DONE", "SLEEP", "AWAKE"}
    BY <1>1, EnvFrames DEF EnvFrame
  <2>3. \A i \in Positions' : events'[i].what \in {"SLP_CFM", "SLEEP", "AWAKE"} =>
           i \in Positions /\ events'[i] = events[i]
    BY <2>2, WasAt
  <2>4. \A w \in {"SLEEP", "AWAKE"} : Queued(w)' => Queued(w)
    BY <2>3, <1>w
  <2> QED
    BY <2>1, <2>3, <2>4 DEF AsleepInv
<1>2. CASE Take
  <2> SUFFICES ASSUME Asleep' PROVE AsleepInv'
    BY DEF AsleepInv
  <2>1. /\ UNCHANGED ieeeps_state /\ pc'[cm] = pc[cm] /\ todo = "none" /\ 1 \in Positions
        /\ todo' \in {"SLEEP", "AWAKE", "SLP_CFM"} => todo' = events[1].what
        /\ todo' # "confirm"
    BY <1>2, TakeFrames DEF TakeFrame
  <2>2. Asleep
    BY <1>2, TakeFrames DEF TakeFrame, Asleep
  <2>3. \A i \in Positions' : events'[i].what \in {"SLP_CFM", "SLEEP", "AWAKE"} =>
           i \in Nat \ {0} /\ i + 1 \in Positions /\ events'[i] = events[i + 1]
    BY <1>2, TakeFrames, WasAt, MsgTypes DEF TakeFrame
  <2>4. \A w \in {"SLEEP", "AWAKE"} : Queued(w)' => Queued(w)
    BY <2>3, <1>w
  <2>5. CASE ieeeps_state = "SLEEP"
    <3>1. todo' \notin {"AWAKE", "SLEEP"}
      BY <2>1, <2>2, <2>5, <1>w DEF AsleepInv
    <3> QED
      BY <2>1, <2>2, <2>4, <2>5, <3>1 DEF AsleepInv
  <2>6. CASE ieeeps_state = "PRE_SLEEP"
    <3>1. \A i, j \in Positions : events[i].what = "SLP_CFM" /\ events[j].what \in {"AWAKE", "SLEEP"}
             => j < i
      BY <2>2, <2>6 DEF AsleepInv
    <3>2. ASSUME NEW i \in Positions', NEW j \in Positions',
                 events'[i].what = "SLP_CFM", events'[j].what \in {"AWAKE", "SLEEP"}
          PROVE  j < i
      <4>1. j + 1 < i + 1 /\ i \in Nat /\ j \in Nat
        BY <2>3, <3>1, <3>2
      <4> QED
        BY <4>1
    <3>3. todo' = "SLP_CFM" => \A j \in Positions : events[j].what \in {"AWAKE", "SLEEP"} => j < 1
      BY <2>1, <3>1
    <3>4. todo' = "SLP_CFM" => ~Queued("AWAKE")' /\ ~Queued("SLEEP")'
      BY <2>3, <3>3, <1>w
    <3> QED
      BY <2>1, <2>2, <2>6, <3>2, <3>4 DEF AsleepInv
  <2>7. CASE ieeeps_state \notin {"PRE_SLEEP", "SLEEP"}
    BY <2>1, <2>2, <2>7 DEF AsleepInv
  <2> QED
    BY <2>5, <2>6, <2>7
<1>3. CASE RetryConfirm
  BY <1>3 DEF RetryConfirm, Idle, MachineInv, AsleepInv, vars, Asleep, Queued, Positions
<1>4. CASE UNCHANGED allVars
  BY <1>4 DEF allVars, vars, psVars, AsleepInv, Asleep, Queued, Positions
<1>5. CASE ConfirmSleep
  <2>1. ieeeps_state' = "PRE_SLEEP" /\ todo' = "none" /\ ~Asleep /\ todo = "confirm" /\ pc[cm] = "in"
    BY <1>5 DEF ConfirmSleep, MachineInv, AsleepInv
  <2>2. CASE UNCHANGED card
    BY <2>1, <2>2 DEF AsleepInv, Asleep
  <2>3. CASE UNCHANGED vars /\ events' = Plus(events, Msg("SLP_CFM"))
    <3>1. Moves(0, Msg("SLP_CFM")) /\ Msg("SLP_CFM").what = "SLP_CFM"
      BY <2>3, MovesPlus, MsgTypes
    <3>2. \A i \in Positions' : \/ i \in Positions /\ events'[i] = events[i]
                                \/ i = Len(events) + 1 /\ events'[i].what = "SLP_CFM"
      <4>1. \A i \in Positions' : i + 0 = i
        BY DEF Positions
      <4> QED
        BY <3>1, <4>1 DEF Moves
    <3>3. ~Queued("SLP_CFM")
      BY <2>1 DEF ConfirmInv
    <3>4. \A i \in Positions : i < Len(events) + 1 /\ events[i].what # "SLP_CFM"
      BY <3>3, <1>w DEF Positions, PsTypes
    <3>5. \A i, j \in Positions' :
             events'[i].what = "SLP_CFM" /\ events'[j].what \in {"AWAKE", "SLEEP"} => j < i
      BY <3>2, <3>4
    <3> QED
      BY <2>1, <2>3, <3>5 DEF AsleepInv, vars
  <2> QED
    BY <1>5, <2>2, <2>3 DEF ConfirmSleep
<1>6. CASE StateMachine /\ ~ConfirmSleep
  <2> SUFFICES ASSUME Asleep' PROVE AsleepInv'
    BY DEF AsleepInv
  <2>1. Asleep
    <3>1. \/ UNCHANGED card
          \/ card' = [card EXCEPT !.ps = TRUE]
          \/ card' = [card EXCEPT !.poked = TRUE]
          \/ card' = [power |-> "awake", ps |-> FALSE, poked |-> FALSE]
      BY <1>6 DEF StateMachine, InInit, InConfiguring, WaitsForLock, InAwake, InPreSleep,
         InSleep, InPreDisable, InDisabling
    <3>2. card \in [power : {"awake", "asleep"}, ps : BOOLEAN, poked : BOOLEAN]
      BY DEF PsTypes
    <3> QED
      BY <3>1, <3>2 DEF Asleep
  <2>2. CASE ieeeps_state = "PRE_SLEEP"
    <3>1. todo # "lock" /\ todo # "confirm" /\ pc[cm] = "in"
      BY <2>1, <2>2 DEF MachineInv, AsleepInv
    <3>2. InPreSleep /\ ~LockFree
      BY <1>6, <2>2, <3>1, CmLock DEF StateMachine, InInit, InConfiguring, WaitsForLock, InAwake,
         InSleep, InPreDisable, InDisabling, LockFree
    <3>3. /\ UNCHANGED <<vars, events>> /\ todo' \in {"none", "ENTER"}
          /\ \/ ieeeps_state' = "PRE_SLEEP"
             \/ ieeeps_state' = "SLEEP" /\ todo = "SLP_CFM"
             \/ ieeeps_state' = "DISABLING"
      BY <3>2, <2>2 DEF InPreSleep, Become, Stay
    <3>4. (\A w : Queued(w)' <=> Queued(w)) /\ Positions' = Positions /\ events' = events /\ pc' = pc
      BY <3>3 DEF Queued, Positions, vars
    <3> QED
      BY <2>1, <2>2, <3>1, <3>3, <3>4 DEF AsleepInv
  <2>3. CASE ieeeps_state = "SLEEP"
    <3>1. todo \notin {"AWAKE", "SLEEP", "lock"}
      BY <2>1, <2>3 DEF AsleepInv, MachineInv
    <3>2. InSleep
      BY <1>6, <2>3, <3>1 DEF StateMachine, InInit, InConfiguring, WaitsForLock, InAwake,
         InPreSleep, InPreDisable, InDisabling
    <3>3. /\ UNCHANGED events /\ todo' \in {"none", "ENTER"}
          /\ \/ ieeeps_state' = "SLEEP" /\ UNCHANGED vars
             \/ ieeeps_state' \in {"PRE_DISABLE", "DISABLING"}
      BY <3>1, <3>2, <2>3 DEF InSleep, Become, Stay
    <3>4. (\A w : Queued(w)' <=> Queued(w)) /\ (UNCHANGED vars => pc' = pc)
      BY <3>3 DEF Queued, vars
    <3> QED
      BY <2>1, <2>3, <3>3, <3>4 DEF AsleepInv
  <2>4. CASE ieeeps_state \in {"PRE_DISABLE", "DISABLING"}
    <3>1. todo # "lock" /\ (ieeeps_state = "DISABLING" => todo # "DISABLE_DONE")
      BY <2>1, <2>4 DEF MachineInv, ExitInv
    <3>2. InPreDisable \/ InDisabling
      BY <1>6, <2>4, <3>1 DEF StateMachine, InInit, InConfiguring, WaitsForLock, InAwake,
         InPreSleep, InSleep
    <3>3. ieeeps_state' \in {"PRE_DISABLE", "DISABLING"} /\ todo' \in {"none", "ENTER"}
      BY <3>1, <3>2 DEF InPreDisable, InDisabling, Become, Stay
    <3> QED
      BY <3>3 DEF AsleepInv
  <2> QED
    BY <2>1, <2>2, <2>3, <2>4 DEF AsleepInv
<1> QED
  BY <1>1, <1>2, <1>3, <1>4, <1>5, <1>6, CmStepSplit DEF PsNext, StateMachine
----------------------------------------------------------------------------
LEMMA InitPs == PsInit => PsInv
<1> SUFFICES ASSUME PsInit PROVE PsInv
  OBVIOUS
<1>1. LockSafe /\ pc = [t \in Tasks |-> "out"]
  BY InitLock DEF PsInit, Init, LockInv
<1>2. Positions = {} /\ DOMAIN events = {} /\ events \in Seq(Messages) /\ Len(events) = 0
  BY DEF PsInit, Positions
<1>3. PsTypes
  <2>1. card \in [power : {"awake", "asleep"}, ps : BOOLEAN, poked : BOOLEAN]
    BY DEF PsInit
  <2>2. wakelock \in 0 .. WakelockMax /\ Len(events) <= MaxEvents
    BY <1>2, BoundsAssumption DEF PsInit
  <2> QED
    BY <1>2, <2>1, <2>2 DEF PsInit, PsTypes, PsStates, Todos
<1>4. MachineInv
  BY <1>1, Cm DEF PsInit, MachineInv
<1>5. RequestInv /\ ConfirmInv /\ ExitInv
  BY <1>2 DEF PsInit, RequestInv, ConfirmInv, ExitInv, Queued
<1>6. AsleepInv
  BY DEF PsInit, AsleepInv, Asleep
<1> QED
  BY <1>1, <1>3, <1>4, <1>5, <1>6 DEF PsInv

LEMMA PsStep == PsInv /\ [PsNext]_allVars => PsInv'
BY LockKept, TypesKept, MachineKept, RequestKept, ConfirmKept, ExitKept, AsleepKept DEF PsInv

LEMMA PsAlways == PsSpec => []PsInv
BY InitPs, PsStep, PTL DEF PsSpec

(* Every reachable state of power save and of its lock is typed, for any   *)
(* number of senders and requesters and any queue.                         *)
THEOREM PsTypeCorrect == PsSpec => []PsTypeOK
<1>1. PsInv => PsTypeOK
  <2>1. PsInv => LockSafe /\ PsTypes
    BY DEF PsInv
  <2> QED
    BY <2>1, CountBounded DEF PsTypes, PsTypeOK
<1> QED
  BY <1>1, PsAlways, PTL

(* wlan_ieeeps_sm gives ps_rwlock back in SLEEP without looking who has    *)
(* it: it is always its own, whatever was queued before the answer to the  *)
(* sleep confirm.                                                          *)
THEOREM GivesBackItsOwn == PsSpec => []SleepHoldsLock
<1>1. PsInv => SleepHoldsLock
  BY DEF PsInv, MachineInv, SleepHoldsLock
<1> QED
  BY <1>1, PsAlways, PTL

(* Nothing is transmitted (low_level_output) to a card that sleeps, unless *)
(* power save is being left.                                               *)
THEOREM TransmitsAwake == PsSpec => []TxWhileAwake
<1>1. PsInv => TxWhileAwake
  <2> SUFFICES ASSUME PsInv, Asleep, ieeeps_state \notin {"PRE_DISABLE", "DISABLING"}
               PROVE  Transmitting = {}
    BY DEF TxWhileAwake
  <2>1. pc[cm] = "in"
    BY DEF PsInv, AsleepInv
  <2>2. Reading = {}
    BY <2>1, CmLock DEF PsInv
  <2> QED
    BY <2>2, Cm DEF Reading, Transmitting
<1> QED
  BY <1>1, PsAlways, PTL

(* No sleep confirm is left behind by an exit from power save: once it is  *)
(* off, and until it is on, the card does not sleep.                       *)
THEOREM AwakeOutsidePs == PsSpec => []NoSleepOutsidePs
<1>1. PsInv => NoSleepOutsidePs
  BY DEF PsInv, AsleepInv, NoSleepOutsidePs
<1> QED
  BY <1>1, PsAlways, PTL
----------------------------------------------------------------------------
(* The wakelock *)

LEMMA KeepersFinite ==
    /\ IsFiniteSet(Keepers) /\ Cardinality(Keepers) \in Nat
    /\ Cardinality(Readers) \in Nat /\ Cardinality(Keepers) <= Cardinality(Readers)
BY TasksAssumption, FS_Subset, FS_CardinalityType DEF Keepers

\* A get that is lost finds the semaphore full, and then it counts everybody
\* who could keep it.
LEMMA WakeGets ==
    ASSUME PsTypes, WakeInv, WakelockGet, Cardinality(Readers) < WakelockMax,
           \/ \E t \in Readers : Keepers' \subseteq Keepers \cup {t} /\ (MachineKeeps' => MachineKeeps)
           \/ Keepers' \subseteq Keepers
    PROVE  WakeInv'
<1>1. wakelock \in Nat /\ wakelock <= WakelockMax /\ WakelockMax \in Nat
  BY BoundsAssumption DEF PsTypes
<1>2. /\ Cardinality(Keepers') <= Cardinality(Readers) /\ Cardinality(Keepers') \in Nat
      /\ Cardinality(Readers) \in Nat
  <2>1. Keepers' \subseteq Readers
    BY DEF Keepers
  <2> QED
    BY <2>1, TasksAssumption, FS_Subset, FS_CardinalityType
<1>3. ASSUME NEW t \in Readers, Keepers' \subseteq Keepers \cup {t}
      PROVE  Cardinality(Keepers') <= Cardinality(Keepers) + 1
  <2>1. IsFiniteSet(Keepers \cup {t}) /\ Cardinality(Keepers \cup {t}) <= Cardinality(Keepers) + 1
    <3>1. CASE t \in Keepers
      <4>1. Keepers \cup {t} = Keepers
        BY <3>1
      <4>2. Cardinality(Keepers) <= Cardinality(Keepers) + 1
        BY KeepersFinite
      <4> QED
        BY <4>1, <4>2, KeepersFinite
    <3>2. CASE t \notin Keepers
      BY <3>2, KeepersFinite, FS_AddElement
    <3> QED
      BY <3>1, <3>2
  <2>2. Cardinality(Keepers \cup {t}) \in Nat /\ Cardinality(Keepers') <= Cardinality(Keepers \cup {t})
    BY <1>3, <2>1, FS_Subset, FS_CardinalityType
  <2> QED
    BY <1>2, <2>1, <2>2, KeepersFinite
<1>4. Keepers' \subseteq Keepers => Cardinality(Keepers') <= Cardinality(Keepers)
  BY KeepersFinite, FS_Subset
<1> QED
  BY <1>1, <1>2, <1>3, <1>4, KeepersFinite DEF WakeInv, WakelockGet

\* A put is of somebody who keeps it no more.
LEMMA WakePuts ==
    ASSUME PsTypes, WakeInv, WakelockPut,
           \/ \E t \in Keepers : Keepers' \subseteq Keepers \ {t} /\ (MachineKeeps' => MachineKeeps)
           \/ Keepers' \subseteq Keepers /\ MachineKeeps /\ ~MachineKeeps'
    PROVE  WakeInv'
<1>1. wakelock \in Nat
  BY BoundsAssumption DEF PsTypes
<1>2. Cardinality(Keepers') \in Nat
  <2>1. Keepers' \subseteq Keepers
    OBVIOUS
  <2> QED
    BY <2>1, KeepersFinite, FS_Subset, FS_CardinalityType
<1>3. ASSUME NEW t \in Keepers, Keepers' \subseteq Keepers \ {t}
      PROVE  Cardinality(Keepers') <= Cardinality(Keepers) - 1
  <2>1. IsFiniteSet(Keepers \ {t}) /\ Cardinality(Keepers \ {t}) = Cardinality(Keepers) - 1
    BY KeepersFinite, FS_RemoveElement
  <2> QED
    BY <1>3, <2>1, FS_Subset
<1>4. Keepers' \subseteq Keepers => Cardinality(Keepers') <= Cardinality(Keepers)
  BY KeepersFinite, FS_Subset
<1> QED
  BY <1>1, <1>2, <1>3, <1>4, KeepersFinite DEF WakeInv, WakelockPut

LEMMA WakeSame ==
    ASSUME PsTypes, WakeInv, UNCHANGED wakelock, Keepers' \subseteq Keepers,
           MachineKeeps' => MachineKeeps
    PROVE  WakeInv'
<1>1. wakelock \in Nat
  BY BoundsAssumption DEF PsTypes
<1>2. Cardinality(Keepers') \in Nat /\ Cardinality(Keepers') <= Cardinality(Keepers)
  BY KeepersFinite, FS_Subset, FS_CardinalityType
<1> QED
  BY <1>1, <1>2, KeepersFinite DEF WakeInv

\* What the state machine takes and gives back.
LEMMA MachineWake ==
    ASSUME MachineInv, StateMachine
    PROVE  \/ UNCHANGED wakelock /\ (MachineKeeps' => MachineKeeps)
           \/ WakelockGet
           \/ WakelockPut /\ MachineKeeps /\ ~MachineKeeps'
<1> USE DEF MachineKeeps
<1>1. CASE InInit \/ InPreDisable \/ InDisabling
  BY <1>1 DEF InInit, InPreDisable, InDisabling, Become, Stay
<1>2. CASE InConfiguring
  BY <1>2 DEF InConfiguring, Become, Stay
<1>3. CASE WaitsForLock
  BY <1>3 DEF WaitsForLock, Become
<1>4. CASE InAwake
  BY <1>4 DEF InAwake, Become, Stay
<1>5. CASE InPreSleep \/ ConfirmSleep
  BY <1>5 DEF InPreSleep, ConfirmSleep, MachineInv
<1>6. CASE InSleep
  BY <1>6 DEF InSleep, Become, Stay
<1> QED
  BY <1>1, <1>2, <1>3, <1>4, <1>5, <1>6 DEF StateMachine

\* Who kept no wakelock keeps none, if it stays where it is and asks for
\* nothing.
LEMMA KeepsNone ==
    ASSUME NEW d \in {0, 1}, NEW m, Moves(d, m), NEW t,
           m.what \notin {"DISCONNECT", "HEALTHMON"} \/ m.by # t,
           t \in Readers, Keeps(t)', pc'[t] = pc[t], t \in asked => t \in asked'
    PROVE  Keeps(t)
<1>1. ASSUME NEW i \in Positions', IsRequest(i)', events'[i].by = t
      PROVE  \E j \in Positions : IsRequest(j) /\ events[j].by = t
  <2>1. i + d \in Positions /\ events'[i] = events[i + d]
    BY <1>1 DEF Moves, IsRequest
  <2> QED
    BY <1>1, <2>1 DEF IsRequest
<1> QED
  BY <1>1 DEF Keeps

LEMMA WakeKept ==
    ASSUME Cardinality(Readers) < WakelockMax, PsInv, WakeInv, [PsNext]_allVars
    PROVE  WakeInv'
<1> USE DEF PsInv
<1>p. pc \in [Tasks -> PCs] /\ asked \subseteq Requesters /\ cm \notin Readers
      /\ \A t \in Readers : t \in Tasks
  BY Cm DEF LockSafe, Types, PsTypes
<1>1. ASSUME NEW t \in Readers, ReaderActs(t)
      PROVE  WakeInv'
  <2>1. UNCHANGED <<ieeeps_state, todo, events, asked>> /\ ReaderStep(t)
    BY <1>1 DEF ReaderActs, cmVars
  <2>2. \A u \in Readers : u # t => (Keeps(u)' => Keeps(u))
    BY <1>p, <2>1, ReaderPlaces DEF Keeps, Positions, IsRequest
  <2>3. /\ pc[t] \in {"enter", "first", "leave"}
        /\ pc'[t] \in {"first", "in", "out"}
        /\ pc'[t] \in {"first", "in"} => pc[t] \in {"enter", "first"}
    BY <1>p, <2>1 DEF ReaderStep, ReaderGetsMutex, GetsRwLock, ReaderTimesOut, ReaderLeaves, Goto
  <2>4. Keeps(t)' => Keeps(t)
    BY <2>1, <2>3 DEF Keeps, Positions, IsRequest
  <2>5. Keepers' \subseteq Keepers /\ (MachineKeeps' => MachineKeeps)
    BY <2>1, <2>2, <2>4 DEF Keepers, MachineKeeps
  <2>6. CASE pc'[t] = "out" /\ t \in Senders
    <3>1. t \in Keepers
      BY <2>3, <2>6 DEF Keepers, Keeps
    <3>2. t \notin Keepers'
      BY <2>6, Cm DEF Keepers, Keeps
    <3>3. WakelockPut
      BY <1>1, <2>6 DEF ReaderActs
    <3> QED
      BY <2>5, <3>1, <3>2, <3>3, WakePuts
  <2>7. CASE ~(pc'[t] = "out" /\ t \in Senders)
    BY <1>1, <2>5, <2>7, WakeSame DEF ReaderActs
  <2> QED
    BY <2>6, <2>7
<1>2. ASSUME NEW t \in Readers, UNCHANGED <<ieeeps_state, todo, events, asked>>, WakelockGet,
             \E w \in {"forever", "finite"} : ReadLock(t, w)
      PROVE  WakeInv'
  <2>1. \A u \in Readers : u # t => (Keeps(u)' => Keeps(u))
    BY <1>p, <1>2, ReaderPlaces DEF Keeps, Positions, IsRequest
  <2>2. Keepers' \subseteq Keepers \cup {t} /\ (MachineKeeps' => MachineKeeps)
    BY <1>2, <2>1 DEF Keepers, MachineKeeps
  <2> QED
    BY <1>2, <2>2, WakeGets
<1>3. ASSUME NEW t \in Senders, UNCHANGED <<ieeeps_state, todo, events, asked, wakelock>>, ReadUnlock(t)
      PROVE  WakeInv'
  <2>1. \A u \in Readers : u # t => (Keeps(u)' => Keeps(u))
    BY <1>p, <1>3, ReaderPlaces, Cm DEF Keeps, Positions, IsRequest
  <2>2. Keeps(t)
    BY <1>3 DEF Keeps, ReadUnlock
  <2>3. Keepers' \subseteq Keepers /\ (MachineKeeps' => MachineKeeps)
    BY <1>3, <2>1, <2>2 DEF Keepers, MachineKeeps
  <2> QED
    BY <1>3, <2>3, WakeSame
<1>4. CASE (\E s \in Senders : Transmit(s)) \/ (\E r \in Requesters : LockForRequest(r))
  BY <1>2, <1>3, <1>4, Cm DEF Transmit, LockForRequest, cmVars
<1>5. ASSUME NEW r \in Requesters, NEW what \in {"DISCONNECT", "HEALTHMON"}, SendRequest(r, what)
      PROVE  WakeInv'
  <2>1. /\ Request(r, what) \in Messages /\ Request(r, what).by = r /\ Moves(0, Request(r, what))
        /\ UNCHANGED <<pc, ieeeps_state, todo>> /\ pc[r] = "in" /\ r \notin asked
        /\ asked' = asked \cup {r}
    BY <1>5, MovesPlus DEF SendRequest, Request, Messages, Requests, vars, cmVars
  <2>2. \A u \in Readers : u # r => (Keeps(u)' => Keeps(u))
    BY <2>1, KeepsNone
  <2>3. Keeps(r) /\ r \in Readers
    BY <2>1, Cm DEF Keeps
  <2>4. Keepers' \subseteq Keepers /\ (MachineKeeps' => MachineKeeps) /\ r \in Keepers
    BY <2>1, <2>2, <2>3 DEF Keepers, MachineKeeps
  <2>5. CASE Len(events) >= MaxEvents /\ what = "HEALTHMON"
    <3>1. events' = events /\ WakelockPut
      <4>1. Len(events) \in Nat /\ MaxEvents \in Nat
        BY BoundsAssumption DEF PsTypes
      <4> QED
        BY <1>5, <2>5, <4>1 DEF SendRequest, Plus
    <3>2. ~Keeps(r)'
      BY <2>1, <3>1, Cm DEF Keeps, RequestInv, Positions, IsRequest
    <3> QED
      BY <2>4, <3>1, <3>2, WakePuts DEF Keepers
  <2>6. CASE ~(Len(events) >= MaxEvents /\ what = "HEALTHMON")
    BY <1>5, <2>4, <2>6, WakeSame DEF SendRequest
  <2> QED
    BY <2>5, <2>6
<1>s. ASSUME UNCHANGED <<wakelock, asked>>, \A t \in Readers : pc'[t] = pc[t],
             MachineKeeps' => MachineKeeps,
             NEW d \in {0, 1}, NEW m, Moves(d, m), m.what \notin {"DISCONNECT", "HEALTHMON"}
      PROVE  WakeInv'
  <2>1. Keepers' \subseteq Keepers
    BY <1>s, KeepsNone DEF Keepers
  <2> QED
    BY <1>s, <2>1, WakeSame
<1>6. CASE PsRequest \/ AsksToSleep \/ SaysAwake \/ LosesLink \/ Connects
  <2>1. /\ UNCHANGED <<wakelock, asked, pc, ieeeps_state, todo>>
        /\ \/ UNCHANGED events
           \/ \E w \in {"PS_EXIT", "PS_ENTER", "SLEEP", "AWAKE", "LINK_LOSS"} : events' = Plus(events, Msg(w))
    BY <1>6 DEF PsRequest, AsksToSleep, SaysAwake, LosesLink, Connects, cmVars, vars
  <2>2. MachineKeeps' => MachineKeeps
    BY <2>1 DEF MachineKeeps
  <2> QED
    BY <1>s, <2>1, <2>2, MovesSame, MovesPlus, MsgTypes
<1>7. CASE Take /\ ~HandleRequest
  <2>1. UNCHANGED <<wakelock, asked, pc>> /\ Moves(1, Msg("DEAUTH"))
    BY <1>7, TakeFrames DEF Take, RunsOn, HandlePsRequest, HandleLoss, TakeFrame, vars
  <2>2. UNCHANGED ieeeps_state /\ todo = "none" /\ todo' # "ENTER"
    BY <1>7, TakeFrames DEF TakeFrame
  <2>3. MachineKeeps' => MachineKeeps
    BY <2>2 DEF MachineKeeps
  <2> QED
    BY <1>s, <2>1, <2>3, MsgTypes
<1>8. CASE HandleRequest
  <2> DEFINE r == events[1].by
  <2>1. /\ 1 \in Positions /\ Head(events) = events[1] /\ IsRequest(1) /\ Moves(1, Msg("DEAUTH"))
    BY <1>8, TakeQueue DEF Take, HandleRequest, IsRequest
  <2>2. /\ r \in asked /\ r \in Requesters /\ asked' = asked \ {r}
        /\ pc' = [pc EXCEPT ![r] = "leave"] /\ WakelockPut
        /\ UNCHANGED <<ieeeps_state, todo>>
    BY <1>8, <2>1, RequestLock DEF HandleRequest, Goto
  <2>3. r \in Keepers
    BY <2>1, <2>2, Cm DEF Keepers, Keeps
  <2>4. \A i \in Positions' : IsRequest(i)' => events'[i].by # r
    <3>1. \A i \in Positions' : IsRequest(i)' => i \in Nat \ {0} /\ i + 1 \in Positions /\ events'[i] = events[i + 1]
      BY <2>1, WasAt, MsgTypes DEF IsRequest
    <3>2. \A i \in Positions' : IsRequest(i)' => i + 1 # 1
      BY <3>1
    <3> QED
      BY <2>1, <3>1, <3>2 DEF RequestInv, IsRequest
  <2> HIDE DEF r
  <2>5. r \notin Keepers'
    BY <1>p, <2>2, <2>4, Cm DEF Keepers, Keeps
  <2>6. \A u \in Readers : u # r => (Keeps(u)' => Keeps(u))
    BY <1>p, <2>1, <2>2, KeepsNone, MsgTypes
  <2>7. Keepers' \subseteq Keepers \ {r} /\ (MachineKeeps' => MachineKeeps)
    BY <2>2, <2>5, <2>6 DEF Keepers, MachineKeeps
  <2> QED
    BY <2>2, <2>3, <2>7, WakePuts
<1>9. CASE StateMachine
  <2>1. UNCHANGED asked /\ \A t \in Readers : pc'[t] = pc[t]
    BY <1>9, <1>p, MachineLock
    DEF StateMachine, vars, Forgets, TakesAtOnce, WriterGetsMutex, GetsRwLock, WriteUnlock, Goto
  <2>2. \E m \in Messages : Moves(0, m) /\ m.what \notin {"DISCONNECT", "HEALTHMON"}
    BY <1>9, MachineQueue, MovesSame, MovesPlus, MsgTypes
  <2>3. Keepers' \subseteq Keepers
    BY <2>1, <2>2, KeepsNone DEF Keepers
  <2> QED
    BY <1>9, <2>3, MachineWake, WakeSame, WakeGets, WakePuts
<1>10. CASE RetryConfirm
  <2>1. UNCHANGED <<wakelock, asked, pc, ieeeps_state, events>> /\ todo = "none" /\ todo' = "SLEEP"
    BY <1>10 DEF RetryConfirm, Idle, vars
  <2>2. MachineKeeps' => MachineKeeps
    BY <2>1 DEF MachineKeeps
  <2> QED
    BY <1>s, <2>1, <2>2, MovesSame, MsgTypes
<1>11. CASE UNCHANGED allVars
  BY <1>11 DEF allVars, psVars, vars, WakeInv, Keepers, Keeps, Positions, IsRequest, MachineKeeps
<1> QED
  BY <1>1, <1>4, <1>5, <1>6, <1>7, <1>8, <1>9, <1>10, <1>11, CmStepSplit DEF PsNext, Environment

LEMMA InitWake == PsInit => WakeInv
<1> SUFFICES ASSUME PsInit PROVE WakeInv
  OBVIOUS
<1>1. Positions = {} /\ pc = [t \in Tasks |-> "out"] /\ ~MachineKeeps
  BY DEF PsInit, Init, Positions, MachineKeeps
<1>2. Keepers = {}
  BY <1>1, Cm DEF Keepers, Keeps
<1> QED
  BY <1>1, <1>2, FS_EmptySet DEF WakeInv, PsInit

(* The processor does not go to sleep while the card is awake for the      *)
(* state machine (wakelock_get and wakelock_put of wlan.c), although puts  *)
(* and gets do not match and a get may be lost: the semaphore counts more  *)
(* than the tasks that transmit or ask for something.                      *)
THEOREM WakelockKept ==
    ASSUME Cardinality(Readers) < WakelockMax
    PROVE  PsSpec => []WakelockCoversAwake
<1>1. PsInv /\ WakeInv => WakelockCoversAwake
  <2> SUFFICES ASSUME PsInv, WakeInv, MachineKeeps PROVE wakelock >= 1
    BY DEF WakelockCoversAwake, MachineKeeps
  <2> QED
    BY KeepersFinite, BoundsAssumption DEF PsInv, PsTypes, WakeInv
<1>2. PsInv /\ WakeInv /\ [PsNext]_allVars => WakeInv'
  BY WakeKept
<1> QED
  BY <1>1, <1>2, InitWake, InitPs, PsStep, PTL DEF PsSpec
============================================================================
