------------------------------- MODULE RwLock -------------------------------
(***************************************************************************)
(* The reader-writer lock of the OS layer (os_rwlock_*, platform/os/       *)
(* freertos/os.c), which ps_rwlock of the WLAN connection manager is made  *)
(* of: a mutex, reader_mutex, around a count of readers, and a semaphore,  *)
(* rw_lock, that the first reader takes and the last one gives back.       *)
(*                                                                         *)
(* Abstractions.  A wait is forever, or may time out at any moment         *)
(* (OS_NO_WAIT is such a wait).  The step that gets reader_mutex and the   *)
(* one that leaves it without having to wait for rw_lock are one: nobody   *)
(* else can take a step of the lock between them.  A reader_cb waits for   *)
(* rw_lock as the lock itself does (ps_wakeup_card_cb).                    *)
(***************************************************************************)
EXTENDS Integers, FiniteSets

CONSTANTS
    Readers,    \* tasks that call os_rwlock_read_lock
    Writers,    \* tasks that call os_rwlock_write_lock
    Nobody,     \* no task holds reader_mutex
    Waits       \* wait times used by writers: "forever", "finite"

ASSUME TasksAssumption ==
    /\ Readers \cap Writers = {} /\ Nobody \notin Readers \cup Writers
    /\ IsFiniteSet(Readers)
ASSUME WaitsAssumption == Waits \subseteq {"forever", "finite"}

Tasks == Readers \cup Writers

VARIABLES
    reader_mutex,   \* the task that holds it
    rw_lock,        \* the semaphore is free
    reader_count,
    pc,             \* where each task is
    wait            \* wait_time of the call it is in

vars == <<reader_mutex, rw_lock, reader_count, pc, wait>>

\* A task is out; calls a lock (enter), waits for rw_lock (first), is in; or
\* calls the unlock of a reader (leave).
PCs == {"out", "enter", "first", "in", "leave"}

Goto(t, label) == pc' = [pc EXCEPT ![t] = label]
----------------------------------------------------------------------------
(* os_rwlock_read_lock *)

ReadLock(t, time) ==
    /\ pc[t] = "out"
    /\ Goto(t, "enter") /\ wait' = [wait EXCEPT ![t] = time]
    /\ UNCHANGED <<reader_mutex, rw_lock, reader_count>>

\* The reader counts itself; the first one goes on to rw_lock and keeps the
\* mutex meanwhile.
ReaderGetsMutex(t) ==
    /\ pc[t] = "enter" /\ reader_mutex = Nobody
    /\ reader_count' = reader_count + 1
    /\ IF reader_count = 0
       THEN Goto(t, "first") /\ reader_mutex' = t
       ELSE Goto(t, "in") /\ UNCHANGED reader_mutex
    /\ UNCHANGED <<rw_lock, wait>>

GetsRwLock(t) ==
    /\ pc[t] = "first" /\ rw_lock
    /\ rw_lock' = FALSE
    /\ reader_mutex' = Nobody
    /\ Goto(t, "in")
    /\ UNCHANGED <<reader_count, wait>>

\* Mutant: the reader that gave up keeps the mutex.
ReaderTimesOutKeepsMutex(t) ==
    /\ pc[t] = "first" /\ ~rw_lock /\ wait[t] = "finite"
    /\ reader_count' = reader_count - 1
    /\ Goto(t, "out")
    /\ UNCHANGED <<reader_mutex, rw_lock, wait>>

ReaderTimesOut(t) ==
    /\ pc[t] = "first" /\ ~rw_lock /\ wait[t] = "finite"
    /\ reader_count' = reader_count - 1
    /\ reader_mutex' = Nobody
    /\ Goto(t, "out")
    /\ UNCHANGED <<rw_lock, wait>>

(* os_rwlock_read_unlock *)

ReadUnlock(t) ==
    /\ pc[t] = "in" /\ Goto(t, "leave")
    /\ UNCHANGED <<reader_mutex, rw_lock, reader_count, wait>>

\* Mutant: every reader that leaves gives rw_lock back.
ReaderLeavesFirst(t) ==
    /\ pc[t] = "leave" /\ reader_mutex = Nobody
    /\ reader_count' = reader_count - 1
    /\ rw_lock' = TRUE
    /\ Goto(t, "out")
    /\ UNCHANGED <<reader_mutex, wait>>

ReaderLeaves(t) ==
    /\ pc[t] = "leave" /\ reader_mutex = Nobody
    /\ reader_count' = reader_count - 1
    /\ rw_lock' = (rw_lock \/ reader_count = 1)
    /\ Goto(t, "out")
    /\ UNCHANGED <<reader_mutex, wait>>
----------------------------------------------------------------------------
(* os_rwlock_write_lock and os_rwlock_write_unlock *)

WriteLock(t, time) ==
    /\ pc[t] = "out"
    /\ Goto(t, "enter") /\ wait' = [wait EXCEPT ![t] = time]
    /\ UNCHANGED <<reader_mutex, rw_lock, reader_count>>

WriterGetsMutex(t) ==
    /\ pc[t] = "enter" /\ reader_mutex = Nobody
    /\ reader_mutex' = t
    /\ Goto(t, "first")
    /\ UNCHANGED <<rw_lock, reader_count, wait>>

\* Mutant: wait_time limits the wait for the mutex alone.
WriterTimesOutOutside(t) ==
    /\ wait[t] = "finite"
    /\ pc[t] = "enter" /\ reader_mutex # Nobody
    /\ Goto(t, "out")
    /\ UNCHANGED <<reader_mutex, rw_lock, reader_count, wait>>

\* No mutex, or no rw_lock, in time: the mutex is not kept.
WriterTimesOut(t) ==
    /\ wait[t] = "finite"
    /\ \/ pc[t] = "enter" /\ reader_mutex # Nobody /\ UNCHANGED reader_mutex
       \/ pc[t] = "first" /\ ~rw_lock /\ reader_mutex' = Nobody
    /\ Goto(t, "out")
    /\ UNCHANGED <<rw_lock, reader_count, wait>>

WriteUnlock(t) ==
    /\ pc[t] = "in"
    /\ rw_lock' = TRUE
    /\ Goto(t, "out")
    /\ UNCHANGED <<reader_mutex, reader_count, wait>>
----------------------------------------------------------------------------
Init ==
    /\ reader_mutex = Nobody /\ rw_lock = TRUE /\ reader_count = 0
    /\ pc = [t \in Tasks |-> "out"]
    /\ wait = [t \in Tasks |-> "forever"]

\* What the lock does for a task that is inside a call.
ReaderStep(t) == ReaderGetsMutex(t) \/ GetsRwLock(t) \/ ReaderTimesOut(t) \/ ReaderLeaves(t)
WriterStep(t) == WriterGetsMutex(t) \/ GetsRwLock(t) \/ WriterTimesOut(t)

Next ==
    \/ \E t \in Readers : \/ \E time \in {"forever", "finite"} : ReadLock(t, time)
                          \/ ReadUnlock(t) \/ ReaderStep(t)
    \/ \E t \in Writers : \/ \E time \in Waits : WriteLock(t, time)
                          \/ WriteUnlock(t) \/ WriterStep(t)

Spec == Init /\ [][Next]_vars

\* Who is in comes out again.  A task that waits for reader_mutex is not
\* overtaken for ever: tasks of one priority are served in order.
Fairness ==
    /\ \A t \in Readers : WF_vars(ReadUnlock(t)) /\ SF_vars(ReaderStep(t))
    /\ \A t \in Writers : WF_vars(WriteUnlock(t)) /\ SF_vars(WriterStep(t))

FairSpec == Spec /\ Fairness
----------------------------------------------------------------------------
(* Types.                                                                  *)
TypeOK ==
    /\ reader_mutex \in Tasks \cup {Nobody}
    /\ rw_lock \in BOOLEAN
    /\ reader_count \in 0 .. Cardinality(Readers)
    /\ pc \in [Tasks -> PCs]
    /\ wait \in [Tasks -> {"forever", "finite"}]

\* The readers that reader_count stands for.
Counted == {t \in Readers : pc[t] \in {"first", "in", "leave"}}
Reading == {t \in Readers : pc[t] \in {"in", "leave"}}
Writing == {t \in Writers : pc[t] = "in"}

(* Writers acquire the lock in an exclusive manner, readers share it,      *)
(* whoever gave up waiting before.                                         *)
Exclusion ==
    /\ Writing # {} => Reading = {}
    /\ \A t, u \in Writing : t = u

(* reader_count is the number of readers that are in, or the first one on  *)
(* its way, and reader_mutex is held by whoever waits for rw_lock: a wait  *)
(* that times out leaves no trace.                                         *)
CountExact ==
    /\ reader_count = Cardinality(Counted)
    /\ \A t \in Tasks : pc[t] = "first" <=> reader_mutex = t

(* rw_lock is never lost: it is taken only while somebody is in.           *)
LockAccounted == rw_lock <=> Reading = {} /\ Writing = {}

(* A reader gets in, or gives up, and comes out again, whatever the        *)
(* writers do, if these limit their waits.                                 *)
ReadersServed ==
    \A t \in Readers : /\ pc[t] = "enter" ~> pc[t] \in {"in", "out"}
                       /\ pc[t] = "leave" ~> pc[t] = "out"

(* The last reader gives a writer that waits a chance.                     *)
WritersServed == \A t \in Writers : pc[t] = "first" ~> pc[t] \in {"in", "out"}
============================================================================
