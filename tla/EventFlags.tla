----------------------------- MODULE EventFlags -----------------------------
(***************************************************************************)
(* Event flags of the OS layer (os_event_flags_*, platform/os/freertos/    *)
(* os.c): a group of flags, and a doubly linked list of the tasks that     *)
(* wait for some of them, each on a semaphore of its own.                  *)
(*                                                                         *)
(* The list is modelled as it lies in memory: nodes are blocks of the      *)
(* heap, which are given out again once they are freed.                    *)
(*                                                                         *)
(* Abstractions.  What is done under the mutex of the group is one step.   *)
(* A wait may time out at any moment.  Reading a freed node faults, which  *)
(* ends what is said about the system.  Nobody calls get or set, or is     *)
(* about to begin to wait, while delete runs: those who wait already are   *)
(* what delete takes care of.                                              *)
(***************************************************************************)
EXTENDS Integers, FiniteSets

CONSTANTS
    Tasks,      \* tasks that call os_event_flags_get
    Flags,
    Options,    \* flag_rtrv_option_t values passed to get
    Blocks,     \* blocks of memory for event_wait_t
    Null

ASSUME TasksAssumption == Null \notin Blocks /\ IsFiniteSet(Blocks)
ASSUME OptionsAssumption == Options \subseteq {"AND", "AND_CLEAR", "OR", "OR_CLEAR"}

MaxAttempt == 3

VARIABLES
    flags,      \* eG->flags
    list,       \* eG->list
    mem,        \* the blocks of memory: event_wait_t
    used,       \* the blocks allocated
    pc,         \* where each task is in os_event_flags_get
    call,       \* the arguments of its call
    tmp,        \* its node
    deleting,   \* eG->delete_group
    deleter,    \* where os_event_flags_delete is
    attempts,   \* its variable i
    system,     \* "ok"; "spins": the mutex is never given back; "undefined"
    damaged     \* history: the list has begun with a freed node

group == <<flags, deleting>>
heap == <<list, mem, used, damaged>>
delete == <<deleter, attempts>>
vars == <<group, heap, pc, call, tmp, delete, system>>

PCs == {"out", "check", "wait", "woken", "quit"}
NoCall == [mask |-> {}, option |-> "OR", wait |-> FALSE]
Zeroed == [next |-> Null, prev |-> Null, mask |-> {}, sem |-> FALSE]

Goto(t, label) == pc' = [pc EXCEPT ![t] = label]

\* The mutex of the group can be had.
MutexFree == system = "ok" /\ deleter # "gone"

\* os_event_flags_get, os.c:381: the flags found, none if the task must wait.
Status(t) ==
    LET mask == call[t].mask IN
    IF call[t].option \in {"AND", "AND_CLEAR"}
    THEN IF mask \subseteq flags THEN flags ELSE {}
    ELSE mask \cap flags
----------------------------------------------------------------------------
(* The list                                                                *)

\* The nodes met when the list is followed, in order, Null from its end on.
Walk[i \in 0 .. Cardinality(Blocks)] ==
    IF i = 0 THEN list
    ELSE IF Walk[i - 1] = Null THEN Null ELSE mem[Walk[i - 1]].next

Met == {Walk[i] : i \in DOMAIN Walk} \ {Null}
Endless == Walk[Cardinality(Blocks)] # Null
Stale == \E b \in Met : b \notin used

\* Whoever walks the list may never return, or read a freed node.
AfterWalk ==
    system' = IF Stale THEN "undefined" ELSE IF Endless THEN "spins" ELSE "ok"

\* os_semaphore_put of every node met whose mask is one of these.
Woken(masks) ==
    [b \in Blocks |-> IF b \in Met /\ mem[b].mask \in masks
                      THEN [mem[b] EXCEPT !.sem = TRUE] ELSE mem[b]]

\* Mutant: the node after it keeps its link back.
RemoveNodeKeepsPrev(b) ==
    LET next == mem[b].next
        prev == mem[b].prev
    IN  /\ mem' = [c \in Blocks |-> IF c = b THEN Zeroed ELSE [mem[c] EXCEPT
                      !.next = IF c = prev THEN next ELSE @]]
        /\ list' = IF next = Null /\ prev = Null THEN Null ELSE list
        /\ used' = used \ {b}
        /\ damaged' = (damaged \/ list' = b)

\* os_event_flags_remove_node: eG->list changes only with the last node.
RemoveNode(b) ==
    LET next == mem[b].next
        prev == mem[b].prev
    IN  /\ mem' = [c \in Blocks |-> IF c = b THEN Zeroed ELSE [mem[c] EXCEPT
                      !.next = IF c = prev THEN next ELSE @,
                      !.prev = IF c = next THEN prev ELSE @]]
        /\ list' = IF next = Null /\ prev = Null THEN Null ELSE list
        /\ used' = used \ {b}
        /\ damaged' = (damaged \/ list' = b)

\* The call returns, having removed the node of the task if it has one.
Return(t) ==
    /\ Goto(t, "out")
    /\ call' = [call EXCEPT ![t] = NoCall]
    /\ tmp' = [tmp EXCEPT ![t] = Null]
    /\ IF tmp[t] = Null THEN UNCHANGED heap ELSE RemoveNode(tmp[t])
----------------------------------------------------------------------------
(* os_event_flags_get *)

Get(t, mask, option, wait) ==
    /\ pc[t] = "out" /\ deleter = "idle"
    /\ Goto(t, "check")
    /\ call' = [call EXCEPT ![t] = [mask |-> mask, option |-> option, wait |-> wait]]
    /\ UNCHANGED <<group, heap, tmp, delete, system>>

Succeed(t) ==
    /\ pc[t] = "check" /\ MutexFree /\ Status(t) # {}
    /\ flags' = IF call[t].option \in {"AND_CLEAR", "OR_CLEAR"}
                THEN flags \ Status(t) ELSE flags
    /\ Return(t)
    /\ UNCHANGED <<deleting, delete, system>>

\* No flags and no wait (or no memory): EF_NO_EVENTS or an error.
GiveUp(t) ==
    /\ pc[t] = "check" /\ MutexFree /\ Status(t) = {}
    /\ ~call[t].wait \/ used = Blocks
    /\ tmp[t] = Null
    /\ Return(t)
    /\ UNCHANGED <<group, delete, system>>

\* The new node goes to the end of the list; its semaphore is taken once.
Enqueue(t) ==
    /\ pc[t] = "check" /\ MutexFree /\ Status(t) = {}
    /\ call[t].wait /\ tmp[t] = Null
    /\ \E b \in Blocks \ used :
          LET node == [Zeroed EXCEPT !.mask = call[t].mask]
              fresh == [mem EXCEPT ![b] = node]
              last == CHOOSE c \in Met : fresh[c].next = Null
          IN  /\ used' = used \cup {b}
              /\ tmp' = [tmp EXCEPT ![t] = b]
              /\ IF list = Null
                 THEN list' = b /\ mem' = fresh /\ system' = "ok"
                 ELSE IF list = b   \* the freed head, given out again
                 THEN /\ mem' = [mem EXCEPT ![b] = [node EXCEPT !.next = b, !.prev = b]]
                      /\ UNCHANGED <<list, system>>
                 ELSE /\ AfterWalk
                      /\ mem' = IF Stale \/ Endless THEN fresh
                                ELSE [fresh EXCEPT ![last].next = b, ![b].prev = last]
                      /\ UNCHANGED list
    /\ Goto(t, "wait")
    /\ UNCHANGED <<group, call, delete, damaged>>

\* Woken, but somebody else has taken the flags.
WaitAgain(t) ==
    /\ pc[t] = "check" /\ MutexFree /\ Status(t) = {} /\ tmp[t] # Null
    /\ Goto(t, "wait")
    /\ UNCHANGED <<group, heap, call, tmp, delete, system>>

Wake(t) ==
    /\ pc[t] = "wait" /\ mem[tmp[t]].sem
    /\ mem' = [mem EXCEPT ![tmp[t]].sem = FALSE]
    /\ Goto(t, "woken")
    /\ UNCHANGED <<group, list, used, damaged, call, tmp, delete, system>>

TimeOut(t) ==
    /\ pc[t] = "wait" /\ ~mem[tmp[t]].sem
    /\ Goto(t, "quit")
    /\ UNCHANGED <<group, heap, call, tmp, delete, system>>

\* Mutant: the task waits on without looking at the flags again.
LookWaitsOn(t) ==
    /\ pc[t] = "woken"
    /\ Goto(t, IF deleting THEN "quit" ELSE "wait")
    /\ UNCHANGED <<group, heap, call, tmp, delete, system>>

\* Mutant: the deletion of the group is not looked at.
LookAtFlagsOnly(t) ==
    /\ pc[t] = "woken"
    /\ Goto(t, "check")
    /\ UNCHANGED <<group, heap, call, tmp, delete, system>>

\* eG->delete_group is read without the mutex.
Look(t) ==
    /\ pc[t] = "woken"
    /\ Goto(t, IF deleting THEN "quit" ELSE "check")
    /\ UNCHANGED <<group, heap, call, tmp, delete, system>>

\* After a time-out, or as the group is deleted.
Quit(t) ==
    /\ pc[t] = "quit" /\ MutexFree
    /\ Return(t)
    /\ UNCHANGED <<group, delete, system>>
----------------------------------------------------------------------------
(* os_event_flags_set *)

\* Mutant: only the first task that waits is woken.
SetFlagsWakesFirst(new) ==
    /\ MutexFree /\ deleter = "idle" /\ AfterWalk
    /\ flags' = new
    /\ mem' = [b \in Blocks |-> IF b = list /\ mem[b].mask \cap new # {}
                                THEN [mem[b] EXCEPT !.sem = TRUE] ELSE mem[b]]
    /\ UNCHANGED <<deleting, list, used, damaged, pc, call, tmp, delete>>

SetFlags(new) ==
    /\ MutexFree /\ deleter = "idle" /\ AfterWalk
    /\ flags' = new
    /\ mem' = Woken({mask \in SUBSET Flags : mask \cap new # {}})
    /\ UNCHANGED <<deleting, list, used, damaged, pc, call, tmp, delete>>

\* The option is EF_OR or EF_AND.
Set(to_set) == SetFlags(flags \cup to_set) \/ SetFlags(flags \cap to_set)
----------------------------------------------------------------------------
(* os_event_flags_delete *)

\* Mutant: only the first task that waits is told.
StartDeleteTellsFirst ==
    /\ MutexFree /\ deleter = "idle" /\ AfterWalk
    /\ \A t \in Tasks : pc[t] = "check" => tmp[t] # Null
    /\ deleting' = TRUE
    /\ mem' = [b \in Blocks |-> IF b = list THEN [mem[b] EXCEPT !.sem = TRUE]
                                ELSE mem[b]]
    /\ deleter' = "drain" /\ attempts' = 0
    /\ UNCHANGED <<flags, list, used, damaged, pc, call, tmp>>

StartDelete ==
    /\ MutexFree /\ deleter = "idle" /\ AfterWalk
    /\ \A t \in Tasks : pc[t] = "check" => tmp[t] # Null
    /\ deleting' = TRUE
    /\ mem' = Woken(SUBSET Flags)
    /\ deleter' = "drain" /\ attempts' = 0
    /\ UNCHANGED <<flags, list, used, damaged, pc, call, tmp>>

\* Looks at the list up to three times, a second apart.
Drain ==
    /\ deleter = "drain" /\ MutexFree
    /\ IF list # Null /\ attempts < MaxAttempt
       THEN attempts' = attempts + 1 /\ UNCHANGED deleter
       ELSE deleter' = "decide" /\ UNCHANGED attempts
    /\ UNCHANGED <<group, heap, pc, call, tmp, system>>

\* Mutant: the group is freed although tasks still wait.
DecideToFree ==
    /\ deleter = "decide" /\ MutexFree
    /\ deleter' = "gone" /\ attempts' = 0
    /\ UNCHANGED <<group, heap, pc, call, tmp, system>>

\* Fails, with delete_group set for good, while tasks still wait.
Decide ==
    /\ deleter = "decide" /\ MutexFree
    /\ deleter' = IF list # Null THEN "idle" ELSE "gone"
    /\ attempts' = 0
    /\ UNCHANGED <<group, heap, pc, call, tmp, system>>

\* os_event_flags_create: another group.
Create ==
    /\ deleter = "gone" /\ \A t \in Tasks : pc[t] = "out"
    /\ flags' = {} /\ deleting' = FALSE /\ list' = Null
    /\ deleter' = "idle" /\ damaged' = FALSE
    /\ UNCHANGED <<mem, used, pc, call, tmp, attempts, system>>
----------------------------------------------------------------------------
Init ==
    /\ flags = {} /\ deleting = FALSE
    /\ list = Null /\ mem = [b \in Blocks |-> Zeroed] /\ used = {}
    /\ pc = [t \in Tasks |-> "out"] /\ tmp = [t \in Tasks |-> Null]
    /\ call = [t \in Tasks |-> NoCall]
    /\ deleter = "idle" /\ attempts = 0
    /\ system = "ok" /\ damaged = FALSE

InGet(t) ==
    \/ Succeed(t) \/ GiveUp(t) \/ Enqueue(t) \/ WaitAgain(t)
    \/ Wake(t) \/ Look(t) \/ Quit(t)

Next ==
    /\ system # "undefined"
    /\ \/ \E t \in Tasks, mask \in (SUBSET Flags) \ {{}}, option \in Options,
             wait \in BOOLEAN : Get(t, mask, option, wait)
       \/ \E t \in Tasks : InGet(t) \/ TimeOut(t)
       \/ \E to_set \in (SUBSET Flags) \ {{}} : Set(to_set)
       \/ StartDelete \/ Drain \/ Decide \/ Create

Spec == Init /\ [][Next]_vars

\* Tasks run, and waits for the mutex are served in order; a time-out is
\* never owed.
Fairness ==
    /\ \A t \in Tasks : SF_vars(system # "undefined" /\ InGet(t))
    /\ WF_vars(system # "undefined" /\ (Drain \/ Decide))

FairSpec == Spec /\ Fairness
----------------------------------------------------------------------------
(* Types; delete looks at most three times.                                *)
TypeOK ==
    /\ flags \subseteq Flags /\ deleting \in BOOLEAN
    /\ list \in Blocks \cup {Null} /\ used \subseteq Blocks
    /\ mem \in [Blocks -> [next : Blocks \cup {Null}, prev : Blocks \cup {Null},
                           mask : SUBSET Flags, sem : BOOLEAN]]
    /\ pc \in [Tasks -> PCs] /\ tmp \in [Tasks -> Blocks \cup {Null}]
    /\ call \in [Tasks -> [mask : SUBSET Flags, wait : BOOLEAN,
                           option : Options \cup {"OR"}]]
    /\ deleter \in {"idle", "drain", "decide", "gone"}
    /\ attempts \in 0 .. MaxAttempt
    /\ system \in {"ok", "spins", "undefined"} /\ damaged \in BOOLEAN

(* As long as the list is sound, it links the nodes of exactly the tasks   *)
(* that wait or are about to leave, both ways.                             *)
ListSound ==
    ~damaged /\ deleter # "gone" =>
        /\ ~Endless
        /\ Met = {tmp[t] : t \in Tasks} \ {Null} /\ Met = used
        /\ list # Null => mem[list].prev = Null
        /\ \A b \in Met : mem[b].next # Null => mem[mem[b].next].prev = b

(* No wake-up is lost: a task never sleeps on flags that are there, also   *)
(* if it was woken for flags that somebody else then took.                 *)
NoLostWakeup ==
    ~damaged => \A t \in Tasks :
        pc[t] = "wait" /\ Status(t) # {} => mem[tmp[t]].sem

(* While a group is being deleted nobody sleeps who has not been told,     *)
(* also who had just been woken for another reason and sleeps again.       *)
DeletionReachesAll ==
    deleter \in {"drain", "decide"} /\ ~damaged =>
        \A t \in Tasks : pc[t] = "wait" => mem[tmp[t]].sem

(* The group is freed only after the last task has left it.                *)
GroupOutlivesWaiters ==
    deleter = "gone" /\ ~damaged => \A t \in Tasks : pc[t] = "out"

(* A task whose flags stay set gets them.                                  *)
WaiterServed ==
    \A t \in Tasks : pc[t] = "wait" /\ Status(t) # {}
        ~> pc[t] = "out" \/ Status(t) = {} \/ damaged

(* Deleting a group sends home everybody who waits for it.                 *)
DeletionEmptiesGroup ==
    \A t \in Tasks : deleter = "drain" /\ pc[t] = "wait"
        ~> pc[t] = "out" \/ damaged

(* Having removed itself from the list, a task is not in it any more.      *)
ListHoldsWaiters == list # Null => list \in used

(* What get clears are the flags that were requested.                      *)
ClearsRequested ==
    [][\A t \in Tasks : pc[t] = "check" /\ pc'[t] = "out"
           => flags \ flags' \subseteq call[t].mask]_vars
============================================================================
