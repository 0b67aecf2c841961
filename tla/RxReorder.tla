------------------------------ MODULE RxReorder ------------------------------
(***************************************************************************)
(* Receive reordering of an 802.11n block-ack stream (wlan/wifidriver/     *)
(* mlan_11n_rxreorder.c): the reorder table of one sender and one TID and  *)
(* the four tasks that work in it.  The spin locks around the table are    *)
(* empty (wrapper_moal_spin_lock), so only the priorities keep them apart: *)
(*                                                                         *)
(*   timer task (4)        wlan_flush_data, one step: nothing preempts it; *)
(*   stack_dispatcher (3)  "rx": mlan_11n_rxreorder_pkt, which only the    *)
(*                         timer task can cut into;                        *)
(*   wifi_driver (1)       "driver": DELBA, the answers to ADDBA, cleanup; *)
(*   wlcmgr (1)            "manager": it accepts an ADDBA.                 *)
(*                                                                         *)
(* The last two share the processor, and the first two cut into them       *)
(* between any two of their steps, of which each reads or writes the table *)
(* once: the loops over the slots go slot by slot.  A value that the code  *)
(* tests and then uses is read once, as the compiler keeps it.             *)
(*                                                                         *)
(* A packet is its number since the sender began; what the code sees of it *)
(* is SeqNo.  Of a packet handed up only the number is kept, in `up`, for  *)
(* the step that did it.  Allocation never fails.                          *)
(***************************************************************************)
EXTENDS Integers, FiniteSets

CONSTANTS
    Half,       \* TWOPOW11, half the sequence numbers
    Win,        \* win_size
    First,      \* the sender's first packet
    MaxPackets, \* bound: packet numbers
    MaxCalls,   \* bound: handlers of the driver and the manager at once
    None        \* an empty slot; DEFAULT_SEQ_NUM in rx_seq; nothing in hand

\* The stations' windows are of 8 and 16 packets, of 4096 sequence numbers.
ASSUME WindowAssumption ==
    Half \in Nat /\ Win \in Nat /\ 2 <= Win /\ Win <= Half
ASSUME PacketsAssumption ==
    First \in Nat /\ MaxPackets \in Nat /\ First <= MaxPackets /\ None \notin Nat
ASSUME CallsAssumption == MaxCalls \in {1, 2}

M == 2 * Half       \* MAX_TID_VALUE
Slots == 0 .. Win - 1
Packets == First .. MaxPackets
Kinds == {"data", "amsdu", "bar"}
Threads == {"rx", "driver", "manager"}

SeqNo(n) == n % M

\* x & (MAX_TID_VALUE - 1), of an x below twice MAX_TID_VALUE.
Mask(x) == IF x < M THEN x ELSE x - M

VARIABLES
    open,       \* the table is in rx_reorder_tbl_ptr
    start_win,
    slot,       \* rx_reorder_ptr: a packet or None
    amsdu,
    timer,      \* the RTOS's timer: "off", "on" or "freed"
    timer_is_set,
    rx_seq,     \* the last sequence number of the TID
    pc, loop,   \* where each thread is, and its locals in the two loops
    rx,         \* the other locals of mlan_11n_rxreorder_pkt
    leaving,    \* the driver is in wlan_11n_cleanup_reorder_tbl
    sent,       \* the sender: it has sent the packets below this number
    up,         \* the packets that the last step handed up
    stale,      \* ghost: the timer moved the window between two steps of rx
                \* that rely on it, and a packet went by the old one
    cut,        \* ghost: the table was changed under the driver or the manager
    broken      \* a freed timer or table was used, or a table left the list
                \* unfreed: the model ends

table == <<open, amsdu, timer, timer_is_set, broken>>
peer == <<rx_seq, sent>>
vars == <<table, start_win, slot, peer, pc, loop, rx, leaving, up, stale, cut>>

NoLoop == [count |-> None, i |-> 0, tmp |-> None, target |-> None]
NoPacket == [n |-> None, start |-> 0, prev |-> 0]

Held == {slot[i] : i \in Slots} \ {None}
Empty == [i \in Slots |-> None]

\* The packets that a thread has read from a slot it has not yet cleared.
InHand(who) == {loop[a].tmp : a \in who} \ {None}

\* Only the timer task comes between two steps of rx.
Runs(a) == ~broken /\ (a = "rx" \/ pc["rx"] = "idle")
At(a, stage) == pc[a] = stage /\ Runs(a)

\* The threads that work in the table, and rely on what they have read there.
Inside(a) == pc[a] \notin {"idle", "create", "peek", "wipe"}
Others == {"driver", "manager"}

\* A handler of the driver or the manager begins.
Begins(a) == /\ At(a, "idle")
             /\ MaxCalls = 1 => \A b \in Others : pc[b] = "idle"

Goes(a, stage, f) == /\ pc' = [pc EXCEPT ![a] = stage]
                     /\ loop' = [loop EXCEPT ![a] = f]

\* Thread a writes the table.
Touches(a) == cut' = (cut \/ \E b \in Others \ {a} : Inside(b))
----------------------------------------------------------------------------
(* The loops over the slots: wlan_11n_dispatch_pkt_until_start_win has a   *)
(* count of slots, wlan_11n_scan_and_dispatch none until it meets a hole,  *)
(* and no target.                                                          *)

NoneElse == UNCHANGED <<table, peer, rx, leaving, stale>>
OnlyReads == UNCHANGED <<start_win, slot, cut>> /\ up' = {} /\ NoneElse

\* The window that does not move to a higher number hands up all it holds.
CountTo(target) == IF target > start_win /\ target - start_win < Win
                   THEN target - start_win ELSE Win

CountSlots(a) ==
    /\ At(a, "count")
    /\ Goes(a, "take", [loop[a] EXCEPT !.count = CountTo(loop[a].target)])
    /\ OnlyReads

\* What it goes on with when the first f.i of the others are moved down.
\* Nothing moves if no slot was taken, or all.
Moved(a, f) ==
    Goes(a, IF f.count > 0 /\ f.count + f.i < Win THEN "load"
            ELSE IF f.target = None THEN "sum" ELSE "set", f)

\* What the loop goes on with when the first i slots are taken.
Taken(a, i) ==
    LET f == loop[a]
        n == IF f.count = None THEN i ELSE f.count
    IN  IF (f.count = None /\ i < Win) \/ i < n
        THEN Goes(a, "take", [f EXCEPT !.tmp = None, !.i = i])
        ELSE Moved(a, [f EXCEPT !.tmp = None, !.i = 0, !.count = n])

SkipSlot(a) ==
    LET f == loop[a]
    IN  /\ At(a, "take") /\ slot[f.i] = None
        /\ IF f.count = None THEN Moved(a, [f EXCEPT !.i = 0, !.count = f.i])
                             ELSE Taken(a, f.i + 1)
        /\ OnlyReads

TakeSlot(a) ==
    LET f == loop[a]
    IN  /\ At(a, "take") /\ slot[f.i] # None
        /\ Goes(a, "clear", [f EXCEPT !.tmp = slot[f.i]])
        /\ OnlyReads

\* The slot is cleared and the packet goes up.
ClearSlot(a) ==
    LET f == loop[a]
    IN  /\ At(a, "clear")
        /\ slot' = [slot EXCEPT ![f.i] = None]
        /\ up' = {f.tmp}
        /\ Taken(a, f.i + 1)
        /\ Touches(a) /\ UNCHANGED start_win /\ NoneElse

LoadSlot(a) ==
    LET f == loop[a]
    IN  /\ At(a, "load")
        /\ Goes(a, "put", [f EXCEPT !.tmp = slot[f.count + f.i]])
        /\ OnlyReads

PutSlot(a) ==
    LET f == loop[a]
    IN  /\ At(a, "put")
        /\ slot' = [slot EXCEPT ![f.i] = f.tmp]
        /\ Goes(a, "drop", f)
        /\ up' = {} /\ Touches(a) /\ UNCHANGED start_win /\ NoneElse

\* Mutant: the slot that was moved down is not cleared.
DropNothing(a) ==
    LET f == loop[a]
    IN  /\ At(a, "drop")
        /\ Moved(a, [f EXCEPT !.tmp = None, !.i = @ + 1])
        /\ up' = {} /\ Touches(a) /\ UNCHANGED <<start_win, slot>> /\ NoneElse

DropSlot(a) ==
    LET f == loop[a]
    IN  /\ At(a, "drop")
        /\ slot' = [slot EXCEPT ![f.count + f.i] = None]
        /\ Moved(a, [f EXCEPT !.tmp = None, !.i = @ + 1])
        /\ up' = {} /\ Touches(a) /\ UNCHANGED start_win /\ NoneElse

SetWindow(a) ==
    /\ At(a, "set")
    /\ start_win' = loop[a].target
    /\ Goes(a, CASE a = "rx" -> "store" [] a = "driver" -> "stop"
                 [] a = "manager" -> "idle", NoLoop)
    /\ up' = {} /\ Touches(a) /\ UNCHANGED slot /\ NoneElse

\* The scan advances start_win by what it has handed up.
SumWindow ==
    /\ At("rx", "sum")
    /\ Goes("rx", "advance",
            [loop["rx"] EXCEPT !.target = Mask(start_win + loop["rx"].count)])
    /\ OnlyReads

AdvanceWindow ==
    /\ At("rx", "advance")
    /\ start_win' = loop["rx"].target
    /\ Goes("rx", "done", NoLoop)
    /\ up' = {} /\ Touches("rx") /\ UNCHANGED slot /\ NoneElse

InLoop(a) ==
    \/ CountSlots(a) \/ SkipSlot(a) \/ TakeSlot(a) \/ ClearSlot(a)
    \/ LoadSlot(a) \/ PutSlot(a) \/ DropSlot(a) \/ SetWindow(a)
----------------------------------------------------------------------------
(* mlan_11n_rxreorder_pkt, in stack_dispatcher *)

EndWin(start) == Mask(start + Win - 1)

\* Behind the window: by up to half the numbers if these wrap, else by any
\* distance, or too far ahead.
Behind(seq, start) ==
    IF start + Half > M - 1
    THEN seq >= Mask(start + Half) /\ seq < start
    ELSE seq < start \/ seq > start + Half

\* Mutant: the number after the end of the window is taken for its end.
BeyondByOne(seq, start) ==
    \/ /\ EndWin(start) < start
       /\ seq < Half - (M - start) /\ seq > EndWin(start)
    \/ /\ EndWin(start) > start
       /\ seq > EndWin(start) + 1 \/ seq < start

Beyond(seq, start) ==
    \/ /\ EndWin(start) < start
       /\ seq < Half - (M - start) /\ seq > EndWin(start)
    \/ /\ EndWin(start) > start
       /\ seq > EndWin(start) \/ seq < start

\* The sequence number of a BAR is that of the end of the window it asks for.
Target(seq, kind) == IF kind = "bar" THEN Mask(seq + Win - 1) ELSE seq

WindowEndingAt(seq) == IF seq - Win + 1 >= 0 THEN seq - Win + 1
                                              ELSE M - (Win - seq) + 1

\* A packet comes in: the next ones of the sender, skipping those lost on the
\* air, or one that it repeats.
Sends(n, kind) ==
    /\ n \in sent - Win + 1 .. sent + Win
    /\ sent' = IF n >= sent THEN n + 1 ELSE sent
    /\ rx_seq' = IF kind = "bar" THEN rx_seq ELSE SeqNo(n)

\* No table, or an A-MSDU the peer did not negotiate: the packet goes up.
ReceiveDirect(n, kind) ==
    /\ At("rx", "idle") /\ Sends(n, kind)
    /\ ~open \/ (kind = "amsdu" /\ ~amsdu)
    /\ up' = IF kind = "bar" THEN {} ELSE {n}
    /\ UNCHANGED <<table, start_win, slot, pc, loop, rx, leaving, stale, cut>>

\* What the code does next is decided by the start_win it has read.  A BAR
\* leaves no packet to store.
Receive(n, kind) ==
    /\ At("rx", "idle") /\ Sends(n, kind)
    /\ open /\ ~(kind = "amsdu" /\ ~amsdu)
    /\ LET target == Target(SeqNo(n), kind)
           Frame(start) == [n |-> IF kind = "bar" THEN None ELSE n,
                            start |-> start, prev |-> start_win]
       IN  IF Behind(SeqNo(n), start_win)
           THEN /\ rx' = [NoPacket EXCEPT !.prev = start_win]
                /\ Goes("rx", "done", NoLoop)
           ELSE IF Beyond(target, start_win)
           THEN /\ rx' = Frame(WindowEndingAt(target))
                /\ Goes("rx", "count",
                        [NoLoop EXCEPT !.target = WindowEndingAt(target)])
           ELSE /\ rx' = Frame(start_win)
                /\ Goes("rx", "store", NoLoop)
    /\ up' = {}
    /\ UNCHANGED <<table, start_win, slot, leaving, stale, cut>>

\* The slot of the packet, by the thread's own copy of start_win.
Index == IF SeqNo(rx.n) >= rx.start THEN SeqNo(rx.n) - rx.start
                                    ELSE SeqNo(rx.n) + M - rx.start

Scans == /\ Goes("rx", "take", NoLoop)
         /\ rx' = [NoPacket EXCEPT !.prev = rx.prev]

AcceptBar ==
    /\ At("rx", "store") /\ rx.n = None
    /\ Scans
    /\ up' = {}
    /\ UNCHANGED <<table, start_win, slot, peer, leaving, stale, cut>>

DropDuplicate ==
    /\ At("rx", "store") /\ rx.n # None /\ slot[Index] # None
    /\ Goes("rx", "done", NoLoop)
    /\ rx' = [NoPacket EXCEPT !.prev = rx.prev]
    /\ up' = {}
    /\ UNCHANGED <<table, start_win, slot, peer, leaving, stale, cut>>

Store ==
    /\ At("rx", "store") /\ rx.n # None /\ slot[Index] = None
    /\ slot' = [slot EXCEPT ![Index] = rx.n]
    /\ stale' = (stale \/ rx.start # start_win)
    /\ Touches("rx")
    /\ Scans
    /\ up' = {}
    /\ UNCHANGED <<table, start_win, peer, leaving>>

\* Mutant: a timer that is not set starts only if the window has moved.
FinishIfMoved ==
    /\ At("rx", "done")
    /\ IF rx.prev # start_win
       THEN /\ timer_is_set' = TRUE
            /\ timer' = IF timer = "freed" THEN timer ELSE "on"
            /\ broken' = (timer = "freed")
       ELSE UNCHANGED <<timer, timer_is_set, broken>>
    /\ Goes("rx", "idle", NoLoop) /\ rx' = NoPacket
    /\ up' = {}
    /\ UNCHANGED <<open, amsdu, start_win, slot, peer, leaving, stale, cut>>

\* done: the timer starts, or starts again if the window has moved.  Its period
\* is of hundreds of milliseconds: it does not expire before timer_is_set.
Finish ==
    /\ At("rx", "done")
    /\ IF ~timer_is_set \/ rx.prev # start_win
       THEN /\ timer_is_set' = TRUE
            /\ timer' = IF timer = "freed" THEN timer ELSE "on"
            /\ broken' = (timer = "freed")
       ELSE UNCHANGED <<timer, timer_is_set, broken>>
    /\ Goes("rx", "idle", NoLoop) /\ rx' = NoPacket
    /\ up' = {}
    /\ UNCHANGED <<open, amsdu, start_win, slot, peer, leaving, stale, cut>>
----------------------------------------------------------------------------
(* The connection manager's thread *)

\* wlan_cmd_11n_addba_rspgen.  A table that is there stays, and its window goes
\* to the number the peer announces; a new one begins there or, if the TID has
\* been beyond that, after the last number received: then start_win may be
\* MAX_TID_VALUE itself.
FirstWindow(ssn) == IF rx_seq # None /\ rx_seq >= ssn THEN rx_seq + 1 ELSE ssn

Ask(ssn) ==
    /\ Begins("manager")
    /\ IF open
       THEN Goes("manager", "count", [NoLoop EXCEPT !.target = ssn])
       ELSE Goes("manager", "create", [NoLoop EXCEPT !.target = FirstWindow(ssn)])
    /\ OnlyReads

\* Nothing is said of amsdu before the answer of the card.
CreateTable ==
    /\ At("manager", "create")
    /\ open' = TRUE /\ start_win' = loop["manager"].target /\ slot' = Empty
    /\ amsdu' \in BOOLEAN
    /\ timer' = "off" /\ timer_is_set' = FALSE
    /\ stale' = FALSE /\ cut' = FALSE
    /\ Goes("manager", "idle", NoLoop)
    /\ up' = {}
    /\ UNCHANGED <<broken, peer, rx, leaving>>
----------------------------------------------------------------------------
(* The driver's thread *)

\* wlan_ret_11n_addba_resp: what the peer and the station agreed to.
AddbaAnswered ==
    /\ Begins("driver") /\ open
    /\ amsdu' \in BOOLEAN
    /\ up' = {}
    /\ UNCHANGED <<open, timer, timer_is_set, broken, start_win, slot, peer, pc,
                   loop, rx, leaving, stale, cut>>

\* Mutant: the table is deleted with what it holds.
DeleteUndispatched ==
    /\ open
    /\ Goes("driver", "stop", NoLoop)

\* wlan_11n_delete_rxreorder_tbl_entry begins with a whole window's dispatch.
DeleteEntry ==
    /\ open
    /\ Goes("driver", "count",
            [NoLoop EXCEPT !.target = Mask(start_win + Win)])

\* A DELBA, or an ADDBA response that failed.
DeleteTable == Begins("driver") /\ DeleteEntry /\ OnlyReads

\* wlan_11n_cleanup_reorder_tbl, when the association ends: delete what is at
\* the head of the list until that is empty, then forget list and rx_seq.
CleanUp ==
    /\ Begins("driver") /\ Goes("driver", "peek", NoLoop)
    /\ leaving' = TRUE
    /\ up' = {} /\ UNCHANGED <<table, start_win, slot, peer, rx, stale, cut>>

PeekTable == At("driver", "peek") /\ DeleteEntry /\ OnlyReads

PeekNone ==
    /\ At("driver", "peek") /\ ~open
    /\ Goes("driver", "wipe", NoLoop)
    /\ OnlyReads

Wipe ==
    /\ At("driver", "wipe") /\ Goes("driver", "idle", NoLoop)
    /\ leaving' = FALSE /\ rx_seq' = None
    /\ broken' = open
    /\ up' = {}
    /\ UNCHANGED <<open, amsdu, timer, timer_is_set, start_win, slot, sent, rx,
                   stale, cut>>

\* The timer is stopped; timer_is_set stays as it is.
StopTimer ==
    /\ At("driver", "stop") /\ Goes("driver", "free", NoLoop)
    /\ timer' = IF timer_is_set THEN "off" ELSE timer
    /\ up' = {}
    /\ UNCHANGED <<open, amsdu, timer_is_set, broken, start_win, slot, peer, rx,
                   leaving, stale, cut>>

FreeTimer ==
    /\ At("driver", "free") /\ Goes("driver", "unlink", NoLoop)
    /\ timer' = "freed"
    /\ up' = {}
    /\ UNCHANGED <<open, amsdu, timer_is_set, broken, start_win, slot, peer, rx,
                   leaving, stale, cut>>

\* Unlinked and freed in one step: the manager, the only one who can be inside
\* the table now, goes on in freed memory.
FreeTable ==
    /\ At("driver", "unlink")
    /\ Goes("driver", IF leaving THEN "peek" ELSE "idle", NoLoop)
    /\ open' = FALSE /\ slot' = Empty /\ start_win' = 0 /\ amsdu' = FALSE
    /\ timer' = "off" /\ timer_is_set' = FALSE
    /\ broken' = Inside("manager")
    /\ Touches("driver")
    /\ up' = {} /\ UNCHANGED <<peer, rx, leaving, stale>>
----------------------------------------------------------------------------
(* The timer task *)

\* The packets of the first n slots go up and the others move down.
HandUp(n) ==
    /\ up' = {slot[i] : i \in {j \in Slots : j < n}} \ {None}
    /\ slot' = [i \in Slots |-> IF i + n < Win THEN slot[i + n] ELSE None]

\* Mutant: the last packet held stays.
FlushAllButLast ==
    /\ timer = "on" /\ ~broken
    /\ timer' = "off" /\ timer_is_set' = FALSE
    /\ IF Held = {}
       THEN up' = {} /\ UNCHANGED <<start_win, slot>>
       ELSE \E last \in Slots :
                LET start == Mask(start_win + last)
                IN  /\ slot[last] # None
                    /\ \A i \in Slots : i > last => slot[i] = None
                    /\ HandUp(CountTo(start)) /\ start_win' = start
    /\ stale' = (stale \/ InHand({"rx"}) # {})
    /\ cut' = (cut \/ InHand(Others) # {})
    /\ UNCHANGED <<open, amsdu, broken, peer, pc, loop, rx, leaving>>

\* wlan_flush_data: hand up to the last packet held, whatever the others are
\* doing.  It cuts into a thread that has a packet in hand.
FlushData ==
    /\ timer = "on" /\ ~broken
    /\ timer' = "off" /\ timer_is_set' = FALSE
    /\ IF Held = {}
       THEN up' = {} /\ UNCHANGED <<start_win, slot>>
       ELSE \E last \in Slots :
                LET start == Mask(start_win + last + 1)
                IN  /\ slot[last] # None
                    /\ \A i \in Slots : i > last => slot[i] = None
                    /\ HandUp(CountTo(start)) /\ start_win' = start
    /\ stale' = (stale \/ InHand({"rx"}) # {})
    /\ cut' = (cut \/ InHand(Others) # {})
    /\ UNCHANGED <<open, amsdu, broken, peer, pc, loop, rx, leaving>>
----------------------------------------------------------------------------
Init ==
    /\ open = FALSE /\ start_win = 0 /\ slot = Empty
    /\ amsdu = FALSE /\ timer = "off" /\ timer_is_set = FALSE /\ rx_seq = None
    /\ pc = [a \in Threads |-> "idle"] /\ loop = [a \in Threads |-> NoLoop]
    /\ rx = NoPacket /\ leaving = FALSE
    /\ sent = First /\ up = {}
    /\ stale = FALSE /\ cut = FALSE /\ broken = FALSE

Reception == AcceptBar \/ DropDuplicate \/ Store \/ SumWindow \/ AdvanceWindow
             \/ Finish \/ InLoop("rx")
Manager == CreateTable \/ InLoop("manager")
Driver == PeekTable \/ PeekNone \/ Wipe \/ StopTimer \/ FreeTimer \/ FreeTable
          \/ InLoop("driver")

\* The peer announces the number of the next packet that it will send.
Next ==
    \/ \E n \in Packets, kind \in Kinds :
          ReceiveDirect(n, kind) \/ Receive(n, kind)
    \/ Ask(SeqNo(sent)) \/ AddbaAnswered \/ DeleteTable \/ CleanUp
    \/ Reception \/ Manager \/ Driver \/ FlushData

Spec == Init /\ [][Next]_vars

\* A packet that came in is dealt with, and the timer expires.
FairSpec == Spec /\ WF_vars(Reception) /\ WF_vars(FlushData)
----------------------------------------------------------------------------
(* Properties *)

Looping == {"count", "take", "clear", "load", "put", "drop", "sum", "advance",
            "set"}
Stages == Looping \cup {"idle", "store", "done", "create", "peek", "wipe",
                        "stop", "free", "unlink"}
Frames == [count : 0 .. Win \cup {None}, i : 0 .. Win,
           tmp : Packets \cup {None}, target : 0 .. M \cup {None}]

TypeOK ==
    /\ open \in BOOLEAN /\ amsdu \in BOOLEAN /\ timer_is_set \in BOOLEAN
    /\ timer \in {"off", "on", "freed"} /\ leaving \in BOOLEAN
    /\ stale \in BOOLEAN /\ cut \in BOOLEAN /\ broken \in BOOLEAN
    /\ start_win \in 0 .. M
    /\ slot \in [Slots -> Packets \cup {None}]
    /\ rx_seq \in 0 .. M - 1 \cup {None}
    /\ pc \in [Threads -> Stages] /\ loop \in [Threads -> Frames]
    /\ rx \in [n : Packets \cup {None}, start : 0 .. M, prev : 0 .. M]
    /\ sent \in First .. MaxPackets + 1
    /\ up \subseteq Packets

\* No packet is stored outside the array that was allocated for the window,
\* whatever the timer has made of the window since start_win was read, and
\* also where the sequence numbers wrap.
StoreInRange == pc["rx"] = "store" /\ rx.n # None => Index \in Slots

\* The table is being moved down.
Shifting(a) == pc[a] \in {"load", "put", "drop", "sum", "advance", "set"}

\* A slot holds the packet of its place in the window whenever nobody moves the
\* table down, also while packets are taken out and however the timer's flush
\* falls among the steps of a reception; unless it took the packet that the
\* reception had in hand or the window it was about to store by, or somebody
\* else came into the driver's or the manager's own loop.
SlotsMatch ==
    open /\ ~stale /\ ~cut /\ (\A a \in Threads : ~Shifting(a)) =>
        \A i \in Slots :
            slot[i] # None => SeqNo(slot[i]) = Mask(start_win + i)

\* Whatever the timer does within a reception, it leaves no packet in the table
\* without the timer that will flush it, and nor do the driver and the manager
\* between any two steps, if nobody writes the table under them.
HeldIsTimed ==
    ~cut /\ pc["rx"] = "idle" /\ Held # {} => open /\ timer = "on"

\* Moving, scanning, flushing and deleting lose no packet, though the timer
\* flushes between the steps of a reception; and they hand none up that they
\* keep or do not hold, unless it takes a packet that a reception has in hand.
NothingLost ==
    [][~cut' =>
        /\ Held \subseteq Held' \cup up'
        /\ <<pc, slot>>' # <<pc, slot>> /\ ~stale' =>
               up' \subseteq Held \ Held']_vars

\* A packet that is held goes up in the end, however the packets that are
\* missing before it, the timer and the deletions of the table come.
HeldGoesUp == \A n \in Packets : n \in Held ~> n \in up \/ cut \/ broken

\* What is not so when the premises above do not hold: a packet is freed with
\* the table, it goes up twice, a freed timer or table is used.
NeverLost == [][Held \subseteq Held' \cup up']_vars
NeverTwice == [][pc' # pc /\ ~cut' => up' \subseteq Held]_vars
NeverBroken == ~broken
=============================================================================
