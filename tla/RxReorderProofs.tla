--------------------------- MODULE RxReorderProofs ---------------------------
(***************************************************************************)
(* Proofs about RxReorder, for every number of sequence numbers, every     *)
(* window of at least two of them and at most half, and either bound on    *)
(* the handlers at work.  The invariant adds to the properties what each   *)
(* thread may rely on at its place in the loops over the slots: which      *)
(* slots it has emptied, what it has in hand and where its window will be. *)
(***************************************************************************)
EXTENDS RxReorder, TLAPS

Vacant == \A j \in Slots : slot[j] = None

\* Every slot holds the packet of its place.
Matched == \A j \in Slots : slot[j] # None => SeqNo(slot[j]) = Mask(start_win + j)

StagesOf(a) ==
    CASE a = "rx" -> Looping \cup {"idle", "store", "done"}
      [] a = "driver" -> (Looping \ {"sum", "advance"})
                         \cup {"idle", "peek", "wipe", "stop", "free", "unlink"}
      [] a = "manager" -> (Looping \ {"sum", "advance"}) \cup {"idle", "create"}

\* The locals of a loop, by its stage.
FrameOK(a) ==
    LET f == loop[a]
    IN  /\ pc[a] \in StagesOf(a)
        /\ pc[a] \in {"count", "set", "advance", "create"} => f.target # None
        /\ a # "rx" /\ pc[a] \in Looping => f.target # None
        /\ pc[a] = "count" => f.i = 0
        /\ pc[a] \in {"take", "clear"} =>
               /\ f.i < Win
               /\ f.count = None <=> f.target = None
               /\ f.count # None => f.i < f.count
        /\ pc[a] = "clear" => f.tmp # None
        /\ Shifting(a) => f.count # None /\ f.count + f.i <= Win
        /\ pc[a] \in {"load", "put", "drop"} => f.count > 0 /\ f.count + f.i < Win
        /\ pc[a] \in {"sum", "advance", "set"} =>
               f.count = 0 \/ f.count + f.i = Win

\* What thread a has read from a slot is still there, or the timer has taken it
\* from a reception.
Read(a, j) == slot[j] = loop[a].tmp \/ (a = "rx" /\ slot[j] = None)

\* Which slots are empty, by the stage.
Struct(a) ==
    LET f == loop[a]
    IN  /\ pc[a] \in {"take", "clear"} =>
              \A j \in Slots : j < f.i => slot[j] = None
        /\ pc[a] = "clear" => Read(a, f.i)
        /\ pc[a] \in {"load", "put"} =>
              \A j \in Slots : f.i <= j /\ j < f.count + f.i => slot[j] = None
        /\ pc[a] = "drop" =>
              \A j \in Slots : f.i < j /\ j < f.count + f.i => slot[j] = None
        /\ pc[a] \in {"put", "drop"} => Read(a, f.count + f.i)
        /\ pc[a] = "drop" =>
              Read(a, f.i) /\ (slot[f.i] = None => slot[f.count + f.i] = None)
        /\ pc[a] \in {"sum", "advance", "set"} /\ f.count > 0 =>
              \A j \in Slots : f.i <= j => slot[j] = None

\* The driver's dispatch is of the whole window, and leaves it empty.
Empties(a) ==
    a = "driver" =>
        /\ pc[a] = "count" => Vacant \/ loop[a].target = Mask(start_win + Win)
        /\ pc[a] \in Looping \ {"count"} => Vacant \/ loop[a].count = Win
        /\ pc[a] \in {"stop", "free", "unlink"} => Vacant

Exact(a) ==
    LET f == loop[a]
    IN  /\ pc[a] = "clear" => slot[f.i] = f.tmp
        /\ pc[a] \in {"put", "drop"} => slot[f.count + f.i] = f.tmp
        /\ pc[a] = "drop" => slot[f.i] = f.tmp

\* The window will move by as many slots as the loop hands up.
Aims(a) ==
    LET f == loop[a]
    IN  /\ pc[a] \in Looping \ {"count", "advance"} /\ f.target # None
               /\ f.count < Win
             => f.target = start_win + f.count
        /\ pc[a] = "advance" => f.target = Mask(start_win + f.count)

\* The slots below are moved down already, those above are not.
Down(a) == IF pc[a] = "drop" THEN loop[a].i + 1 ELSE loop[a].i
Placed(a) ==
    \A j \in Slots : slot[j] # None =>
       SeqNo(slot[j]) = Mask(start_win + (IF j < Down(a) THEN j + loop[a].count
                                                         ELSE j))

Alone(a) == \A b \in Threads \ {a} : ~Shifting(b)

Local(a) ==
    /\ FrameOK(a)
    /\ ~cut => Struct(a) /\ Empties(a)
    /\ ~cut /\ ~stale => /\ Exact(a)
                         /\ Vacant \/ Aims(a)
                         /\ Shifting(a) /\ Alone(a) => Placed(a)

Opens ==
    /\ pc["rx"] # "idle" => open
    /\ Inside("driver") => open
    /\ Inside("manager") /\ ~broken => open
    /\ pc["manager"] = "create" => ~open
    /\ ~open => Vacant

TimerOK ==
    open /\ pc["driver"] \notin {"free", "unlink"} =>
        timer # "freed" /\ (timer = "on" <=> timer_is_set)

RxOK ==
    /\ pc["rx"] \in Looping /\ rx.n # None =>
           rx.start = WindowEndingAt(SeqNo(rx.n))
    /\ StoreInRange

Core == SlotsMatch /\ \A a \in Threads : Local(a)

IInv == TypeOK /\ Core /\ Opens /\ TimerOK /\ RxOK /\ HeldIsTimed
----------------------------------------------------------------------------
(* Arithmetic of the window *)

LEMMA SeqNoType == ASSUME NEW n \in Nat PROVE SeqNo(n) \in 0 .. M - 1
BY WindowAssumption DEF SeqNo, M

LEMMA MaskType == ASSUME NEW x \in 0 .. 2 * M - 1 PROVE Mask(x) \in 0 .. M - 1
BY WindowAssumption DEF Mask, M

\* Places of the window have sequence numbers of their own.
LEMMA PlacesDiffer ==
    ASSUME NEW s \in 0 .. M, NEW i \in Slots, NEW j \in Slots,
           Mask(s + i) = Mask(s + j)
    PROVE  i = j
BY WindowAssumption DEF Mask, M, Slots

\* A window that has moved by n has the places it had, n lower.
LEMMA PlacesMove ==
    ASSUME NEW s \in 0 .. M, NEW n \in 0 .. Win, NEW i \in Slots, i + n < Win
    PROVE  /\ Mask(Mask(s + n) + i) = Mask(s + (i + n))
           /\ Mask((s + n) + i) = Mask(s + (i + n))
BY WindowAssumption DEF Mask, M, Slots

LEMMA WindowEndingAtType ==
    ASSUME NEW q \in 0 .. M - 1
    PROVE  /\ WindowEndingAt(q) \in 0 .. M
           /\ q >= WindowEndingAt(q) => q - WindowEndingAt(q) \in Slots
           /\ q < WindowEndingAt(q) => q + M - WindowEndingAt(q) \in Slots
BY WindowAssumption DEF WindowEndingAt, M, Slots

LEMMA TargetType ==
    ASSUME NEW q \in 0 .. M - 1, NEW kind \in Kinds
    PROVE  Target(q, kind) \in 0 .. M - 1
BY WindowAssumption, MaskType DEF Target, M

\* What is neither behind the window nor beyond it has a place in it.
LEMMA InWindow ==
    ASSUME NEW q \in 0 .. M - 1, NEW s \in 0 .. M,
           ~Behind(q, s), ~Beyond(q, s)
    PROVE  /\ q >= s => q - s \in Slots
           /\ q < s => q + M - s \in Slots
BY WindowAssumption DEF Behind, Beyond, EndWin, Mask, M, Slots
----------------------------------------------------------------------------
(* Steps of a thread *)

LEMMA GoesFacts ==
    ASSUME TypeOK, NEW a \in Threads, NEW stage \in Stages, NEW f \in Frames,
           Goes(a, stage, f)
    PROVE  /\ pc'[a] = stage /\ loop'[a] = f
           /\ \A b \in Threads \ {a} : pc'[b] = pc[b] /\ loop'[b] = loop[b]
           /\ pc' \in [Threads -> Stages] /\ loop' \in [Threads -> Frames]
BY DEF TypeOK, Goes

LEMMA NoLoopType == NoLoop \in Frames
BY WindowAssumption DEF NoLoop, Frames

\* Thread b is where it was.
Stays(b) == pc'[b] = pc[b] /\ loop'[b] = loop[b]

\* A step that writes nothing that the loops rely on.
LEMMA CoreRead ==
    ASSUME TypeOK, Core, Opens, NEW a \in Threads,
           \A b \in Threads \ {a} : Stays(b),
           UNCHANGED <<slot, start_win, cut, stale>>, open' => open,
           Local(a)', Shifting(a) => Shifting(a)'
    PROVE  Core'
<1>1. ASSUME NEW b \in Threads \ {a} PROVE Local(b)'
  <2>0. Stays(b) /\ Local(b)
    BY DEF Core
  <2>1. FrameOK(b)' /\ (Shifting(b)' <=> Shifting(b))
    BY <2>0 DEF Local, FrameOK, Stays, Shifting
  <2>2. ~cut' => Struct(b)' /\ Empties(b)'
    BY <2>0 DEF Local, Struct, Read, Empties, Vacant, Stays
  <2>3. ~cut' /\ ~stale' => Exact(b)' /\ (Vacant' \/ Aims(b)')
    BY <2>0 DEF Local, Exact, Vacant, Aims, Stays
  <2>4. Alone(b)' => Alone(b)
    <3>1. \A c \in Threads : Shifting(c) => Shifting(c)'
      BY DEF Stays, Shifting
    <3> QED
      BY <3>1 DEF Alone
  <2>5. Placed(b) => Placed(b)'
    BY <2>0 DEF Placed, Down, Stays
  <2> QED
    BY <2>0, <2>1, <2>2, <2>3, <2>4, <2>5 DEF Local
<1>2. SlotsMatch'
  <2>1. \A c \in Threads : Shifting(c) => Shifting(c)'
    BY DEF Stays, Shifting
  <2> QED
    BY <2>1 DEF Core, SlotsMatch
<1> QED
  BY <1>1, <1>2 DEF Core

\* A thread that writes the table is the only one who relies on it, or it cuts
\* into another.
LEMMA TouchesAlone ==
    ASSUME TypeOK, Core, NEW a \in Threads, Runs(a), Touches(a), ~cut',
           NEW b \in Threads \ {a}
    PROVE  /\ pc[b] \notin Looping \cup {"store", "done", "stop", "free", "unlink"}
           /\ ~cut
<1>1. CASE b = "rx"
  BY <1>1 DEF Runs, Touches, Looping
<1>2. CASE b \in Others
  <2>1. ~Inside(b) /\ ~cut
    BY <1>2 DEF Touches
  <2> QED
    BY <2>1 DEF Inside, Looping
<1> QED
  BY <1>1, <1>2 DEF Threads, Others

LEMMA CoreTouch ==
    ASSUME TypeOK, Core, NEW a \in Threads, Runs(a), Touches(a),
           \A b \in Threads \ {a} : Stays(b),
           Local(a)', ~cut' /\ ~stale' /\ open' /\ ~Shifting(a)' => Matched'
    PROVE  Core'
<1>1. ASSUME NEW b \in Threads \ {a} PROVE Local(b)'
  <2>0. Stays(b) /\ Local(b)
    BY DEF Core
  <2>1. FrameOK(b)'
    BY <2>0 DEF Local, FrameOK, Stays, Shifting
  <2>2. ~cut' => Struct(b)' /\ Empties(b)' /\ Exact(b)' /\ Aims(b)' /\ ~Shifting(b)'
    BY <2>0, TouchesAlone
       DEF Struct, Empties, Exact, Aims, Shifting, Looping, Stays
  <2> QED
    BY <2>1, <2>2 DEF Local
<1>2. SlotsMatch'
  BY DEF SlotsMatch, Matched
<1> QED
  BY <1>1, <1>2 DEF Core

\* What the loops leave alone.
LEMMA LoopRest ==
    ASSUME IInv, NEW a \in Threads, Runs(a), pc[a] \in Looping,
           NEW stage \in Looping, NEW f \in Frames, Goes(a, stage, f),
           NoneElse, Core',
           start_win' \in 0 .. M, slot' \in [Slots -> Packets \cup {None}],
           up' \subseteq Packets, cut' \in BOOLEAN,
           ~cut' => ~cut /\ (a # "rx" => Held' \subseteq Held)
    PROVE  IInv'
<1>0. TypeOK /\ stage \in Stages
  BY DEF IInv, Stages
<1>1. /\ pc'[a] = stage
      /\ \A b \in Threads \ {a} : pc'[b] = pc[b]
      /\ pc' \in [Threads -> Stages] /\ loop' \in [Threads -> Frames]
  BY <1>0, GoesFacts
<1>2. TypeOK'
  BY <1>0, <1>1 DEF TypeOK, NoneElse, table, peer
<1>3. open /\ open' = open /\ broken' = broken /\ ~broken
  BY DEF IInv, Opens, Runs, NoneElse, table, Threads, Inside, Looping
<1>4. pc'["manager"] # "create" /\ "rx" \in Threads /\ "manager" \in Threads
  BY <1>0, <1>1, <1>3 DEF IInv, Opens, Threads, Looping
<1>5. Opens'
  BY <1>3, <1>4 DEF Opens
<1>6. TimerOK'
  <2>1. pc'["driver"] \in {"free", "unlink"} <=> pc["driver"] \in {"free", "unlink"}
    BY <1>1 DEF Looping, Threads
  <2> QED
    BY <2>1, <1>3 DEF IInv, TimerOK, NoneElse, table
<1>7. RxOK'
  <2>1. pc'["rx"] \in Looping <=> pc["rx"] \in Looping
    BY <1>1 DEF Threads
  <2>2. pc'["rx"] = "store" <=> pc["rx"] = "store"
    BY <1>1 DEF Looping, Threads
  <2> QED
    BY <2>1, <2>2 DEF IInv, RxOK, StoreInRange, Index, NoneElse
<1>8. HeldIsTimed'
  <2>1. pc'["rx"] = "idle" => pc["rx"] = "idle" /\ a # "rx"
    BY <1>1 DEF Looping, Threads
  <2> QED
    BY <2>1, <1>3 DEF IInv, HeldIsTimed, NoneElse, table
<1> QED
  BY <1>2, <1>5, <1>6, <1>7, <1>8 DEF IInv

\* A step of a loop that only reads.
LEMMA ReadKeeps ==
    ASSUME IInv, NEW a \in Threads, Runs(a), pc[a] \in Looping,
           NEW stage \in Looping, NEW f \in Frames, Goes(a, stage, f),
           OnlyReads, Local(a)', Shifting(a) => Shifting(a)'
    PROVE  IInv'
<1>0. TypeOK /\ stage \in Stages
  BY DEF IInv, Stages
<1>1. \A b \in Threads \ {a} : Stays(b)
  BY <1>0, GoesFacts DEF Stays
<1>2. Core'
  BY <1>1, CoreRead DEF IInv, OnlyReads, NoneElse, table
<1>3. /\ start_win' \in 0 .. M /\ slot' \in [Slots -> Packets \cup {None}]
      /\ up' \subseteq Packets /\ cut' \in BOOLEAN
      /\ ~cut' => ~cut /\ (a # "rx" => Held' \subseteq Held)
  BY <1>0 DEF TypeOK, OnlyReads, Held
<1> QED
  BY <1>2, <1>3, LoopRest DEF OnlyReads

\* A step of a loop that writes.
LEMMA TouchKeeps ==
    ASSUME IInv, NEW a \in Threads, Runs(a), pc[a] \in Looping,
           NEW stage \in Looping, NEW f \in Frames, Goes(a, stage, f),
           Touches(a), NoneElse, Local(a)',
           ~cut' /\ ~stale' /\ ~Shifting(a)' => Matched',
           start_win' \in 0 .. M, slot' \in [Slots -> Packets \cup {None}],
           up' \subseteq Packets, ~cut' /\ a # "rx" => Held' \subseteq Held
    PROVE  IInv'
<1>0. TypeOK /\ stage \in Stages
  BY DEF IInv, Stages
<1>1. \A b \in Threads \ {a} : Stays(b)
  BY <1>0, GoesFacts DEF Stays
<1>2. Core'
  BY <1>1, CoreTouch DEF IInv
<1>3. cut' \in BOOLEAN /\ (~cut' => ~cut)
  BY <1>0 DEF TypeOK, Touches
<1> QED
  BY <1>2, <1>3, LoopRest
----------------------------------------------------------------------------
(* The steps of the loops *)

LEMMA FrameType ==
    ASSUME TypeOK, NEW a \in Threads
    PROVE  /\ loop[a] \in Frames
           /\ loop[a].count \in 0 .. Win \cup {None}
           /\ loop[a].i \in 0 .. Win
           /\ loop[a].tmp \in Packets \cup {None}
           /\ loop[a].target \in 0 .. M \cup {None}
BY DEF TypeOK, Frames

LEMMA NoneOutside == /\ None \notin 0 .. Win /\ None \notin 0 .. M
                     /\ None \notin Packets
BY PacketsAssumption, WindowAssumption DEF Packets, M

LEMMA CountToFacts ==
    ASSUME NEW s \in 0 .. M, start_win \in 0 .. M
    PROVE  /\ CountTo(s) \in 1 .. Win
           /\ CountTo(s) < Win => s = start_win + CountTo(s)
           /\ s = Mask(start_win + Win) => CountTo(s) = Win
BY WindowAssumption DEF CountTo, Mask, M

LEMMA CountSlotsKeeps == ASSUME IInv, NEW a \in Threads, CountSlots(a) PROVE IInv'
<1> DEFINE f == loop[a]
           n == CountTo(f.target)
           g == [f EXCEPT !.count = n]
<1>0. TypeOK /\ Local(a) /\ Runs(a) /\ pc[a] = "count" /\ f.i = 0
  BY DEF IInv, Core, CountSlots, At, Local, FrameOK
<1>1. f \in Frames /\ f.target \in 0 .. M /\ start_win \in 0 .. M
  BY <1>0, FrameType DEF Local, FrameOK, TypeOK
<1>2. /\ n \in 1 .. Win
      /\ n < Win => f.target = start_win + n
      /\ f.target = Mask(start_win + Win) => n = Win
  BY <1>1, CountToFacts
<1>3. /\ g \in Frames /\ g.count = n /\ g.i = 0 /\ g.target = f.target
  BY <1>0, <1>1, <1>2, WindowAssumption DEF Frames
<1>4. pc'[a] = "take" /\ loop'[a] = g
  BY <1>0, <1>3, GoesFacts DEF CountSlots, Stages, Looping
<1>5. OnlyReads /\ slot' = slot /\ start_win' = start_win /\ ~Shifting(a)
      /\ cut' = cut /\ stale' = stale
  BY <1>0 DEF CountSlots, OnlyReads, NoneElse, Shifting
<1>6. Local(a)'
  <2>1. FrameOK(a)'
    BY <1>0, <1>1, <1>2, <1>3, <1>4, NoneOutside, WindowAssumption
       DEF Local, FrameOK, StagesOf, Looping, Shifting, Threads
  <2>2. Struct(a)' /\ Exact(a)' /\ Aims(a)' /\ ~Shifting(a)'
    BY <1>2, <1>3, <1>4, <1>5 DEF Struct, Exact, Aims, Shifting, Slots
  <2>3. ~cut' => Empties(a)'
    BY <1>0, <1>2, <1>3, <1>4, <1>5 DEF Local, Empties, Vacant, Looping
  <2> QED
    BY <2>1, <2>2, <2>3 DEF Local
<1> QED
  BY <1>0, <1>3, <1>5, <1>6, ReadKeeps DEF CountSlots, Looping

\* What a thread must know of the table when its loop goes on, in a frame g.
Knows(a, g) ==
    /\ g \in Frames /\ slot' \in [Slots -> Packets \cup {None}]
    /\ a # "rx" => g.target # None
    /\ ~cut' /\ a = "driver" => Vacant' \/ g.count = Win
    /\ ~cut' /\ ~stale' =>
          Vacant' \/ (g.target # None /\ g.count < Win =>
                          g.target = start_win' + g.count)

\* The others may be moved down now, from the frame's place.
LEMMA MovedLocal ==
    ASSUME TypeOK, NEW a \in Threads, NEW g, Knows(a, g), Moved(a, g),
           g.count # None, g.count + g.i <= Win,
           g.count = 0 => g.i = 0,
           ~cut' => \A j \in Slots :
                      g.count > 0 /\ g.i <= j /\ j < g.count + g.i => slot'[j] = None,
           ~cut' /\ ~stale' /\ Alone(a)' =>
              \A j \in Slots : slot'[j] # None =>
                 SeqNo(slot'[j]) = Mask(start_win' + (IF j < g.i THEN j + g.count
                                                                 ELSE j))
    PROVE  /\ Local(a)' /\ Shifting(a)'
           /\ \E stage \in Looping : Goes(a, stage, g)
<1> DEFINE stage == IF g.count > 0 /\ g.count + g.i < Win THEN "load"
                    ELSE IF g.target = None THEN "sum" ELSE "set"
<1>1. stage \in Stages /\ stage \in Looping /\ g \in Frames
  BY DEF Stages, Looping, Knows
<1>2. pc'[a] = stage /\ loop'[a] = g /\ Goes(a, stage, g)
  BY <1>1, GoesFacts DEF Moved
<1>3. g.count \in 0 .. Win /\ g.i \in 0 .. Win /\ g.target \in 0 .. M \cup {None}
  BY <1>1 DEF Frames
<1>4. Shifting(a)'
  BY <1>2 DEF Shifting
<1>5. FrameOK(a)'
  BY <1>2, <1>3, WindowAssumption
     DEF FrameOK, StagesOf, Looping, Shifting, Threads, Knows
<1>6. ~cut' => Struct(a)'
  <2>1. g.count > 0 /\ ~(g.count + g.i < Win) =>
           \A j \in Slots : g.i <= j => j < g.count + g.i
    BY <1>3, WindowAssumption DEF Slots
  <2> QED
    BY <1>2, <1>3, <2>1 DEF Struct
<1>7. ~cut' => Empties(a)'
  BY <1>2 DEF Empties, Knows
<1>8. ~cut' /\ ~stale' => Exact(a)' /\ (Vacant' \/ Aims(a)')
  BY <1>2 DEF Exact, Aims, Knows
<1>9. ~cut' /\ ~stale' /\ Alone(a)' => Placed(a)'
  BY <1>2 DEF Placed, Down
<1> QED
  BY <1>1, <1>2, <1>4, <1>5, <1>6, <1>7, <1>8, <1>9 DEF Local

\* One more slot is taken.
LEMMA TakenLocal ==
    ASSUME TypeOK, NEW a \in Threads, FrameOK(a), pc[a] \in {"take", "clear"},
           NEW k, k = loop[a].i + 1, Taken(a, k), Knows(a, loop[a]),
           ~cut' => \A j \in Slots : j < k => slot'[j] = None,
           ~cut' /\ ~stale' /\ Alone(a)' => Matched'
    PROVE  /\ Local(a)'
           /\ \E stage \in Looping, g \in Frames : Goes(a, stage, g)
           /\ ~cut' /\ ~stale' /\ Alone(a)' => Matched'
<1> DEFINE f == loop[a]
           n == IF f.count = None THEN k ELSE f.count
           g == [f EXCEPT !.tmp = None, !.i = k]
           h == [f EXCEPT !.tmp = None, !.i = 0, !.count = n]
<1>0. /\ f \in Frames /\ f.i \in 0 .. Win - 1 /\ f.count \in 0 .. Win \cup {None}
      /\ f.target \in 0 .. M \cup {None} /\ k \in 1 .. Win
      /\ f.count = None <=> f.target = None
      /\ f.count # None => f.i < f.count
  BY FrameType, WindowAssumption DEF FrameOK
<1>1. CASE (f.count = None /\ k < Win) \/ k < n
  <2>1. /\ g \in Frames /\ g.i = k /\ g.count = f.count /\ g.target = f.target
        /\ g.tmp = None
    <3>1. k \in 0 .. Win
      BY <1>0, WindowAssumption
    <3> QED
      BY <1>0, <3>1 DEF Frames
  <2>2. Goes(a, "take", g)
    BY <1>1 DEF Taken
  <2>3. pc'[a] = "take" /\ loop'[a] = g
    BY <2>1, <2>2, GoesFacts DEF Stages, Looping
  <2>4. k < Win /\ (f.count # None => k < f.count)
    BY <1>0, <1>1, NoneOutside, WindowAssumption
  <2>5. FrameOK(a)' /\ ~Shifting(a)'
    BY <1>0, <2>1, <2>3, <2>4, WindowAssumption
       DEF FrameOK, StagesOf, Looping, Shifting, Threads, Knows
  <2>6. ~cut' => Struct(a)' /\ Empties(a)'
    BY <2>1, <2>3 DEF Struct, Empties, Knows
  <2>7. ~cut' /\ ~stale' => Exact(a)' /\ (Vacant' \/ Aims(a)')
    BY <2>1, <2>3 DEF Exact, Aims, Knows
  <2> QED
    BY <2>1, <2>2, <2>5, <2>6, <2>7 DEF Local, Looping
<1>2. CASE ~((f.count = None /\ k < Win) \/ k < n)
  <2>1. /\ n \in 1 .. Win /\ k = n
    BY <1>0, <1>2, NoneOutside, WindowAssumption
  <2>2. /\ h \in Frames /\ h.i = 0 /\ h.count = n /\ h.target = f.target
    <3>1. n \in 0 .. Win /\ 0 \in 0 .. Win
      BY <2>1, WindowAssumption
    <3> QED
      BY <1>0, <3>1 DEF Frames
  <2>3. Moved(a, h)
    BY <1>2 DEF Taken
  <2>4. Knows(a, h)
    BY <1>0, <2>1, <2>2 DEF Knows
  <2>5. /\ h.count # None /\ h.count + h.i <= Win /\ (h.count = 0 => h.i = 0)
    BY <2>1, <2>2, NoneOutside, WindowAssumption
  <2>6. ~cut' => \A j \in Slots :
            h.count > 0 /\ h.i <= j /\ j < h.count + h.i => slot'[j] = None
    BY <2>1, <2>2 DEF Slots
  <2>7. ~cut' /\ ~stale' /\ Alone(a)' =>
            \A j \in Slots : slot'[j] # None =>
               SeqNo(slot'[j]) = Mask(start_win' + (IF j < h.i THEN j + h.count
                                                               ELSE j))
    BY <2>2 DEF Matched, Slots
  <2> HIDE DEF h
  <2>8. Local(a)' /\ \E stage \in Looping : Goes(a, stage, h)
    BY <2>3, <2>4, <2>5, <2>6, <2>7, MovedLocal
  <2> QED
    BY <2>2, <2>8
<1> QED
  BY <1>1, <1>2

\* What holds in a loop before its next step.
LEMMA LoopKnows ==
    ASSUME IInv, NEW a \in Threads, Runs(a), pc[a] \in Looping \ {"count", "advance"},
           Vacant => Vacant', slot' \in [Slots -> Packets \cup {None}],
           start_win' = start_win, ~cut' => ~cut, stale' = stale
    PROVE  Knows(a, loop[a])
<1>1. Local(a) /\ TypeOK /\ loop[a] \in Frames
  BY FrameType DEF IInv, Core
<1> QED
  BY <1>1 DEF Local, FrameOK, Empties, Aims, Knows

LEMMA LoopOpen ==
    ASSUME IInv, NEW a \in Threads, Runs(a), pc[a] \in Looping
    PROVE  open
BY DEF IInv, Opens, Runs, Threads, Inside, Looping

\* Nobody moves the table down while this thread takes from it.
LEMMA Settled ==
    ASSUME IInv, NEW a \in Threads, Runs(a), pc[a] \in {"take", "clear"},
           Alone(a), ~cut, ~stale
    PROVE  Matched
<1>1. open
  BY LoopOpen DEF Looping
<1>2. \A b \in Threads : ~Shifting(b)
  BY DEF Alone, Shifting
<1> QED
  BY <1>1, <1>2 DEF IInv, Core, SlotsMatch, Matched

\* Where the others stay, one is alone as before.
LEMMA StaysAlone ==
    ASSUME NEW a \in Threads, \A b \in Threads \ {a} : Stays(b)
    PROVE  Alone(a)' <=> Alone(a)
BY DEF Stays, Alone, Shifting

LEMMA GoesStays ==
    ASSUME TypeOK, NEW a \in Threads, NEW stage, NEW f, Goes(a, stage, f)
    PROVE  \A b \in Threads \ {a} : Stays(b)
BY DEF TypeOK, Goes, Stays

LEMMA SkipSlotKeeps == ASSUME IInv, NEW a \in Threads, SkipSlot(a) PROVE IInv'
<1> DEFINE f == loop[a]
           h == [f EXCEPT !.i = 0, !.count = f.i]
<1>0. /\ TypeOK /\ Local(a) /\ Runs(a) /\ pc[a] = "take" /\ slot[f.i] = None
      /\ pc[a] \in Looping /\ pc[a] \in {"take", "clear"} /\ ~Shifting(a)
  BY DEF IInv, Core, SkipSlot, At, Looping, Shifting
<1>1. /\ OnlyReads /\ slot' = slot /\ start_win' = start_win /\ cut' = cut
      /\ stale' = stale
  BY DEF SkipSlot, OnlyReads, NoneElse
<1>2. /\ f \in Frames /\ f.i \in 0 .. Win - 1 /\ f.count \in 0 .. Win \cup {None}
      /\ f.count = None <=> f.target = None
  BY <1>0, FrameType, WindowAssumption DEF Local, FrameOK
<1>3. Vacant => Vacant'
  BY <1>1 DEF Vacant
<1>4. Knows(a, f)
  BY <1>0, <1>1, <1>3, LoopKnows DEF TypeOK, Looping
<1>5. \A b \in Threads \ {a} : Stays(b)
  BY <1>0, GoesStays DEF SkipSlot, Moved, Taken
<1>6. ~cut' /\ ~stale' /\ Alone(a)' => Matched'
  BY <1>0, <1>1, <1>5, Settled, StaysAlone DEF Matched
<1>7. CASE f.count = None
  <2>0. f.i \in 0 .. Win /\ 0 \in 0 .. Win
    BY <1>2, WindowAssumption
  <2>1. h \in Frames /\ h.i = 0 /\ h.count = f.i /\ h.target = f.target
    BY <1>2, <2>0 DEF Frames
  <2>2. Moved(a, h)
    BY <1>7 DEF SkipSlot
  <2>3. a = "rx" /\ f.target = None
    BY <1>0, <1>2, <1>7 DEF Local, FrameOK
  <2>4. Knows(a, h)
    BY <1>4, <2>1, <2>3 DEF Knows
  <2>5. h.count # None /\ h.count + h.i <= Win /\ (h.count = 0 => h.i = 0)
    BY <1>2, <2>0, <2>1, NoneOutside, WindowAssumption
  <2>6. ~cut' => \A j \in Slots :
            h.count > 0 /\ h.i <= j /\ j < h.count + h.i => slot'[j] = None
    BY <1>0, <1>1, <1>2, <2>1 DEF Local, Struct, Slots
  <2>7. ~cut' /\ ~stale' /\ Alone(a)' =>
            \A j \in Slots : slot'[j] # None =>
               SeqNo(slot'[j]) = Mask(start_win' + (IF j < h.i THEN j + h.count
                                                               ELSE j))
    BY <1>6, <2>1 DEF Matched, Slots
  <2> HIDE DEF h
  <2>8. Local(a)' /\ \E stage \in Looping : Goes(a, stage, h)
    BY <1>0, <2>2, <2>4, <2>5, <2>6, <2>7, MovedLocal
  <2> QED
    BY <1>0, <1>1, <2>1, <2>8, ReadKeeps
<1>8. CASE f.count # None
  <2>1. Taken(a, f.i + 1) /\ FrameOK(a)
    BY <1>0, <1>8 DEF SkipSlot, Local
  <2>2. ~cut' => \A j \in Slots : j < f.i + 1 => slot'[j] = None
    BY <1>0, <1>1, <1>2 DEF Local, Struct, Slots
  <2>3. Local(a)' /\ \E stage \in Looping, g \in Frames : Goes(a, stage, g)
    BY <1>0, <1>4, <1>6, <2>1, <2>2, TakenLocal
  <2> QED
    BY <1>0, <1>1, <2>3, ReadKeeps
<1> QED
  BY <1>7, <1>8

LEMMA TakeSlotKeeps == ASSUME IInv, NEW a \in Threads, TakeSlot(a) PROVE IInv'
<1> DEFINE f == loop[a]
           g == [f EXCEPT !.tmp = slot[f.i]]
<1>0. /\ TypeOK /\ Local(a) /\ Runs(a) /\ pc[a] = "take" /\ slot[f.i] # None
      /\ pc[a] \in Looping /\ ~Shifting(a)
  BY DEF IInv, Core, TakeSlot, At, Looping, Shifting
<1>1. /\ OnlyReads /\ slot' = slot /\ start_win' = start_win /\ cut' = cut
      /\ stale' = stale
  BY DEF TakeSlot, OnlyReads, NoneElse
<1>2. f \in Frames /\ f.i \in Slots
  BY <1>0, FrameType, WindowAssumption DEF Local, FrameOK, Slots
<1>3. /\ g \in Frames /\ g.i = f.i /\ g.count = f.count /\ g.target = f.target
      /\ g.tmp = slot[f.i]
  BY <1>0, <1>2 DEF Frames, TypeOK
<1>4. pc'[a] = "clear" /\ loop'[a] = g
  BY <1>0, <1>3, GoesFacts DEF TakeSlot, Stages, Looping
<1>5. Local(a)'
  <2>1. FrameOK(a)'
    BY <1>0, <1>3, <1>4 DEF Local, FrameOK, StagesOf, Looping, Shifting, Threads
  <2>2. ~cut' => Struct(a)'
    BY <1>0, <1>1, <1>3, <1>4 DEF Local, Struct, Read
  <2>3. ~cut' => Empties(a)'
    BY <1>0, <1>1, <1>3, <1>4 DEF Local, Empties, Vacant, Looping
  <2>4. ~cut' /\ ~stale' => Exact(a)' /\ (Vacant' \/ Aims(a)')
    BY <1>0, <1>1, <1>3, <1>4 DEF Local, Exact, Aims, Vacant, Looping
  <2>5. ~Shifting(a)'
    BY <1>4 DEF Shifting
  <2> QED
    BY <2>1, <2>2, <2>3, <2>4, <2>5 DEF Local
<1> QED
  BY <1>0, <1>1, <1>3, <1>5, ReadKeeps DEF TakeSlot, Looping

\* No slot but the first f.i + 1 changes, and that one empties.
LEMMA ClearSlotKeeps == ASSUME IInv, NEW a \in Threads, ClearSlot(a) PROVE IInv'
<1> DEFINE f == loop[a]
<1>0. /\ TypeOK /\ Local(a) /\ FrameOK(a) /\ Runs(a) /\ pc[a] = "clear"
      /\ pc[a] \in Looping /\ pc[a] \in {"take", "clear"}
  BY DEF IInv, Core, Local, ClearSlot, At, Looping
<1>1. /\ slot' = [slot EXCEPT ![f.i] = None] /\ up' = {f.tmp}
      /\ start_win' = start_win /\ stale' = stale /\ Touches(a) /\ NoneElse
      /\ Taken(a, f.i + 1)
  BY DEF ClearSlot, NoneElse
<1>2. f.i \in Slots /\ f.tmp \in Packets \cup {None}
  BY <1>0, FrameType, WindowAssumption DEF FrameOK, Slots
<1>3. /\ slot' \in [Slots -> Packets \cup {None}] /\ slot'[f.i] = None
      /\ \A j \in Slots \ {f.i} : slot'[j] = slot[j]
      /\ Held' \subseteq Held
  BY <1>0, <1>1, <1>2 DEF TypeOK, Held
<1>4. ~cut' => ~cut
  BY <1>1 DEF Touches
<1>5. Knows(a, f)
  BY <1>0, <1>1, <1>3, <1>4, LoopKnows DEF Vacant, Looping
<1>6. \A b \in Threads \ {a} : Stays(b)
  BY <1>0, <1>1, GoesStays DEF Moved, Taken
<1>7. ~cut' /\ ~stale' /\ Alone(a)' => Matched'
  BY <1>0, <1>1, <1>3, <1>4, <1>6, Settled, StaysAlone DEF Matched
<1>8. ~cut' => \A j \in Slots : j < f.i + 1 => slot'[j] = None
  BY <1>0, <1>2, <1>3, <1>4 DEF Local, Struct, Slots
<1>9. Local(a)' /\ \E stage \in Looping, g \in Frames : Goes(a, stage, g)
  BY <1>0, <1>1, <1>5, <1>7, <1>8, TakenLocal
<1>10. ~cut' => Alone(a)'
  <2>1. ~cut' => Alone(a)
    BY <1>0, <1>1, TouchesAlone DEF IInv, Alone, Shifting, Looping
  <2> QED
    BY <1>6, <2>1, StaysAlone
<1> QED
  <2>1. ~cut' /\ ~stale' /\ ~Shifting(a)' => Matched'
    BY <1>7, <1>10
  <2>2. start_win' \in 0 .. M /\ up' \subseteq Packets
    BY <1>0, <1>1, <1>2 DEF TypeOK, FrameOK
  <2> QED
    BY <1>0, <1>1, <1>3, <1>4, <1>9, <2>1, <2>2, TouchKeeps

LEMMA LoadSlotKeeps == ASSUME IInv, NEW a \in Threads, LoadSlot(a) PROVE IInv'
<1> DEFINE f == loop[a]
           g == [f EXCEPT !.tmp = slot[f.count + f.i]]
<1>0. /\ TypeOK /\ Local(a) /\ Runs(a) /\ pc[a] = "load" /\ pc[a] \in Looping
  BY DEF IInv, Core, LoadSlot, At, Looping
<1>1. /\ OnlyReads /\ slot' = slot /\ start_win' = start_win /\ cut' = cut
      /\ stale' = stale
  BY DEF LoadSlot, OnlyReads, NoneElse
<1>2. f \in Frames /\ f.count + f.i \in Slots
  BY <1>0, FrameType, WindowAssumption DEF Local, FrameOK, Slots, Shifting
<1>3. /\ g \in Frames /\ g.i = f.i /\ g.count = f.count /\ g.target = f.target
      /\ g.tmp = slot[f.count + f.i]
  BY <1>0, <1>2 DEF Frames, TypeOK
<1>4. pc'[a] = "put" /\ loop'[a] = g /\ \A b \in Threads \ {a} : Stays(b)
  BY <1>0, <1>3, GoesFacts DEF LoadSlot, Stages, Looping, Stays
<1>5. Local(a)'
  <2>1. FrameOK(a)'
    BY <1>0, <1>3, <1>4 DEF Local, FrameOK, StagesOf, Looping, Shifting, Threads
  <2>2. ~cut' => Struct(a)' /\ Empties(a)'
    BY <1>0, <1>1, <1>3, <1>4 DEF Local, Struct, Read, Empties, Vacant, Looping
  <2>3. ~cut' /\ ~stale' => Exact(a)' /\ (Vacant' \/ Aims(a)')
    BY <1>0, <1>1, <1>3, <1>4 DEF Local, Exact, Aims, Vacant, Looping
  <2>4. ~cut' /\ ~stale' /\ Alone(a)' => Placed(a)'
    <3>1. Alone(a)' => Alone(a) /\ Shifting(a)
      BY <1>0, <1>4, StaysAlone DEF Shifting
    <3> QED
      BY <1>0, <1>1, <1>3, <1>4, <3>1 DEF Local, Placed, Down
  <2> QED
    BY <2>1, <2>2, <2>3, <2>4 DEF Local
<1>6. Shifting(a)'
  BY <1>4 DEF Shifting
<1> QED
  BY <1>0, <1>1, <1>3, <1>5, <1>6, ReadKeeps DEF LoadSlot, Looping

\* The writer of the table has the window to itself.
LEMMA WriterPlaced ==
    ASSUME IInv, NEW a \in Threads, Runs(a), Touches(a), Shifting(a),
           ~cut', ~stale
    PROVE  Exact(a) /\ (Vacant \/ Aims(a)) /\ Placed(a)
<1>1. Alone(a) /\ ~cut
  BY TouchesAlone DEF IInv, Alone, Shifting, Looping, Touches
<1> QED
  BY <1>1 DEF IInv, Core, Local

LEMMA PutSlotKeeps == ASSUME IInv, NEW a \in Threads, PutSlot(a) PROVE IInv'
<1> DEFINE f == loop[a]
<1>0. /\ TypeOK /\ Local(a) /\ Runs(a) /\ pc[a] = "put" /\ pc[a] \in Looping
      /\ Shifting(a)
  BY DEF IInv, Core, PutSlot, At, Looping, Shifting
<1>1. /\ slot' = [slot EXCEPT ![f.i] = f.tmp] /\ up' = {}
      /\ start_win' = start_win /\ stale' = stale /\ Touches(a) /\ NoneElse
  BY DEF PutSlot, NoneElse
<1>2. /\ f \in Frames /\ f.count + f.i \in Slots /\ f.i \in Slots /\ f.count > 0
      /\ f.count \in 0 .. Win /\ f.tmp \in Packets \cup {None}
      /\ f.count + f.i # f.i
  BY <1>0, FrameType, WindowAssumption DEF Local, FrameOK, Slots, Shifting
<1>3. /\ slot' \in [Slots -> Packets \cup {None}] /\ slot'[f.i] = f.tmp
      /\ \A j \in Slots \ {f.i} : slot'[j] = slot[j]
      /\ slot'[f.count + f.i] = slot[f.count + f.i]
  BY <1>0, <1>1, <1>2 DEF TypeOK
<1>4. pc'[a] = "drop" /\ loop'[a] = f /\ (~cut' => ~cut)
  BY <1>0, <1>1, <1>2, GoesFacts DEF PutSlot, Stages, Looping, Touches
<1>5. Local(a)'
  <2>1. FrameOK(a)'
    BY <1>0, <1>4 DEF Local, FrameOK, StagesOf, Looping, Shifting, Threads
  <2>2. ~cut' => Struct(a)'
    <3>1. \A j \in Slots : f.i < j => j # f.i /\ f.i <= j
      BY <1>2 DEF Slots
    <3> QED
      BY <1>0, <1>2, <1>3, <1>4, <3>1 DEF Local, Struct, Read
  <2>3. ~cut' => Empties(a)'
    <3>1. f.count # Win
      BY <1>2, WindowAssumption DEF Slots
    <3>2. a = "driver" /\ ~cut' => Vacant /\ slot[f.count + f.i] = f.tmp
      BY <1>0, <1>4, <3>1 DEF Local, Empties, Struct, Read, Looping
    <3>3. a = "driver" /\ ~cut' => Vacant'
      BY <1>2, <1>3, <3>2 DEF Vacant
    <3> QED
      BY <1>4, <3>3 DEF Empties
  <2>4. ASSUME ~cut', ~stale' PROVE Exact(a)' /\ (Vacant' \/ Aims(a)') /\ Placed(a)'
    <3>1. Exact(a) /\ (Vacant \/ Aims(a)) /\ Placed(a)
      BY <1>0, <1>1, <2>4, WriterPlaced
    <3>2. slot[f.count + f.i] = f.tmp
      BY <1>0, <3>1 DEF Exact
    <3>3. Vacant => Vacant'
      BY <1>2, <1>3, <3>2 DEF Vacant
    <3>4. Aims(a) => Aims(a)'
      BY <1>0, <1>1, <1>4 DEF Aims, Looping
    <3>5. Exact(a)'
      BY <1>3, <1>4, <3>2 DEF Exact
    <3>6. Placed(a)'
      <4> SUFFICES ASSUME NEW j \in Slots, slot'[j] # None
                   PROVE  SeqNo(slot'[j]) =
                            Mask(start_win + (IF j < f.i + 1 THEN j + f.count ELSE j))
        BY <1>1, <1>4 DEF Placed, Down
      <4>1. CASE j = f.i
        <5>1. f.i < f.i + 1 /\ ~(f.count + f.i < f.i) /\ f.count + f.i = f.i + f.count
          BY <1>2 DEF Slots
        <5> QED
          BY <1>0, <1>2, <1>3, <3>1, <3>2, <4>1, <5>1 DEF Placed, Down
      <4>2. CASE j # f.i
        <5>1. (j < f.i + 1) <=> (j < f.i)
          BY <1>2, <4>2 DEF Slots
        <5> QED
          BY <1>0, <1>3, <3>1, <4>2, <5>1 DEF Placed, Down
      <4> QED
        BY <4>1, <4>2
    <3> QED
      BY <3>1, <3>3, <3>4, <3>5, <3>6
  <2> QED
    BY <2>1, <2>2, <2>3, <2>4 DEF Local
<1>6. Shifting(a)'
  BY <1>4 DEF Shifting
<1>7. ~cut' /\ a # "rx" => Held' \subseteq Held
  <2>1. ~cut' /\ a # "rx" => slot[f.count + f.i] = f.tmp
    BY <1>0, <1>4 DEF Local, Struct, Read
  <2> QED
    BY <1>2, <1>3, <2>1 DEF Held
<1>8. start_win' \in 0 .. M /\ up' \subseteq Packets
  BY <1>0, <1>1 DEF TypeOK
<1> QED
  BY <1>0, <1>1, <1>2, <1>3, <1>5, <1>6, <1>7, <1>8, TouchKeeps DEF PutSlot, Looping

LEMMA DropSlotKeeps == ASSUME IInv, NEW a \in Threads, DropSlot(a) PROVE IInv'
<1> DEFINE f == loop[a]
           g == [f EXCEPT !.tmp = None, !.i = f.i + 1]
<1>0. /\ TypeOK /\ Local(a) /\ Runs(a) /\ pc[a] = "drop" /\ pc[a] \in Looping
      /\ Shifting(a)
  BY DEF IInv, Core, DropSlot, At, Looping, Shifting
<1>1. /\ slot' = [slot EXCEPT ![f.count + f.i] = None] /\ up' = {}
      /\ start_win' = start_win /\ stale' = stale /\ Touches(a) /\ NoneElse
      /\ Moved(a, g)
  BY DEF DropSlot, NoneElse
<1>2. /\ f \in Frames /\ f.count + f.i \in Slots /\ f.count > 0
      /\ f.count \in 0 .. Win /\ f.i \in 0 .. Win /\ f.i + 1 \in 0 .. Win
      /\ f.count + (f.i + 1) <= Win
  BY <1>0, FrameType, WindowAssumption DEF Local, FrameOK, Slots, Shifting
<1>3. /\ slot' \in [Slots -> Packets \cup {None}] /\ slot'[f.count + f.i] = None
      /\ \A j \in Slots \ {f.count + f.i} : slot'[j] = slot[j]
      /\ Held' \subseteq Held
  BY <1>0, <1>1, <1>2 DEF TypeOK, Held
<1>4. /\ g \in Frames /\ g.i = f.i + 1 /\ g.count = f.count
      /\ g.target = f.target /\ (~cut' => ~cut)
  BY <1>1, <1>2 DEF Frames, Touches
<1>5. Knows(a, g)
  <2>1. Knows(a, f)
    BY <1>0, <1>1, <1>3, <1>4, LoopKnows DEF Vacant, Looping
  <2> QED
    BY <1>4, <2>1 DEF Knows
<1>6. ~cut' => \A j \in Slots :
          g.count > 0 /\ g.i <= j /\ j < g.count + g.i => slot'[j] = None
  <2> SUFFICES ASSUME ~cut', NEW j \in Slots, f.i + 1 <= j, j < f.count + (f.i + 1)
               PROVE  slot'[j] = None
    BY <1>4
  <2>1. j = f.count + f.i \/ (f.i < j /\ j < f.count + f.i)
    BY <1>2 DEF Slots
  <2>2. f.i < j /\ j < f.count + f.i => slot[j] = None
    BY <1>0, <1>4 DEF Local, Struct
  <2> QED
    BY <1>3, <2>1, <2>2
<1>7. ~cut' /\ ~stale' =>
          \A j \in Slots : slot'[j] # None =>
             SeqNo(slot'[j]) = Mask(start_win' + (IF j < g.i THEN j + g.count
                                                             ELSE j))
  <2>1. ~cut' /\ ~stale' => Placed(a)
    BY <1>0, <1>1, WriterPlaced
  <2> QED
    BY <1>0, <1>1, <1>3, <1>4, <2>1 DEF Placed, Down
<1>8. g.count # None /\ g.count + g.i <= Win /\ (g.count = 0 => g.i = 0)
  BY <1>2, <1>4, NoneOutside, WindowAssumption
<1> HIDE DEF g
<1>9. Local(a)' /\ Shifting(a)' /\ \E stage \in Looping : Goes(a, stage, g)
  BY <1>0, <1>1, <1>5, <1>6, <1>7, <1>8, MovedLocal
<1>10. start_win' \in 0 .. M /\ up' \subseteq Packets
  BY <1>0, <1>1 DEF TypeOK
<1> QED
  BY <1>0, <1>1, <1>3, <1>4, <1>9, <1>10, TouchKeeps

LEMMA SumWindowKeeps == ASSUME IInv, SumWindow PROVE IInv'
<1> DEFINE f == loop["rx"]
           t == Mask(start_win + f.count)
           g == [f EXCEPT !.target = t]
<1>0. /\ TypeOK /\ "rx" \in Threads /\ Local("rx") /\ Runs("rx")
      /\ pc["rx"] = "sum" /\ pc["rx"] \in Looping
  BY DEF IInv, Core, SumWindow, At, Looping, Threads
<1>1. /\ OnlyReads /\ slot' = slot /\ start_win' = start_win /\ cut' = cut
      /\ stale' = stale
  BY DEF SumWindow, OnlyReads, NoneElse
<1>2. f \in Frames /\ f.count \in 0 .. Win /\ start_win \in 0 .. M
  BY <1>0, FrameType, NoneOutside DEF Local, FrameOK, Shifting, TypeOK
<1>3. t \in 0 .. M - 1 /\ t \in 0 .. M
  BY <1>2, WindowAssumption DEF Mask, M
<1>4. /\ g \in Frames /\ g.i = f.i /\ g.count = f.count /\ g.target = t
  BY <1>2, <1>3 DEF Frames
<1>5. pc'["rx"] = "advance" /\ loop'["rx"] = g
      /\ \A b \in Threads \ {"rx"} : Stays(b)
  BY <1>0, <1>4, GoesFacts DEF SumWindow, Stages, Looping, Stays
<1>6. Local("rx")'
  <2>1. FrameOK("rx")'
    BY <1>0, <1>3, <1>4, <1>5, NoneOutside
       DEF Local, FrameOK, StagesOf, Looping, Shifting, Threads
  <2>2. ~cut' => Struct("rx")' /\ Empties("rx")'
    BY <1>0, <1>1, <1>4, <1>5 DEF Local, Struct, Empties
  <2>3. Exact("rx")' /\ Aims("rx")'
    BY <1>1, <1>4, <1>5 DEF Exact, Aims
  <2>4. ~cut' /\ ~stale' /\ Alone("rx")' => Placed("rx")'
    <3>1. Alone("rx")' => Alone("rx") /\ Shifting("rx")
      BY <1>0, <1>5, StaysAlone DEF Shifting
    <3> QED
      BY <1>0, <1>1, <1>4, <1>5, <3>1 DEF Local, Placed, Down
  <2> QED
    BY <2>1, <2>2, <2>3, <2>4 DEF Local
<1>7. Shifting("rx")'
  BY <1>5 DEF Shifting
<1> QED
  BY <1>0, <1>1, <1>4, <1>6, <1>7, ReadKeeps DEF SumWindow, Looping

\* The window has been moved by as many slots as the others have come down.
LEMMA MovedMatches ==
    ASSUME IInv, NEW a \in Threads, Runs(a), Touches(a),
           pc[a] \in {"set", "advance"}, slot' = slot,
           start_win' = loop[a].target, ~cut', ~stale
    PROVE  Matched'
<1> DEFINE f == loop[a]
<1>0. /\ TypeOK /\ Local(a) /\ Shifting(a)
  BY DEF IInv, Core, Shifting
<1>1. Exact(a) /\ (Vacant \/ Aims(a)) /\ Placed(a) /\ ~cut
  BY <1>0, WriterPlaced DEF Touches
<1>2. /\ f.count \in 0 .. Win /\ f.i \in 0 .. Win /\ f.count + f.i <= Win
      /\ f.count = 0 \/ f.count + f.i = Win
      /\ f.target # None /\ start_win \in 0 .. M
  BY <1>0, FrameType, NoneOutside DEF Local, FrameOK, TypeOK
<1>3. CASE Vacant
  BY <1>3 DEF Vacant, Matched
<1>4. CASE Aims(a)
  <2> SUFFICES ASSUME NEW j \in Slots, slot[j] # None
               PROVE  SeqNo(slot[j]) = Mask(f.target + j)
    BY DEF Matched
  <2>1. f.count > 0 => j < f.i
    BY <1>0, <1>1, <1>2 DEF Local, Struct, Slots
  <2>2. SeqNo(slot[j]) = Mask(start_win + (j + f.count))
    BY <1>1, <1>2, <2>1 DEF Placed, Down, Slots
  <2>3. j + f.count < Win
    BY <1>2, <2>1, WindowAssumption DEF Slots
  <2>4. f.count < Win
    BY <1>2, <2>3, WindowAssumption DEF Slots
  <2>5. f.target = start_win + f.count \/ f.target = Mask(start_win + f.count)
    BY <1>2, <1>4, <2>4 DEF Aims, Looping
  <2>6. /\ Mask(Mask(start_win + f.count) + j) = Mask(start_win + (j + f.count))
        /\ Mask((start_win + f.count) + j) = Mask(start_win + (j + f.count))
    BY <1>2, <2>3, PlacesMove
  <2> QED
    BY <2>2, <2>5, <2>6
<1> QED
  BY <1>1, <1>3, <1>4

\* A thread leaves its loop with the move of the window.
LEMMA LeaveKeeps ==
    ASSUME IInv, NEW a \in Threads, Runs(a), pc[a] \in {"set", "advance"},
           NEW stage, Goes(a, stage, NoLoop), Touches(a),
           a = "rx" => stage \in {"store", "done"},
           a = "driver" => stage = "stop",
           a = "manager" => stage = "idle",
           start_win' = loop[a].target, UNCHANGED slot, up' = {}, NoneElse
    PROVE  IInv'
<1>0. /\ TypeOK /\ Local(a) /\ pc[a] \in Looping /\ Shifting(a)
  BY DEF IInv, Core, Shifting, Looping
<1>1. stage \in Stages /\ stage \notin Looping
  BY DEF Stages, Looping, Threads
<1>2. /\ pc'[a] = stage /\ loop'[a] = NoLoop
      /\ \A b \in Threads \ {a} : pc'[b] = pc[b] /\ loop'[b] = loop[b]
      /\ pc' \in [Threads -> Stages] /\ loop' \in [Threads -> Frames]
  BY <1>0, <1>1, NoLoopType, GoesFacts
<1>3. start_win' \in 0 .. M /\ loop[a].target # None
  BY <1>0, FrameType DEF Local, FrameOK
<1>4. /\ open /\ open' = open /\ broken' = broken /\ ~broken /\ stale' = stale
      /\ rx' = rx
  BY <1>0, LoopOpen DEF Runs, NoneElse, table
<1>5. TypeOK'
  BY <1>0, <1>2, <1>3 DEF TypeOK, NoneElse, table, peer, Touches
<1>6. Local(a)'
  <2>1. FrameOK(a)' /\ ~Shifting(a)'
    BY <1>1, <1>2 DEF FrameOK, StagesOf, Looping, Shifting, Threads
  <2>2. Struct(a)' /\ Exact(a)' /\ Aims(a)'
    BY <1>1, <1>2 DEF Struct, Exact, Aims, Looping
  <2>3. ~cut' => Empties(a)'
    <3>1. a = "driver" /\ ~cut' => Vacant \/ loop[a].count = Win
      BY <1>0 DEF Local, Empties, Touches, Looping
    <3>2. a = "driver" /\ ~cut' /\ loop[a].count = Win => Vacant
      <4>1. loop[a].count = Win => loop[a].i = 0 /\ Win > 0
        BY <1>0, FrameType, WindowAssumption DEF Local, FrameOK
      <4>2. a = "driver" /\ ~cut' /\ loop[a].count = Win =>
              \A j \in Slots : 0 <= j => slot[j] = None
        BY <1>0, <4>1 DEF Local, Struct, Touches
      <4> QED
        BY <4>2 DEF Vacant, Slots
    <3>3. a = "driver" /\ ~cut' => Vacant'
      BY <3>1, <3>2 DEF Vacant
    <3> QED
      BY <1>1, <1>2, <3>3 DEF Empties, Looping
  <2> QED
    BY <2>1, <2>2, <2>3 DEF Local
<1>7. Core'
  <2>1. ~cut' /\ ~stale' => Matched'
    BY <1>0, <1>4, MovedMatches
  <2> QED
    BY <1>0, <1>2, <1>6, <2>1, CoreTouch DEF IInv, Stays
<1>8. Opens'
  <2>1. pc'["manager"] # "create" /\ "manager" \in Threads
    BY <1>0, <1>2, <1>4 DEF IInv, Opens, Threads
  <2> QED
    BY <1>4, <2>1 DEF Opens
<1>9. TimerOK'
  <2>1. pc'["driver"] \in {"free", "unlink"} => pc["driver"] \in {"free", "unlink"}
    BY <1>1, <1>2 DEF Threads
  <2>2. pc["driver"] \in {"free", "unlink"} => pc'["driver"] \in {"free", "unlink"}
    BY <1>0, <1>2 DEF Threads, Looping
  <2> QED
    BY <1>4, <2>1, <2>2 DEF IInv, TimerOK, NoneElse, table
<1>10. RxOK'
  <2>1. CASE a = "rx"
    <3>1. rx.n # None => Index \in Slots
      <4>1. rx.n # None => rx.start = WindowEndingAt(SeqNo(rx.n))
        BY <1>0, <2>1 DEF IInv, RxOK
      <4>2. rx.n # None => SeqNo(rx.n) \in 0 .. M - 1
        BY <1>0, SeqNoType, PacketsAssumption DEF TypeOK, Packets
      <4> QED
        BY <4>1, <4>2, WindowEndingAtType DEF Index
    <3>2. pc'["rx"] \notin Looping
      BY <1>1, <1>2, <2>1
    <3> QED
      BY <1>4, <3>1, <3>2 DEF RxOK, StoreInRange, Index
  <2>2. CASE a # "rx"
    BY <1>2, <1>4, <2>2 DEF IInv, RxOK, StoreInRange, Index, Threads
  <2> QED
    BY <2>1, <2>2
<1>11. HeldIsTimed'
  <2>1. pc'["rx"] = "idle" => pc["rx"] = "idle"
    BY <1>2 DEF Threads
  <2>2. (~cut' => ~cut) /\ Held' = Held /\ timer' = timer
    BY DEF Touches, Held, NoneElse, table
  <2> QED
    BY <1>4, <2>1, <2>2 DEF IInv, HeldIsTimed
<1> QED
  BY <1>5, <1>7, <1>8, <1>9, <1>10, <1>11 DEF IInv

LEMMA SetWindowKeeps == ASSUME IInv, NEW a \in Threads, SetWindow(a) PROVE IInv'
<1> DEFINE stage == CASE a = "rx" -> "store" [] a = "driver" -> "stop"
                      [] a = "manager" -> "idle"
<1>1. Goes(a, stage, NoLoop) /\ pc[a] \in {"set", "advance"} /\ Runs(a)
  BY DEF SetWindow, At
<1>2. /\ a = "rx" => stage \in {"store", "done"}
      /\ a = "driver" => stage = "stop"
      /\ a = "manager" => stage = "idle"
  OBVIOUS
<1> HIDE DEF stage
<1> QED
  BY <1>1, <1>2, LeaveKeeps DEF SetWindow

LEMMA AdvanceWindowKeeps == ASSUME IInv, AdvanceWindow PROVE IInv'
<1>1. Goes("rx", "done", NoLoop) /\ pc["rx"] \in {"set", "advance"} /\ Runs("rx")
      /\ "rx" \in Threads
  BY DEF AdvanceWindow, At, Threads
<1> QED
  BY <1>1, LeaveKeeps DEF AdvanceWindow

LEMMA LoopKeeps == ASSUME IInv, NEW a \in Threads, InLoop(a) PROVE IInv'
BY CountSlotsKeeps, SkipSlotKeeps, TakeSlotKeeps, ClearSlotKeeps, LoadSlotKeeps,
   PutSlotKeeps, DropSlotKeeps, SetWindowKeeps DEF InLoop
----------------------------------------------------------------------------
(* The steps outside the loops *)

\* A thread that is outside the loops and does not delete the table.
LEMMA OutLocal ==
    ASSUME NEW a \in Threads,
           pc'[a] \in {"idle", "store", "done", "create", "peek", "wipe"},
           pc'[a] \in StagesOf(a), pc'[a] = "create" => loop'[a].target # None
    PROVE  Local(a)' /\ ~Shifting(a)'
<1>1. pc'[a] \notin Looping \cup {"stop", "free", "unlink"}
  BY DEF Looping
<1>2. ~Shifting(a)'
  BY <1>1 DEF Shifting, Looping
<1>3. FrameOK(a)'
  BY <1>1, <1>2 DEF FrameOK, Looping, StagesOf, Shifting, Threads
<1>4. Struct(a)' /\ Empties(a)' /\ Exact(a)' /\ Aims(a)'
  BY <1>1 DEF Struct, Empties, Exact, Aims, Looping
<1> QED
  BY <1>2, <1>3, <1>4 DEF Local

\* A thread at the beginning of a dispatch.
LEMMA CountLocal ==
    ASSUME NEW a \in Threads, pc'[a] = "count", loop'[a].i = 0,
           loop'[a].target # None,
           a = "driver" => loop'[a].target = Mask(start_win' + Win)
    PROVE  Local(a)' /\ ~Shifting(a)'
<1>1. ~Shifting(a)'
  BY DEF Shifting
<1>2. FrameOK(a)'
  BY <1>1 DEF FrameOK, Looping, StagesOf, Shifting, Threads
<1>3. Struct(a)' /\ Empties(a)' /\ Exact(a)' /\ Aims(a)'
  BY DEF Struct, Empties, Exact, Aims, Looping
<1> QED
  BY <1>1, <1>2, <1>3 DEF Local

\* The reception at the beginning of a scan.
LEMMA ScanLocal ==
    ASSUME pc'["rx"] = "take", loop'["rx"] = NoLoop
    PROVE  Local("rx")' /\ ~Shifting("rx")'
<1>1. ~Shifting("rx")'
  BY DEF Shifting
<1>2. FrameOK("rx")'
  BY <1>1, WindowAssumption DEF FrameOK, Looping, StagesOf, Shifting, NoLoop
<1>3. Struct("rx")' /\ Empties("rx")' /\ Exact("rx")' /\ Aims("rx")'
  BY DEF Struct, Empties, Exact, Aims, Looping, NoLoop, Slots
<1> QED
  BY <1>1, <1>2, <1>3 DEF Local

LEMMA SeqType ==
    /\ \A n \in Packets : n \in Nat /\ SeqNo(n) \in 0 .. M - 1
    /\ 0 \in 0 .. M /\ M - 1 \in Nat
BY SeqNoType, PacketsAssumption, WindowAssumption DEF Packets, M

LEMMA SendsType ==
    ASSUME TypeOK, NEW n \in Packets, NEW kind, Sends(n, kind)
    PROVE  sent' \in First .. MaxPackets + 1 /\ rx_seq' \in 0 .. M - 1 \cup {None}
BY SeqType, PacketsAssumption DEF TypeOK, Sends, Packets

\* What the invariant is about stays.
LEMMA SameKeeps ==
    ASSUME IInv, TypeOK',
           UNCHANGED <<open, timer, timer_is_set, broken, start_win, slot, pc, loop,
                       rx, stale, cut>>
    PROVE  IInv'
<1>1. TypeOK /\ "rx" \in Threads /\ Local("rx")
  BY DEF IInv, Core, Threads
<1>2. Local("rx")' /\ Shifting("rx")' = Shifting("rx")
  BY <1>1 DEF Local, FrameOK, Struct, Read, Empties, Vacant, Exact, Aims, Placed,
              Down, Alone, Shifting
<1>3. Core'
  BY <1>1, <1>2, CoreRead DEF IInv, Stays
<1>4. Opens' /\ TimerOK' /\ RxOK' /\ HeldIsTimed'
  BY DEF IInv, Opens, Inside, Vacant, TimerOK, RxOK, StoreInRange, Index,
         HeldIsTimed, Held
<1> QED
  BY <1>3, <1>4 DEF IInv

LEMMA ReceiveDirectKeeps ==
    ASSUME IInv, NEW n \in Packets, NEW kind \in Kinds, ReceiveDirect(n, kind)
    PROVE  IInv'
<1>1. /\ TypeOK /\ up' \subseteq Packets
      /\ UNCHANGED <<open, amsdu, timer, timer_is_set, broken, start_win, slot, pc,
                     loop, rx, leaving, stale, cut>>
  BY DEF IInv, ReceiveDirect, table
<1>2. TypeOK'
  BY <1>1, SendsType DEF TypeOK, ReceiveDirect
<1> QED
  BY <1>1, <1>2, SameKeeps

\* A reception begins: the number is in the window, or the window moves.
LEMMA ReceiveKeeps ==
    ASSUME IInv, NEW n \in Packets, NEW kind \in Kinds, Receive(n, kind)
    PROVE  IInv'
<1> DEFINE q == SeqNo(n)
           target == Target(q, kind)
           start == WindowEndingAt(target)
           Frame(s) == [n |-> IF kind = "bar" THEN None ELSE n,
                        start |-> s, prev |-> start_win]
<1>1. /\ TypeOK /\ "rx" \in Threads /\ pc["rx"] = "idle" /\ open
      /\ UNCHANGED <<open, amsdu, timer, timer_is_set, broken, start_win, slot,
                     leaving, stale, cut>>
      /\ up' = {}
  BY DEF IInv, Receive, table, Threads, At
<1>2. /\ start_win \in 0 .. M /\ q \in 0 .. M - 1 /\ target \in 0 .. M - 1
      /\ start \in 0 .. M
  BY <1>1, SeqType, TargetType, WindowEndingAtType DEF TypeOK
<1>3. \/ /\ rx' = [NoPacket EXCEPT !.prev = start_win]
         /\ Goes("rx", "done", NoLoop)
      \/ /\ rx' = Frame(start)
         /\ Goes("rx", "count", [NoLoop EXCEPT !.target = start])
      \/ /\ ~Behind(q, start_win) /\ ~Beyond(target, start_win)
         /\ rx' = Frame(start_win)
         /\ Goes("rx", "store", NoLoop)
  BY DEF Receive
<1>4. /\ Frame(start) \in [n : Packets \cup {None}, start : 0 .. M, prev : 0 .. M]
      /\ Frame(start_win) \in [n : Packets \cup {None}, start : 0 .. M, prev : 0 .. M]
      /\ Frame(start).n # None => kind # "bar" /\ Frame(start).n = n
      /\ Frame(start_win).n # None => kind # "bar" /\ Frame(start_win).n = n
      /\ Frame(start).start = start /\ Frame(start_win).start = start_win
  BY <1>2
<1>5. /\ [NoPacket EXCEPT !.prev = start_win]
           \in [n : Packets \cup {None}, start : 0 .. M, prev : 0 .. M]
      /\ [NoPacket EXCEPT !.prev = start_win].n = None
  BY <1>2, SeqType DEF NoPacket
<1>6. /\ [NoLoop EXCEPT !.target = start] \in Frames
      /\ [NoLoop EXCEPT !.target = start].i = 0
      /\ [NoLoop EXCEPT !.target = start].target = start
  BY <1>2, WindowAssumption DEF NoLoop, Frames
<1> HIDE DEF Frame
<1>7. /\ \A b \in Threads \ {"rx"} : Stays(b) /\ pc'[b] = pc[b]
      /\ pc' \in [Threads -> Stages] /\ loop' \in [Threads -> Frames]
      /\ \/ pc'["rx"] = "done" /\ rx' = [NoPacket EXCEPT !.prev = start_win]
         \/ /\ pc'["rx"] = "count" /\ loop'["rx"] = [NoLoop EXCEPT !.target = start]
            /\ rx' = Frame(start)
         \/ /\ pc'["rx"] = "store" /\ rx' = Frame(start_win)
            /\ ~Behind(q, start_win) /\ ~Beyond(target, start_win)
  <2>1. CASE Goes("rx", "done", NoLoop) /\ rx' = [NoPacket EXCEPT !.prev = start_win]
    BY <1>1, <2>1, NoLoopType, GoesFacts DEF Stages, Stays
  <2>2. CASE /\ Goes("rx", "count", [NoLoop EXCEPT !.target = start])
             /\ rx' = Frame(start)
    BY <1>1, <1>6, <2>2, GoesFacts DEF Stages, Looping, Stays
  <2>3. CASE /\ Goes("rx", "store", NoLoop) /\ rx' = Frame(start_win)
             /\ ~Behind(q, start_win) /\ ~Beyond(target, start_win)
    BY <1>1, <2>3, NoLoopType, GoesFacts DEF Stages, Stays
  <2> QED
    BY <1>3, <2>1, <2>2, <2>3
<1>8. TypeOK'
  <2>1. rx' \in [n : Packets \cup {None}, start : 0 .. M, prev : 0 .. M]
    BY <1>4, <1>5, <1>7
  <2>2. sent' \in First .. MaxPackets + 1 /\ rx_seq' \in 0 .. M - 1 \cup {None}
    BY <1>1, SendsType DEF Receive
  <2> QED
    BY <1>1, <1>7, <2>1, <2>2 DEF TypeOK
<1>9. Local("rx")'
  <2>1. CASE pc'["rx"] \in {"done", "store"}
    BY <1>1, <2>1, OutLocal DEF StagesOf
  <2>2. CASE /\ pc'["rx"] = "count"
             /\ loop'["rx"] = [NoLoop EXCEPT !.target = start]
    BY <1>1, <1>2, <1>6, <2>2, CountLocal, NoneOutside
  <2> QED
    BY <1>7, <2>1, <2>2
<1>10. Core'
  <2>1. ~Shifting("rx")
    BY <1>1 DEF Shifting
  <2> QED
    BY <1>1, <1>7, <1>9, <2>1, CoreRead DEF IInv
<1>11. RxOK'
  <2>1. kind # "bar" => target = q
    BY DEF Target
  <2>2. rx'.n # None /\ pc'["rx"] = "count" =>
           rx'.start = WindowEndingAt(SeqNo(rx'.n))
    BY <1>4, <1>5, <1>7, <2>1
  <2>3. rx'.n # None /\ pc'["rx"] = "store" => Index' \in Slots
    <3>1. rx'.n # None /\ pc'["rx"] = "store" =>
             /\ rx'.n = n /\ rx'.start = start_win
             /\ ~Behind(q, start_win) /\ ~Beyond(q, start_win)
      BY <1>4, <1>5, <1>7, <2>1
    <3> QED
      BY <1>2, <3>1, InWindow DEF Index
  <2> QED
    BY <1>7, <2>2, <2>3 DEF RxOK, StoreInRange, Looping
<1>12. Opens' /\ TimerOK' /\ HeldIsTimed'
  <2>1. pc'["driver"] = pc["driver"] /\ pc'["manager"] = pc["manager"]
    BY <1>7 DEF Threads
  <2> QED
    BY <1>1, <1>7, <2>1
       DEF IInv, Opens, Inside, Vacant, TimerOK, HeldIsTimed
<1> QED
  BY <1>8, <1>10, <1>11, <1>12 DEF IInv

\* The reception goes on to the scan or to its end, with nothing to store.
LEMMA StoredKeeps ==
    ASSUME IInv, pc["rx"] = "store", NEW stage \in {"take", "done"},
           Goes("rx", stage, NoLoop), rx' = [NoPacket EXCEPT !.prev = rx.prev],
           Core', slot' \in [Slots -> Packets \cup {None}], up' = {},
           cut' \in BOOLEAN, stale' \in BOOLEAN,
           UNCHANGED <<open, amsdu, timer, timer_is_set, broken, start_win,
                       rx_seq, sent, leaving>>
    PROVE  IInv'
<1>1. TypeOK /\ open /\ "rx" \in Threads /\ stage \in Stages
  BY DEF IInv, Opens, Threads, Stages, Looping
<1>2. /\ pc'["rx"] = stage /\ \A b \in Threads \ {"rx"} : pc'[b] = pc[b]
      /\ pc' \in [Threads -> Stages] /\ loop' \in [Threads -> Frames]
  BY <1>1, NoLoopType, GoesFacts
<1>3. /\ rx' \in [n : Packets \cup {None}, start : 0 .. M, prev : 0 .. M]
      /\ rx'.n = None
  BY <1>1, SeqType DEF TypeOK, NoPacket
<1>4. TypeOK'
  BY <1>1, <1>2, <1>3 DEF TypeOK
<1>5. pc'["driver"] = pc["driver"] /\ pc'["manager"] = pc["manager"]
  BY <1>2 DEF Threads
<1>6. Opens'
  BY <1>1, <1>5 DEF IInv, Opens, Inside
<1>7. TimerOK' /\ RxOK' /\ HeldIsTimed'
  BY <1>1, <1>2, <1>3, <1>5
     DEF IInv, TimerOK, RxOK, StoreInRange, HeldIsTimed
<1> QED
  BY <1>4, <1>6, <1>7 DEF IInv

LEMMA AcceptBarKeeps == ASSUME IInv, AcceptBar PROVE IInv'
<1>1. /\ TypeOK /\ "rx" \in Threads /\ pc["rx"] = "store" /\ ~Shifting("rx")
      /\ Goes("rx", "take", NoLoop) /\ rx' = [NoPacket EXCEPT !.prev = rx.prev]
      /\ UNCHANGED <<open, amsdu, timer, timer_is_set, broken, start_win, slot,
                     rx_seq, sent, leaving, stale, cut>>
      /\ up' = {}
  BY DEF IInv, AcceptBar, At, Threads, Shifting, table, peer, Scans
<1>2. pc'["rx"] = "take" /\ loop'["rx"] = NoLoop
  BY <1>1, NoLoopType, GoesFacts DEF Stages, Looping
<1>3. Core'
  BY <1>1, <1>2, ScanLocal, GoesStays, CoreRead DEF IInv
<1> QED
  BY <1>1, <1>3, StoredKeeps DEF TypeOK

LEMMA DropDuplicateKeeps == ASSUME IInv, DropDuplicate PROVE IInv'
<1>1. /\ TypeOK /\ "rx" \in Threads /\ pc["rx"] = "store" /\ ~Shifting("rx")
      /\ Goes("rx", "done", NoLoop) /\ rx' = [NoPacket EXCEPT !.prev = rx.prev]
      /\ UNCHANGED <<open, amsdu, timer, timer_is_set, broken, start_win, slot,
                     rx_seq, sent, leaving, stale, cut>>
      /\ up' = {}
  BY DEF IInv, DropDuplicate, At, Threads, Shifting, table, peer
<1>2. pc'["rx"] = "done"
  BY <1>1, NoLoopType, GoesFacts DEF Stages
<1>3. Core'
  BY <1>1, <1>2, OutLocal, GoesStays, CoreRead DEF IInv, StagesOf
<1> QED
  BY <1>1, <1>3, StoredKeeps DEF TypeOK

LEMMA StoreKeeps == ASSUME IInv, Store PROVE IInv'
<1>1. /\ TypeOK /\ "rx" \in Threads /\ pc["rx"] = "store" /\ Runs("rx") /\ open
      /\ Goes("rx", "take", NoLoop) /\ rx' = [NoPacket EXCEPT !.prev = rx.prev]
      /\ slot' = [slot EXCEPT ![Index] = rx.n] /\ rx.n # None
      /\ stale' = (stale \/ rx.start # start_win) /\ Touches("rx")
      /\ UNCHANGED <<open, amsdu, timer, timer_is_set, broken, start_win,
                     rx_seq, sent, leaving>>
      /\ up' = {}
  BY DEF IInv, Opens, Store, At, Threads, table, peer, Scans
<1>2. pc'["rx"] = "take" /\ loop'["rx"] = NoLoop
  BY <1>1, NoLoopType, GoesFacts DEF Stages, Looping
<1>3. /\ Index \in Slots /\ rx.n \in Packets /\ rx.start \in 0 .. M
      /\ start_win \in 0 .. M
  BY <1>1 DEF IInv, RxOK, StoreInRange, TypeOK
<1>4. /\ slot' \in [Slots -> Packets \cup {None}] /\ slot'[Index] = rx.n
      /\ \A j \in Slots \ {Index} : slot'[j] = slot[j]
      /\ cut' \in BOOLEAN /\ stale' \in BOOLEAN
  BY <1>1, <1>3 DEF TypeOK, Touches
<1>5. SeqNo(rx.n) = Mask(rx.start + Index)
  <2>1. SeqNo(rx.n) \in 0 .. M - 1
    BY <1>3, SeqType
  <2> QED
    BY <1>3, <2>1, WindowAssumption DEF Index, Mask, M
<1>6. ASSUME ~cut', ~stale' PROVE Matched'
  <2>1. \A b \in Threads : ~Shifting(b)
    BY <1>1, <1>6, TouchesAlone DEF IInv, Shifting, Looping
  <2>2. Matched /\ rx.start = start_win
    BY <1>1, <1>6, <2>1 DEF IInv, Core, SlotsMatch, Matched, Touches
  <2> QED
    BY <1>1, <1>3, <1>4, <1>5, <2>2 DEF Matched
<1>7. Core'
  BY <1>1, <1>2, <1>6, ScanLocal, GoesStays, CoreTouch DEF IInv
<1> QED
  BY <1>1, <1>4, <1>7, StoredKeeps

LEMMA FinishKeeps == ASSUME IInv, Finish PROVE IInv'
<1>1. /\ TypeOK /\ "rx" \in Threads /\ "driver" \in Threads /\ pc["rx"] = "done"
      /\ ~broken /\ open /\ Local("driver")
      /\ Goes("rx", "idle", NoLoop) /\ rx' = NoPacket
      /\ UNCHANGED <<open, amsdu, start_win, slot, rx_seq, sent, leaving, stale,
                     cut>>
      /\ up' = {}
  BY DEF IInv, Core, Opens, Finish, At, Runs, Threads, peer
<1>2. \/ /\ timer_is_set' = TRUE /\ timer' = IF timer = "freed" THEN timer ELSE "on"
         /\ broken' = (timer = "freed")
      \/ /\ timer_is_set = TRUE
         /\ UNCHANGED <<timer, timer_is_set, broken>>
  BY <1>1 DEF Finish, TypeOK
<1>3. /\ pc'["rx"] = "idle" /\ \A b \in Threads \ {"rx"} : pc'[b] = pc[b]
      /\ pc'["driver"] = pc["driver"] /\ pc'["manager"] = pc["manager"]
      /\ pc' \in [Threads -> Stages] /\ loop' \in [Threads -> Frames]
  <2>1. /\ pc'["rx"] = "idle" /\ \A b \in Threads \ {"rx"} : pc'[b] = pc[b]
        /\ pc' \in [Threads -> Stages] /\ loop' \in [Threads -> Frames]
    BY <1>1, NoLoopType, GoesFacts DEF Stages
  <2> QED
    BY <2>1 DEF Threads
<1>4. rx' \in [n : Packets \cup {None}, start : 0 .. M, prev : 0 .. M]
      /\ rx'.n = None
  BY <1>1, SeqType DEF NoPacket
<1>5. TypeOK'
  BY <1>1, <1>2, <1>3, <1>4 DEF TypeOK
<1>6. Core'
  <2>1. Local("rx")' /\ ~Shifting("rx")
    BY <1>1, <1>3, OutLocal DEF StagesOf, Shifting
  <2> QED
    BY <1>1, <2>1, GoesStays, CoreRead DEF IInv
<1>7. Opens'
  BY <1>1, <1>3 DEF IInv, Opens, Inside
<1>8. open /\ pc["driver"] \notin {"free", "unlink"} =>
          timer' # "freed" /\ timer' = "on" /\ timer_is_set'
  BY <1>1, <1>2 DEF IInv, TimerOK
<1>9. TimerOK'
  BY <1>1, <1>3, <1>8 DEF TimerOK
<1>10. HeldIsTimed'
  <2>1. ~cut /\ pc["driver"] \in {"free", "unlink"} => Held = {}
    BY <1>1 DEF Local, Empties, Vacant, Held
  <2> QED
    BY <1>1, <1>8, <2>1 DEF HeldIsTimed, Held
<1>11. RxOK'
  BY <1>3, <1>4 DEF RxOK, StoreInRange
<1> QED
  BY <1>5, <1>6, <1>7, <1>9, <1>10, <1>11 DEF IInv

\* The driver and the manager outside the loops, while the table stays.
LEMMA OtherKeeps ==
    ASSUME IInv, NEW a \in Others, Runs(a), ~Shifting(a),
           NEW stage \in Stages, NEW f \in Frames, Goes(a, stage, f), Local(a)',
           UNCHANGED <<open, amsdu, start_win, slot, timer_is_set, stale, cut,
                       sent, rx>>,
           up' = {}, timer' \in {"off", "on", "freed"}, leaving' \in BOOLEAN,
           broken' \in BOOLEAN, rx_seq' \in 0 .. M - 1 \cup {None},
           Inside(a)' => open, a = "manager" /\ stage = "create" => ~open,
           a = "driver" /\ pc[a] \in {"free", "unlink"} => stage \in {"free", "unlink"},
           \/ timer' = timer
           \/ a = "driver" /\ stage \in {"free", "unlink"} /\ (~cut => Vacant)
    PROVE  IInv'
<1>1. /\ TypeOK /\ a \in Threads /\ ~broken /\ pc["rx"] = "idle"
      /\ a = "driver" \/ a = "manager"
  BY DEF IInv, Others, Threads, Runs
<1>2. /\ pc'[a] = stage
      /\ \A b \in Threads \ {a} : pc'[b] = pc[b]
      /\ pc' \in [Threads -> Stages] /\ loop' \in [Threads -> Frames]
  BY <1>1, GoesFacts
<1>3. /\ pc'["rx"] = "idle"
      /\ a = "driver" => pc'["manager"] = pc["manager"]
      /\ a = "manager" => pc'["driver"] = pc["driver"]
  BY <1>1, <1>2 DEF Threads
<1>4. TypeOK'
  BY <1>1, <1>2 DEF TypeOK
<1>5. Core'
  BY <1>1, GoesStays, CoreRead DEF IInv
<1>6. Opens'
  BY <1>1, <1>2, <1>3 DEF IInv, Opens, Inside, Vacant
<1>7. TimerOK'
  BY <1>1, <1>2, <1>3 DEF IInv, TimerOK
<1>8. RxOK'
  BY <1>3 DEF RxOK, StoreInRange, Looping
<1>9. HeldIsTimed'
  <2>1. CASE timer' = timer
    BY <1>1, <2>1 DEF IInv, HeldIsTimed, Held
  <2>2. CASE ~cut => Vacant
    BY <2>2 DEF HeldIsTimed, Held, Vacant
  <2> QED
    BY <2>1, <2>2
<1> QED
  BY <1>4, <1>5, <1>6, <1>7, <1>8, <1>9 DEF IInv

LEMMA AskKeeps == ASSUME IInv, Ask(SeqNo(sent)) PROVE IInv'
<1> DEFINE ssn == SeqNo(sent)
           g == [NoLoop EXCEPT !.target = ssn]
           h == [NoLoop EXCEPT !.target = FirstWindow(ssn)]
<1>1. /\ TypeOK /\ "manager" \in Others /\ "manager" \in Threads
      /\ pc["manager"] = "idle" /\ Runs("manager") /\ ~Shifting("manager")
      /\ UNCHANGED <<open, amsdu, start_win, slot, timer, timer_is_set, broken,
                     stale, cut, rx_seq, sent, rx, leaving>>
      /\ up' = {}
  BY DEF IInv, Ask, Begins, At, Others, Threads, Shifting, OnlyReads, NoneElse,
         table, peer
<1>2. sent \in Nat /\ ssn \in 0 .. M /\ FirstWindow(ssn) \in 0 .. M
  <2>1. sent \in Nat
    BY <1>1, PacketsAssumption DEF TypeOK
  <2> QED
    BY <1>1, <2>1, SeqNoType, WindowAssumption DEF TypeOK, FirstWindow, M
<1>3. /\ g \in Frames /\ g.i = 0 /\ g.target = ssn
      /\ h \in Frames /\ h.target = FirstWindow(ssn)
  BY <1>2, WindowAssumption DEF NoLoop, Frames
<1>4. CASE open /\ Goes("manager", "count", g)
  <2>1. pc'["manager"] = "count" /\ loop'["manager"] = g
    BY <1>1, <1>3, <1>4, GoesFacts DEF Stages, Looping
  <2>2. Local("manager")'
    BY <1>1, <1>2, <1>3, <2>1, CountLocal, NoneOutside
  <2>3. "count" \in Stages /\ timer \in {"off", "on", "freed"}
    BY <1>1 DEF Stages, Looping, TypeOK
  <2> QED
    BY <1>1, <1>3, <1>4, <2>2, <2>3, OtherKeeps DEF TypeOK
<1>5. CASE ~open /\ Goes("manager", "create", h)
  <2>1. pc'["manager"] = "create" /\ loop'["manager"] = h
    BY <1>1, <1>3, <1>5, GoesFacts DEF Stages
  <2>2. Local("manager")' /\ ~Inside("manager")'
    BY <1>1, <1>2, <1>3, <2>1, OutLocal, NoneOutside DEF StagesOf, Inside
  <2>3. "create" \in Stages
    BY DEF Stages
  <2> QED
    BY <1>1, <1>3, <1>5, <2>2, <2>3, OtherKeeps DEF TypeOK
<1> QED
  BY <1>4, <1>5 DEF Ask

LEMMA DeleteKeeps ==
    ASSUME IInv, Runs("driver"), pc["driver"] \in {"idle", "peek"}, DeleteEntry,
           OnlyReads
    PROVE  IInv'
<1> DEFINE g == [NoLoop EXCEPT !.target = Mask(start_win + Win)]
<1>1. /\ TypeOK /\ "driver" \in Others /\ "driver" \in Threads /\ ~Shifting("driver")
      /\ UNCHANGED <<open, amsdu, start_win, slot, timer, timer_is_set, broken,
                     stale, cut, rx_seq, sent, rx, leaving>>
      /\ up' = {} /\ open /\ Goes("driver", "count", g)
  BY DEF IInv, Others, Threads, Shifting, OnlyReads, NoneElse, table, peer,
         DeleteEntry
<1>2. Mask(start_win + Win) \in 0 .. M
  BY <1>1, WindowAssumption DEF TypeOK, Mask, M
<1>3. g \in Frames /\ g.i = 0 /\ g.target = Mask(start_win + Win)
  BY <1>2, WindowAssumption DEF NoLoop, Frames
<1>4. "count" \in Stages
  BY DEF Stages, Looping
<1>5. pc'["driver"] = "count" /\ loop'["driver"] = g
  BY <1>1, <1>3, <1>4, GoesFacts
<1>6. Local("driver")'
  BY <1>1, <1>2, <1>3, <1>5, CountLocal, NoneOutside
<1> QED
  BY <1>1, <1>3, <1>4, <1>6, OtherKeeps DEF TypeOK

LEMMA DriverOut ==
    ASSUME IInv, Runs("driver"), pc["driver"] \in {"idle", "peek", "wipe"},
           NEW stage \in {"idle", "peek", "wipe"}, Goes("driver", stage, NoLoop),
           UNCHANGED <<open, amsdu, start_win, slot, timer, timer_is_set, stale,
                       cut, sent, rx>>,
           up' = {}, leaving' \in BOOLEAN, broken' \in BOOLEAN,
           rx_seq' \in 0 .. M - 1 \cup {None}
    PROVE  IInv'
<1>1. /\ TypeOK /\ "driver" \in Others /\ "driver" \in Threads
      /\ ~Shifting("driver") /\ stage \in Stages /\ timer \in {"off", "on", "freed"}
  BY DEF IInv, TypeOK, Others, Threads, Shifting, Stages
<1>2. pc'["driver"] = stage
  BY <1>1, NoLoopType, GoesFacts
<1>3. Local("driver")' /\ ~Inside("driver")'
  BY <1>1, <1>2, OutLocal DEF StagesOf, Inside
<1> QED
  BY <1>1, <1>3, NoLoopType, OtherKeeps

LEMMA DriverFreesTimer ==
    ASSUME IInv, Runs("driver"), pc["driver"] \in {"stop", "free"},
           NEW stage \in {"free", "unlink"}, Goes("driver", stage, NoLoop),
           UNCHANGED <<open, amsdu, start_win, slot, timer_is_set, broken, stale,
                       cut, rx_seq, sent, rx, leaving>>,
           up' = {}, timer' \in {"off", "on", "freed"}
    PROVE  IInv'
<1>1. /\ TypeOK /\ "driver" \in Others /\ "driver" \in Threads /\ open
      /\ ~Shifting("driver") /\ stage \in Stages /\ Local("driver")
  BY DEF IInv, Core, Opens, Inside, Others, Threads, Shifting, Stages
<1>2. pc'["driver"] = stage /\ loop'["driver"] = NoLoop
  BY <1>1, NoLoopType, GoesFacts
<1>3. ~cut => Vacant
  BY <1>1 DEF Local, Empties
<1>4. Local("driver")'
  <2>1. ~Shifting("driver")' /\ FrameOK("driver")'
    BY <1>2 DEF FrameOK, StagesOf, Looping, Shifting
  <2>2. Struct("driver")' /\ Exact("driver")' /\ Aims("driver")'
    BY <1>2 DEF Struct, Exact, Aims, Looping
  <2>3. ~cut' => Empties("driver")'
    BY <1>2, <1>3 DEF Empties, Vacant, Looping
  <2> QED
    BY <2>1, <2>2, <2>3 DEF Local
<1> QED
  BY <1>1, <1>3, <1>4, NoLoopType, OtherKeeps DEF TypeOK

\* Nobody is inside the table that is created.
LEMMA CreateTableKeeps == ASSUME IInv, CreateTable PROVE IInv'
<1>1. /\ TypeOK /\ ~open /\ ~broken /\ pc["rx"] = "idle" /\ pc["manager"] = "create"
      /\ \A a \in Threads : Local(a) /\ FrameOK(a)
      /\ "rx" \in Threads /\ "driver" \in Threads /\ "manager" \in Threads
  BY DEF IInv, Core, Opens, Local, CreateTable, At, Runs, Threads
<1>2. loop["manager"].target \in 0 .. M
  BY <1>1, FrameType DEF FrameOK
<1>3. /\ pc'["manager"] = "idle" /\ pc'["rx"] = "idle"
      /\ pc'["driver"] = pc["driver"]
      /\ pc' \in [Threads -> Stages] /\ loop' \in [Threads -> Frames]
  <2>1. Goes("manager", "idle", NoLoop) /\ "idle" \in Stages
    BY DEF CreateTable, Stages
  <2>2. /\ pc'["manager"] = "idle" /\ \A b \in Threads \ {"manager"} : pc'[b] = pc[b]
        /\ pc' \in [Threads -> Stages] /\ loop' \in [Threads -> Frames]
    BY <1>1, <2>1, NoLoopType, GoesFacts
  <2> QED
    BY <1>1, <2>2 DEF Threads
<1>4. pc["driver"] \in {"idle", "peek", "wipe"}
  <2>1. ~Inside("driver")
    BY <1>1 DEF IInv, Opens
  <2> QED
    BY <1>1, <2>1 DEF Inside, FrameOK, StagesOf, Looping
<1>5. Vacant' /\ slot' \in [Slots -> Packets \cup {None}] /\ Held' = {}
  BY DEF CreateTable, Empty, Vacant, Held
<1>6. TypeOK'
  BY <1>1, <1>2, <1>3, <1>5 DEF TypeOK, CreateTable, peer
<1>7. Core'
  <2>1. Local("rx")' /\ Local("driver")' /\ Local("manager")'
    BY <1>1, <1>3, <1>4, OutLocal DEF StagesOf
  <2> QED
    BY <1>5, <2>1 DEF Core, SlotsMatch, Vacant, Threads
<1>8. Opens'
  BY <1>3 DEF Opens, CreateTable
<1>9. TimerOK' /\ RxOK' /\ HeldIsTimed'
  BY <1>3, <1>5
     DEF TimerOK, RxOK, StoreInRange, HeldIsTimed, Looping, CreateTable
<1> QED
  BY <1>6, <1>7, <1>8, <1>9 DEF IInv

LEMMA FreeTableKeeps == ASSUME IInv, FreeTable PROVE IInv'
<1> DEFINE stage == IF leaving THEN "peek" ELSE "idle"
<1>1. /\ TypeOK /\ Runs("driver") /\ ~broken /\ pc["rx"] = "idle"
      /\ "rx" \in Threads /\ "driver" \in Threads /\ "manager" \in Threads
      /\ stage \in Stages /\ stage \in {"idle", "peek"}
      /\ Goes("driver", stage, NoLoop)
  BY DEF IInv, FreeTable, At, Runs, Threads, Stages
<1>2. /\ open' = FALSE /\ start_win' = 0 /\ broken' = Inside("manager")
      /\ Touches("driver") /\ Vacant' /\ Held' = {}
      /\ slot' \in [Slots -> Packets \cup {None}]
  BY DEF FreeTable, Empty, Vacant, Held
<1> HIDE DEF stage
<1>3. /\ pc'["driver"] = stage /\ pc'["rx"] = "idle"
      /\ pc'["manager"] = pc["manager"]
      /\ pc' \in [Threads -> Stages] /\ loop' \in [Threads -> Frames]
      /\ \A b \in Threads \ {"driver"} : Stays(b)
  <2>1. /\ pc'["driver"] = stage /\ \A b \in Threads \ {"driver"} : pc'[b] = pc[b]
        /\ pc' \in [Threads -> Stages] /\ loop' \in [Threads -> Frames]
        /\ \A b \in Threads \ {"driver"} : Stays(b)
    BY <1>1, NoLoopType, GoesFacts DEF Stays
  <2> QED
    BY <1>1, <2>1 DEF Threads
<1>4. TypeOK'
  <2>1. cut' \in BOOLEAN /\ broken' \in BOOLEAN
    BY <1>1, <1>2 DEF Touches, Inside, TypeOK
  <2> QED
    BY <1>1, <1>2, <1>3, <2>1, SeqType DEF TypeOK, FreeTable, peer
<1>5. Core'
  <2>1. Local("driver")'
    BY <1>1, <1>3, OutLocal DEF StagesOf
  <2> QED
    BY <1>1, <1>2, <1>3, <2>1, CoreTouch DEF IInv
<1>6. Opens'
  BY <1>1, <1>2, <1>3 DEF Opens, Inside
<1>7. TimerOK' /\ RxOK' /\ HeldIsTimed'
  BY <1>2, <1>3 DEF TimerOK, RxOK, StoreInRange, HeldIsTimed, Looping
<1> QED
  BY <1>4, <1>5, <1>6, <1>7 DEF IInv
----------------------------------------------------------------------------
(* The timer task *)

LEMMA HandUpFacts ==
    ASSUME TypeOK, NEW n \in 0 .. Win, HandUp(n)
    PROVE  /\ slot' \in [Slots -> Packets \cup {None}]
           /\ up' \subseteq Packets /\ up' \subseteq Held
           /\ Held \subseteq Held' \cup up'
<1>1. /\ \A i \in Slots : slot[i] \in Packets \cup {None}
      /\ slot' = [i \in Slots |-> IF i + n < Win THEN slot[i + n] ELSE None]
      /\ up' = {slot[i] : i \in {j \in Slots : j < n}} \ {None}
  BY DEF TypeOK, HandUp
<1>2. \A i \in Slots : i + n < Win => i + n \in Slots
  BY WindowAssumption DEF Slots
<1>3. slot' \in [Slots -> Packets \cup {None}]
  BY <1>1, <1>2
<1>4. up' \subseteq Packets /\ up' \subseteq Held
  BY <1>1 DEF Held
<1>5. ASSUME NEW i \in Slots, slot[i] # None PROVE slot[i] \in Held' \cup up'
  <2>1. CASE i < n
    BY <2>1, <1>1, <1>5
  <2>2. CASE ~(i < n)
    <3>1. i - n \in Slots /\ (i - n) + n = i /\ i < Win
      BY <2>2, WindowAssumption DEF Slots
    <3>2. slot'[i - n] = slot[i]
      BY <1>1, <3>1
    <3> QED
      BY <3>1, <3>2, <1>5 DEF Held
  <2> QED
    BY <2>1, <2>2
<1> QED
  BY <1>3, <1>4, <1>5 DEF Held

\* The flush hands up all that is held, and leaves the slots empty.
LEMMA FlushFacts ==
    ASSUME TypeOK, FlushData
    PROVE  /\ Vacant' /\ start_win' \in 0 .. M
           /\ slot' \in [Slots -> Packets \cup {None}]
           /\ up' \subseteq Packets /\ up' \subseteq Held /\ Held \subseteq up'
           /\ Held' = {}
<1>0. Vacant' => Held' = {}
  BY DEF Vacant, Held
<1>1. CASE Held = {}
  BY <1>0, <1>1 DEF FlushData, TypeOK, Held, Vacant
<1>2. CASE Held # {}
  <2>1. PICK last \in Slots :
            /\ slot[last] # None
            /\ \A i \in Slots : i > last => slot[i] = None
            /\ HandUp(CountTo(Mask(start_win + last + 1)))
            /\ start_win' = Mask(start_win + last + 1)
    BY <1>2 DEF FlushData
  <2> DEFINE s == Mask(start_win + last + 1)
             n == CountTo(s)
  <2>2. start_win + last + 1 \in 0 .. 2 * M - 1 /\ start_win \in 0 .. M
    BY WindowAssumption DEF TypeOK, M, Slots
  <2>3. s \in 0 .. M
    BY <2>2, MaskType, WindowAssumption DEF M
  <2>4. n \in 1 .. Win /\ n \in 0 .. Win /\ (n < Win => s = start_win + n)
    BY <2>2, <2>3, CountToFacts, WindowAssumption
  <2>5. n > last
    BY <2>2, <2>4, WindowAssumption DEF Mask, M, Slots
  <2>6. Vacant'
    <3> SUFFICES ASSUME NEW i \in Slots PROVE slot'[i] = None
      BY DEF Vacant
    <3>1. i + n < Win => i + n \in Slots /\ i + n > last
      BY <2>4, <2>5, WindowAssumption DEF Slots
    <3>2. slot'[i] = IF i + n < Win THEN slot[i + n] ELSE None
      BY <2>1 DEF HandUp
    <3> QED
      BY <2>1, <3>1, <3>2
  <2>7. /\ slot' \in [Slots -> Packets \cup {None}] /\ up' \subseteq Packets
        /\ up' \subseteq Held /\ Held \subseteq Held' \cup up'
    BY <2>1, <2>4, HandUpFacts
  <2> QED
    BY <1>0, <2>1, <2>3, <2>6, <2>7
<1> QED
  BY <1>1, <1>2

LEMMA FlushDataKeeps == ASSUME IInv, FlushData PROVE IInv'
<1>1. /\ TypeOK /\ open' = open /\ timer' = "off" /\ timer_is_set' = FALSE
      /\ stale' = (stale \/ InHand({"rx"}) # {})
      /\ cut' = (cut \/ InHand(Others) # {})
      /\ UNCHANGED <<amsdu, broken, rx_seq, sent, pc, loop, rx, leaving>>
  BY DEF IInv, FlushData, peer
<1>2. /\ Vacant' /\ start_win' \in 0 .. M
      /\ slot' \in [Slots -> Packets \cup {None}]
      /\ up' \subseteq Packets /\ Held' = {}
  BY <1>1, FlushFacts
<1>3. cut' \in BOOLEAN /\ stale' \in BOOLEAN
  BY <1>1 DEF TypeOK
<1>4. TypeOK'
  BY <1>1, <1>2, <1>3 DEF TypeOK
<1>5. ASSUME NEW a \in Threads PROVE Local(a)'
  <2>1. FrameOK(a) /\ loop[a] \in Frames /\ pc' = pc /\ loop' = loop
    BY <1>1, FrameType DEF IInv, Core, Local
  <2>2. FrameOK(a)'
    BY <2>1 DEF FrameOK, Shifting
  <2>3. /\ ~cut' /\ a # "rx" => loop[a].tmp = None
        /\ ~cut' /\ ~stale' => loop[a].tmp = None
    BY <1>1 DEF InHand, Threads, Others
  <2>4. /\ pc[a] \in {"take", "clear"} => loop[a].i \in Slots
        /\ pc[a] \in {"load", "put", "drop"} =>
             loop[a].i \in Slots /\ loop[a].count + loop[a].i \in Slots
    BY <2>1, FrameType, NoneOutside, WindowAssumption
       DEF FrameOK, Shifting, Slots, IInv
  <2>5. ~cut' => Struct(a)'
    <3>1. ASSUME ~cut', NEW j \in Slots PROVE Read(a, j)' /\ slot'[j] = None
      BY <1>2, <2>1, <2>3, <3>1 DEF Read, Vacant
    <3>2. SUFFICES ASSUME ~cut' PROVE Struct(a)'
      OBVIOUS
    <3>3. \A j \in Slots : slot'[j] = None
      BY <1>2 DEF Vacant
    <3>4. /\ pc[a] = "clear" => Read(a, loop[a].i)'
          /\ pc[a] \in {"put", "drop"} => Read(a, loop[a].count + loop[a].i)'
          /\ pc[a] = "drop" => Read(a, loop[a].i)' /\ slot'[loop[a].i] = None
                                /\ slot'[loop[a].count + loop[a].i] = None
      BY <2>1, <2>4, <3>1, <3>2
    <3> QED
      BY <2>1, <3>3, <3>4 DEF Struct
  <2>6. Empties(a)'
    BY <1>2 DEF Empties
  <2>7. ~cut' /\ ~stale' => Exact(a)'
    BY <1>2, <2>1, <2>3, <2>4 DEF Exact, Vacant
  <2>8. Placed(a)'
    BY <1>2 DEF Placed, Vacant
  <2> QED
    BY <1>2, <2>2, <2>5, <2>6, <2>7, <2>8 DEF Local
<1>6. Core'
  BY <1>2, <1>5 DEF Core, SlotsMatch, Vacant
<1>7. Opens'
  BY <1>1, <1>2 DEF IInv, Opens, Inside
<1>8. TimerOK' /\ RxOK' /\ HeldIsTimed'
  BY <1>1, <1>2
     DEF IInv, TimerOK, RxOK, StoreInRange, Index, HeldIsTimed
<1> QED
  BY <1>4, <1>6, <1>7, <1>8 DEF IInv
----------------------------------------------------------------------------
LEMMA InitInv == Init => IInv
<1> SUFFICES ASSUME Init PROVE IInv
  OBVIOUS
<1>1. Vacant /\ Held = {} /\ slot \in [Slots -> Packets \cup {None}]
  BY DEF Init, Vacant, Held, Empty
<1>2. TypeOK
  <2>1. NoPacket \in [n : Packets \cup {None}, start : 0 .. M, prev : 0 .. M]
    BY SeqType DEF NoPacket
  <2>2. 0 \in 0 .. M /\ First \in First .. MaxPackets + 1
    BY WindowAssumption, PacketsAssumption DEF M
  <2>3. pc \in [Threads -> Stages] /\ loop \in [Threads -> Frames]
    BY NoLoopType DEF Init, Stages
  <2> QED
    BY <1>1, <2>1, <2>2, <2>3 DEF Init, TypeOK
<1>3. \A a \in Threads : pc[a] = "idle" /\ ~Shifting(a)
  BY DEF Init, Shifting
<1>4. ASSUME NEW a \in Threads PROVE Local(a)
  <2>1. FrameOK(a)
    BY <1>3 DEF FrameOK, StagesOf, Looping, Threads
  <2>2. Struct(a) /\ Empties(a) /\ Exact(a) /\ Aims(a)
    BY <1>3 DEF Struct, Empties, Exact, Aims, Looping
  <2> QED
    BY <1>3, <2>1, <2>2 DEF Local
<1>5. Core
  BY <1>1, <1>4 DEF Core, SlotsMatch, Vacant
<1>6. Opens /\ TimerOK /\ RxOK /\ HeldIsTimed
  BY <1>1, <1>3
     DEF Init, Opens, Inside, Threads, TimerOK, RxOK, StoreInRange, Looping,
         HeldIsTimed
<1> QED
  BY <1>2, <1>5, <1>6 DEF IInv

LEMMA NextKeeps == ASSUME IInv, [Next]_vars PROVE IInv'
<1>1. ASSUME NEW n \in Packets, NEW kind \in Kinds,
             ReceiveDirect(n, kind) \/ Receive(n, kind)
      PROVE  IInv'
  BY <1>1, ReceiveDirectKeeps, ReceiveKeeps
<1>2. CASE Reception
  <2>1. "rx" \in Threads
    BY DEF Threads
  <2> QED
    BY <1>2, <2>1, AcceptBarKeeps, DropDuplicateKeeps, StoreKeeps, SumWindowKeeps,
       AdvanceWindowKeeps, FinishKeeps, LoopKeeps DEF Reception
<1>3. CASE Ask(SeqNo(sent)) \/ Manager
  <2>1. "manager" \in Threads
    BY DEF Threads
  <2> QED
    BY <1>3, <2>1, AskKeeps, CreateTableKeeps, LoopKeeps DEF Manager
<1>4. CASE DeleteTable \/ PeekTable
  BY <1>4, DeleteKeeps DEF DeleteTable, PeekTable, Begins, At
<1>5. CASE CleanUp
  <2>1. leaving' \in BOOLEAN /\ rx_seq' \in 0 .. M - 1 \cup {None}
        /\ broken' \in BOOLEAN
    BY <1>5 DEF CleanUp, IInv, TypeOK, table, peer
  <2> QED
    BY <1>5, <2>1, DriverOut DEF CleanUp, Begins, At, table, peer
<1>6. CASE PeekNone
  <2>1. leaving' \in BOOLEAN /\ rx_seq' \in 0 .. M - 1 \cup {None}
        /\ broken' \in BOOLEAN
    BY <1>6 DEF PeekNone, OnlyReads, NoneElse, IInv, TypeOK, table, peer
  <2> QED
    BY <1>6, <2>1, DriverOut DEF PeekNone, OnlyReads, NoneElse, At, table, peer
<1>7. CASE Wipe
  <2>1. leaving' \in BOOLEAN /\ rx_seq' \in 0 .. M - 1 \cup {None}
        /\ broken' \in BOOLEAN
    BY <1>7 DEF Wipe, IInv, TypeOK
  <2> QED
    BY <1>7, <2>1, DriverOut DEF Wipe, At
<1>8. CASE StopTimer
  <2>1. timer' \in {"off", "on", "freed"}
    BY <1>8 DEF StopTimer, IInv, TypeOK
  <2> QED
    BY <1>8, <2>1, DriverFreesTimer DEF StopTimer, At, peer
<1>9. CASE FreeTimer
  BY <1>9, DriverFreesTimer DEF FreeTimer, At, peer
<1>10. CASE FreeTable \/ InLoop("driver")
  <2>1. "driver" \in Threads
    BY DEF Threads
  <2> QED
    BY <1>10, <2>1, FreeTableKeeps, LoopKeeps
<1>11. CASE AddbaAnswered
  <2>1. /\ amsdu' \in BOOLEAN /\ up' = {} /\ TypeOK
        /\ UNCHANGED <<open, timer, timer_is_set, broken, start_win, slot, rx_seq,
                       sent, pc, loop, rx, leaving, stale, cut>>
    BY <1>11 DEF AddbaAnswered, IInv, peer
  <2>2. TypeOK'
    BY <2>1 DEF TypeOK
  <2> QED
    BY <2>1, <2>2, SameKeeps
<1>12. CASE FlushData
  BY <1>12, FlushDataKeeps
<1>13. CASE UNCHANGED vars
  <2>1. /\ UNCHANGED <<open, timer, timer_is_set, broken, start_win, slot, pc, loop,
                       rx, stale, cut>>
    BY <1>13 DEF vars, table
  <2>2. TypeOK'
    BY <1>13 DEF IInv, TypeOK, vars, table, peer
  <2> QED
    BY <2>1, <2>2, SameKeeps
<1> QED
  BY <1>1, <1>2, <1>3, <1>4, <1>5, <1>6, <1>7, <1>8, <1>9, <1>10, <1>11, <1>12,
     <1>13 DEF Next, Driver

LEMMA Invariance == Spec => []IInv
<1>1. IInv /\ [Next]_vars => IInv'
  BY NextKeeps
<1> QED
  BY InitInv, <1>1, PTL DEF Spec

\* The variables have their types in every reachable state.
THEOREM TypeCorrect == Spec => []TypeOK
<1>1. IInv => TypeOK
  BY DEF IInv
<1> QED
  BY <1>1, Invariance, PTL

\* rx_reorder_ptr is never written outside its win_size entries by a packet,
\* for any window of two packets or more, whatever the timer does meanwhile.
THEOREM StoresInRange == Spec => []StoreInRange
<1>1. IInv => StoreInRange
  BY DEF IInv, RxOK, StoreInRange
<1> QED
  BY <1>1, Invariance, PTL

\* Each slot holds the packet of its place in the window whenever no thread
\* moves the slots down, also between the steps of a loop that takes packets
\* out, until a timer that flushes takes a packet or a window out of a
\* reception's hands, or a table is changed under the driver or the manager.
THEOREM SlotsHoldTheirPackets == Spec => []SlotsMatch
<1>1. IInv => SlotsMatch
  BY DEF IInv, Core
<1> QED
  BY <1>1, Invariance, PTL

\* A packet that is left in the table between two receptions has the flush timer
\* running, at every step of a deletion or a dispatch by the other threads that
\* nobody has written the table under.
THEOREM HeldPacketsTimed == Spec => []HeldIsTimed
<1>1. IInv => HeldIsTimed
  BY DEF IInv
<1> QED
  BY <1>1, Invariance, PTL
----------------------------------------------------------------------------
(* Nothing is lost *)

LostNothing ==
    ~cut' => /\ Held \subseteq Held' \cup up'
             /\ <<pc, slot>>' # <<pc, slot>> /\ ~stale' => up' \subseteq Held \ Held'

\* A step that hands nothing up and keeps what every slot holds.
LEMMA KeptLosesNothing ==
    ASSUME up' = {}, \A j \in Slots : slot[j] # None => slot[j] \in Held'
    PROVE  LostNothing
BY DEF LostNothing, Held

\* What is taken is in its slot, and places are all different: no other slot
\* holds it too.
LEMMA ClearLosesNothing == ASSUME IInv, NEW a \in Threads, ClearSlot(a)
                           PROVE  LostNothing
<1> DEFINE f == loop[a]
<1>1. /\ TypeOK /\ Local(a) /\ Runs(a) /\ pc[a] = "clear" /\ up' = {f.tmp}
      /\ pc[a] \in {"take", "clear"} /\ Touches(a) /\ stale' = stale
      /\ slot' = [slot EXCEPT ![f.i] = None]
  BY DEF IInv, Core, ClearSlot, At, NoneElse
<1>2. f.i \in Slots /\ f.tmp # None
  BY <1>1, FrameType, WindowAssumption DEF Local, FrameOK, Slots
<1>3. /\ slot'[f.i] = None /\ \A j \in Slots \ {f.i} : slot'[j] = slot[j]
  BY <1>1, <1>2 DEF TypeOK
<1>4. ~cut' => ~cut /\ Alone(a)
  BY <1>1, TouchesAlone DEF IInv, Alone, Shifting, Looping, Touches
<1>5. ~cut' => slot[f.i] = f.tmp \/ slot[f.i] = None
  BY <1>1, <1>4 DEF Local, Struct, Read
<1>6. ~cut' => Held \subseteq Held' \cup up'
  <2> SUFFICES ASSUME ~cut', NEW j \in Slots, slot[j] # None
               PROVE  slot[j] \in Held' \cup up'
    BY DEF Held
  <2>1. CASE j = f.i
    BY <1>1, <1>5, <2>1
  <2>2. CASE j # f.i
    BY <1>3, <2>2 DEF Held
  <2> QED
    BY <2>1, <2>2
<1>7. ASSUME ~cut', ~stale' PROVE f.tmp \in Held /\ f.tmp \notin Held'
  <2>1. slot[f.i] = f.tmp /\ Matched /\ start_win \in 0 .. M
    BY <1>1, <1>4, <1>7, Settled DEF Local, Exact, TypeOK
  <2>2. ASSUME NEW j \in Slots, slot'[j] = f.tmp PROVE FALSE
    <3>1. j # f.i /\ slot[j] = f.tmp
      BY <1>2, <1>3, <2>2
    <3>2. Mask(start_win + j) = Mask(start_win + f.i)
      BY <1>2, <2>1, <3>1 DEF Matched
    <3> QED
      BY <1>2, <2>1, <3>1, <3>2, PlacesDiffer
  <2> QED
    BY <1>2, <2>1, <2>2 DEF Held
<1> QED
  BY <1>1, <1>6, <1>7 DEF LostNothing

\* What is moved down goes to a slot that is empty, and leaves the other only
\* then.
LEMMA PutLosesNothing == ASSUME IInv, NEW a \in Threads, PutSlot(a)
                         PROVE  LostNothing
<1> DEFINE f == loop[a]
<1>1. /\ TypeOK /\ Local(a) /\ pc[a] = "put" /\ up' = {} /\ (~cut' => ~cut)
      /\ slot' = [slot EXCEPT ![f.i] = f.tmp]
  BY DEF IInv, Core, PutSlot, At, Touches
<1>2. /\ f.i \in Slots /\ f.i < f.count + f.i
  BY <1>1, FrameType, NoneOutside, WindowAssumption
     DEF Local, FrameOK, Shifting, Slots
<1>3. ~cut' => slot[f.i] = None
  BY <1>1, <1>2 DEF Local, Struct, Slots
<1>4. ~cut' => \A j \in Slots : slot[j] # None => slot'[j] = slot[j]
  BY <1>1, <1>3 DEF TypeOK
<1> QED
  BY <1>1, <1>4 DEF LostNothing, Held

LEMMA DropLosesNothing == ASSUME IInv, NEW a \in Threads, DropSlot(a)
                          PROVE  LostNothing
<1> DEFINE f == loop[a]
           k == f.count + f.i
<1>1. /\ TypeOK /\ Local(a) /\ pc[a] = "drop" /\ up' = {} /\ (~cut' => ~cut)
      /\ slot' = [slot EXCEPT ![k] = None]
  BY DEF IInv, Core, DropSlot, At, Touches
<1>2. f.i \in Slots /\ k \in Slots /\ f.i # k
  BY <1>1, FrameType, NoneOutside, WindowAssumption
     DEF Local, FrameOK, Shifting, Slots
<1>3. /\ slot'[f.i] = slot[f.i]
      /\ \A j \in Slots \ {k} : slot'[j] = slot[j]
  BY <1>1, <1>2 DEF TypeOK
<1>4. ~cut' => slot[k] = None \/ slot[k] = slot'[f.i]
  <2>1. ~cut' => /\ Read(a, k) /\ Read(a, f.i)
                 /\ slot[f.i] = None => slot[k] = None
    BY <1>1 DEF Local, Struct
  <2> QED
    BY <1>3, <2>1 DEF Read
<1>5. ~cut' => \A j \in Slots : slot[j] # None => slot[j] \in Held'
  BY <1>2, <1>3, <1>4 DEF Held
<1> QED
  BY <1>1, <1>5, KeptLosesNothing DEF LostNothing

LEMMA LoopLosesNothing == ASSUME IInv, NEW a \in Threads, InLoop(a)
                          PROVE  LostNothing
<1>1. CASE CountSlots(a) \/ SkipSlot(a) \/ TakeSlot(a) \/ LoadSlot(a) \/ SetWindow(a)
  <2>1. slot' = slot /\ up' = {}
    BY <1>1 DEF CountSlots, SkipSlot, TakeSlot, LoadSlot, SetWindow, OnlyReads
  <2> QED
    BY <2>1 DEF LostNothing, Held
<1> QED
  BY <1>1, ClearLosesNothing, PutLosesNothing, DropLosesNothing DEF InLoop

\* The table is empty when it is freed, if nobody wrote it since its dispatch.
LEMMA StepLosesNothing == ASSUME IInv, Next PROVE LostNothing
<1>1. ASSUME NEW n \in Packets, NEW kind \in Kinds, ReceiveDirect(n, kind)
      PROVE  LostNothing
  BY <1>1 DEF ReceiveDirect, LostNothing, Held
<1>2. CASE InLoop("rx") \/ InLoop("driver") \/ InLoop("manager")
  BY <1>2, LoopLosesNothing DEF Threads
<1>3. CASE Store
  <2>1. up' = {} /\ TypeOK /\ slot' = [slot EXCEPT ![Index] = rx.n]
        /\ slot[Index] = None
    BY <1>3 DEF Store, IInv
  <2>2. \A j \in Slots : slot[j] # None => slot'[j] = slot[j]
    BY <2>1 DEF TypeOK
  <2> QED
    BY <2>1, <2>2 DEF LostNothing, Held
<1>4. CASE CreateTable
  <2>1. Held = {} /\ up' = {}
    BY <1>4 DEF CreateTable, At, IInv, Opens, Vacant, Held
  <2> QED
    BY <2>1 DEF LostNothing
<1>5. CASE FreeTable
  <2>1. up' = {} /\ (~cut' => ~cut) /\ pc["driver"] = "unlink" /\ Local("driver")
    BY <1>5 DEF FreeTable, At, Touches, IInv, Core, Threads
  <2>2. ~cut' => Held = {}
    BY <2>1 DEF Local, Empties, Vacant, Held
  <2> QED
    BY <2>1, <2>2 DEF LostNothing
<1>6. CASE FlushData
  BY <1>6, FlushFacts DEF LostNothing, IInv
<1>7. CASE \/ \E n \in Packets, kind \in Kinds : Receive(n, kind)
           \/ AcceptBar \/ DropDuplicate \/ Finish \/ AddbaAnswered \/ CleanUp
           \/ Wipe \/ StopTimer \/ FreeTimer \/ AdvanceWindow
  <2>1. slot' = slot /\ up' = {}
    BY <1>7 DEF Receive, AcceptBar, DropDuplicate, Finish, AddbaAnswered, CleanUp,
                Wipe, StopTimer, FreeTimer, AdvanceWindow
  <2> QED
    BY <2>1 DEF LostNothing, Held
<1>8. CASE SumWindow \/ Ask(SeqNo(sent)) \/ DeleteTable \/ PeekTable \/ PeekNone
  <2>1. slot' = slot /\ up' = {}
    BY <1>8 DEF SumWindow, Ask, DeleteTable, PeekTable, PeekNone, OnlyReads
  <2> QED
    BY <2>1 DEF LostNothing, Held
<1> QED
  BY <1>1, <1>2, <1>3, <1>4, <1>5, <1>6, <1>7, <1>8
     DEF Next, Reception, Manager, Driver

\* No step of a loop, a deletion or the timer loses a packet that is held, or
\* hands up one that it keeps or that is not there, at every grain of the loops.
THEOREM LosesNothing == Spec => NothingLost
<1>1. IInv /\ [Next]_vars => [LostNothing]_vars
  BY StepLosesNothing
<1>2. LostNothing <=>
        (~cut' => /\ Held \subseteq Held' \cup up'
                  /\ <<pc, slot>>' # <<pc, slot>> /\ ~stale' =>
                         up' \subseteq Held \ Held')
  BY DEF LostNothing
<1> QED
  BY <1>1, <1>2, Invariance, PTL DEF Spec, NothingLost
=============================================================================
