-------------------------- MODULE EventFlagsProofs --------------------------
(***************************************************************************)
(* Proofs about EventFlags, for any number of tasks, flags and blocks of   *)
(* memory.                                                                 *)
(*                                                                         *)
(* Until the list is damaged it is a chain: there is an order s[1 .. n] of *)
(* the nodes in use along which every next and prev points.  What is met   *)
(* when the list is walked is defined by recursion; that the walk of a     *)
(* chain is its order is proved by induction over the position, with the   *)
(* least element of a set of naturals (LeastElement) as the principle.     *)
(***************************************************************************)
EXTENDS EventFlags, FiniteSetTheorems, TLAPS

Node == [next : Blocks \cup {Null}, prev : Blocks \cup {Null},
         mask : SUBSET Flags, sem : BOOLEAN]
----------------------------------------------------------------------------
(* Induction over the naturals, in terms of sets                           *)

LEMMA LeastElement ==
    ASSUME NEW S \in SUBSET Nat, S # {}
    PROVE  \E n \in S : \A m \in S : n <= m
<1> DEFINE R == StrictSubsetOrdering(Nat)
           T == {0 .. n : n \in S}
<1>1. \E x \in T : \A y \in T : ~(<<y, x>> \in R)
  <2>1. IsWellFoundedOn(R, FiniteSubsetsOf(Nat))
    BY FS_StrictSubsetOrderingWellFounded
  <2>2. T \subseteq FiniteSubsetsOf(Nat)
    <3>1. \A n \in Nat : IsFiniteSet(0 .. n) /\ 0 .. n \subseteq Nat
      BY FS_Interval
    <3> QED
      BY <3>1 DEF FiniteSubsetsOf
  <2>3. T # {}
    OBVIOUS
  <2> HIDE DEF R, T
  <2> QED
    BY <2>1, <2>2, <2>3, WFMin
<1>2. PICK n \in S : \A m \in S : ~(<<0 .. m, 0 .. n>> \in R)
  BY <1>1
<1>3. \A m \in S : m < n => <<0 .. m, 0 .. n>> \in R
  <2> SUFFICES ASSUME NEW m \in S, m < n PROVE <<0 .. m, 0 .. n>> \in R
    OBVIOUS
  <2>1. 0 .. m \in SUBSET Nat /\ 0 .. n \in SUBSET Nat
    OBVIOUS
  <2>2. n \in 0 .. n /\ n \notin 0 .. m
    OBVIOUS
  <2> QED
    BY <2>1, <2>2 DEF StrictSubsetOrdering
<1>4. \A m \in S : m \in Nat /\ n \in Nat /\ ~(m < n)
  <2> HIDE DEF R
  <2> QED
    BY <1>2, <1>3
<1> HIDE DEF R, T
<1> QED
  BY <1>4

LEMMA SetInduction ==
    ASSUME NEW S, NEW n \in Nat, 0 \in S, \A i \in 0 .. n - 1 : i \in S => i + 1 \in S
    PROVE  0 .. n \subseteq S
<1> SUFFICES ASSUME ~(0 .. n \subseteq S) PROVE FALSE
  OBVIOUS
<1> DEFINE T == (0 .. n) \ S
<1>1. T \in SUBSET Nat /\ T # {}
  OBVIOUS
<1>2. PICK m \in T : \A k \in T : m <= k
  <2> HIDE DEF T
  <2> QED
    BY <1>1, LeastElement
<1>3. m # 0 /\ m - 1 \in 0 .. n - 1 /\ m - 1 \notin T
  BY <1>2
<1> QED
  BY <1>2, <1>3
----------------------------------------------------------------------------
(* Following a list that is a chain                                        *)

\* The list is s[1], ..., s[n], both ways.
Links(n, s) ==
    /\ \A i, j \in 1 .. n : s[i] = s[j] => i = j
    /\ used = {s[i] : i \in 1 .. n}
    /\ list = IF n = 0 THEN Null ELSE s[1]
    /\ \A i \in 1 .. n :
          /\ mem[s[i]].next = IF i = n THEN Null ELSE s[i + 1]
          /\ mem[s[i]].prev = IF i = 1 THEN Null ELSE s[i - 1]

Chained == \E n \in Nat : \E s \in [1 .. n -> Blocks] : Links(n, s)

LEMMA ChainFits ==
    ASSUME NEW n \in Nat, NEW s \in [1 .. n -> Blocks], Links(n, s)
    PROVE  Cardinality(Blocks) \in Nat /\ n <= Cardinality(Blocks)
<1>1. Cardinality(Blocks) \in Nat
  BY FS_CardinalityType, TasksAssumption
<1>2. s \in Injection(1 .. n, Blocks)
  BY DEF Links, Injection, IsInjective
<1>3. Cardinality(1 .. n) <= Cardinality(Blocks)
  BY <1>2, FS_Injection, TasksAssumption
<1> QED
  BY <1>1, <1>3, FS_Interval

\* What the definition of Walk asks of a function, up to a position.
FollowsTo(f, last) ==
    f = [i \in 0 .. last |->
            IF i = 0 THEN list
            ELSE IF f[i - 1] = Null THEN Null ELSE mem[f[i - 1]].next]

\* There is one function it asks for: Walk obeys its recursive definition.
LEMMA WalkFollows ==
    Cardinality(Blocks) \in Nat /\ FollowsTo(Walk, Cardinality(Blocks))
<1> DEFINE N == Cardinality(Blocks)
           S == {n \in 0 .. N : \E f : FollowsTo(f, n)}
<1>1. N \in Nat
  BY FS_CardinalityType, TasksAssumption
<1>2. 0 \in S
  <2> DEFINE f == [i \in 0 .. 0 |-> list]
  <2>1. FollowsTo(f, 0)
    BY DEF FollowsTo
  <2> QED
    BY <1>1, <2>1
<1>3. ASSUME NEW n \in 0 .. N - 1, n \in S PROVE n + 1 \in S
  <2>1. PICK f : FollowsTo(f, n)
    BY <1>3
  <2>2. n \in Nat /\ n + 1 \in 0 .. N
    BY <1>1
  <2> DEFINE g == [i \in 0 .. n + 1 |->
                      IF i <= n THEN f[i]
                      ELSE IF f[n] = Null THEN Null ELSE mem[f[n]].next]
  <2>3. ASSUME NEW i \in 0 .. n + 1
        PROVE  g[i] = IF i = 0 THEN list
                      ELSE IF g[i - 1] = Null THEN Null ELSE mem[g[i - 1]].next
    <3>1. CASE i = 0
      BY <2>1, <2>2, <3>1 DEF FollowsTo
    <3>2. CASE i \in 1 .. n
      <4>1. i \in 0 .. n /\ i # 0 /\ i - 1 \in 0 .. n + 1 /\ i - 1 <= n /\ i <= n
        BY <2>2, <3>2
      <4>2. g[i] = f[i] /\ g[i - 1] = f[i - 1]
        BY <4>1
      <4>3. f[i] = IF f[i - 1] = Null THEN Null ELSE mem[f[i - 1]].next
        BY <2>1, <4>1 DEF FollowsTo
      <4> HIDE DEF g
      <4> QED
        BY <4>1, <4>2, <4>3
    <3>3. CASE i = n + 1
      <4>1. i # 0 /\ i - 1 = n /\ ~(i <= n) /\ n \in 0 .. n + 1
        BY <2>2, <3>3
      <4>2. g[i - 1] = f[n] /\ g[i] = IF f[n] = Null THEN Null ELSE mem[f[n]].next
        BY <2>2, <4>1
      <4> HIDE DEF g
      <4> QED
        BY <4>1, <4>2
    <3> QED
      BY <2>2, <3>1, <3>2, <3>3
  <2>4. FollowsTo(g, n + 1)
    BY <2>3 DEF FollowsTo
  <2> QED
    BY <2>2, <2>4
<1>4. N \in S
  <2> HIDE DEF S
  <2>1. 0 .. N \subseteq S
    BY <1>1, <1>2, <1>3, SetInduction
  <2> QED
    BY <1>1, <2>1
<1>5. Walk = CHOOSE f : FollowsTo(f, N)
  BY DEF Walk, FollowsTo
<1> QED
  BY <1>1, <1>4, <1>5

LEMMA WalkSteps ==
    /\ Cardinality(Blocks) \in Nat
    /\ DOMAIN Walk = 0 .. Cardinality(Blocks)
    /\ Walk[0] = list
    /\ \A i \in 0 .. Cardinality(Blocks) - 1 :
          Walk[i + 1] = IF Walk[i] = Null THEN Null ELSE mem[Walk[i]].next
<1> DEFINE N == Cardinality(Blocks)
<1>1. N \in Nat /\ FollowsTo(Walk, N)
  BY WalkFollows
<1> HIDE DEF N
<1>2. DOMAIN Walk = 0 .. N
  BY <1>1 DEF FollowsTo
<1>3. Walk[0] = list
  <2>1. 0 \in 0 .. N
    BY <1>1
  <2> QED
    BY <1>1, <2>1 DEF FollowsTo
<1>4. ASSUME NEW i \in 0 .. N - 1
      PROVE  Walk[i + 1] = IF Walk[i] = Null THEN Null ELSE mem[Walk[i]].next
  <2>1. i + 1 \in 0 .. N /\ (i + 1) - 1 = i /\ i + 1 # 0
    BY <1>1
  <2> QED
    BY <1>1, <2>1 DEF FollowsTo
<1> QED
  BY <1>1, <1>2, <1>3, <1>4 DEF N

LEMMA WalkType ==
    ASSUME TypeOK
    PROVE  /\ \A i \in 0 .. Cardinality(Blocks) : Walk[i] \in Blocks \cup {Null}
           /\ Met \subseteq Blocks
<1> DEFINE N == Cardinality(Blocks)
           S == {i \in 0 .. N : Walk[i] \in Blocks \cup {Null}}
<1>1. 0 \in S
  BY WalkSteps DEF TypeOK
<1>2. ASSUME NEW i \in 0 .. N - 1, i \in S PROVE i + 1 \in S
  <2>1. i + 1 \in 0 .. N
    BY WalkSteps
  <2>2. Walk[i] # Null => mem[Walk[i]].next \in Blocks \cup {Null}
    BY <1>2 DEF TypeOK
  <2> QED
    BY <2>1, <2>2, WalkSteps
<1>3. 0 .. N \subseteq S
  <2> HIDE DEF S
  <2> QED
    BY <1>1, <1>2, WalkSteps, SetInduction
<1> QED
  BY <1>3, WalkSteps DEF Met

\* A list that ends has a last node.
LEMMA LastMet ==
    ASSUME TypeOK, list # Null, ~Endless
    PROVE  \E c \in Met : mem[c].next = Null
<1> DEFINE N == Cardinality(Blocks)
           S == {i \in 0 .. N : Walk[i] = Null}
<1>1. S \in SUBSET Nat /\ N \in S
  BY WalkSteps DEF Endless
<1>2. PICK m \in S : \A i \in S : m <= i
  <2> HIDE DEF S
  <2> QED
    BY <1>1, LeastElement
<1>3. m - 1 \in 0 .. N - 1 /\ m - 1 \in 0 .. N /\ (m - 1) + 1 = m
  <2>1. m # 0
    BY <1>2, WalkSteps
  <2> QED
    BY <1>2, <2>1, WalkSteps
<1>4. Walk[m - 1] # Null
  BY <1>2, <1>3
<1>5. mem[Walk[m - 1]].next = Null
  <2>1. Walk[m] = Null
    BY <1>2
  <2> QED
    BY <1>3, <1>4, <2>1, WalkSteps
<1>6. Walk[m - 1] \in Met
  BY <1>3, <1>4, WalkSteps DEF Met
<1> QED
  BY <1>5, <1>6

LEMMA WalkOfChain ==
    ASSUME NEW n \in Nat, NEW s \in [1 .. n -> Blocks], Links(n, s)
    PROVE  \A i \in 0 .. Cardinality(Blocks) : Walk[i] = IF i < n THEN s[i + 1] ELSE Null
<1> DEFINE N == Cardinality(Blocks)
           S == {i \in 0 .. N : Walk[i] = IF i < n THEN s[i + 1] ELSE Null}
<1>1. N \in Nat /\ n <= N
  BY ChainFits
<1>2. 0 \in S
  BY <1>1, WalkSteps DEF Links
<1>3. ASSUME NEW i \in 0 .. N - 1, i \in S PROVE i + 1 \in S
  <2>1. i + 1 \in 0 .. N
    BY <1>1
  <2>2. Walk[i + 1] = IF Walk[i] = Null THEN Null ELSE mem[Walk[i]].next
    BY WalkSteps
  <2>3. CASE i < n
    <3>1. i + 1 \in 1 .. n /\ Walk[i] = s[i + 1]
      BY <1>1, <1>3, <2>3
    <3>2. s[i + 1] # Null
      BY <3>1, TasksAssumption
    <3>3. mem[s[i + 1]].next = IF i + 1 = n THEN Null ELSE s[(i + 1) + 1]
      BY <3>1 DEF Links
    <3> QED
      BY <1>1, <2>1, <2>2, <3>1, <3>2, <3>3
  <2>4. CASE ~(i < n)
    BY <1>1, <1>3, <2>1, <2>2, <2>4
  <2> QED
    BY <2>3, <2>4
<1>4. 0 .. N \subseteq S
  <2> HIDE DEF S
  <2> QED
    BY <1>1, <1>2, <1>3, SetInduction
<1> QED
  BY <1>4

\* Who walks a chain meets the nodes in use, and comes to its end.
LEMMA ChainSound ==
    ASSUME TypeOK, Chained
    PROVE  /\ Met = used /\ ~Endless /\ ~Stale
           /\ list # Null => list \in used /\ mem[list].prev = Null
           /\ \A b \in Met : mem[b].next # Null => mem[mem[b].next].prev = b
<1>0. PICK n \in Nat : \E s \in [1 .. n -> Blocks] : Links(n, s)
  BY DEF Chained
<1>1. PICK s \in [1 .. n -> Blocks] : Links(n, s)
  BY <1>0
<1> DEFINE N == Cardinality(Blocks)
<1>2. N \in Nat /\ n <= N
  BY <1>1, ChainFits
<1>3. DOMAIN Walk = 0 .. N /\ \A i \in 0 .. N : Walk[i] = IF i < n THEN s[i + 1] ELSE Null
  BY <1>1, WalkOfChain, WalkSteps
<1>4. \A i \in 1 .. n : s[i] # Null
  BY TasksAssumption
<1>5. Met = used
  <2>1. Met = {Walk[i] : i \in 0 .. N} \ {Null}
    BY <1>3 DEF Met
  <2>2. used = {s[i] : i \in 1 .. n}
    BY <1>1 DEF Links
  <2>3. ASSUME NEW i \in 0 .. N, Walk[i] # Null PROVE Walk[i] \in used
    BY <1>2, <1>3, <2>2, <2>3
  <2>4. ASSUME NEW i \in 1 .. n PROVE s[i] \in Met
    <3>1. i - 1 \in 0 .. N /\ Walk[i - 1] = s[i]
      BY <1>2, <1>3
    <3> QED
      BY <1>4, <2>1, <3>1
  <2> QED
    BY <2>1, <2>2, <2>3, <2>4
<1>6. ~Endless
  BY <1>2, <1>3 DEF Endless
<1>7. list # Null => list \in used /\ mem[list].prev = Null
  BY <1>1 DEF Links
<1>8. ASSUME NEW b \in used, mem[b].next # Null PROVE mem[mem[b].next].prev = b
  <2>1. PICK i \in 1 .. n : b = s[i]
    BY <1>1 DEF Links
  <2>2. i + 1 \in 1 .. n /\ mem[b].next = s[i + 1]
    BY <1>1, <1>8, <2>1 DEF Links
  <2> QED
    BY <1>1, <2>1, <2>2 DEF Links
<1> QED
  BY <1>5, <1>6, <1>7, <1>8 DEF Stale
----------------------------------------------------------------------------
(* Types                                                                   *)

\* What an event_flags call does to the memory of the other nodes.
KeepsLinks(c) == mem'[c].next = mem[c].next /\ mem'[c].prev = mem[c].prev
KeepsRequest(c) == mem'[c].mask = mem[c].mask /\ mem'[c].sem = mem[c].sem

LEMMA RemoveNodeEffect ==
    ASSUME TypeOK, NEW b \in Blocks, RemoveNode(b)
    PROVE  /\ mem' \in [Blocks -> Node] /\ list' \in Blocks \cup {Null}
           /\ used' = used \ {b}
           /\ damaged' = (damaged \/ list' = b)
           /\ list' = IF mem[b].next = Null /\ mem[b].prev = Null THEN Null ELSE list
           /\ \A c \in Blocks \ {b} :
                 /\ mem'[c].next = IF c = mem[b].prev THEN mem[b].next ELSE mem[c].next
                 /\ mem'[c].prev = IF c = mem[b].next THEN mem[b].prev ELSE mem[c].prev
                 /\ KeepsRequest(c)
<1> DEFINE next == mem[b].next
           prev == mem[b].prev
<1>1. mem \in [Blocks -> Node]
  BY DEF TypeOK, Node
<1>2. next \in Blocks \cup {Null} /\ prev \in Blocks \cup {Null}
  BY <1>1 DEF Node
<1>3. mem' = [c \in Blocks |-> IF c = b THEN Zeroed ELSE [mem[c] EXCEPT
                 !.next = IF c = prev THEN next ELSE @,
                 !.prev = IF c = next THEN prev ELSE @]]
  BY DEF RemoveNode
<1>4. Zeroed \in Node
  BY DEF Zeroed, Node
<1> HIDE DEF next, prev
<1>5. ASSUME NEW c \in Blocks \ {b}
      PROVE  /\ mem'[c] \in Node
             /\ mem'[c].next = IF c = prev THEN next ELSE mem[c].next
             /\ mem'[c].prev = IF c = next THEN prev ELSE mem[c].prev
             /\ KeepsRequest(c)
  <2>1. mem'[c] = [mem[c] EXCEPT !.next = IF c = prev THEN next ELSE @,
                                 !.prev = IF c = next THEN prev ELSE @]
    BY <1>3
  <2>2. mem[c] \in Node
    BY <1>1
  <2> QED
    BY <1>2, <2>1, <2>2 DEF Node, KeepsRequest
<1>6. mem' \in [Blocks -> Node]
  BY <1>3, <1>4, <1>5
<1>7. list' \in Blocks \cup {Null}
  BY DEF RemoveNode, TypeOK
<1> QED
  BY <1>5, <1>6, <1>7 DEF RemoveNode, next, prev

\* The call returns: its node, if it has one, is removed.
LEMMA ReturnEffect ==
    ASSUME TypeOK, NEW t \in Tasks, Return(t)
    PROVE  /\ pc' = [pc EXCEPT ![t] = "out"]
           /\ call' = [call EXCEPT ![t] = NoCall]
           /\ tmp' = [tmp EXCEPT ![t] = Null]
           /\ \/ tmp[t] = Null /\ UNCHANGED heap
              \/ tmp[t] \in Blocks /\ RemoveNode(tmp[t])
BY DEF Return, Goto, TypeOK

LEMMA WokenEffect ==
    ASSUME TypeOK, NEW masks, mem' = Woken(masks)
    PROVE  /\ mem' \in [Blocks -> Node]
           /\ \A c \in Blocks : KeepsLinks(c) /\ mem'[c].mask = mem[c].mask
           /\ \A c \in Blocks : mem'[c].sem = (mem[c].sem \/ (c \in Met /\ mem[c].mask \in masks))
<1>1. mem \in [Blocks -> Node]
  BY DEF TypeOK, Node
<1>2. ASSUME NEW c \in Blocks
      PROVE  /\ mem'[c] \in Node
             /\ KeepsLinks(c) /\ mem'[c].mask = mem[c].mask
             /\ mem'[c].sem = (mem[c].sem \/ (c \in Met /\ mem[c].mask \in masks))
  <2>1. mem[c] \in Node
    BY <1>1
  <2>2. mem'[c] = IF c \in Met /\ mem[c].mask \in masks
                  THEN [mem[c] EXCEPT !.sem = TRUE] ELSE mem[c]
    BY DEF Woken
  <2>3. CASE c \in Met /\ mem[c].mask \in masks
    BY <2>1, <2>2, <2>3 DEF Node, KeepsLinks
  <2>4. CASE ~(c \in Met /\ mem[c].mask \in masks)
    BY <2>1, <2>2, <2>4 DEF Node, KeepsLinks
  <2> QED
    BY <2>3, <2>4
<1>3. mem' = [c \in Blocks |-> mem'[c]]
  BY DEF Woken
<1> QED
  BY <1>2, <1>3

LEMMA WakeEffect ==
    ASSUME TypeOK, NEW t \in Tasks, tmp[t] # Null, Wake(t)
    PROVE  /\ mem' \in [Blocks -> Node]
           /\ \A c \in Blocks : KeepsLinks(c) /\ mem'[c].mask = mem[c].mask
           /\ \A c \in Blocks \ {tmp[t]} : KeepsRequest(c)
<1>1. mem \in [Blocks -> Node] /\ tmp[t] \in Blocks
  BY DEF TypeOK, Node
<1>2. mem' = [mem EXCEPT ![tmp[t]] = [mem[tmp[t]] EXCEPT !.sem = FALSE]]
  BY DEF Wake
<1>3. [mem[tmp[t]] EXCEPT !.sem = FALSE] \in Node
  BY <1>1 DEF Node
<1> QED
  BY <1>1, <1>2, <1>3 DEF Node, KeepsLinks, KeepsRequest

\* The new node b is linked in behind the last one.
LEMMA EnqueueEffect ==
    ASSUME TypeOK, NEW t \in Tasks, Enqueue(t)
    PROVE  \E b \in Blocks \ used :
              /\ used' = used \cup {b}
              /\ tmp' = [tmp EXCEPT ![t] = b]
              /\ mem' \in [Blocks -> Node]
              /\ mem'[b].mask = call[t].mask /\ mem'[b].sem = FALSE
              /\ \A c \in Blocks \ {b} : KeepsRequest(c)
              /\ \/ /\ list = Null /\ list' = b
                    /\ mem'[b].next = Null /\ mem'[b].prev = Null
                    /\ \A c \in Blocks \ {b} : KeepsLinks(c)
                 \/ list = b /\ list' = list
                 \/ list # Null /\ list' = list /\ (Stale \/ Endless)
                 \/ /\ list # Null /\ list' = list
                    /\ \E last \in Met :
                          /\ last # b /\ mem[last].next = Null
                          /\ mem'[b].next = Null /\ mem'[b].prev = last
                          /\ mem'[last].next = b /\ mem'[last].prev = mem[last].prev
                          /\ \A c \in Blocks \ {b, last} : KeepsLinks(c)
<1>1. mem \in [Blocks -> Node] /\ call[t].mask \in SUBSET Flags
  BY DEF TypeOK, Node
<1>2. PICK b \in Blocks \ used :
          LET node == [Zeroed EXCEPT !.mask = call[t].mask]
              fresh == [mem EXCEPT ![b] = node]
              last == CHOOSE c \in Met : fresh[c].next = Null
          IN  /\ used' = used \cup {b}
              /\ tmp' = [tmp EXCEPT ![t] = b]
              /\ IF list = Null
                 THEN list' = b /\ mem' = fresh /\ system' = "ok"
                 ELSE IF list = b
                 THEN /\ mem' = [mem EXCEPT ![b] = [node EXCEPT !.next = b, !.prev = b]]
                      /\ UNCHANGED <<list, system>>
                 ELSE /\ AfterWalk
                      /\ mem' = IF Stale \/ Endless THEN fresh
                                ELSE [fresh EXCEPT ![last].next = b, ![b].prev = last]
                      /\ UNCHANGED list
  BY DEF Enqueue
<1> DEFINE node == [Zeroed EXCEPT !.mask = call[t].mask]
           fresh == [mem EXCEPT ![b] = node]
           last == CHOOSE c \in Met : fresh[c].next = Null
<1>3. /\ node \in Node /\ node.next = Null /\ node.prev = Null
      /\ node.mask = call[t].mask /\ node.sem = FALSE
  BY <1>1 DEF Zeroed, Node
<1>4. /\ fresh \in [Blocks -> Node] /\ fresh[b] = node
      /\ \A c \in Blocks \ {b} : fresh[c] = mem[c]
  <2> HIDE DEF node
  <2> QED
    BY <1>1, <1>3
<1>5. CASE list = Null
  <2>1. mem' = fresh /\ list' = b
    BY <1>2, <1>5
  <2> HIDE DEF fresh, node
  <2> QED
    BY <1>2, <1>3, <1>4, <1>5, <2>1 DEF KeepsRequest, KeepsLinks
<1>6. CASE list # Null /\ list = b
  <2> DEFINE tied == [node EXCEPT !.next = b, !.prev = b]
  <2>1. mem' = [mem EXCEPT ![b] = tied] /\ list' = list
    BY <1>2, <1>6
  <2>2. tied \in Node /\ tied.mask = call[t].mask /\ tied.sem = FALSE
    BY <1>3 DEF Node
  <2> HIDE DEF tied, node, fresh
  <2>3. mem' \in [Blocks -> Node] /\ mem'[b] = tied /\ \A c \in Blocks \ {b} : mem'[c] = mem[c]
    BY <1>1, <2>1, <2>2
  <2> QED
    BY <1>2, <1>6, <2>1, <2>2, <2>3 DEF KeepsRequest
<1>7. CASE list # Null /\ list # b /\ (Stale \/ Endless)
  <2>1. mem' = fresh /\ list' = list
    BY <1>2, <1>7
  <2> HIDE DEF fresh, node
  <2> QED
    BY <1>2, <1>3, <1>4, <1>7, <2>1 DEF KeepsRequest
<1>8. CASE list # Null /\ list # b /\ ~Stale /\ ~Endless
  <2>1. mem' = [fresh EXCEPT ![last].next = b, ![b].prev = last] /\ list' = list
    BY <1>2, <1>8
  <2> HIDE DEF fresh, node
  <2>2. \A c \in Met : c # b /\ c \in Blocks
    BY <1>2, <1>8, WalkType DEF Stale
  <2>3. \E c \in Met : fresh[c].next = Null
    BY <1>4, <1>8, <2>2, LastMet
  <2>4. last \in Met /\ fresh[last].next = Null
    BY <2>3
  <2> HIDE DEF last
  <2>5. last \in Blocks \ {b} /\ fresh[last] = mem[last]
    BY <1>4, <2>2, <2>4
  <2> DEFINE tail == [fresh[last] EXCEPT !.next = b]
             head == [fresh[b] EXCEPT !.prev = last]
  <2>6. mem' = [fresh EXCEPT ![last] = tail, ![b] = head]
    BY <1>4, <2>1, <2>5
  <2>7. /\ tail \in Node /\ tail.next = b /\ tail.prev = mem[last].prev
        /\ tail.mask = mem[last].mask /\ tail.sem = mem[last].sem
    BY <1>1, <2>5 DEF Node
  <2>8. /\ head \in Node /\ head.next = Null /\ head.prev = last
        /\ head.mask = call[t].mask /\ head.sem = FALSE
    BY <1>3, <1>4, <2>5 DEF Node
  <2> HIDE DEF tail, head
  <2>9. /\ mem' \in [Blocks -> Node] /\ mem'[last] = tail /\ mem'[b] = head
        /\ \A c \in Blocks \ {b, last} : mem'[c] = mem[c]
    BY <1>4, <2>5, <2>6, <2>7, <2>8
  <2>10. \A c \in Blocks \ {b} : KeepsRequest(c)
    BY <2>7, <2>9 DEF KeepsRequest
  <2>11. \A c \in Blocks \ {b, last} : KeepsLinks(c)
    BY <2>9 DEF KeepsLinks
  <2>12. mem[last].next = Null
    BY <2>4, <2>5
  <2>13. used' = used \cup {b} /\ tmp' = [tmp EXCEPT ![t] = b]
    BY <1>2
  <2>14. \E l \in Met :
            /\ l # b /\ mem[l].next = Null
            /\ mem'[b].next = Null /\ mem'[b].prev = l
            /\ mem'[l].next = b /\ mem'[l].prev = mem[l].prev
            /\ \A c \in Blocks \ {b, l} : KeepsLinks(c)
    BY <2>4, <2>5, <2>7, <2>8, <2>9, <2>11, <2>12
  <2>15. mem'[b].mask = call[t].mask /\ mem'[b].sem = FALSE
    BY <2>8, <2>9
  <2> QED
    BY <1>8, <2>1, <2>9, <2>10, <2>13, <2>14, <2>15
<1> QED
  BY <1>5, <1>6, <1>7, <1>8

\* A task that is in a call has its node, a task that is not has none.
OwnInv ==
    /\ \A t \in Tasks : tmp[t] # Null => tmp[t] \in used
    /\ \A t, u \in Tasks : tmp[t] = tmp[u] /\ tmp[t] # Null => t = u
    /\ \A b \in used : \E t \in Tasks : tmp[t] = b
    /\ \A t \in Tasks : pc[t] = "out" => tmp[t] = Null
    /\ \A t \in Tasks : pc[t] \in {"wait", "woken", "quit"} => tmp[t] # Null

\* A call that returns leaves everything typed.
LEMMA ReturnType ==
    ASSUME TypeOK, NEW t \in Tasks, Return(t), flags' \subseteq Flags,
           UNCHANGED <<deleting, delete, system>>
    PROVE  TypeOK'
<1>1. mem' \in [Blocks -> Node] /\ list' \in Blocks \cup {Null} /\ used' \subseteq Blocks
      /\ damaged' \in BOOLEAN
  <2>1. CASE UNCHANGED heap
    BY <2>1 DEF TypeOK, Node, heap
  <2>2. CASE tmp[t] \in Blocks /\ RemoveNode(tmp[t])
    BY <2>2, RemoveNodeEffect DEF TypeOK
  <2> QED
    BY <2>1, <2>2, ReturnEffect
<1>2. pc' \in [Tasks -> PCs] /\ tmp' \in [Tasks -> Blocks \cup {Null}]
  BY ReturnEffect DEF TypeOK, PCs
<1>3. NoCall \in [mask : SUBSET Flags, wait : BOOLEAN, option : Options \cup {"OR"}]
  BY DEF NoCall
<1>4. call' \in [Tasks -> [mask : SUBSET Flags, wait : BOOLEAN, option : Options \cup {"OR"}]]
  BY <1>3, ReturnEffect DEF TypeOK
<1> QED
  BY <1>1, <1>2, <1>4 DEF TypeOK, Node, delete

LEMMA GetType ==
    ASSUME TypeOK, NEW t \in Tasks, NEW mask \in SUBSET Flags, NEW option \in Options,
           NEW wait \in BOOLEAN, Get(t, mask, option, wait)
    PROVE  TypeOK'
<1>1. [mask |-> mask, option |-> option, wait |-> wait]
          \in [mask : SUBSET Flags, wait : BOOLEAN, option : Options \cup {"OR"}]
  OBVIOUS
<1>2. call' \in [Tasks -> [mask : SUBSET Flags, wait : BOOLEAN, option : Options \cup {"OR"}]]
  BY <1>1 DEF Get, TypeOK
<1>3. pc' \in [Tasks -> PCs]
  BY DEF Get, TypeOK, Goto, PCs
<1> QED
  BY <1>2, <1>3 DEF Get, TypeOK, group, heap, delete

LEMMA InGetType ==
    ASSUME TypeOK, OwnInv, NEW t \in Tasks, InGet(t) \/ TimeOut(t)
    PROVE  TypeOK'
<1>1. CASE Succeed(t)
  <2>1. flags' \subseteq Flags
    BY <1>1 DEF Succeed, TypeOK
  <2> QED
    BY <1>1, <2>1, ReturnType DEF Succeed
<1>2. CASE GiveUp(t) \/ Quit(t)
  <2>1. flags' \subseteq Flags
    BY <1>2 DEF GiveUp, Quit, TypeOK, group
  <2> QED
    BY <1>2, <2>1, ReturnType DEF GiveUp, Quit, group
<1>3. CASE Enqueue(t)
  <2>1. PICK b \in Blocks \ used :
            /\ used' = used \cup {b} /\ tmp' = [tmp EXCEPT ![t] = b]
            /\ mem' \in [Blocks -> Node] /\ list' \in {list, b}
    BY <1>3, EnqueueEffect
  <2>2. pc' \in [Tasks -> PCs]
    BY <1>3 DEF Enqueue, Goto, TypeOK, PCs
  <2>3. system' \in {"ok", "spins", "undefined"}
    BY <1>3 DEF Enqueue, AfterWalk, TypeOK
  <2>4. tmp' \in [Tasks -> Blocks \cup {Null}] /\ used' \subseteq Blocks /\ list' \in Blocks \cup {Null}
    BY <2>1 DEF TypeOK
  <2> QED
    BY <1>3, <2>1, <2>2, <2>3, <2>4 DEF Enqueue, TypeOK, Node, group, delete
<1>4. CASE Wake(t)
  <2>1. tmp[t] # Null
    BY <1>4 DEF Wake, OwnInv
  <2>2. mem' \in [Blocks -> Node]
    BY <1>4, <2>1, WakeEffect
  <2>3. pc' \in [Tasks -> PCs]
    BY <1>4 DEF Wake, Goto, TypeOK, PCs
  <2> QED
    BY <1>4, <2>2, <2>3 DEF Wake, TypeOK, Node, group, delete
<1>5. CASE WaitAgain(t) \/ TimeOut(t) \/ Look(t)
  <2>1. pc' \in [Tasks -> PCs]
    BY <1>5 DEF WaitAgain, TimeOut, Look, Goto, TypeOK, PCs
  <2> QED
    BY <1>5, <2>1 DEF WaitAgain, TimeOut, Look, TypeOK, group, heap, delete
<1> QED
  BY <1>1, <1>2, <1>3, <1>4, <1>5 DEF InGet

LEMMA GroupType ==
    ASSUME TypeOK,
           \/ \E to_set \in (SUBSET Flags) \ {{}} : Set(to_set)
           \/ StartDelete \/ Drain \/ Decide \/ Create
    PROVE  TypeOK'
<1>1. ASSUME NEW new \in SUBSET Flags, SetFlags(new) PROVE TypeOK'
  <2>1. mem' \in [Blocks -> Node]
    BY <1>1, WokenEffect DEF SetFlags
  <2>2. system' \in {"ok", "spins", "undefined"}
    BY <1>1 DEF SetFlags, AfterWalk
  <2> QED
    BY <1>1, <2>1, <2>2 DEF SetFlags, TypeOK, Node, delete
<1>2. ASSUME NEW to_set \in SUBSET Flags, Set(to_set) PROVE TypeOK'
  <2>1. flags \cup to_set \in SUBSET Flags /\ flags \cap to_set \in SUBSET Flags
    BY DEF TypeOK
  <2> QED
    BY <1>1, <1>2, <2>1 DEF Set
<1>3. CASE StartDelete
  <2>1. mem' \in [Blocks -> Node]
    BY <1>3, WokenEffect DEF StartDelete
  <2>2. system' \in {"ok", "spins", "undefined"}
    BY <1>3 DEF StartDelete, AfterWalk
  <2>3. attempts' \in 0 .. MaxAttempt /\ deleter' \in {"idle", "drain", "decide", "gone"}
    BY <1>3 DEF StartDelete, MaxAttempt
  <2> QED
    BY <1>3, <2>1, <2>2, <2>3 DEF StartDelete, TypeOK, Node
<1>4. CASE Drain
  <2>1. attempts' \in 0 .. MaxAttempt
    BY <1>4 DEF Drain, TypeOK, MaxAttempt
  <2> QED
    BY <1>4, <2>1 DEF Drain, TypeOK, group, heap
<1>5. CASE Decide
  BY <1>5 DEF Decide, TypeOK, group, heap, MaxAttempt
<1>6. CASE Create
  BY <1>6 DEF Create, TypeOK
<1> QED
  BY <1>2, <1>3, <1>4, <1>5, <1>6

LEMMA TypeStep == ASSUME TypeOK, OwnInv, [Next]_vars PROVE TypeOK'
<1>1. CASE UNCHANGED vars
  BY <1>1 DEF TypeOK, vars, group, heap, delete
<1> QED
  BY <1>1, GetType, InGetType, GroupType DEF Next

LEMMA OwnStep == ASSUME TypeOK, OwnInv, [Next]_vars PROVE OwnInv'
<1>1. ASSUME NEW t \in Tasks, Return(t), pc[t] # "out" PROVE OwnInv'
  <2>1. pc' = [pc EXCEPT ![t] = "out"] /\ tmp' = [tmp EXCEPT ![t] = Null]
    BY <1>1, ReturnEffect
  <2>2. used' = used \ {tmp[t]}
    <3>1. CASE tmp[t] = Null /\ UNCHANGED heap
      BY <3>1, TasksAssumption DEF heap, TypeOK
    <3>2. CASE tmp[t] \in Blocks /\ RemoveNode(tmp[t])
      BY <3>2 DEF RemoveNode
    <3> QED
      BY <1>1, <3>1, <3>2, ReturnEffect
  <2> QED
    BY <2>1, <2>2 DEF OwnInv, TypeOK
<1>2. ASSUME NEW t \in Tasks, Enqueue(t) PROVE OwnInv'
  <2>1. PICK b \in Blocks \ used : used' = used \cup {b} /\ tmp' = [tmp EXCEPT ![t] = b]
    BY <1>2, EnqueueEffect
  <2>2. pc' = [pc EXCEPT ![t] = "wait"] /\ tmp[t] = Null
    BY <1>2 DEF Enqueue, Goto
  <2> QED
    BY <2>1, <2>2, TasksAssumption DEF OwnInv, TypeOK
<1>3. ASSUME NEW t \in Tasks, NEW l, Goto(t, l), l \in PCs \ {"out"}, UNCHANGED <<used, tmp>>,
             l = "check" \/ tmp[t] # Null
      PROVE  OwnInv'
  BY <1>3 DEF OwnInv, TypeOK, Goto, PCs
<1>4. ASSUME NEW t \in Tasks, InGet(t) \/ TimeOut(t) PROVE OwnInv'
  <2>1. CASE Succeed(t) \/ GiveUp(t) \/ Quit(t)
    BY <1>1, <2>1 DEF Succeed, GiveUp, Quit
  <2>2. CASE WaitAgain(t)
    BY <1>3, <2>2 DEF WaitAgain, heap, PCs
  <2>3. CASE Wake(t)
    BY <1>3, <2>3 DEF Wake, PCs, OwnInv
  <2>4. CASE TimeOut(t)
    BY <1>3, <2>4 DEF TimeOut, heap, PCs, OwnInv
  <2>5. CASE Look(t)
    BY <1>3, <2>5 DEF Look, heap, PCs, OwnInv
  <2> QED
    BY <1>2, <1>4, <2>1, <2>2, <2>3, <2>4, <2>5 DEF InGet
<1>5. ASSUME NEW t \in Tasks, NEW mask, NEW option, NEW wait, Get(t, mask, option, wait)
      PROVE  OwnInv'
  BY <1>3, <1>5 DEF Get, heap, PCs
<1>6. CASE UNCHANGED <<used, tmp, pc>>
  BY <1>6 DEF OwnInv
<1>7. CASE UNCHANGED vars \/ StartDelete \/ Drain \/ Decide \/ Create
           \/ \E to_set \in (SUBSET Flags) \ {{}} : Set(to_set)
  BY <1>6, <1>7 DEF vars, heap, StartDelete, Drain, Decide, Create, Set, SetFlags
<1> QED
  BY <1>4, <1>5, <1>7 DEF Next
----------------------------------------------------------------------------
(* The list stays a chain                                                  *)

ChainInv == ~damaged => Chained

LEMMA ChainFrame ==
    ASSUME TypeOK, Chained, UNCHANGED <<list, used>>, \A c \in Blocks : KeepsLinks(c)
    PROVE  Chained'
<1>1. PICK n \in Nat : \E s \in [1 .. n -> Blocks] : Links(n, s)
  BY DEF Chained
<1>2. PICK s \in [1 .. n -> Blocks] : Links(n, s)
  BY <1>1
<1>3. Links(n, s)'
  <2>1. \A i \in 1 .. n : KeepsLinks(s[i])
    OBVIOUS
  <2> QED
    BY <1>2, <2>1 DEF Links, KeepsLinks
<1> QED
  BY <1>3 DEF Chained

LEMMA ChainEmpty == ASSUME list' = Null, used' = {} PROVE Chained'
<1> DEFINE s == [i \in 1 .. 0 |-> Null]
<1>1. s \in [1 .. 0 -> Blocks] /\ 1 .. 0 = {}
  OBVIOUS
<1>2. Links(0, s)'
  BY <1>1 DEF Links
<1> QED
  BY <1>1, <1>2 DEF Chained

LEMMA ChainNull == ASSUME Chained, list = Null PROVE used = {}
<1>1. PICK n \in Nat : \E s \in [1 .. n -> Blocks] : Links(n, s)
  BY DEF Chained
<1>2. PICK s \in [1 .. n -> Blocks] : Links(n, s)
  BY <1>1
<1>3. n = 0
  <2> SUFFICES ASSUME n # 0 PROVE FALSE
    OBVIOUS
  <2>1. 1 \in 1 .. n /\ list = s[1]
    BY <1>2 DEF Links
  <2>2. s[1] \in Blocks
    BY <2>1
  <2> QED
    BY <2>1, <2>2, TasksAssumption
<1> QED
  BY <1>2, <1>3 DEF Links

\* A node of the chain is removed; unless it was the first of several the
\* rest is a chain.
LEMMA ChainRemove ==
    ASSUME TypeOK, Chained, NEW b \in used, RemoveNode(b), ~damaged'
    PROVE  Chained'
<1>1. PICK n \in Nat : \E s \in [1 .. n -> Blocks] : Links(n, s)
  BY DEF Chained
<1>2. PICK s \in [1 .. n -> Blocks] : Links(n, s)
  BY <1>1
<1>3. PICK k \in 1 .. n : b = s[k]
  BY <1>2 DEF Links
<1>4. b \in Blocks /\ \A i \in 1 .. n : s[i] \in Blocks /\ s[i] # Null
  BY <1>3, TasksAssumption
<1>5. /\ mem[b].next = IF k = n THEN Null ELSE s[k + 1]
      /\ mem[b].prev = IF k = 1 THEN Null ELSE s[k - 1]
  BY <1>2, <1>3 DEF Links
<1>6. /\ used' = used \ {b} /\ list' # b
      /\ list' = IF mem[b].next = Null /\ mem[b].prev = Null THEN Null ELSE list
      /\ \A c \in Blocks \ {b} :
            /\ mem'[c].next = IF c = mem[b].prev THEN mem[b].next ELSE mem[c].next
            /\ mem'[c].prev = IF c = mem[b].next THEN mem[b].prev ELSE mem[c].prev
  BY <1>4, RemoveNodeEffect
<1>7. CASE n = 1
  <2>1. k = 1
    BY <1>7
  <2>2. list' = Null
    BY <1>5, <1>6, <1>7, <2>1
  <2>3. used' = {}
    BY <1>2, <1>3, <1>6, <1>7, <2>1 DEF Links
  <2> QED
    BY <2>2, <2>3, ChainEmpty
<1>8. CASE n # 1
  <2>1. k # 1
    <3> SUFFICES ASSUME k = 1 PROVE FALSE
      OBVIOUS
    <3>1. mem[b].next = s[2] /\ s[2] # Null /\ list = s[1]
      BY <1>2, <1>4, <1>5, <1>8 DEF Links
    <3> QED
      BY <1>3, <1>6, <3>1
  <2>2. k - 1 \in 1 .. n /\ mem[b].prev = s[k - 1] /\ s[k - 1] # Null
    BY <1>4, <1>5, <2>1
  <2>3. list' = s[1]
    BY <1>2, <1>6, <2>2 DEF Links
  <2> DEFINE r == [i \in 1 .. n - 1 |-> IF i < k THEN s[i] ELSE s[i + 1]]
  <2>4. n - 1 \in Nat /\ n - 1 # 0 /\ r \in [1 .. n - 1 -> Blocks]
    BY <1>4, <1>8
  <2>5. \A i, j \in 1 .. n - 1 : r[i] = r[j] => i = j
    <3> SUFFICES ASSUME NEW i \in 1 .. n - 1, NEW j \in 1 .. n - 1, r[i] = r[j] PROVE i = j
      OBVIOUS
    <3> DEFINE at(x) == IF x < k THEN x ELSE x + 1
    <3>1. at(i) \in 1 .. n /\ at(j) \in 1 .. n /\ s[at(i)] = s[at(j)]
      OBVIOUS
    <3>2. at(i) = at(j)
      <4> HIDE DEF at
      <4> QED
        BY <1>2, <3>1 DEF Links
    <3> QED
      BY <3>2
  <2>6. used' = {r[i] : i \in 1 .. n - 1}
    <3>1. used = {s[i] : i \in 1 .. n}
      BY <1>2 DEF Links
    <3>2. ASSUME NEW i \in 1 .. n - 1 PROVE r[i] \in used \ {b}
      <4>1. r[i] = s[IF i < k THEN i ELSE i + 1]
            /\ (IF i < k THEN i ELSE i + 1) \in (1 .. n) \ {k}
        OBVIOUS
      <4> QED
        BY <1>2, <1>3, <3>1, <4>1 DEF Links
    <3>3. ASSUME NEW i \in 1 .. n, i # k PROVE \E j \in 1 .. n - 1 : s[i] = r[j]
      <4>1. CASE i < k
        <5>1. i \in 1 .. n - 1 /\ r[i] = s[i]
          BY <4>1
        <5> QED
          BY <5>1
      <4>2. CASE i > k
        <5>1. i - 1 \in 1 .. n - 1 /\ r[i - 1] = s[i]
          BY <4>2
        <5> QED
          BY <5>1
      <4> QED
        BY <3>3, <4>1, <4>2
    <3> HIDE DEF r
    <3> QED
      BY <1>3, <1>6, <3>1, <3>2, <3>3
  <2>7. list' = r[1]
    BY <2>1, <2>3, <2>4
  <2>8. ASSUME NEW i \in 1 .. n, i # k
        PROVE  /\ mem'[s[i]].next = IF i = k - 1 THEN IF k = n THEN Null ELSE s[k + 1]
                                    ELSE IF i = n THEN Null ELSE s[i + 1]
               /\ mem'[s[i]].prev = IF k # n /\ i = k + 1 THEN s[k - 1]
                                    ELSE IF i = 1 THEN Null ELSE s[i - 1]
    <3>1. s[i] \in Blocks \ {b}
      BY <1>2, <1>3, <1>4, <2>8 DEF Links
    <3>2. (s[i] = mem[b].prev) = (i = k - 1)
      BY <1>2, <2>2 DEF Links
    <3>3. (s[i] = mem[b].next) = (k # n /\ i = k + 1)
      <4>1. CASE k = n
        BY <1>4, <1>5, <4>1
      <4>2. CASE k # n
        <5>1. k + 1 \in 1 .. n /\ mem[b].next = s[k + 1]
          BY <1>5, <4>2
        <5> QED
          BY <1>2, <4>2, <5>1 DEF Links
      <4> QED
        BY <4>1, <4>2
    <3>4. /\ mem[s[i]].next = IF i = n THEN Null ELSE s[i + 1]
          /\ mem[s[i]].prev = IF i = 1 THEN Null ELSE s[i - 1]
      BY <1>2 DEF Links
    <3> QED
      BY <1>5, <1>6, <2>2, <3>1, <3>2, <3>3, <3>4
  <2>9. ASSUME NEW i \in 1 .. n - 1
        PROVE  /\ mem'[r[i]].next = IF i = n - 1 THEN Null ELSE r[i + 1]
               /\ mem'[r[i]].prev = IF i = 1 THEN Null ELSE r[i - 1]
    <3>1. CASE i < k
      <4>1. r[i] = s[i] /\ i \in 1 .. n /\ i # k
        BY <3>1
      <4>2. i # 1 => r[i - 1] = s[i - 1]
        BY <3>1
      <4>3. i # n - 1 => r[i + 1] = IF i = k - 1 THEN s[k + 1] ELSE s[i + 1]
        BY <3>1
      <4> HIDE DEF r
      <4> QED
        BY <2>8, <3>1, <4>1, <4>2, <4>3
    <3>2. CASE ~(i < k)
      <4>1. r[i] = s[i + 1] /\ i + 1 \in 1 .. n /\ i + 1 # k
        BY <3>2
      <4>2. i # 1 /\ r[i - 1] = IF i = k THEN s[k - 1] ELSE s[i]
        BY <2>1, <3>2
      <4>3. i # n - 1 => r[i + 1] = s[(i + 1) + 1]
        BY <3>2
      <4>4. /\ mem'[s[i + 1]].next = IF i + 1 = n THEN Null ELSE s[(i + 1) + 1]
            /\ mem'[s[i + 1]].prev = IF i = k THEN s[k - 1] ELSE s[i]
        BY <2>1, <2>8, <3>2, <4>1
      <4> HIDE DEF r
      <4> QED
        BY <4>1, <4>2, <4>3, <4>4
    <3> QED
      BY <3>1, <3>2
  <2>10. Links(n - 1, r)'
    <3> HIDE DEF r
    <3> QED
      BY <2>4, <2>5, <2>6, <2>7, <2>9 DEF Links
  <2> HIDE DEF r
  <2> QED
    BY <2>4, <2>10 DEF Chained
<1> QED
  BY <1>7, <1>8

\* A node is linked in behind the last one.
LEMMA ChainAppend ==
    ASSUME TypeOK, Chained, NEW b \in Blocks \ used, NEW last \in Met,
           list # Null, list' = list, used' = used \cup {b},
           last # b, mem[last].next = Null,
           mem'[b].next = Null, mem'[b].prev = last,
           mem'[last].next = b, mem'[last].prev = mem[last].prev,
           \A c \in Blocks \ {b, last} : KeepsLinks(c)
    PROVE  Chained'
<1>1. PICK n \in Nat : \E s \in [1 .. n -> Blocks] : Links(n, s)
  BY DEF Chained
<1>2. PICK s \in [1 .. n -> Blocks] : Links(n, s)
  BY <1>1
<1>3. n # 0
  BY <1>2 DEF Links
<1>4. \A i \in 1 .. n : s[i] \in Blocks /\ s[i] # Null /\ s[i] \in used
  BY <1>2, TasksAssumption DEF Links
<1>5. last = s[n]
  <2>1. last \in used
    BY ChainSound
  <2>2. PICK i \in 1 .. n : last = s[i]
    BY <1>2, <2>1 DEF Links
  <2>3. i # n => mem[last].next = s[i + 1] /\ i + 1 \in 1 .. n
    BY <1>2, <2>2 DEF Links
  <2> QED
    BY <1>4, <2>2, <2>3
<1> DEFINE r == [i \in 1 .. n + 1 |-> IF i = n + 1 THEN b ELSE s[i]]
<1>6. n + 1 \in Nat /\ n + 1 # 0 /\ r \in [1 .. n + 1 -> Blocks] /\ n \in 1 .. n /\ 1 \in 1 .. n
  BY <1>3, <1>4
<1>7. r[n + 1] = b /\ \A i \in 1 .. n : r[i] = s[i] /\ i \in 1 .. n + 1
  OBVIOUS
<1> HIDE DEF r
<1>8. \A i, j \in 1 .. n + 1 : r[i] = r[j] => i = j
  <2> SUFFICES ASSUME NEW i \in 1 .. n + 1, NEW j \in 1 .. n + 1, r[i] = r[j] PROVE i = j
    OBVIOUS
  <2>1. CASE i \in 1 .. n /\ j \in 1 .. n
    BY <1>2, <1>7, <2>1 DEF Links
  <2>2. CASE i = n + 1 \/ j = n + 1
    BY <1>4, <1>7, <2>2
  <2> QED
    BY <2>1, <2>2
<1>9. used' = {r[i] : i \in 1 .. n + 1}
  <2>1. used = {s[i] : i \in 1 .. n}
    BY <1>2 DEF Links
  <2>2. \A i \in 1 .. n + 1 : i = n + 1 \/ i \in 1 .. n
    OBVIOUS
  <2>3. n + 1 \in 1 .. n + 1
    BY <1>6
  <2> QED
    BY <1>7, <2>1, <2>2, <2>3
<1>10. list' = r[1]
  BY <1>2, <1>3, <1>6, <1>7 DEF Links
<1>11. ASSUME NEW i \in 1 .. n + 1
       PROVE  /\ mem'[r[i]].next = IF i = n + 1 THEN Null ELSE r[i + 1]
              /\ mem'[r[i]].prev = IF i = 1 THEN Null ELSE r[i - 1]
  <2>1. CASE i = n + 1
    BY <1>3, <1>5, <1>6, <1>7, <2>1
  <2>2. CASE i = n
    <3>1. r[i] = last /\ r[i + 1] = b /\ i # n + 1
      BY <1>5, <1>6, <1>7, <2>2
    <3>2. mem[last].prev = IF i = 1 THEN Null ELSE s[i - 1]
      BY <1>2, <1>5, <1>6, <2>2 DEF Links
    <3>3. i # 1 => r[i - 1] = s[i - 1]
      BY <1>6, <1>7, <2>2
    <3> QED
      BY <3>1, <3>2, <3>3
  <2>3. CASE i # n /\ i # n + 1
    <3>1. i \in 1 .. n /\ i + 1 \in 1 .. n
      BY <2>3
    <3>2. r[i] = s[i] /\ r[i + 1] = s[i + 1] /\ (i # 1 => r[i - 1] = s[i - 1])
      BY <1>7, <3>1
    <3>3. s[i] # last /\ s[i] # b
      BY <1>2, <1>4, <1>5, <1>6, <2>3, <3>1 DEF Links
    <3>4. KeepsLinks(s[i])
      BY <1>4, <3>1, <3>3
    <3>5. /\ mem[s[i]].next = s[i + 1]
          /\ mem[s[i]].prev = IF i = 1 THEN Null ELSE s[i - 1]
      BY <1>2, <2>3, <3>1 DEF Links
    <3> QED
      BY <2>3, <3>2, <3>4, <3>5 DEF KeepsLinks
  <2> QED
    BY <2>1, <2>2, <2>3
<1>12. Links(n + 1, r)'
  BY <1>6, <1>8, <1>9, <1>10, <1>11 DEF Links
<1> QED
  BY <1>6, <1>12 DEF Chained

LEMMA ChainEnqueue ==
    ASSUME TypeOK, Chained, NEW t \in Tasks, Enqueue(t)
    PROVE  Chained'
<1>1. Met = used /\ ~Endless /\ ~Stale /\ (list # Null => list \in used)
  BY ChainSound
<1>2. PICK b \in Blocks \ used :
          /\ used' = used \cup {b}
          /\ \/ /\ list = Null /\ list' = b
                /\ mem'[b].next = Null /\ mem'[b].prev = Null
             \/ list = b /\ list' = list
             \/ list # Null /\ list' = list /\ (Stale \/ Endless)
             \/ /\ list # Null /\ list' = list
                /\ \E last \in Met :
                      /\ last # b /\ mem[last].next = Null
                      /\ mem'[b].next = Null /\ mem'[b].prev = last
                      /\ mem'[last].next = b /\ mem'[last].prev = mem[last].prev
                      /\ \A c \in Blocks \ {b, last} : KeepsLinks(c)
  BY EnqueueEffect
<1>3. CASE list = Null
  <2>1. list' = b /\ mem'[b].next = Null /\ mem'[b].prev = Null
    BY <1>2, <1>3, TasksAssumption
  <2>2. used = {}
    BY <1>3, ChainNull
  <2> DEFINE r == [i \in 1 .. 1 |-> b]
  <2>3. r \in [1 .. 1 -> Blocks] /\ r[1] = b /\ \A i \in 1 .. 1 : i = 1
    OBVIOUS
  <2> HIDE DEF r
  <2>4. Links(1, r)'
    BY <1>2, <2>1, <2>2, <2>3 DEF Links
  <2> QED
    BY <2>3, <2>4 DEF Chained
<1>4. CASE list # Null
  BY <1>1, <1>2, <1>4, ChainAppend
<1> QED
  BY <1>3, <1>4

LEMMA ChainStep ==
    ASSUME TypeOK, OwnInv, ChainInv, [Next]_vars
    PROVE  ChainInv'
<1> SUFFICES ASSUME ~damaged' PROVE Chained'
  BY DEF ChainInv
<1>1. ASSUME UNCHANGED heap PROVE Chained'
  BY <1>1, ChainFrame DEF heap, ChainInv, KeepsLinks
<1>2. ASSUME NEW t \in Tasks, Return(t) PROVE Chained'
  <2>1. CASE UNCHANGED heap
    BY <1>1, <2>1
  <2>2. CASE tmp[t] \in Blocks /\ RemoveNode(tmp[t])
    <3>1. tmp[t] \in used
      BY <2>2, TasksAssumption DEF OwnInv
    <3>2. ~damaged
      BY <2>2, RemoveNodeEffect
    <3> QED
      BY <2>2, <3>1, <3>2, ChainRemove DEF ChainInv
  <2> QED
    BY <1>2, <2>1, <2>2, ReturnEffect
<1>3. ASSUME NEW t \in Tasks, Enqueue(t) PROVE Chained'
  BY <1>3, ChainEnqueue DEF Enqueue, ChainInv
<1>4. ASSUME NEW t \in Tasks, Wake(t) PROVE Chained'
  <2>1. tmp[t] # Null
    BY <1>4 DEF Wake, OwnInv
  <2> QED
    BY <1>4, <2>1, WakeEffect, ChainFrame DEF Wake, ChainInv
<1>5. ASSUME NEW t \in Tasks, InGet(t) \/ TimeOut(t) PROVE Chained'
  BY <1>1, <1>2, <1>3, <1>4, <1>5
  DEF InGet, Succeed, GiveUp, WaitAgain, TimeOut, Look, Quit
<1>6. ASSUME NEW new, SetFlags(new) PROVE Chained'
  BY <1>6, WokenEffect, ChainFrame DEF SetFlags, ChainInv
<1>7. CASE StartDelete
  BY <1>7, WokenEffect, ChainFrame DEF StartDelete, ChainInv
<1>8. CASE Create
  <2>1. used = {}
    BY <1>8, TasksAssumption DEF Create, OwnInv, TypeOK
  <2> QED
    BY <1>8, <2>1, ChainEmpty DEF Create
<1>9. ASSUME NEW t \in Tasks, NEW mask, NEW option, NEW wait, Get(t, mask, option, wait)
      PROVE  Chained'
  BY <1>1, <1>9 DEF Get
<1>10. CASE Drain \/ Decide \/ UNCHANGED vars
  BY <1>1, <1>10 DEF Drain, Decide, vars
<1> QED
  BY <1>5, <1>6, <1>7, <1>8, <1>9, <1>10 DEF Next, Set
----------------------------------------------------------------------------
(* What a call of one task means for the others                            *)

\* The waiting task asks for some flag, and its node says for which.
CallInv ==
    /\ \A t \in Tasks : pc[t] # "out" => call[t].mask # {}
    /\ \A t \in Tasks : tmp[t] # Null => mem[tmp[t]].mask = call[t].mask

LEMMA ReturnOthers ==
    ASSUME TypeOK, OwnInv, NEW t \in Tasks, Return(t)
    PROVE  /\ damaged => damaged'
           /\ pc'[t] = "out" /\ tmp'[t] = Null
           /\ \A u \in Tasks \ {t} :
                 /\ pc'[u] = pc[u] /\ tmp'[u] = tmp[u] /\ call'[u] = call[u]
                 /\ tmp[u] # Null => KeepsRequest(tmp[u])
<1>1. pc'[t] = "out" /\ tmp'[t] = Null
  BY ReturnEffect DEF TypeOK
<1>2. damaged => damaged'
  BY ReturnEffect, RemoveNodeEffect DEF heap
<1>3. ASSUME NEW u \in Tasks \ {t}
      PROVE  pc'[u] = pc[u] /\ tmp'[u] = tmp[u] /\ call'[u] = call[u]
  BY ReturnEffect DEF TypeOK
<1>4. ASSUME NEW u \in Tasks \ {t}, tmp[u] # Null PROVE KeepsRequest(tmp[u])
  <2>1. CASE UNCHANGED heap
    BY <2>1 DEF heap, KeepsRequest
  <2>2. CASE tmp[t] \in Blocks /\ RemoveNode(tmp[t])
    <3>1. tmp[u] \in Blocks \ {tmp[t]}
      BY <1>4 DEF OwnInv, TypeOK
    <3> QED
      BY <2>2, <3>1, RemoveNodeEffect
  <2> QED
    BY <2>1, <2>2, ReturnEffect
<1> QED
  BY <1>1, <1>2, <1>3, <1>4

\* What os_event_flags_get does: to its own task and to the others.
LEMMA GetEffect ==
    ASSUME TypeOK, OwnInv, NEW t \in Tasks, InGet(t) \/ TimeOut(t)
    PROVE  /\ pc[t] # "out"
           /\ flags' \subseteq flags /\ (damaged => damaged') /\ UNCHANGED <<deleting, deleter>>
           /\ \A u \in Tasks \ {t} :
                 /\ pc'[u] = pc[u] /\ tmp'[u] = tmp[u] /\ call'[u] = call[u]
                 /\ tmp[u] # Null => KeepsRequest(tmp[u])
           /\ \/ pc'[t] = "out" /\ tmp'[t] = Null
              \/ /\ pc[t] = "check" /\ tmp[t] = Null /\ Status(t) = {}
                 /\ pc'[t] = "wait" /\ UNCHANGED <<flags, call>>
                 /\ tmp'[t] \in Blocks /\ mem'[tmp'[t]].mask = call[t].mask
              \/ /\ pc[t] = "check" /\ tmp[t] # Null /\ Status(t) = {}
                 /\ pc'[t] = "wait" /\ UNCHANGED <<flags, call, mem, tmp>>
              \/ /\ pc'[t] \in {"check", "woken", "quit"} /\ UNCHANGED <<flags, call, tmp>>
                 /\ pc'[t] = "check" => ~deleting
                 /\ mem'[tmp[t]].mask = mem[tmp[t]].mask
<1>1. ASSUME Succeed(t) \/ GiveUp(t) \/ Quit(t)
      PROVE  /\ pc[t] # "out" /\ Return(t)
             /\ flags' \subseteq flags /\ UNCHANGED <<deleting, deleter>>
  BY <1>1 DEF Succeed, GiveUp, Quit, group, delete
<1>2. CASE Succeed(t) \/ GiveUp(t) \/ Quit(t)
  BY <1>1, <1>2, ReturnOthers
<1>3. ASSUME NEW l, Goto(t, l)
      PROVE  pc'[t] = l /\ \A u \in Tasks \ {t} : pc'[u] = pc[u]
  BY <1>3 DEF Goto, TypeOK
<1>4. CASE Enqueue(t)
  <2>1. PICK b \in Blocks \ used :
            /\ tmp' = [tmp EXCEPT ![t] = b]
            /\ mem'[b].mask = call[t].mask
            /\ \A c \in Blocks \ {b} : KeepsRequest(c)
    BY <1>4, EnqueueEffect
  <2>2. \A u \in Tasks \ {t} : tmp[u] # Null => tmp[u] \in Blocks \ {b}
    BY DEF OwnInv, TypeOK
  <2>3. tmp'[t] = b /\ \A u \in Tasks \ {t} : tmp'[u] = tmp[u]
    BY <2>1 DEF TypeOK
  <2>4. Goto(t, "wait") /\ UNCHANGED <<group, call, delete, damaged>>
        /\ pc[t] = "check" /\ Status(t) = {} /\ tmp[t] = Null
    BY <1>4 DEF Enqueue
  <2> QED
    BY <1>3, <2>1, <2>2, <2>3, <2>4 DEF group, delete
<1>5. CASE WaitAgain(t)
  BY <1>3, <1>5 DEF WaitAgain, group, heap, delete, KeepsRequest
<1>6. CASE Wake(t)
  <2>1. pc[t] = "wait" /\ tmp[t] # Null
    BY <1>6 DEF Wake, OwnInv
  <2>2. /\ mem'[tmp[t]].mask = mem[tmp[t]].mask
        /\ \A c \in Blocks \ {tmp[t]} : KeepsRequest(c)
    BY <1>6, <2>1, WakeEffect DEF TypeOK
  <2>3. \A u \in Tasks \ {t} : tmp[u] # Null => tmp[u] \in Blocks \ {tmp[t]}
    BY DEF OwnInv, TypeOK
  <2> QED
    BY <1>3, <1>6, <2>1, <2>2, <2>3 DEF Wake, group, delete
<1>7. CASE TimeOut(t) \/ Look(t)
  BY <1>3, <1>7 DEF TimeOut, Look, group, heap, delete, KeepsRequest
<1> QED
  BY <1>2, <1>4, <1>5, <1>6, <1>7 DEF InGet

LEMMA GetStarts ==
    ASSUME TypeOK, OwnInv, NEW t \in Tasks, NEW mask, NEW option, NEW wait,
           Get(t, mask, option, wait)
    PROVE  /\ pc'[t] = "check" /\ call'[t].mask = mask /\ tmp[t] = Null /\ deleter = "idle"
           /\ \A u \in Tasks \ {t} : pc'[u] = pc[u] /\ call'[u] = call[u]
           /\ UNCHANGED <<group, heap, tmp, delete>>
BY DEF Get, Goto, OwnInv, TypeOK

\* Steps of the rest of the API leave the tasks, and what they ask for, alone.
LEMMA GroupKeeps ==
    ASSUME TypeOK,
           \/ \E to_set \in (SUBSET Flags) \ {{}} : Set(to_set)
           \/ StartDelete \/ Drain \/ Decide \/ Create
    PROVE  /\ UNCHANGED <<pc, call, tmp>>
           /\ \A c \in Blocks : mem'[c].mask = mem[c].mask /\ (mem[c].sem => mem'[c].sem)
<1>1. ASSUME NEW new, SetFlags(new)
      PROVE  /\ UNCHANGED <<pc, call, tmp>>
             /\ \A c \in Blocks : mem'[c].mask = mem[c].mask /\ (mem[c].sem => mem'[c].sem)
  BY <1>1, WokenEffect DEF SetFlags
<1>2. CASE StartDelete
  BY <1>2, WokenEffect DEF StartDelete
<1>3. CASE Drain \/ Decide \/ Create
  BY <1>3 DEF Drain, Decide, Create, heap
<1> QED
  BY <1>1, <1>2, <1>3 DEF Set

LEMMA CallStep == ASSUME TypeOK, OwnInv, CallInv, [Next]_vars PROVE CallInv'
<1>1. ASSUME NEW t \in Tasks, InGet(t) \/ TimeOut(t) PROVE CallInv'
  <2>1. ASSUME NEW u \in Tasks
        PROVE  /\ pc'[u] # "out" => call'[u].mask # {}
               /\ tmp'[u] # Null => mem'[tmp'[u]].mask = call'[u].mask
    <3>1. CASE u = t
      BY <1>1, <3>1, GetEffect DEF CallInv
    <3>2. CASE u # t
      BY <1>1, <3>2, GetEffect DEF CallInv, KeepsRequest
    <3> QED
      BY <3>1, <3>2
  <2> QED
    BY <2>1 DEF CallInv
<1>2. ASSUME NEW t \in Tasks, NEW mask \in (SUBSET Flags) \ {{}}, NEW option, NEW wait,
             Get(t, mask, option, wait)
      PROVE  CallInv'
  <2>1. ASSUME NEW u \in Tasks
        PROVE  /\ pc'[u] # "out" => call'[u].mask # {}
               /\ tmp'[u] # Null => mem'[tmp'[u]].mask = call'[u].mask
    <3>1. CASE u = t
      BY <1>2, <3>1, GetStarts DEF CallInv
    <3>2. CASE u # t
      BY <1>2, <3>2, GetStarts DEF CallInv, heap
    <3> QED
      BY <3>1, <3>2
  <2> QED
    BY <2>1 DEF CallInv
<1>3. CASE \/ \E to_set \in (SUBSET Flags) \ {{}} : Set(to_set)
           \/ StartDelete \/ Drain \/ Decide \/ Create
  <2>1. \A u \in Tasks : tmp[u] # Null => tmp[u] \in Blocks
    BY DEF TypeOK
  <2> QED
    BY <1>3, <2>1, GroupKeeps DEF CallInv
<1>4. CASE UNCHANGED vars
  BY <1>4 DEF vars, heap, CallInv
<1> QED
  BY <1>1, <1>2, <1>3, <1>4 DEF Next
----------------------------------------------------------------------------
(* Wake-ups                                                                *)

\* Only more flags can satisfy a request that fewer did not, and a request
\* that is satisfied asks for one of the flags.
LEMMA StatusFewer ==
    ASSUME NEW t \in Tasks, flags' \subseteq flags, call'[t] = call[t], Status(t)' # {}
    PROVE  Status(t) # {}
BY DEF Status

LEMMA StatusAsks ==
    ASSUME NEW t \in Tasks, call[t].mask # {}, Status(t) # {}
    PROVE  call[t].mask \cap flags # {}
BY DEF Status

LEMMA WakeStep ==
    ASSUME TypeOK, OwnInv, CallInv, ChainInv, NoLostWakeup, [Next]_vars
    PROVE  NoLostWakeup'
<1> SUFFICES ASSUME ~damaged', NEW u \in Tasks, pc'[u] = "wait", Status(u)' # {}
             PROVE  mem'[tmp'[u]].sem
  BY DEF NoLostWakeup
<1>1. ASSUME ~damaged, flags' \subseteq flags, pc'[u] = pc[u], tmp'[u] = tmp[u],
             call'[u] = call[u], mem[tmp[u]].sem => mem'[tmp[u]].sem
      PROVE  mem'[tmp'[u]].sem
  BY <1>1, StatusFewer DEF NoLostWakeup
<1>2. ASSUME NEW t \in Tasks, InGet(t) \/ TimeOut(t) PROVE mem'[tmp'[u]].sem
  <2>1. CASE u = t
    <3>1. Status(t) = {} => flags' # flags \/ call' # call
      BY <2>1 DEF Status
    <3> QED
      BY <1>2, <2>1, <3>1, GetEffect
  <2>2. CASE u # t
    <3>1. /\ ~damaged /\ flags' \subseteq flags
          /\ pc'[u] = pc[u] /\ tmp'[u] = tmp[u] /\ call'[u] = call[u]
          /\ tmp[u] # Null => KeepsRequest(tmp[u])
      BY <1>2, <2>2, GetEffect
    <3>2. tmp[u] # Null
      BY <3>1 DEF OwnInv
    <3> QED
      BY <1>1, <3>1, <3>2 DEF KeepsRequest
  <2> QED
    BY <2>1, <2>2
<1>3. ASSUME NEW t \in Tasks, NEW mask, NEW option, NEW wait, Get(t, mask, option, wait)
      PROVE  mem'[tmp'[u]].sem
  <2>1. u # t
    BY <1>3, GetStarts
  <2> QED
    BY <1>1, <1>3, <2>1, GetStarts DEF group, heap
<1>4. ASSUME NEW new, SetFlags(new) PROVE mem'[tmp'[u]].sem
  <2>1. pc[u] = "wait" /\ tmp'[u] = tmp[u] /\ call'[u] = call[u] /\ flags' = new /\ ~damaged
    BY <1>4 DEF SetFlags
  <2>2. tmp[u] \in used /\ tmp[u] \in Blocks
    BY <2>1 DEF OwnInv, TypeOK
  <2>3. tmp[u] \in Met
    BY <2>1, <2>2, ChainSound DEF ChainInv
  <2>4. call[u].mask \cap new # {}
    <3>1. call[u].mask # {}
      BY <2>1 DEF CallInv
    <3> QED
      BY <2>1, <3>1 DEF Status
  <2>5. mem[tmp[u]].mask = call[u].mask /\ call[u].mask \in SUBSET Flags
    BY <2>1, <2>2, TasksAssumption DEF CallInv, TypeOK
  <2> DEFINE masks == {mask \in SUBSET Flags : mask \cap new # {}}
  <2>6. mem[tmp[u]].mask \in masks /\ mem' = Woken(masks)
    BY <1>4, <2>4, <2>5 DEF SetFlags
  <2> HIDE DEF masks
  <2> QED
    BY <2>1, <2>2, <2>3, <2>6, WokenEffect
<1>5. CASE StartDelete \/ Drain \/ Decide
  <2>1. ~damaged /\ flags' = flags
    BY <1>5 DEF StartDelete, Drain, Decide, group, heap
  <2>2. UNCHANGED <<pc, call, tmp>> /\ \A c \in Blocks : mem[c].sem => mem'[c].sem
    BY <1>5, GroupKeeps
  <2>3. tmp[u] \in Blocks
    BY <2>2 DEF OwnInv, TypeOK
  <2> QED
    BY <1>1, <2>1, <2>2, <2>3
<1>6. CASE Create
  BY <1>6 DEF Create
<1>7. CASE UNCHANGED vars
  BY <1>1, <1>7 DEF vars, group, heap
<1> QED
  BY <1>2, <1>3, <1>4, <1>5, <1>6, <1>7 DEF Next, Set
----------------------------------------------------------------------------
(* Deleting the group                                                      *)

\* Whoever is in the group while it is deleted has a node, and has been told.
DeleteInv ==
    /\ deleter \in {"drain", "decide"} =>
          deleting /\ \A t \in Tasks : pc[t] = "check" => tmp[t] # Null
    /\ deleter \in {"drain", "decide"} /\ ~damaged =>
          \A t \in Tasks : pc[t] \in {"check", "wait"} => mem[tmp[t]].sem
    /\ GroupOutlivesWaiters

LEMMA DeleteStep ==
    ASSUME TypeOK, OwnInv, ChainInv, DeleteInv, [Next]_vars
    PROVE  DeleteInv'
<1>1. ASSUME NEW t \in Tasks, InGet(t) \/ TimeOut(t) PROVE DeleteInv'
  <2>1. deleting' = deleting /\ deleter' = deleter /\ (damaged => damaged') /\ pc[t] # "out"
    BY <1>1, GetEffect
  <2>2. ASSUME deleter \in {"drain", "decide"}, NEW u \in Tasks
        PROVE  /\ pc'[u] = "check" => tmp'[u] # Null
               /\ ~damaged /\ pc'[u] \in {"check", "wait"} => mem'[tmp'[u]].sem
    <3>1. CASE u = t
      BY <1>1, <2>2, <3>1, GetEffect DEF DeleteInv
    <3>2. CASE u # t
      <4>1. /\ pc'[u] = pc[u] /\ tmp'[u] = tmp[u]
            /\ tmp[u] # Null => KeepsRequest(tmp[u])
        BY <1>1, <3>2, GetEffect
      <4>2. pc[u] \in {"check", "wait"} => tmp[u] # Null
        BY <2>2 DEF DeleteInv, OwnInv
      <4> QED
        BY <2>2, <4>1, <4>2 DEF DeleteInv, KeepsRequest
    <3> QED
      BY <3>1, <3>2
  <2>3. GroupOutlivesWaiters'
    BY <2>1 DEF DeleteInv, GroupOutlivesWaiters
  <2> QED
    BY <2>1, <2>2, <2>3 DEF DeleteInv
<1>2. ASSUME NEW t \in Tasks, NEW mask, NEW option, NEW wait, Get(t, mask, option, wait)
      PROVE  DeleteInv'
  BY <1>2, GetStarts DEF delete, DeleteInv, GroupOutlivesWaiters
<1>3. ASSUME NEW new, SetFlags(new) PROVE DeleteInv'
  BY <1>3 DEF SetFlags, delete, DeleteInv, GroupOutlivesWaiters
<1>4. CASE StartDelete
  <2>1. /\ deleting' = TRUE /\ deleter' = "drain" /\ damaged' = damaged
        /\ pc' = pc /\ tmp' = tmp
        /\ \A t \in Tasks : pc[t] = "check" => tmp[t] # Null
    BY <1>4 DEF StartDelete
  <2>2. ASSUME ~damaged, NEW t \in Tasks, pc[t] \in {"check", "wait"} PROVE mem'[tmp[t]].sem
    <3>1. tmp[t] \in used /\ tmp[t] \in Blocks
      BY <2>1, <2>2 DEF OwnInv, TypeOK
    <3>2. tmp[t] \in Met
      BY <2>2, <3>1, ChainSound DEF ChainInv
    <3>3. mem[tmp[t]].mask \in SUBSET Flags
      BY <3>1 DEF TypeOK
    <3> QED
      BY <1>4, <3>1, <3>2, <3>3, WokenEffect DEF StartDelete
  <2> QED
    BY <2>1, <2>2 DEF DeleteInv, GroupOutlivesWaiters
<1>5. CASE Drain
  <2>1. /\ deleter = "drain" /\ deleter' \in {"drain", "decide"}
        /\ UNCHANGED <<deleting, damaged, mem, pc, tmp>>
    BY <1>5 DEF Drain, group, heap
  <2> QED
    BY <2>1 DEF DeleteInv, GroupOutlivesWaiters
<1>6. CASE Decide
  <2>1. /\ deleter = "decide" /\ deleter' \in {"idle", "gone"}
        /\ deleter' = "gone" => list = Null
        /\ UNCHANGED <<damaged, pc>>
    BY <1>6 DEF Decide, heap
  <2>2. ASSUME list = Null, ~damaged, NEW t \in Tasks PROVE pc[t] = "out"
    <3>1. used = {}
      BY <2>2, ChainNull DEF ChainInv
    <3>2. tmp[t] = Null
      BY <3>1 DEF OwnInv
    <3>3. pc[t] # "check"
      BY <2>1, <3>2 DEF DeleteInv
    <3> QED
      BY <3>2, <3>3 DEF OwnInv, TypeOK, PCs
  <2> QED
    BY <2>1, <2>2 DEF DeleteInv, GroupOutlivesWaiters
<1>7. CASE Create
  BY <1>7 DEF Create, DeleteInv, GroupOutlivesWaiters
<1>8. CASE UNCHANGED vars
  BY <1>8 DEF vars, group, heap, delete, DeleteInv, GroupOutlivesWaiters
<1> QED
  BY <1>1, <1>2, <1>3, <1>4, <1>5, <1>6, <1>7, <1>8 DEF Next, Set

\* Nobody reads a freed node or walks in circles unless the list is damaged.
WalksEnd == ~damaged \/ deleter = "gone" => system = "ok"

LEMMA WalksEndStep ==
    ASSUME TypeOK, OwnInv, ChainInv, WalksEnd, [Next]_vars
    PROVE  WalksEnd'
<1>1. ~damaged => (AfterWalk => system' = "ok")
  BY ChainSound DEF ChainInv, AfterWalk
<1>2. ASSUME NEW t \in Tasks, InGet(t) \/ TimeOut(t) PROVE WalksEnd'
  <2>1. deleter' = deleter /\ (damaged => damaged')
    BY <1>2, GetEffect
  <2>2. CASE Enqueue(t)
    <3>1. damaged' = damaged /\ deleter # "gone" /\ system = "ok"
      BY <2>2 DEF Enqueue, MutexFree
    <3>2. system' = "ok" \/ AfterWalk \/ system' = system
      BY <2>2 DEF Enqueue
    <3> QED
      BY <1>1, <2>1, <3>1, <3>2 DEF WalksEnd
  <2>3. CASE UNCHANGED system
    BY <2>1, <2>3 DEF WalksEnd
  <2> QED
    BY <1>2, <2>2, <2>3 DEF InGet, Succeed, GiveUp, WaitAgain, Wake, TimeOut, Look, Quit
<1>3. ASSUME NEW new, SetFlags(new) PROVE WalksEnd'
  BY <1>1, <1>3 DEF SetFlags, delete, WalksEnd
<1>4. CASE StartDelete
  BY <1>1, <1>4 DEF StartDelete, WalksEnd
<1>5. CASE Drain \/ Decide \/ Create
  BY <1>5 DEF Drain, Decide, Create, MutexFree, heap, WalksEnd
<1>6. ASSUME NEW t \in Tasks, NEW mask, NEW option, NEW wait, Get(t, mask, option, wait)
      PROVE  WalksEnd'
  BY <1>6 DEF Get, heap, delete, WalksEnd
<1>7. CASE UNCHANGED vars
  BY <1>7 DEF vars, heap, delete, WalksEnd
<1> QED
  BY <1>2, <1>3, <1>4, <1>5, <1>6, <1>7 DEF Next, Set
----------------------------------------------------------------------------
(* The theorems                                                            *)

EventInv ==
    /\ TypeOK /\ OwnInv /\ CallInv /\ ChainInv
    /\ NoLostWakeup /\ DeleteInv /\ WalksEnd

LEMMA EventInvInit == Init => EventInv
<1> SUFFICES ASSUME Init PROVE EventInv
  OBVIOUS
<1>1. Zeroed \in Node /\ NoCall \in [mask : SUBSET Flags, wait : BOOLEAN, option : Options \cup {"OR"}]
  BY DEF Zeroed, NoCall, Node
<1>2. TypeOK
  <2>1. mem \in [Blocks -> Node]
    BY <1>1 DEF Init
  <2>2. call \in [Tasks -> [mask : SUBSET Flags, wait : BOOLEAN, option : Options \cup {"OR"}]]
    BY <1>1 DEF Init
  <2>3. pc \in [Tasks -> PCs] /\ tmp \in [Tasks -> Blocks \cup {Null}]
    BY DEF Init, PCs
  <2>4. attempts \in 0 .. MaxAttempt
    BY DEF Init, MaxAttempt
  <2>5. /\ flags \subseteq Flags /\ deleting \in BOOLEAN
        /\ list \in Blocks \cup {Null} /\ used \subseteq Blocks
        /\ deleter \in {"idle", "drain", "decide", "gone"}
        /\ system \in {"ok", "spins", "undefined"} /\ damaged \in BOOLEAN
    BY DEF Init
  <2> QED
    BY <2>1, <2>2, <2>3, <2>4, <2>5 DEF TypeOK, Node
<1>3. Chained
  <2> DEFINE s == [i \in 1 .. 0 |-> Null]
  <2>1. s \in [1 .. 0 -> Blocks] /\ 1 .. 0 = {}
    OBVIOUS
  <2>2. Links(0, s)
    BY <2>1 DEF Init, Links
  <2> QED
    BY <2>1, <2>2 DEF Chained
<1>4. OwnInv /\ CallInv /\ NoLostWakeup /\ DeleteInv /\ WalksEnd
  BY DEF Init, OwnInv, CallInv, NoLostWakeup, DeleteInv, GroupOutlivesWaiters, WalksEnd
<1> QED
  BY <1>2, <1>3, <1>4 DEF EventInv, ChainInv

LEMMA EventInvAlways == Spec => []EventInv
<1>1. EventInv /\ [Next]_vars => EventInv'
  BY TypeStep, OwnStep, CallStep, ChainStep, WakeStep, DeleteStep, WalksEndStep DEF EventInv
<1> QED
  BY <1>1, EventInvInit, PTL DEF Spec

(* Every reachable state is typed, also once the list is damaged.          *)
THEOREM TypeCorrect == Spec => []TypeOK
<1>1. EventInv => TypeOK
  BY DEF EventInv
<1> QED
  BY <1>1, EventInvAlways, PTL

(* Until os_event_flags_remove_node frees the first of several nodes, the  *)
(* list links exactly the nodes of the tasks that wait, both ways, and     *)
(* following it comes to an end, in whatever order the tasks come and go.  *)
THEOREM ListStaysSound == Spec => []ListSound
<1>1. EventInv => ListSound
  <2> SUFFICES ASSUME EventInv, ~damaged
               PROVE  /\ ~Endless
                      /\ Met = {tmp[t] : t \in Tasks} \ {Null} /\ Met = used
                      /\ list # Null => mem[list].prev = Null
                      /\ \A b \in Met : mem[b].next # Null => mem[mem[b].next].prev = b
    BY DEF ListSound
  <2>1. TypeOK /\ OwnInv /\ Chained
    BY DEF EventInv, ChainInv
  <2>2. used = {tmp[t] : t \in Tasks} \ {Null}
    BY <2>1, TasksAssumption DEF OwnInv, TypeOK
  <2> QED
    BY <2>1, <2>2, ChainSound
<1> QED
  BY <1>1, EventInvAlways, PTL

(* os_event_flags_set wakes everybody whose flags it sets: as long as the  *)
(* list is sound a task never sleeps on flags that are there.              *)
THEOREM WakeupsKept == Spec => []NoLostWakeup
<1>1. EventInv => NoLostWakeup
  BY DEF EventInv
<1> QED
  BY <1>1, EventInvAlways, PTL

(* os_event_flags_delete tells everybody who is in the group, also who is  *)
(* between two waits.                                                      *)
THEOREM DeletionTold == Spec => []DeletionReachesAll
<1>1. EventInv => DeletionReachesAll
  BY DEF EventInv, DeleteInv, DeletionReachesAll
<1> QED
  BY <1>1, EventInvAlways, PTL

(* os_event_flags_delete frees the group only once nobody is in it.        *)
THEOREM GroupFreedLast == Spec => []GroupOutlivesWaiters
<1>1. EventInv => GroupOutlivesWaiters
  BY DEF EventInv, DeleteInv
<1> QED
  BY <1>1, EventInvAlways, PTL

(* What goes wrong with the list begins with the removal of its first node *)
(* before the others: until then no walk faults or goes round for ever.    *)
THEOREM WalksAreSafe == Spec => []WalksEnd
<1>1. EventInv => WalksEnd
  BY DEF EventInv
<1> QED
  BY <1>1, EventInvAlways, PTL
============================================================================
