---------------------------- MODULE AppCtrlProofs ----------------------------
(***************************************************************************)
(* Proofs about AppCtrl, for all networks, queue sizes and calls.  The     *)
(* properties are about what is still queued; the invariant says in which  *)
(* order: a CONNECTED that is no longer true is followed by its            *)
(* correction, and a LINK_LOST that finds the framework connecting counts  *)
(* only behind the CONNECTED it belongs to, because the state machine does *)
(* not start a new attempt on it.                                          *)
(***************************************************************************)
EXTENDS AppCtrl, TLAPS

Downs == {"CONNECT_FAILED", "LINK_LOST", "USER_DISCONNECT"}

Has(s, what) == \E i \in 1 .. Len(s) : s[i].what \in what

\* Every CONNECTED of the queue is followed by an event that takes it back.
TakenBack(s) ==
    \A i \in 1 .. Len(s) : s[i].what = "CONNECTED" =>
        \E j \in 1 .. Len(s) : i < j /\ s[j].what \in Downs

\* A CONNECTED, and behind it the loss of that link.
UpAndDown(s) ==
    \E i, j \in 1 .. Len(s) : i < j /\ s[i].what = "CONNECTED" /\ s[j].what = "LINK_LOST"

\* A request to connect is queued.
Asks(m) == \E i \in 1 .. Len(m.reqs) : m.reqs[i] = "connect"

Corrected ==
    ~app.lost /\ mgr.stage # "connected" =>
        TakenBack(app.events) /\ (app.next = "CONNECTED" => Has(app.events, Downs))

Attempted ==
    app.st = "CONNECTING" /\ Ready /\ ~app.lost /\ ~app.critical =>
        \/ Asks(mgr)
        \/ mgr.stage \notin {"idle", "connected"}
        \/ Has(app.events, {"CONNECT_FAILED", "USER_DISCONNECT"})
        \/ mgr.stage = "connected" /\ Has(app.events, {"CONNECTED"})
        \/ mgr.stage = "idle" /\ UpAndDown(app.events)

IInv == TypeOK /\ Corrected /\ Attempted
----------------------------------------------------------------------------
(* The queue *)

LEMMA HeadTail ==
    ASSUME NEW S, NEW s \in Seq(S), s # <<>>
    PROVE  /\ Head(s) \in S /\ Tail(s) \in Seq(S) /\ Len(Tail(s)) = Len(s) - 1
           /\ Len(s) \in Nat \ {0} /\ Head(s) = s[1]
           /\ \A i \in 1 .. Len(s) - 1 : Tail(s)[i] = s[i + 1]
OBVIOUS

LEMMA Appended ==
    ASSUME NEW S, NEW s \in Seq(S), NEW e \in S
    PROVE  /\ Append(s, e) \in Seq(S) /\ Len(Append(s, e)) = Len(s) + 1
           /\ Len(s) \in Nat /\ Append(s, e)[Len(s) + 1] = e
           /\ \A i \in 1 .. Len(s) : Append(s, e)[i] = s[i]
OBVIOUS

\* What taking the first event leaves.
LEMMA TailKeeps ==
    ASSUME NEW s \in Seq(Events), s # <<>>
    PROVE  /\ \A W : Has(s, W) /\ Head(s).what \notin W => Has(Tail(s), W)
           /\ TakenBack(s) => TakenBack(Tail(s))
           /\ TakenBack(s) /\ Head(s).what = "CONNECTED" => Has(Tail(s), Downs)
           /\ UpAndDown(s) /\ Head(s).what # "CONNECTED" => UpAndDown(Tail(s))
<1>1. ASSUME NEW W, Has(s, W), Head(s).what \notin W PROVE Has(Tail(s), W)
  <2>1. PICK i \in 1 .. Len(s) : s[i].what \in W
    BY <1>1 DEF Has
  <2>2. i # 1
    BY <1>1, <2>1, HeadTail
  <2>3. i - 1 \in 1 .. Len(Tail(s)) /\ Tail(s)[i - 1] = s[i]
    BY <2>2, HeadTail
  <2> QED
    BY <2>1, <2>3 DEF Has
<1>2. ASSUME TakenBack(s), NEW i \in 1 .. Len(Tail(s)), Tail(s)[i].what = "CONNECTED"
      PROVE  \E j \in 1 .. Len(Tail(s)) : i < j /\ Tail(s)[j].what \in Downs
  <2>1. i + 1 \in 1 .. Len(s) /\ s[i + 1].what = "CONNECTED"
    BY <1>2, HeadTail
  <2>2. PICK j \in 1 .. Len(s) : i + 1 < j /\ s[j].what \in Downs
    BY <1>2, <2>1 DEF TakenBack
  <2>3. j - 1 \in 1 .. Len(Tail(s)) /\ i < j - 1 /\ Tail(s)[j - 1] = s[j]
    BY <2>2, HeadTail
  <2> QED
    BY <2>2, <2>3
<1>3. ASSUME TakenBack(s), Head(s).what = "CONNECTED" PROVE Has(Tail(s), Downs)
  <2>1. 1 \in 1 .. Len(s) /\ s[1].what = "CONNECTED"
    BY <1>3, HeadTail
  <2>2. PICK j \in 1 .. Len(s) : 1 < j /\ s[j].what \in Downs
    BY <1>3, <2>1 DEF TakenBack
  <2>3. j - 1 \in 1 .. Len(Tail(s)) /\ Tail(s)[j - 1] = s[j]
    BY <2>2, HeadTail
  <2> QED
    BY <2>2, <2>3 DEF Has
<1>4. ASSUME UpAndDown(s), Head(s).what # "CONNECTED" PROVE UpAndDown(Tail(s))
  <2>1. PICK i, j \in 1 .. Len(s) :
            i < j /\ s[i].what = "CONNECTED" /\ s[j].what = "LINK_LOST"
    BY <1>4 DEF UpAndDown
  <2>2. i # 1
    BY <1>4, <2>1, HeadTail
  <2>3. /\ i - 1 \in 1 .. Len(Tail(s)) /\ j - 1 \in 1 .. Len(Tail(s)) /\ i - 1 < j - 1
        /\ Tail(s)[i - 1] = s[i] /\ Tail(s)[j - 1] = s[j]
    BY <2>1, <2>2, HeadTail
  <2> QED
    BY <2>1, <2>3 DEF UpAndDown
<1> QED
  BY <1>1, <1>2, <1>3, <1>4 DEF TakenBack

\* What another event leaves, and what it adds.
LEMMA AppendKeeps ==
    ASSUME NEW s \in Seq(Events), NEW e \in Events
    PROVE  /\ \A W : Has(s, W) \/ e.what \in W => Has(Append(s, e), W)
           /\ TakenBack(s) /\ e.what # "CONNECTED" => TakenBack(Append(s, e))
           /\ e.what \in Downs => TakenBack(Append(s, e))
           /\ UpAndDown(s) => UpAndDown(Append(s, e))
           /\ Has(s, {"CONNECTED"}) /\ e.what = "LINK_LOST" => UpAndDown(Append(s, e))
<1> DEFINE t == Append(s, e)
           n == Len(s)
<1>1. /\ n \in Nat /\ Len(t) = n + 1 /\ t[n + 1] = e
      /\ \A i \in 1 .. n : i \in 1 .. Len(t) /\ t[i] = s[i]
      /\ n + 1 \in 1 .. Len(t)
  BY Appended
<1> HIDE DEF t, n
<1>2. \A W : Has(s, W) \/ e.what \in W => Has(t, W)
  BY <1>1 DEF Has, n
<1>3. TakenBack(s) /\ e.what # "CONNECTED" => TakenBack(t)
  BY <1>1 DEF TakenBack, n
<1>4. e.what \in Downs => TakenBack(t)
  <2>1. SUFFICES ASSUME e.what \in Downs, NEW i \in 1 .. Len(t), t[i].what = "CONNECTED"
                 PROVE  i < n + 1
    BY <1>1 DEF TakenBack
  <2> QED
    BY <2>1, <1>1 DEF Downs
<1>5. UpAndDown(s) => UpAndDown(t)
  BY <1>1 DEF UpAndDown, n
<1>6. Has(s, {"CONNECTED"}) /\ e.what = "LINK_LOST" => UpAndDown(t)
  BY <1>1 DEF UpAndDown, Has, n
<1> QED
  BY <1>2, <1>3, <1>4, <1>5, <1>6 DEF t

\* The queue of `b' is that of `a' with `e' behind it, or `e' was lost.
Told(a, b, e) == b.lost = TRUE \/ (b.lost = a.lost /\ b.events = Append(a.events, e))

\* app_ctrl_notify_event appends the event, or the queue is full.
LEMMA Notified ==
    ASSUME NEW a \in AppType, Len(a.events) <= MaxEvents, NEW e \in Events, NEW b,
           b = Notify(a, e)
    PROVE  /\ b \in AppType /\ Len(b.events) <= MaxEvents
           /\ b.st = a.st /\ b.next = a.next /\ b.reconnecting = a.reconnecting
           /\ b.retries = a.retries /\ b.critical = a.critical
           /\ Told(a, b, e)
<1>1. Append(a.events, e) \in Seq(Events) /\ Len(Append(a.events, e)) = Len(a.events) + 1
  BY DEF AppType
<1>2. CASE Len(a.events) < MaxEvents
  <2>1. b = [a EXCEPT !.events = Append(a.events, e)]
    BY <1>2 DEF Notify
  <2>2. b \in AppType
    BY <1>1, <2>1 DEF AppType
  <2>3. /\ b.events = Append(a.events, e) /\ b.lost = a.lost
        /\ b.st = a.st /\ b.next = a.next /\ b.reconnecting = a.reconnecting
        /\ b.retries = a.retries /\ b.critical = a.critical
    BY <2>1 DEF AppType
  <2>4. Len(b.events) <= MaxEvents
    BY <1>1, <1>2, <2>3, AppAssumption DEF AppType
  <2> QED
    BY <2>2, <2>3, <2>4 DEF Told
<1>3. CASE ~(Len(a.events) < MaxEvents)
  <2>1. b = [a EXCEPT !.lost = TRUE]
    BY <1>3 DEF Notify
  <2>2. b \in AppType
    BY <2>1 DEF AppType
  <2>3. /\ b.events = a.events /\ b.lost = TRUE
        /\ b.st = a.st /\ b.next = a.next /\ b.reconnecting = a.reconnecting
        /\ b.retries = a.retries /\ b.critical = a.critical
    BY <2>1 DEF AppType
  <2> QED
    BY <2>2, <2>3 DEF Told
<1> QED
  BY <1>2, <1>3
----------------------------------------------------------------------------
(* The manager's API *)

GoodMgr(m) == m \in MgrType /\ Len(m.reqs) <= MaxRequests

LEMMA Requested ==
    ASSUME NEW m, GoodMgr(m), NEW r \in {"connect", "disconnect"}
    PROVE  /\ GoodMgr(Request(m, r)) /\ Request(m, r).stage = m.stage
           /\ Asks(m) => Asks(Request(m, r))
           /\ CanConnect(m) /\ r = "connect" => Asks(Request(m, r))
<1> DEFINE R == {"connect", "disconnect"}
<1>1. m.reqs \in Seq(R) /\ Len(m.reqs) \in Nat /\ MaxRequests \in Nat
  BY AppAssumption DEF GoodMgr, MgrType
<1>2. /\ Append(m.reqs, r) \in Seq(R) /\ Len(Append(m.reqs, r)) = Len(m.reqs) + 1
      /\ Append(m.reqs, r)[Len(m.reqs) + 1] = r
      /\ \A i \in 1 .. Len(m.reqs) : Append(m.reqs, r)[i] = m.reqs[i]
  BY <1>1, Appended
<1>3. CASE Len(m.reqs) < MaxRequests
  <2> DEFINE n == [m EXCEPT !.reqs = Append(m.reqs, r)]
  <2>1. Request(m, r) = n
    BY <1>3 DEF Request
  <2>2. n \in MgrType /\ n.reqs = Append(m.reqs, r) /\ n.stage = m.stage
    BY <1>2 DEF GoodMgr, MgrType
  <2>3. Len(n.reqs) <= MaxRequests
    BY <1>1, <1>2, <1>3, <2>2
  <2>4. Asks(m) \/ r = "connect" => Asks(n)
    BY <1>1, <1>2, <2>2 DEF Asks
  <2> HIDE DEF n
  <2> QED
    BY <2>1, <2>2, <2>3, <2>4 DEF GoodMgr
<1>4. CASE ~(Len(m.reqs) < MaxRequests)
  BY <1>4 DEF Request, CanConnect, GoodMgr
<1> QED
  BY <1>3, <1>4

LEMMA Loaded ==
    ASSUME NEW m, GoodMgr(m), NEW net \in Networks \cup {None}
    PROVE  /\ GoodMgr(Load(m, net)) /\ Load(m, net).stage = m.stage
           /\ Asks(m) => Asks(Load(m, net))
BY DEF Load, GoodMgr, MgrType, Asks

LEMMA Unloaded ==
    ASSUME NEW m, GoodMgr(m)
    PROVE  /\ GoodMgr(Unload(m)) /\ Unload(m).stage = m.stage
           /\ Asks(m) => Asks(Unload(m))
<1> DEFINE n == [m EXCEPT !.entry = None]
<1>1. GoodMgr(n) /\ n.stage = m.stage /\ (Asks(m) => Asks(n))
  BY DEF GoodMgr, MgrType, Asks
<1>2. Unload(m) \in {m, n, Request(n, "disconnect")}
  BY DEF Unload
<1> HIDE DEF n
<1> QED
  BY <1>1, <1>2, Requested

\* The request the manager serves next, and those it leaves.
LEMMA ServedKeeps ==
    ASSUME GoodMgr(mgr), mgr.reqs # <<>>, NEW s \in Stages, NEW n,
           n = [Served EXCEPT !.stage = s]
    PROVE  /\ GoodMgr(n) /\ n.stage = s
           /\ Asks(mgr) /\ Head(mgr.reqs) # "connect" => Asks(n)
<1> DEFINE R == {"connect", "disconnect"}
           t == Tail(mgr.reqs)
<1>1. mgr.reqs \in Seq(R) /\ MaxRequests \in Nat
  BY AppAssumption DEF GoodMgr, MgrType
<1>2. /\ t \in Seq(R) /\ Len(t) = Len(mgr.reqs) - 1 /\ Len(mgr.reqs) \in Nat \ {0}
      /\ Head(mgr.reqs) = mgr.reqs[1] /\ \A i \in 1 .. Len(mgr.reqs) - 1 : t[i] = mgr.reqs[i + 1]
  BY <1>1, HeadTail
<1> HIDE DEF t
<1>3. n = [mgr EXCEPT !.reqs = t, !.stage = s]
  BY DEF Served, t
<1>4. n \in MgrType /\ n.reqs = t /\ n.stage = s
  BY <1>2, <1>3 DEF GoodMgr, MgrType
<1>5. Len(n.reqs) <= MaxRequests
  BY <1>1, <1>2, <1>4 DEF GoodMgr
<1>6. ASSUME Asks(mgr), Head(mgr.reqs) # "connect" PROVE Asks(n)
  <2>1. PICK i \in 1 .. Len(mgr.reqs) : mgr.reqs[i] = "connect"
    BY <1>6 DEF Asks
  <2>2. i # 1
    BY <1>2, <1>6, <2>1
  <2>3. i - 1 \in 1 .. Len(t) /\ t[i - 1] = mgr.reqs[i]
    BY <1>2, <2>2
  <2> QED
    BY <1>4, <2>1, <2>3 DEF Asks
<1> QED
  BY <1>4, <1>5, <1>6 DEF GoodMgr
----------------------------------------------------------------------------
(* Types *)

GoodApp(a) == a \in AppType /\ Len(a.events) <= MaxEvents

LEMMA TypeSplit == TypeOK <=> GoodApp(app) /\ GoodMgr(mgr) /\ stops \in Nat /\ calls \in 0 .. MaxCalls
BY DEF TypeOK, GoodApp, GoodMgr

\* The framework without the event it takes.
LEMMA TakenTyped ==
    ASSUME GoodApp(app), app.events # <<>>
    PROVE  /\ GoodApp(Taken) /\ Taken.events = Tail(app.events)
           /\ Head(app.events) \in Events
           /\ Taken.st = app.st /\ Taken.next = app.next /\ Taken.lost = app.lost
           /\ Taken.critical = app.critical /\ Taken.reconnecting = app.reconnecting
           /\ Taken.retries = app.retries
<1>1. /\ Tail(app.events) \in Seq(Events) /\ Len(Tail(app.events)) = Len(app.events) - 1
      /\ Len(app.events) \in Nat /\ Head(app.events) \in Events
  BY HeadTail DEF GoodApp, AppType
<1>2. Taken = [app EXCEPT !.events = Tail(app.events)]
  BY DEF Taken
<1>3. /\ Taken \in AppType /\ Taken.events = Tail(app.events)
      /\ Taken.st = app.st /\ Taken.next = app.next /\ Taken.lost = app.lost
      /\ Taken.critical = app.critical /\ Taken.reconnecting = app.reconnecting
      /\ Taken.retries = app.retries
  BY <1>1, <1>2 DEF GoodApp, AppType
<1>4. Len(Taken.events) <= MaxEvents
  BY <1>1, <1>3, AppAssumption DEF GoodApp
<1> QED
  BY <1>1, <1>3, <1>4 DEF GoodApp

LEMMA NetType ==
    ASSUME GoodApp(app), app.events # <<>>
    PROVE  /\ Net \in Networks \cup {None}
           /\ Head(app.events).what \in {"ADVANCED_SETTINGS", "PROV_NW_SET"} => Net \in Networks
<1>1. Head(app.events) \in Events
  BY TakenTyped
<1> QED
  BY <1>1 DEF Net, Events

LEMMA GotoTyped ==
    ASSUME NEW a, GoodApp(a), NEW s \in AppStates
    PROVE  /\ GoodApp(Goto(a, s)) /\ Goto(a, s).next = s /\ Goto(a, s).events = a.events
           /\ Goto(a, s).st = a.st /\ Goto(a, s).lost = a.lost
BY DEF Goto, GoodApp, AppType

LEMMA TellTyped ==
    ASSUME NEW a, GoodApp(a),
           NEW what \in {"CONNECTED", "CONNECT_FAILED", "LINK_LOST", "USER_DISCONNECT",
                         "STA_REQUESTED", "RESET_PROV"},
           NEW b, b = Tell(a, what)
    PROVE  /\ GoodApp(b)
           /\ b.st = a.st /\ b.next = a.next /\ b.reconnecting = a.reconnecting
           /\ b.retries = a.retries /\ b.critical = a.critical
           /\ Told(a, b, Event(what, None))
           /\ Event(what, None) \in Events /\ Event(what, None).what = what
<1>1. Event(what, None) \in Events /\ Event(what, None).what = what
  BY DEF Event, Events
<1> QED
  BY <1>1, Notified DEF Tell, GoodApp
----------------------------------------------------------------------------
(* Steps that take an event, or none, and leave the manager's stage        *)

Staged == mgr'.stage = mgr.stage /\ (Asks(mgr) => Asks(mgr)')

LEMMA EventLeft ==
    ASSUME IInv, Staged, app'.events = app.events, app'.lost = app.lost,
           app'.next = app.next \/ app'.next # "CONNECTED"
    PROVE  Corrected'
BY DEF IInv, Corrected, Staged

LEMMA EventTaken ==
    ASSUME IInv, Staged, app.events # <<>>,
           app'.events = Tail(app.events), app'.lost = app.lost,
           \/ app'.next # "CONNECTED"
           \/ Head(app.events).what = "CONNECTED"
           \/ app'.next = app.next /\ Head(app.events).what \notin Downs
    PROVE  Corrected'
<1>1. app.events \in Seq(Events)
  BY DEF IInv, TypeOK, AppType
<1>2. SUFFICES ASSUME ~app.lost, mgr.stage # "connected"
               PROVE  TakenBack(app.events)' /\ (app'.next = "CONNECTED" => Has(app.events, Downs)')
  BY DEF Corrected, Staged
<1>3. TakenBack(app.events) /\ (app.next = "CONNECTED" => Has(app.events, Downs))
  BY <1>2 DEF IInv, Corrected
<1>4. /\ TakenBack(Tail(app.events))
      /\ Head(app.events).what = "CONNECTED" => Has(Tail(app.events), Downs)
      /\ Has(app.events, Downs) /\ Head(app.events).what \notin Downs => Has(Tail(app.events), Downs)
  BY <1>1, <1>3, TailKeeps
<1> QED
  BY <1>3, <1>4 DEF TakenBack, Has

\* The framework tells itself of a disconnection when it took a failure.
LEMMA EventToldAgain ==
    ASSUME IInv, Staged, app.events # <<>>, app'.next # "CONNECTED",
           \/ app'.lost
           \/ /\ app'.lost = app.lost
              /\ \E e \in Events : /\ e.what = "USER_DISCONNECT"
                                   /\ app'.events = Append(Tail(app.events), e)
    PROVE  Corrected'
<1>1. CASE app'.lost
  BY <1>1 DEF Corrected
<1>2. ASSUME app'.lost = app.lost, NEW e \in Events, e.what = "USER_DISCONNECT",
             app'.events = Append(Tail(app.events), e)
      PROVE  Corrected'
  <2>1. Tail(app.events) \in Seq(Events)
    BY HeadTail DEF IInv, TypeOK, AppType
  <2>2. TakenBack(Append(Tail(app.events), e))
    BY <1>2, <2>1, AppendKeeps DEF Downs
  <2> QED
    BY <1>2, <2>2 DEF Corrected, TakenBack
<1> QED
  BY <1>1, <1>2

\* An event that neither ends the attempt nor tells of its success leaves it.
LEMMA AttemptLeft ==
    ASSUME IInv, Staged, app.events # <<>>, Ready,
           app'.events = Tail(app.events), app'.lost = app.lost, app'.critical = app.critical,
           app'.st = app.st,
           Head(app.events).what \notin {"CONNECTED", "CONNECT_FAILED", "USER_DISCONNECT"}
    PROVE  Attempted'
<1>1. app.events \in Seq(Events)
  BY DEF IInv, TypeOK, AppType
<1>2. SUFFICES ASSUME app.st = "CONNECTING", ~app.lost, ~app.critical
               PROVE  \/ Asks(mgr)'
                      \/ mgr.stage \notin {"idle", "connected"}
                      \/ Has(Tail(app.events), {"CONNECT_FAILED", "USER_DISCONNECT"})
                      \/ mgr.stage = "connected" /\ Has(Tail(app.events), {"CONNECTED"})
                      \/ mgr.stage = "idle" /\ UpAndDown(Tail(app.events))
  BY DEF Attempted, Staged, Has, UpAndDown
<1>3. \/ Asks(mgr)
      \/ mgr.stage \notin {"idle", "connected"}
      \/ Has(app.events, {"CONNECT_FAILED", "USER_DISCONNECT"})
      \/ mgr.stage = "connected" /\ Has(app.events, {"CONNECTED"})
      \/ mgr.stage = "idle" /\ UpAndDown(app.events)
  BY <1>2 DEF IInv, Attempted
<1>4. /\ Has(app.events, {"CONNECT_FAILED", "USER_DISCONNECT"})
         => Has(Tail(app.events), {"CONNECT_FAILED", "USER_DISCONNECT"})
      /\ Has(app.events, {"CONNECTED"}) => Has(Tail(app.events), {"CONNECTED"})
      /\ UpAndDown(app.events) => UpAndDown(Tail(app.events))
  BY <1>1, TailKeeps
<1> QED
  BY <1>3, <1>4 DEF Staged
----------------------------------------------------------------------------
(* The steps of the framework *)

LEMMA Reassembled ==
    ASSUME TypeOK, ByApp, GoodApp(app'), GoodMgr(mgr')
    PROVE  TypeOK'
BY DEF TypeOK, ByApp, GoodApp, GoodMgr

LEMMA SameMgr ==
    ASSUME TypeOK, UNCHANGED mgr
    PROVE  GoodMgr(mgr') /\ Staged
BY TypeSplit DEF GoodMgr, Staged, Asks

LEMMA EnterConnectingKeeps == ASSUME IInv, EnterConnecting PROVE IInv'
<1> DEFINE m == Load(mgr, app.saved)
           a == [app EXCEPT !.st = "CONNECTING", !.critical = (m.entry = None)]
<1>1. TypeOK /\ GoodApp(app) /\ GoodMgr(mgr) /\ app.next = "CONNECTING"
  BY TypeSplit DEF IInv, EnterConnecting
<1>2. GoodMgr(m) /\ m.stage = mgr.stage /\ (Asks(mgr) => Asks(m))
  BY <1>1, Loaded DEF GoodApp, AppType
<1>3. /\ GoodApp(a) /\ a.st = "CONNECTING" /\ a.next = app.next /\ a.events = app.events
      /\ a.lost = app.lost /\ (a.critical <=> m.entry = None)
      /\ a.reconnecting = app.reconnecting /\ a.retries = app.retries
  BY <1>1 DEF GoodApp, AppType, AppStates
<1> HIDE DEF m, a
<1>4. CASE m.entry = None /\ app' = a /\ mgr' = mgr
  <2>1. GoodMgr(mgr') /\ Staged
    BY <1>1, <1>4, SameMgr
  <2>2. TypeOK'
    BY <1>1, <1>3, <1>4, <2>1, Reassembled DEF EnterConnecting
  <2>3. Corrected'
    BY <1>1, <1>3, <1>4, <2>1, EventLeft
  <2>4. Attempted'
    BY <1>3, <1>4 DEF Attempted
  <2> QED
    BY <2>2, <2>3, <2>4 DEF IInv
<1>5. CASE m.entry # None /\ CanConnect(m) /\ app' = a /\ mgr' = Request(m, "connect")
  <2>1. GoodMgr(mgr') /\ mgr'.stage = mgr.stage /\ Asks(mgr')
    BY <1>2, <1>5, Requested
  <2>2. TypeOK'
    BY <1>1, <1>3, <1>5, <2>1, Reassembled DEF EnterConnecting
  <2>3. Corrected'
    BY <1>1, <1>3, <1>5, <2>1, EventLeft DEF Staged, Asks
  <2>4. Attempted'
    BY <2>1 DEF Attempted, Asks
  <2> QED
    BY <2>2, <2>3, <2>4 DEF IInv
<1>6. CASE /\ app.stop /\ app' = Tell([a EXCEPT !.stop = FALSE], "USER_DISCONNECT")
           /\ mgr' = m
  <2> DEFINE b == [a EXCEPT !.stop = FALSE]
             e == Event("USER_DISCONNECT", None)
  <2>1. GoodApp(b) /\ b.next = a.next /\ b.events = a.events /\ b.lost = a.lost
    BY <1>3 DEF GoodApp, AppType
  <2>0. app' = Tell(b, "USER_DISCONNECT")
    BY <1>6
  <2> HIDE DEF b, e
  <2>2. /\ GoodApp(app') /\ app'.next = b.next /\ e \in Events /\ e.what = "USER_DISCONNECT"
        /\ app'.lost = TRUE \/ (app'.lost = b.lost /\ app'.events = Append(b.events, e))
    <3>1. /\ GoodApp(app') /\ app'.next = b.next
          /\ Event("USER_DISCONNECT", None) \in Events
          /\ Event("USER_DISCONNECT", None).what = "USER_DISCONNECT"
          /\ Told(b, app', Event("USER_DISCONNECT", None))
      BY <2>0, <2>1, TellTyped
    <3> QED
      BY <3>1 DEF e, Told
  <2>3. GoodMgr(mgr') /\ mgr'.stage = mgr.stage
    BY <1>2, <1>6
  <2>4. TypeOK'
    BY <1>1, <2>2, <2>3, Reassembled DEF EnterConnecting
  <2>5. CASE app'.lost = TRUE
    BY <2>4, <2>5 DEF IInv, Corrected, Attempted
  <2>6. CASE app'.lost = app.lost /\ app'.events = Append(app.events, e)
    <3>1. app.events \in Seq(Events)
      BY <1>1 DEF GoodApp, AppType
    <3>2. /\ TakenBack(Append(app.events, e))
          /\ Has(Append(app.events, e), {"CONNECT_FAILED", "USER_DISCONNECT"})
      BY <2>2, <3>1, AppendKeeps DEF Downs
    <3>3. app'.next # "CONNECTED"
      BY <1>1, <1>3, <2>1, <2>2
    <3> QED
      BY <2>4, <2>6, <3>2, <3>3 DEF IInv, Corrected, Attempted, TakenBack, Has
  <2> QED
    BY <1>3, <2>1, <2>2, <2>5, <2>6
<1>7. CASE app' = [a EXCEPT !.reconnecting = TRUE] /\ mgr' = m
  <2>1. /\ GoodApp(app') /\ app'.next = app.next /\ app'.events = app.events
        /\ app'.lost = app.lost /\ app'.reconnecting = TRUE
    BY <1>3, <1>7 DEF GoodApp, AppType
  <2>2. GoodMgr(mgr') /\ Staged
    BY <1>2, <1>7 DEF Staged, Asks
  <2>3. TypeOK'
    BY <1>1, <2>1, <2>2, Reassembled DEF EnterConnecting
  <2>4. Corrected'
    BY <1>1, <2>1, <2>2, EventLeft
  <2>5. Attempted'
    BY <2>1 DEF Attempted, Ready
  <2> QED
    BY <2>3, <2>4, <2>5 DEF IInv
<1> QED
  BY <1>4, <1>5, <1>6, <1>7 DEF EnterConnecting, m, a
\* A step that takes an event and leaves the manager's stage.
LEMMA EventHandled ==
    ASSUME IInv, ByApp, app.events # <<>>, GoodApp(app'), GoodMgr(mgr'), Staged,
           app'.events = Tail(app.events), app'.lost = app.lost,
           \/ app'.next # "CONNECTED"
           \/ Head(app.events).what = "CONNECTED"
           \/ app'.next = app.next /\ Head(app.events).what \notin Downs,
           \/ app'.st # "CONNECTING"
           \/ ~Ready'
           \/ /\ Ready /\ app'.st = app.st /\ app'.critical = app.critical
              /\ Head(app.events).what \notin {"CONNECTED", "CONNECT_FAILED", "USER_DISCONNECT"}
    PROVE  IInv'
<1>1. TypeOK'
  BY Reassembled DEF IInv
<1>2. Corrected'
  BY EventTaken
<1>3. Attempted'
  <2>1. CASE app'.st # "CONNECTING" \/ ~Ready'
    BY <2>1 DEF Attempted
  <2>2. CASE /\ Ready /\ app'.st = app.st /\ app'.critical = app.critical
             /\ Head(app.events).what \notin {"CONNECTED", "CONNECT_FAILED", "USER_DISCONNECT"}
    BY <2>2, AttemptLeft
  <2> QED
    BY <2>1, <2>2
<1> QED
  BY <1>1, <1>2, <1>3 DEF IInv

\* A step that takes no event and leaves the manager's stage.
LEMMA NoEvent ==
    ASSUME IInv, ByApp, GoodApp(app'), GoodMgr(mgr'), Staged,
           app'.events = app.events, app'.lost = app.lost,
           app'.next = app.next \/ app'.next # "CONNECTED",
           app'.st # "CONNECTING" \/ ~Ready' \/ Asks(mgr)'
    PROVE  IInv'
<1>1. TypeOK'
  BY Reassembled DEF IInv
<1>2. Corrected'
  BY EventLeft
<1>3. Attempted'
  BY DEF Attempted
<1> QED
  BY <1>1, <1>2, <1>3 DEF IInv

LEMMA AttemptReconnectKeeps == ASSUME IInv, AttemptReconnect PROVE IInv'
<1>1. GoodApp(app) /\ GoodMgr(mgr)
  BY TypeSplit DEF IInv
<1>2. /\ GoodApp(app') /\ app'.events = app.events /\ app'.lost = app.lost
      /\ app'.next = app.next
  BY <1>1 DEF AttemptReconnect, GoodApp, AppType
<1>3. GoodMgr(mgr') /\ Staged /\ Asks(mgr)'
  BY <1>1, Requested DEF AttemptReconnect, Staged, Asks
<1> QED
  BY <1>2, <1>3, NoEvent DEF AttemptReconnect

LEMMA EnterKeeps == ASSUME IInv, Enter PROVE IInv'
<1> DEFINE a == [app EXCEPT !.st = app.next]
<1>1. GoodApp(app) /\ GoodMgr(mgr) /\ app.next # "CONNECTING" /\ ByApp
  BY TypeSplit DEF IInv, Enter
<1>2. app' \in {a, Goto(a, "CONNECTING"), [a EXCEPT !.provisioned = FALSE],
                [a EXCEPT !.stop = FALSE]}
  BY DEF Enter
<1>3. /\ GoodApp(app') /\ app'.events = app.events /\ app'.lost = app.lost
      /\ app'.next = app.next \/ app'.next = "CONNECTING"
      /\ app'.st = app.next
  BY <1>1, <1>2 DEF Goto, GoodApp, AppType, AppStates
<1>4. mgr' \in {mgr, Request(mgr, "disconnect")}
  BY DEF Enter
<1>5. GoodMgr(mgr') /\ Staged
  <2>1. CASE mgr' = mgr
    BY <2>1, SameMgr DEF IInv
  <2>2. CASE mgr' = Request(mgr, "disconnect")
    BY <1>1, <2>2, Requested DEF Staged, Asks
  <2> QED
    BY <1>4, <2>1, <2>2
<1> QED
  BY <1>1, <1>3, <1>5, NoEvent

LEMMA OnConnectedKeeps == ASSUME IInv, OnConnected PROVE IInv'
<1>1. /\ GoodApp(app) /\ app.events # <<>> /\ Head(app.events).what = "CONNECTED"
      /\ app.st \in {"CONNECTING", "DISCONNECTED"} /\ ByApp
  BY TypeSplit DEF IInv, OnConnected, On
<1>2. GoodMgr(mgr') /\ Staged
  BY SameMgr DEF IInv, OnConnected
<1>3. GoodApp(Taken) /\ Taken.events = Tail(app.events) /\ Taken.lost = app.lost /\ Taken.st = app.st
  BY <1>1, TakenTyped
<1>4. /\ GoodApp(app') /\ app'.events = Tail(app.events) /\ app'.lost = app.lost
      /\ app'.next = "CONNECTED" /\ app'.st = app.st
  BY <1>3, GotoTyped DEF OnConnected, AppStates
<1>5. ~Ready'
  BY <1>1, <1>4 DEF Ready
<1> QED
  BY <1>1, <1>2, <1>4, <1>5, EventHandled

\* The event a step takes, and the states it takes it in.
LEMMA Takes ==
    ASSUME IInv, NEW states, NEW what, On(states, what)
    PROVE  /\ GoodApp(app) /\ GoodMgr(mgr) /\ Ready /\ app.st \in states /\ app.next = app.st
           /\ app.events # <<>> /\ Head(app.events).what = what
           /\ GoodApp(Taken) /\ Taken.events = Tail(app.events) /\ Taken.lost = app.lost
           /\ Taken.st = app.st /\ Taken.next = app.next /\ Taken.critical = app.critical
BY TypeSplit, TakenTyped DEF IInv, On, Ready

LEMMA ConnectFailedKeeps == ASSUME IInv, ConnectFailed PROVE IInv'
<1> DEFINE a == [Taken EXCEPT !.unload = FALSE]
           b == [a EXCEPT !.stop = FALSE]
           t == Tell(b, "USER_DISCONNECT")
<1>1. /\ GoodApp(app) /\ GoodMgr(mgr) /\ Ready /\ app.st = "CONNECTING" /\ app.next = app.st
      /\ app.events # <<>> /\ Head(app.events).what = "CONNECT_FAILED" /\ ByApp
      /\ GoodApp(Taken) /\ Taken.events = Tail(app.events) /\ Taken.lost = app.lost
      /\ Taken.st = app.st /\ Taken.next = app.next
  BY Takes DEF ConnectFailed
<1>2. /\ GoodApp(a) /\ a.events = Tail(app.events) /\ a.lost = app.lost
      /\ a.st = app.st /\ a.next = app.next
  BY <1>1 DEF GoodApp, AppType
<1>3. GoodMgr(mgr') /\ Staged
  <2>1. CASE app.unload
    <3>1. GoodMgr(Unload(mgr)) /\ Unload(mgr).stage = mgr.stage /\ (Asks(mgr) => Asks(Unload(mgr)))
      BY <1>1, Unloaded
    <3>2. app.saved \in Networks \cup {None}
      BY <1>1 DEF GoodApp, AppType
    <3> QED
      BY <2>1, <3>1, <3>2, Loaded DEF ConnectFailed, Staged, Asks
  <2>2. CASE ~app.unload
    BY <2>2, SameMgr DEF ConnectFailed, IInv
  <2> QED
    BY <2>1, <2>2
<1>4. \/ app' = Goto(t, "DISCONNECTED")
      \/ app' = [a EXCEPT !.reconnecting = TRUE]
      \/ app' = Goto(a, "DISCONNECTED")
  BY DEF ConnectFailed
<1>5. CASE app' = Goto(t, "DISCONNECTED")
  <2>1. GoodApp(b) /\ b.events = Tail(app.events) /\ b.lost = app.lost /\ b.st = app.st
    BY <1>2 DEF GoodApp, AppType
  <2> HIDE DEF a, b
  <2>2. /\ GoodApp(t) /\ t.st = b.st /\ Told(b, t, Event("USER_DISCONNECT", None))
        /\ Event("USER_DISCONNECT", None) \in Events
        /\ Event("USER_DISCONNECT", None).what = "USER_DISCONNECT"
    BY <2>1, TellTyped
  <2> HIDE DEF t
  <2>3. /\ GoodApp(app') /\ app'.next = "DISCONNECTED" /\ app'.st = app.st
        /\ app'.events = t.events /\ app'.lost = t.lost
    BY <1>5, <2>1, <2>2, GotoTyped DEF AppStates
  <2>4. Told(b, app', Event("USER_DISCONNECT", None))
    BY <2>2, <2>3 DEF Told
  <2>5. Corrected'
    BY <1>1, <1>3, <2>1, <2>2, <2>3, <2>4, EventToldAgain DEF Told
  <2>6. Attempted' /\ TypeOK'
    BY <1>1, <1>3, <2>3, Reassembled DEF Attempted, Ready, IInv
  <2> QED
    BY <2>5, <2>6 DEF IInv
<1>6. CASE app' = [a EXCEPT !.reconnecting = TRUE]
  <2>1. /\ GoodApp(app') /\ app'.events = Tail(app.events) /\ app'.lost = app.lost
        /\ app'.next = app.next /\ app'.reconnecting = TRUE
    BY <1>2, <1>6 DEF GoodApp, AppType
  <2>2. ~Ready' /\ app'.next # "CONNECTED"
    BY <1>1, <2>1 DEF Ready
  <2> QED
    BY <1>1, <1>3, <2>1, <2>2, EventHandled
<1>7. CASE app' = Goto(a, "DISCONNECTED")
  <2> HIDE DEF a
  <2>1. /\ GoodApp(app') /\ app'.events = Tail(app.events) /\ app'.lost = app.lost
        /\ app'.next = "DISCONNECTED" /\ app'.st = app.st
    BY <1>2, <1>7, GotoTyped DEF AppStates
  <2>2. ~Ready'
    BY <1>1, <2>1 DEF Ready
  <2> QED
    BY <1>1, <1>3, <2>1, <2>2, EventHandled
<1> QED
  BY <1>4, <1>5, <1>6, <1>7

\* A step that takes an event for another state and leaves the manager.
LEMMA GoneOn ==
    ASSUME IInv, NEW states, NEW what, On(states, what), NEW s \in AppStates,
           s # "CONNECTED", app' = Goto(Taken, s), UNCHANGED mgr, ByApp,
           \/ s # "CONNECTING" \/ "CONNECTING" \notin states
           \/ what \notin {"CONNECTED", "CONNECT_FAILED", "USER_DISCONNECT"}
    PROVE  IInv'
<1>1. /\ Ready /\ app.st \in states /\ app.next = app.st
      /\ app.events # <<>> /\ Head(app.events).what = what
      /\ GoodApp(Taken) /\ Taken.events = Tail(app.events) /\ Taken.lost = app.lost
      /\ Taken.st = app.st /\ Taken.next = app.next /\ Taken.critical = app.critical
  BY Takes
<1>2. GoodMgr(mgr') /\ Staged
  BY SameMgr DEF IInv
<1>3. /\ GoodApp(app') /\ app'.events = Tail(app.events) /\ app'.lost = app.lost
      /\ app'.next = s /\ app'.st = app.st
  BY <1>1, GotoTyped
<1>4. app'.critical = app.critical
  BY <1>1 DEF Goto, GoodApp, AppType
<1>5. \/ app'.st # "CONNECTING" \/ ~Ready'
      \/ what \notin {"CONNECTED", "CONNECT_FAILED", "USER_DISCONNECT"}
  BY <1>1, <1>3 DEF Ready
<1> QED
  BY <1>1, <1>2, <1>3, <1>4, <1>5, EventHandled

LEMMA LinkGoneKeeps == ASSUME IInv, LinkGone PROVE IInv'
<1>1. CASE On({"CONNECTED"}, "CONNECT_FAILED")
  BY <1>1, GoneOn DEF LinkGone, AppStates
<1>2. CASE On({"CONNECTING", "CONNECTED"}, "LINK_LOST")
  BY <1>2, GoneOn DEF LinkGone, AppStates
<1> QED
  BY <1>1, <1>2 DEF LinkGone

LEMMA DisconnectedByUserKeeps == ASSUME IInv, DisconnectedByUser PROVE IInv'
BY GoneOn DEF DisconnectedByUser, AppStates

LEMMA UnloadStaged == ASSUME IInv, mgr' = Unload(mgr) PROVE GoodMgr(mgr') /\ Staged
BY TypeSplit, Unloaded DEF IInv, Staged, Asks

LEMMA UnloadThenKeeps ==
    ASSUME IInv, NEW states, NEW what, On(states, what), NEW next \in AppStates,
           next \notin {"CONNECTED", "CONNECTING"}, "CONNECTED" \notin states, UnloadThen(next)
    PROVE  IInv'
<1>1. /\ Ready /\ app.st \in states /\ app.next = app.st
      /\ app.events # <<>> /\ Head(app.events).what = what
      /\ GoodApp(Taken) /\ Taken.events = Tail(app.events) /\ Taken.lost = app.lost
      /\ Taken.st = app.st /\ Taken.next = app.next
  BY Takes
<1>2. GoodMgr(mgr') /\ Staged
  BY UnloadStaged DEF UnloadThen
<1>3. CASE app' = [Taken EXCEPT !.retries = 3]
  <2>1. /\ GoodApp(app') /\ app'.events = Tail(app.events) /\ app'.lost = app.lost
        /\ app'.next = app.next /\ app'.retries = 3
    BY <1>1, <1>3 DEF GoodApp, AppType
  <2>2. ~Ready'
    BY <2>1 DEF Ready
  <2> QED
    BY <1>1, <1>2, <2>1, <2>2, EventHandled DEF UnloadThen
<1>4. CASE app' = Goto(Taken, next)
  <2>1. /\ GoodApp(app') /\ app'.events = Tail(app.events) /\ app'.lost = app.lost
        /\ app'.next = next /\ app'.st = app.st
    BY <1>1, <1>4, GotoTyped
  <2>2. app'.st # "CONNECTING" \/ ~Ready'
    BY <2>1 DEF Ready
  <2> QED
    BY <1>1, <1>2, <2>1, <2>2, EventHandled DEF UnloadThen
<1> QED
  BY <1>3, <1>4 DEF UnloadThen

LEMMA DisconnectedKeeps == ASSUME IInv, Disconnected PROVE IInv'
BY UnloadThenKeeps DEF Disconnected, AppStates

LEMMA ResetDoneKeeps == ASSUME IInv, ResetDone PROVE IInv'
BY UnloadThenKeeps DEF ResetDone, AppStates

LEMMA RetryUnloadKeeps == ASSUME IInv, RetryUnload PROVE IInv'
<1>1. GoodApp(app) /\ app.retries \in 1 .. 3 /\ ByApp
  BY TypeSplit DEF IInv, RetryUnload, GoodApp, AppType
<1>2. GoodMgr(mgr') /\ Staged
  BY UnloadStaged DEF RetryUnload
<1>3. CASE app.retries > 1 /\ app' = [app EXCEPT !.retries = app.retries - 1]
  <2>1. /\ GoodApp(app') /\ app'.events = app.events /\ app'.lost = app.lost
        /\ app'.next = app.next /\ app'.retries # 0
    BY <1>1, <1>3 DEF GoodApp, AppType
  <2>2. ~Ready'
    BY <2>1 DEF Ready
  <2> QED
    BY <1>1, <1>2, <2>1, <2>2, NoEvent
<1>4. CASE app' = Goto([app EXCEPT !.retries = 0],
                       IF app.st = "CONNECTING" THEN "DISCONNECTED" ELSE "UNCONFIGURED")
  <2>1. /\ GoodApp(app') /\ app'.events = app.events /\ app'.lost = app.lost
        /\ app'.next \in {"DISCONNECTED", "UNCONFIGURED"} /\ app'.st = app.st
    <3> DEFINE a == [app EXCEPT !.retries = 0]
               n == IF app.st = "CONNECTING" THEN "DISCONNECTED" ELSE "UNCONFIGURED"
    <3>1. /\ GoodApp(a) /\ a.events = app.events /\ a.lost = app.lost /\ a.st = app.st
      BY <1>1 DEF GoodApp, AppType
    <3>2. n \in {"DISCONNECTED", "UNCONFIGURED"} /\ n \in AppStates /\ app' = Goto(a, n)
      BY <1>4 DEF AppStates
    <3> HIDE DEF a, n
    <3> QED
      BY <3>1, <3>2, GotoTyped
  <2>2. app'.st # "CONNECTING" \/ ~Ready'
    BY <2>1 DEF Ready
  <2> QED
    BY <1>1, <1>2, <2>1, <2>2, NoEvent
<1> QED
  BY <1>1, <1>3, <1>4 DEF RetryUnload

LEMMA ChangeNetworkKeeps == ASSUME IInv, ChangeNetwork PROVE IInv'
<1>1. /\ Ready /\ app.st = "NW_CHANGED"
      /\ app.events # <<>> /\ ByApp
      /\ GoodApp(Taken) /\ Taken.events = Tail(app.events) /\ Taken.lost = app.lost
      /\ Taken.st = app.st
  BY Takes DEF ChangeNetwork
<1>2. GoodMgr(mgr') /\ Staged
  BY UnloadStaged DEF ChangeNetwork
<1>3. /\ GoodApp(app') /\ app'.events = Tail(app.events) /\ app'.lost = app.lost
      /\ app'.next = "CONNECTING" /\ app'.st = app.st
  BY <1>1, GotoTyped DEF ChangeNetwork, AppStates
<1> QED
  BY <1>1, <1>2, <1>3, EventHandled

LEMMA ConfiguredTyped ==
    ASSUME NEW a, GoodApp(a), NEW net \in Networks, NEW c, c = Configured(a, net)
    PROVE  /\ GoodApp(c) /\ c.st = a.st /\ c.next = a.next
           /\ c.events = a.events /\ c.lost = a.lost /\ c.critical = a.critical
BY DEF Configured, GoodApp, AppType

LEMMA NewSettingsKeeps == ASSUME IInv, NewSettings PROVE IInv'
<1> DEFINE c == Configured(Taken, Net)
<1>1. ASSUME NEW states, NEW what \in {"ADVANCED_SETTINGS", "PROV_NW_SET"}, On(states, what)
      PROVE  /\ GoodApp(app) /\ GoodMgr(mgr) /\ Ready /\ app.st \in states /\ app.next = app.st
             /\ app.events # <<>> /\ Head(app.events).what = what /\ Net \in Networks
             /\ GoodApp(c) /\ c.events = Tail(app.events) /\ c.lost = app.lost
             /\ c.st = app.st /\ c.next = app.next /\ c.critical = app.critical
  <2>1. /\ GoodApp(app) /\ GoodMgr(mgr) /\ Ready /\ app.st \in states /\ app.next = app.st
        /\ app.events # <<>> /\ Head(app.events).what = what
        /\ GoodApp(Taken) /\ Taken.events = Tail(app.events) /\ Taken.lost = app.lost
        /\ Taken.st = app.st /\ Taken.next = app.next /\ Taken.critical = app.critical
    BY <1>1, Takes
  <2>2. Net \in Networks
    BY <2>1, NetType
  <2> QED
    BY <2>1, <2>2, ConfiguredTyped
<1> HIDE DEF c
<1>2. CASE /\ On({"CONNECTING"}, "ADVANCED_SETTINGS")
           /\ app' = [c EXCEPT !.unload = TRUE] /\ UNCHANGED mgr
  <2>1. /\ Ready /\ app.next = app.st /\ app.events # <<>>
        /\ Head(app.events).what = "ADVANCED_SETTINGS"
        /\ GoodApp(c) /\ c.events = Tail(app.events) /\ c.lost = app.lost
        /\ c.st = app.st /\ c.next = app.next /\ c.critical = app.critical
    BY <1>1, <1>2
  <2>2. /\ GoodApp(app') /\ app'.events = Tail(app.events) /\ app'.lost = app.lost
        /\ app'.st = app.st /\ app'.next = app.next /\ app'.critical = app.critical
    BY <1>2, <2>1 DEF GoodApp, AppType
  <2>3. GoodMgr(mgr') /\ Staged
    BY <1>2, SameMgr DEF IInv
  <2> QED
    BY <2>1, <2>2, <2>3, EventHandled DEF NewSettings, Downs
<1>3. ASSUME NEW st \in {"CONNECTED", "DISCONNECTED", "UNCONFIGURED"},
             NEW what \in {"ADVANCED_SETTINGS", "PROV_NW_SET"}, On({st}, what),
             NEW s \in {"NW_CHANGED", "INIT"}, app' = Goto(c, s),
             Staged, GoodMgr(mgr')
      PROVE  IInv'
  <2>1. /\ app.st = st /\ app.events # <<>>
        /\ GoodApp(c) /\ c.events = Tail(app.events) /\ c.lost = app.lost /\ c.st = app.st
    BY <1>1, <1>3
  <2>2. /\ GoodApp(app') /\ app'.events = Tail(app.events) /\ app'.lost = app.lost
        /\ app'.next = s /\ app'.st = st
    BY <1>3, <2>1, GotoTyped DEF AppStates
  <2> QED
    BY <1>3, <2>1, <2>2, EventHandled DEF NewSettings
<1>4. CASE /\ On({"CONNECTED"}, "ADVANCED_SETTINGS")
           /\ app' = Goto(c, "NW_CHANGED") /\ UNCHANGED mgr
  BY <1>3, <1>4, SameMgr DEF IInv
<1>5. CASE /\ On({"DISCONNECTED"}, "ADVANCED_SETTINGS")
           /\ app' = Goto(c, "INIT") /\ mgr' = Unload(mgr)
  BY <1>3, <1>5, UnloadStaged
<1>6. CASE /\ On({"UNCONFIGURED"}, "PROV_NW_SET")
           /\ app' = Goto(c, "INIT") /\ mgr' = Load(mgr, Net)
  <2>1. GoodMgr(mgr) /\ Net \in Networks
    BY <1>1, <1>6
  <2>2. GoodMgr(mgr') /\ Staged
    BY <1>6, <2>1, Loaded DEF Staged, Asks
  <2> QED
    BY <1>3, <1>6, <2>2
<1> QED
  BY <1>2, <1>4, <1>5, <1>6 DEF NewSettings, c

LEMMA ResetProvKeeps == ASSUME IInv, ResetProv PROVE IInv'
<1>1. CASE /\ On({"CONNECTING", "CONNECTED"}, "RESET_PROV")
           /\ app' = Goto(Taken, "RESET_TO_PROV") /\ UNCHANGED mgr
  BY <1>1, GoneOn DEF ResetProv, AppStates
<1>2. CASE /\ On({"DISCONNECTED", "CONFIGURED"}, "RESET_PROV")
           /\ app' = Goto([Taken EXCEPT !.provisioned = FALSE], "UNCONFIGURED")
           /\ mgr' = IF app.st = "DISCONNECTED" THEN Unload(mgr) ELSE mgr
  <2> DEFINE a == [Taken EXCEPT !.provisioned = FALSE]
  <2>1. /\ app.st \in {"DISCONNECTED", "CONFIGURED"} /\ app.events # <<>>
        /\ GoodApp(Taken) /\ Taken.events = Tail(app.events) /\ Taken.lost = app.lost
        /\ Taken.st = app.st
    BY <1>2, Takes
  <2>2. GoodApp(a) /\ a.events = Tail(app.events) /\ a.lost = app.lost /\ a.st = app.st
    BY <2>1 DEF GoodApp, AppType
  <2> HIDE DEF a
  <2>3. /\ GoodApp(app') /\ app'.events = Tail(app.events) /\ app'.lost = app.lost
        /\ app'.next = "UNCONFIGURED" /\ app'.st = app.st
    BY <1>2, <2>2, GotoTyped DEF AppStates, a
  <2>4. GoodMgr(mgr') /\ Staged
    BY <1>2, SameMgr, UnloadStaged DEF IInv
  <2> QED
    BY <2>1, <2>3, <2>4, EventHandled DEF ResetProv
<1> QED
  BY <1>1, <1>2 DEF ResetProv

LEMMA StaRequestedKeeps == ASSUME IInv, StaRequested PROVE IInv'
<1> DEFINE states == {"UNCONFIGURED", "CONFIGURED", "DISCONNECTED"}
<1>1. /\ Ready /\ app.st \in states /\ app.next = app.st
      /\ app.events # <<>> /\ Head(app.events).what = "STA_REQUESTED"
      /\ GoodApp(Taken) /\ Taken.events = Tail(app.events) /\ Taken.lost = app.lost
      /\ Taken.st = app.st /\ Taken.next = app.next
  BY Takes DEF StaRequested
<1>2. GoodMgr(mgr') /\ Staged
  BY SameMgr DEF IInv, StaRequested
<1>3. CASE app' = Taken
  BY <1>1, <1>2, <1>3, EventHandled DEF StaRequested
<1>4. CASE app' = Goto(Taken, "INIT")
  <2>1. /\ GoodApp(app') /\ app'.events = Tail(app.events) /\ app'.lost = app.lost
        /\ app'.next = "INIT" /\ app'.st = app.st
    BY <1>1, <1>4, GotoTyped DEF AppStates
  <2> QED
    BY <1>1, <1>2, <2>1, EventHandled DEF StaRequested
<1> QED
  BY <1>3, <1>4 DEF StaRequested

LEMMA IgnoreEventKeeps == ASSUME IInv, IgnoreEvent PROVE IInv'
<1>1. /\ Ready /\ app.next = app.st /\ app.events # <<>> /\ app' = Taken /\ ByApp
      /\ GoodApp(Taken) /\ Taken.events = Tail(app.events) /\ Taken.lost = app.lost
      /\ Taken.st = app.st /\ Taken.next = app.next /\ Taken.critical = app.critical
  BY TypeSplit, TakenTyped DEF IInv, IgnoreEvent, Ready
<1>2. GoodMgr(mgr') /\ Staged
  BY SameMgr DEF IInv, IgnoreEvent
<1>3. Head(app.events).what \notin Heeds[app.st] /\ app.st \in AppStates
  BY TypeSplit DEF IInv, IgnoreEvent, GoodApp, AppType
<1>4. /\ app.st = "CONNECTED" => Head(app.events).what \notin Downs
      /\ app.st = "CONNECTING" =>
            Head(app.events).what \notin {"CONNECTED", "CONNECT_FAILED", "USER_DISCONNECT"}
  BY <1>3 DEF Heeds, AppStates, Downs
<1> QED
  BY <1>1, <1>2, <1>4, EventHandled

LEMMA AppStepKeeps == ASSUME IInv, AppStep PROVE IInv'
BY EnterConnectingKeeps, EnterKeeps, AttemptReconnectKeeps, OnConnectedKeeps,
   ConnectFailedKeeps, LinkGoneKeeps, DisconnectedKeeps, ResetDoneKeeps, RetryUnloadKeeps,
   DisconnectedByUserKeeps, ChangeNetworkKeeps, NewSettingsKeeps, ResetProvKeeps,
   StaRequestedKeeps, IgnoreEventKeeps
   DEF AppStep
----------------------------------------------------------------------------
(* The steps of the manager *)

\* The manager ends something and says so.
LEMMA EndTold ==
    ASSUME IInv, NEW what \in Downs, ByMgr, GoodMgr(mgr'),
           \/ app' = Tell(app, what)
           \/ app' = Tell([app EXCEPT !.stop = FALSE], what)
    PROVE  /\ TypeOK' /\ Corrected' /\ app'.st = app.st /\ (Ready' <=> Ready)
           /\ app'.critical = app.critical
           /\ app'.lost = TRUE \/ (app'.lost = app.lost /\ \E e \in Events :
                  e.what = what /\ app'.events = Append(app.events, e))
<1> DEFINE b == [app EXCEPT !.stop = FALSE]
           e == Event(what, None)
<1>1. /\ GoodApp(app) /\ GoodApp(b) /\ b.st = app.st /\ b.next = app.next
      /\ b.events = app.events /\ b.lost = app.lost /\ b.critical = app.critical
      /\ b.reconnecting = app.reconnecting /\ b.retries = app.retries
  BY TypeSplit DEF IInv, GoodApp, AppType
<1> HIDE DEF b
<1>2. PICK a \in {app, b} : app' = Tell(a, what)
  BY DEF b
<1>3. /\ GoodApp(a) /\ a.st = app.st /\ a.next = app.next
      /\ a.events = app.events /\ a.lost = app.lost /\ a.critical = app.critical
      /\ a.reconnecting = app.reconnecting /\ a.retries = app.retries
  BY <1>1, <1>2
<1>4. /\ GoodApp(app') /\ Told(a, app', e) /\ e \in Events /\ e.what = what
      /\ app'.st = a.st /\ app'.next = a.next /\ app'.critical = a.critical
      /\ app'.reconnecting = a.reconnecting /\ app'.retries = a.retries
  BY <1>2, <1>3, TellTyped DEF Downs
<1> HIDE DEF e
<1>5. TypeOK'
  BY <1>4 DEF IInv, TypeOK, ByMgr, GoodApp, GoodMgr
<1>6. app'.lost = TRUE \/ (app'.lost = app.lost /\ app'.events = Append(app.events, e))
  BY <1>3, <1>4 DEF Told
<1>7. Corrected'
  <2>1. CASE app'.lost = TRUE
    BY <2>1 DEF Corrected
  <2>2. CASE app'.events = Append(app.events, e)
    <3>1. app.events \in Seq(Events)
      BY <1>1 DEF GoodApp, AppType
    <3>2. TakenBack(Append(app.events, e)) /\ Has(Append(app.events, e), Downs)
      BY <1>4, <3>1, AppendKeeps
    <3> QED
      BY <2>2, <3>2 DEF Corrected, TakenBack, Has
  <2> QED
    BY <1>6, <2>1, <2>2
<1>8. Ready' <=> Ready
  BY <1>3, <1>4 DEF Ready
<1> QED
  BY <1>3, <1>4, <1>5, <1>6, <1>7, <1>8

\* A step of the manager the framework is not told of.
LEMMA Untold ==
    ASSUME IInv, ByMgr, UNCHANGED app, GoodMgr(mgr'), mgr.stage # "connected",
           \/ mgr'.stage \notin {"idle", "connected"}
           \/ mgr'.stage = mgr.stage /\ (Asks(mgr) => Asks(mgr)')
    PROVE  IInv'
<1>1. TypeOK'
  BY DEF IInv, TypeOK, ByMgr, GoodMgr
<1>2. Corrected'
  BY DEF IInv, Corrected, TakenBack, Has
<1>3. Attempted'
  BY DEF IInv, Attempted, Ready, Has, UpAndDown
<1> QED
  BY <1>1, <1>2, <1>3 DEF IInv

LEMMA HandleConnectKeeps == ASSUME IInv, HandleConnect PROVE IInv'
<1>1. GoodMgr(mgr) /\ mgr.reqs # <<>>
  BY TypeSplit DEF IInv, HandleConnect, Asked
<1>2. GoodMgr(mgr') /\ mgr'.stage = "scanning"
  BY <1>1, ServedKeeps DEF HandleConnect, Stages
<1>3. CASE mgr.stage \in {"idle", "scanning"}
  BY <1>2, <1>3, Untold DEF HandleConnect
<1>4. CASE mgr.stage \notin {"idle", "scanning"}
  <2>1. TypeOK' /\ Corrected'
    BY <1>2, <1>4, EndTold DEF HandleConnect, Downs
  <2>2. Attempted'
    BY <1>2 DEF Attempted
  <2> QED
    BY <2>1, <2>2 DEF IInv
<1> QED
  BY <1>3, <1>4

LEMMA HandleDisconnectKeeps == ASSUME IInv, HandleDisconnect PROVE IInv'
<1>1. GoodMgr(mgr) /\ mgr.reqs # <<>> /\ Head(mgr.reqs) = "disconnect"
  BY TypeSplit DEF IInv, HandleDisconnect, Asked
<1>2. /\ GoodMgr(mgr') /\ mgr'.stage = "idle" /\ (Asks(mgr) => Asks(mgr'))
  BY <1>1, ServedKeeps DEF HandleDisconnect, Stages
<1>3. CASE mgr.stage = "idle"
  BY <1>2, <1>3, Untold DEF HandleDisconnect, Asks
<1>4. CASE mgr.stage # "idle"
  <2>1. /\ TypeOK' /\ Corrected'
        /\ app'.lost = TRUE \/ (app'.lost = app.lost /\ \E e \in Events :
               e.what = "USER_DISCONNECT" /\ app'.events = Append(app.events, e))
    BY <1>2, <1>4, EndTold DEF HandleDisconnect, Downs
  <2>2. CASE app'.lost = TRUE
    BY <2>1, <2>2 DEF IInv, Attempted
  <2>3. ASSUME NEW e \in Events, e.what = "USER_DISCONNECT", app'.events = Append(app.events, e)
        PROVE  Attempted'
    <3>1. app.events \in Seq(Events)
      BY DEF IInv, TypeOK, AppType
    <3>2. Has(Append(app.events, e), {"CONNECT_FAILED", "USER_DISCONNECT"})
      BY <2>3, <3>1, AppendKeeps
    <3> QED
      BY <2>3, <3>2 DEF Attempted, Has
  <2> QED
    BY <2>1, <2>2, <2>3 DEF IInv
<1> QED
  BY <1>3, <1>4

LEMMA AdvanceKeeps == ASSUME IInv, Advance PROVE IInv'
<1>1. GoodMgr(mgr) /\ GoodApp(app)
  BY TypeSplit DEF IInv
<1>2. GoodMgr(mgr') /\ ByMgr
  BY <1>1 DEF Advance, GoodMgr, MgrType, Stages
<1>3. CASE UNCHANGED app /\ mgr.stage # "connected" /\ mgr'.stage \notin {"idle", "connected"}
  BY <1>2, <1>3, Untold
<1>4. CASE /\ mgr.stage = "obtaining" /\ mgr'.stage = "connected"
           /\ app' = Tell(app, "CONNECTED")
  <2> DEFINE e == Event("CONNECTED", None)
  <2>1. /\ GoodApp(app') /\ Told(app, app', e) /\ e \in Events /\ e.what = "CONNECTED"
    BY <1>1, <1>4, TellTyped
  <2> HIDE DEF e
  <2>2. TypeOK'
    BY <1>2, <2>1 DEF IInv, TypeOK, ByMgr, GoodApp, GoodMgr
  <2>3. Corrected'
    BY <1>4 DEF Corrected
  <2>4. Attempted'
    <3>1. CASE app'.lost = TRUE
      BY <3>1 DEF Attempted
    <3>2. CASE app'.events = Append(app.events, e)
      <4>1. app.events \in Seq(Events)
        BY <1>1 DEF GoodApp, AppType
      <4>2. Has(Append(app.events, e), {"CONNECTED"})
        BY <2>1, <4>1, AppendKeeps
      <4> QED
        BY <1>4, <3>2, <4>2 DEF Attempted, Has
    <3> QED
      BY <2>1, <3>1, <3>2 DEF Told
  <2> QED
    BY <2>2, <2>3, <2>4 DEF IInv
<1> QED
  <2>1. \A s \in Stages : /\ [mgr EXCEPT !.stage = s].stage = s
                          /\ [mgr EXCEPT !.stage = s, !.cur = mgr.entry].stage = s
    BY <1>1 DEF GoodMgr, MgrType
  <2>2. CASE mgr.stage = "scanning" /\ mgr' = [mgr EXCEPT !.stage = "associating", !.cur = mgr.entry]
             /\ UNCHANGED app
    <3>1. mgr'.stage = "associating"
      BY <2>1, <2>2 DEF Stages
    <3> QED
      BY <1>3, <2>2, <3>1
  <2>3. ASSUME mgr.stage \in {"associating", "associated"}, UNCHANGED app,
               NEW s \in {"scanning", "associated", "obtaining"}, mgr' = [mgr EXCEPT !.stage = s]
        PROVE  IInv'
    <3>1. mgr'.stage = s
      BY <2>1, <2>3 DEF Stages
    <3> QED
      BY <1>3, <2>3, <3>1
  <2>4. CASE /\ mgr.stage = "obtaining" /\ mgr' = [mgr EXCEPT !.stage = "connected"]
             /\ app' = Tell(app, "CONNECTED")
    <3>1. mgr'.stage = "connected"
      BY <2>1, <2>4 DEF Stages
    <3> QED
      BY <1>4, <2>4, <3>1
  <2> QED
    BY <2>2, <2>3, <2>4 DEF Advance

LEMMA FailsKeeps == ASSUME IInv, Fails PROVE IInv'
<1>1. GoodMgr(mgr) /\ GoodApp(app) /\ app.events \in Seq(Events)
  BY TypeSplit DEF IInv, GoodApp, AppType
<1>2. GoodMgr(mgr') /\ mgr'.stage = "idle" /\ (Asks(mgr) => Asks(mgr)')
  BY <1>1 DEF Fails, GoodMgr, MgrType, Stages, Asks
<1>3. PICK what \in {"CONNECT_FAILED", "LINK_LOST"} :
         /\ what = "LINK_LOST" => mgr.stage = "connected"
         /\ app' = Tell(app, what)
  BY DEF Fails
<1>4. /\ TypeOK' /\ Corrected' /\ app'.st = app.st /\ (Ready' <=> Ready)
      /\ app'.critical = app.critical
      /\ app'.lost = TRUE \/ (app'.lost = app.lost /\ \E e \in Events :
             e.what = what /\ app'.events = Append(app.events, e))
  BY <1>2, <1>3, EndTold DEF Fails, Downs
<1>5. CASE app'.lost = TRUE
  BY <1>4, <1>5 DEF IInv, Attempted
<1>6. ASSUME app'.lost = app.lost, NEW e \in Events, e.what = what,
             app'.events = Append(app.events, e)
      PROVE  Attempted'
  <2>1. SUFFICES ASSUME app.st = "CONNECTING", Ready, ~app.lost, ~app.critical
                 PROVE  \/ Asks(mgr)'
                        \/ Has(Append(app.events, e), {"CONNECT_FAILED", "USER_DISCONNECT"})
                        \/ UpAndDown(Append(app.events, e))
    BY <1>2, <1>4, <1>6 DEF Attempted, Has, UpAndDown
  <2>2. CASE what = "CONNECT_FAILED"
    <3>1. e.what \in {"CONNECT_FAILED", "USER_DISCONNECT"}
      BY <1>6, <2>2
    <3>2. Has(Append(app.events, e), {"CONNECT_FAILED", "USER_DISCONNECT"})
      BY <1>1, <3>1, AppendKeeps
    <3> QED
      BY <3>2
  <2>3. CASE what = "LINK_LOST"
    <3>1. \/ Asks(mgr)
          \/ Has(app.events, {"CONNECT_FAILED", "USER_DISCONNECT"})
          \/ Has(app.events, {"CONNECTED"})
      BY <1>3, <2>1, <2>3 DEF IInv, Attempted
    <3>2. /\ Has(app.events, {"CONNECT_FAILED", "USER_DISCONNECT"})
               => Has(Append(app.events, e), {"CONNECT_FAILED", "USER_DISCONNECT"})
          /\ Has(app.events, {"CONNECTED"}) => UpAndDown(Append(app.events, e))
      BY <1>1, <1>6, <2>3, AppendKeeps
    <3> QED
      BY <1>2, <3>1, <3>2
  <2> QED
    BY <1>3, <2>2, <2>3
<1> QED
  BY <1>4, <1>5, <1>6 DEF IInv
----------------------------------------------------------------------------
(* The application's calls *)

\* Another event is queued, and the manager's stage stays.
LEMMA OtherTold ==
    ASSUME IInv, Staged, GoodApp(app'), NEW e \in Events, e.what # "CONNECTED",
           Told(app, app', e), app'.st = app.st, app'.next = app.next,
           app'.reconnecting = app.reconnecting, app'.retries = app.retries,
           app'.critical = app.critical
    PROVE  Corrected' /\ Attempted'
<1>1. CASE app'.lost = TRUE
  BY <1>1 DEF Corrected, Attempted
<1>2. CASE app'.lost = app.lost /\ app'.events = Append(app.events, e)
  <2>1. app.events \in Seq(Events)
    BY DEF IInv, TypeOK, AppType
  <2>2. /\ \A W : Has(app.events, W) => Has(Append(app.events, e), W)
        /\ TakenBack(app.events) => TakenBack(Append(app.events, e))
        /\ UpAndDown(app.events) => UpAndDown(Append(app.events, e))
    BY <2>1, AppendKeeps
  <2>3. Corrected'
    BY <1>2, <2>2 DEF IInv, Corrected, Staged, TakenBack, Has
  <2>4. Attempted'
    BY <1>2, <2>2 DEF IInv, Attempted, Ready, Staged, UpAndDown, Has
  <2> QED
    BY <2>3, <2>4
<1> QED
  BY <1>1, <1>2 DEF Told

LEMMA Called == ASSUME TypeOK, Call PROVE calls' \in 0 .. MaxCalls
BY AppAssumption DEF TypeOK, Call

LEMMA CallTold ==
    ASSUME IInv, Staged, GoodMgr(mgr'), Call, stops' \in Nat,
           NEW what \in {"STA_REQUESTED", "RESET_PROV"}, app' = Tell(app, what)
    PROVE  IInv'
<1> DEFINE e == Event(what, None)
<1>1. /\ GoodApp(app') /\ Told(app, app', e) /\ e \in Events /\ e.what = what
      /\ app'.st = app.st /\ app'.next = app.next /\ app'.reconnecting = app.reconnecting
      /\ app'.retries = app.retries /\ app'.critical = app.critical
  BY TypeSplit, TellTyped DEF IInv
<1> HIDE DEF e
<1>2. Corrected' /\ Attempted'
  BY <1>1, OtherTold
<1>3. TypeOK'
  BY <1>1, Called DEF IInv, TypeOK, GoodApp, GoodMgr
<1> QED
  BY <1>2, <1>3 DEF IInv

\* A call that only changes the manager's requests or its entry, or a flag.
LEMMA NothingTold ==
    ASSUME IInv, Staged, GoodMgr(mgr'), GoodApp(app'), stops' \in Nat, calls' \in 0 .. MaxCalls,
           app'.events = app.events, app'.lost = app.lost, app'.st = app.st,
           app'.next = app.next, app'.reconnecting = app.reconnecting,
           app'.retries = app.retries, app'.critical = app.critical
    PROVE  IInv'
<1>1. TypeOK'
  BY DEF TypeOK, GoodApp, GoodMgr
<1>2. Corrected' /\ Attempted'
  BY DEF IInv, Corrected, Attempted, Ready, Staged, TakenBack, UpAndDown, Has
<1> QED
  BY <1>1, <1>2 DEF IInv

LEMMA ApplicationKeeps == ASSUME IInv, Application PROVE IInv'
<1>1. GoodApp(app) /\ GoodMgr(mgr) /\ stops \in Nat
  BY TypeSplit DEF IInv
<1>2. CASE app_sta_start
  BY <1>1, <1>2, SameMgr, CallTold DEF app_sta_start, IInv
<1>3. CASE app_reset_configured_network
  BY <1>1, <1>3, SameMgr, CallTold DEF app_reset_configured_network, IInv
<1>4. ASSUME NEW n \in Networks, app_sta_start_by_network(n) PROVE IInv'
  <2>1. GoodMgr(mgr') /\ Staged
    <3>1. /\ GoodMgr(Unload(mgr)) /\ Unload(mgr).stage = mgr.stage
          /\ Asks(mgr) => Asks(Unload(mgr))
      BY <1>1, Unloaded
    <3> QED
      BY <1>4, <3>1, Loaded DEF app_sta_start_by_network, Staged, Asks
  <2>2. CASE app' = app
    BY <1>1, <1>4, <2>1, <2>2, Called, NothingTold DEF app_sta_start_by_network, IInv
  <2>3. CASE app' = Tell(app, "STA_REQUESTED")
    BY <1>1, <1>4, <2>1, <2>3, CallTold DEF app_sta_start_by_network
  <2> QED
    BY <1>4, <2>2, <2>3 DEF app_sta_start_by_network
<1>5. ASSUME NEW n \in Networks, app_configure_network(n) PROVE IInv'
  <2> DEFINE w == IF app.provisioned THEN "ADVANCED_SETTINGS" ELSE "PROV_NW_SET"
             e == Event(w, n)
  <2>1. w \in {"ADVANCED_SETTINGS", "PROV_NW_SET"}
    OBVIOUS
  <2>2. e \in Events /\ e.what # "CONNECTED"
    BY <2>1 DEF Event, Events
  <2>3. app' = Notify(app, e)
    BY <1>5 DEF app_configure_network
  <2> HIDE DEF e
  <2>4. /\ GoodApp(app') /\ Told(app, app', e)
        /\ app'.st = app.st /\ app'.next = app.next /\ app'.reconnecting = app.reconnecting
        /\ app'.retries = app.retries /\ app'.critical = app.critical
    BY <1>1, <2>2, <2>3, Notified DEF GoodApp
  <2>5. GoodMgr(mgr') /\ Staged
    BY <1>5, SameMgr DEF app_configure_network, IInv
  <2>6. Corrected' /\ Attempted'
    BY <2>2, <2>4, <2>5, OtherTold
  <2>7. TypeOK'
    BY <1>1, <1>5, <2>4, <2>5, Called DEF app_configure_network, IInv, TypeOK, GoodApp, GoodMgr
  <2> QED
    BY <2>6, <2>7 DEF IInv
<1>6. CASE app_sta_stop
  <2>1. GoodMgr(mgr') /\ Staged
    BY <1>1, <1>6, Requested DEF app_sta_stop, Staged, Asks
  <2> QED
    BY <1>1, <1>6, <2>1, Called, NothingTold DEF app_sta_stop, IInv
<1> QED
  BY <1>2, <1>3, <1>4, <1>5, <1>6 DEF Application

LEMMA SetStopCmdKeeps == ASSUME IInv, SetStopCmd PROVE IInv'
<1>1. GoodApp(app) /\ stops' \in Nat /\ calls' \in 0 .. MaxCalls
  BY TypeSplit DEF IInv, SetStopCmd
<1>2. /\ GoodApp(app') /\ app'.events = app.events /\ app'.lost = app.lost /\ app'.st = app.st
      /\ app'.next = app.next /\ app'.reconnecting = app.reconnecting
      /\ app'.retries = app.retries /\ app'.critical = app.critical
  BY <1>1 DEF SetStopCmd, GoodApp, AppType
<1>3. GoodMgr(mgr') /\ Staged
  BY SameMgr DEF IInv, SetStopCmd
<1> QED
  BY <1>1, <1>2, <1>3, NothingTold
----------------------------------------------------------------------------
(* The theorems *)

LEMMA Initially == Init => IInv
<1> SUFFICES ASSUME Init PROVE IInv
  OBVIOUS
<1>1. /\ GoodApp(app) /\ app.events = <<>> /\ app.st \in {"UNCONFIGURED", "CONFIGURED"}
      /\ app.next = app.st
  <2>1. PICK net \in Networks \cup {None} :
            LET s == IF net = None THEN "UNCONFIGURED" ELSE "CONFIGURED"
            IN  app = [st |-> s, next |-> s, events |-> <<>>, saved |-> net,
                       provisioned |-> net # None, unload |-> FALSE, stop |-> FALSE,
                       reconnecting |-> FALSE, retries |-> 0, critical |-> FALSE, lost |-> FALSE]
    BY DEF Init
  <2>2. (net # None) \in BOOLEAN
    OBVIOUS
  <2>3. app \in AppType
    BY <2>1, <2>2 DEF AppType, AppStates
  <2> QED
    BY <2>1, <2>3, AppAssumption DEF GoodApp
<1>2. GoodMgr(mgr)
  BY AppAssumption DEF Init, GoodMgr, MgrType, Stages
<1>3. TypeOK
  BY <1>1, <1>2, TypeSplit, AppAssumption DEF Init
<1>4. Corrected /\ Attempted
  BY <1>1 DEF Corrected, Attempted, TakenBack
<1> QED
  BY <1>3, <1>4 DEF IInv

LEMMA Kept == IInv /\ [Next]_vars => IInv'
<1>1. ASSUME IInv, UNCHANGED vars PROVE IInv'
  BY <1>1 DEF IInv, TypeOK, Corrected, Attempted, Ready, Asks, TakenBack, UpAndDown, Has, vars
<1> QED
  BY <1>1, AppStepKeeps, HandleConnectKeeps, HandleDisconnectKeeps, AdvanceKeeps, FailsKeeps,
     ApplicationKeeps, SetStopCmdKeeps DEF Next, MgrStep

THEOREM Invariance == Spec => []IInv
BY Initially, Kept, PTL DEF Spec

\* The framework's and the manager's records, the queue and the requests keep
\* their types and their bounds.
THEOREM TypeCorrect == Spec => []TypeOK
<1>1. IInv => TypeOK
  BY DEF IInv
<1> QED
  BY <1>1, Invariance, PTL

\* A framework that tells the application it is connected has a connected
\* manager, or the event that corrects it is queued.
THEOREM ConnectedIsAttended == Spec => []ConnectedAttended
<1>1. IInv => ConnectedAttended
  <2>1. SUFFICES ASSUME IInv, app.next = "CONNECTED", ~app.lost, mgr.stage # "connected"
                 PROVE  Pending({"CONNECT_FAILED", "LINK_LOST", "USER_DISCONNECT"})
    BY DEF ConnectedAttended
  <2>2. Has(app.events, Downs)
    BY <2>1 DEF IInv, Corrected
  <2>3. DOMAIN app.events = 1 .. Len(app.events)
    BY <2>1 DEF IInv, TypeOK, AppType
  <2> QED
    BY <2>2, <2>3 DEF Pending, Has, Downs
<1> QED
  BY <1>1, Invariance, PTL

\* While the framework is connecting an attempt is under way, asked for or
\* about to be.
THEOREM AnAttemptIsPending == Spec => []AttemptPending
<1>1. IInv => AttemptPending
  <2>1. SUFFICES ASSUME IInv, app.st = "CONNECTING", Ready, ~app.lost, ~app.critical,
                        mgr.stage = "idle"
                 PROVE  \/ ConnectAsked
                        \/ Pending({"CONNECT_FAILED", "LINK_LOST", "USER_DISCONNECT"})
    BY DEF AttemptPending
  <2>2. \/ Asks(mgr) \/ UpAndDown(app.events)
        \/ Has(app.events, {"CONNECT_FAILED", "USER_DISCONNECT"})
    BY <2>1 DEF IInv, Attempted
  <2>3. DOMAIN app.events = 1 .. Len(app.events) /\ DOMAIN mgr.reqs = 1 .. Len(mgr.reqs)
    BY <2>1 DEF IInv, TypeOK, AppType, MgrType
  <2>4. Asks(mgr) => ConnectAsked
    BY <2>3 DEF Asks, ConnectAsked
  <2>5. Has(app.events, {"CONNECT_FAILED", "USER_DISCONNECT"}) \/ UpAndDown(app.events)
            => Pending({"CONNECT_FAILED", "LINK_LOST", "USER_DISCONNECT"})
    BY <2>3 DEF Has, UpAndDown, Pending
  <2> QED
    BY <2>2, <2>4, <2>5
<1> QED
  BY <1>1, Invariance, PTL
============================================================================
