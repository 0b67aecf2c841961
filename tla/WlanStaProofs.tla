---------------------------- MODULE WlanStaProofs ---------------------------
(***************************************************************************)
(* Proofs about WlanSta, for any networks, users, capacity of the queue    *)
(* and number of calls.                                                    *)
(***************************************************************************)
EXTENDS WlanSta, TLAPS

Managers == [sta_state : StaStates, sta_return_to : StaStates,
             events : Seq(Messages), cur_network_idx : Networks,
             scan_count : 0 .. RescanLimit, scan_cb : Users \cup {None},
             scan_lock : BOOLEAN, is_scan_lock : BOOLEAN, clears : BOOLEAN,
             dhcp_wakelock_taken : BOOLEAN, wakelock : Nat,
             told : {"nothing", "success", "lost", "failed", "disconnected"},
             trouble : BOOLEAN]

(* A manager whose queue is not over-full, and that agrees with what the   *)
(* application was told; a user's scan returns to a state that agrees too, *)
(* or, when two of them overlap, to itself.                                *)
Typed(w) == w \in Managers /\ Len(w.events) <= MaxEvents

Agrees(w, state) ==
    /\ state = "CONNECTED" => w.told = "success"
    /\ state = "IDLE" => w.told # "success"

Sound(w) ==
    /\ Typed(w)
    /\ Agrees(w, w.sta_state)
    /\ w.sta_state = "SCANNING_USER" =>
          /\ w.sta_return_to \in {"IDLE", "CONNECTED", "SCANNING_USER"}
          /\ Agrees(w, w.sta_return_to)
    /\ w.sta_state = "OBTAINING" => w.wakelock >= 1

RestTyped ==
    /\ card \in [bss : Networks \cup {None}, open : BOOLEAN, dhcp : {"off", "asking", "bound"}]
    /\ pc \in [Users -> {"out", "waits", "has", "raised"}] /\ calls \in 0 .. MaxCalls

StaInv == Sound(wlan) /\ RestTyped
----------------------------------------------------------------------------
(* What the helpers keep *)

\* The fields of a manager other than its queue and trouble.
SameButQueue(v, w) ==
    /\ v.sta_state = w.sta_state /\ v.sta_return_to = w.sta_return_to
    /\ v.cur_network_idx = w.cur_network_idx /\ v.scan_count = w.scan_count
    /\ v.scan_cb = w.scan_cb /\ v.scan_lock = w.scan_lock /\ v.is_scan_lock = w.is_scan_lock
    /\ v.clears = w.clears /\ v.dhcp_wakelock_taken = w.dhcp_wakelock_taken /\ v.wakelock = w.wakelock
    /\ v.told = w.told

LEMMA SendTyped ==
    ASSUME NEW w, Typed(w), NEW m \in Messages
    PROVE  Typed(Send(w, m)) /\ SameButQueue(Send(w, m), w)
<1>1. CASE Len(w.events) < MaxEvents
  <2>1. Append(w.events, m) \in Seq(Messages) /\ Len(Append(w.events, m)) = Len(w.events) + 1
    BY DEF Typed, Managers
  <2>2. Send(w, m) = [w EXCEPT !.events = Append(w.events, m)]
    BY <1>1 DEF Send
  <2> DEFINE q == Append(w.events, m)
  <2> HIDE DEF q
  <2>3. w.events \in Seq(Messages)
    BY DEF Typed, Managers
  <2>4. Len(q) <= MaxEvents /\ q \in Seq(Messages)
    BY <1>1, <2>1, <2>3, StaAssumption DEF q
  <2>5. Send(w, m) = [w EXCEPT !.events = q]
    BY <2>2 DEF q
  <2> QED
    BY <2>4, <2>5 DEF Typed, Managers, SameButQueue
<1>2. CASE ~(Len(w.events) < MaxEvents)
  BY <1>2 DEF Send, Typed, Managers, SameButQueue
<1> QED
  BY <1>1, <1>2

LEMMA TakenTyped ==
    ASSUME Typed(wlan), wlan.events # <<>>
    PROVE  /\ Typed(Taken) /\ SameButQueue(Taken, wlan)
           /\ Head(wlan.events) \in Messages
<1> DEFINE q == Tail(wlan.events)
<1>1. wlan.events \in Seq(Messages) /\ Len(wlan.events) <= MaxEvents /\ MaxEvents \in Nat
  BY StaAssumption DEF Typed, Managers
<1>2. q \in Seq(Messages) /\ Len(q) <= MaxEvents /\ Head(wlan.events) \in Messages
  BY <1>1
<1> HIDE DEF q
<1>3. Taken = [wlan EXCEPT !.events = q]
  BY DEF Taken, q
<1> QED
  BY <1>2, <1>3 DEF Typed, Managers, SameButQueue

LEMMA MessageTypes ==
    /\ \A w \in {"ASSOC", "AUTH", "DHCP"}, b \in BOOLEAN : Msg(w, b) \in Messages
    /\ \A w \in {"SCAN_RESULT", "LINK_LOSS", "DISASSOC", "ADDR_CONFIG", "DISCONNECT"} :
          Msg(w, None) \in Messages
    /\ \A n \in Networks : Msg("CONNECT", n) \in Messages
    /\ \A u \in Users : Msg("SCAN", u) \in Messages
BY DEF Msg, Messages

\* An attempt that failed leaves the manager idle, and says so.
LEMMA FailedSound ==
    ASSUME NEW w, Typed(w)
    PROVE  Sound(DoConnectFailed(w))
<1>1. (IF w.dhcp_wakelock_taken THEN Put(w.wakelock) ELSE w.wakelock) \in Nat
  BY DEF Typed, Managers, Put
<1> DEFINE n == IF w.dhcp_wakelock_taken THEN Put(w.wakelock) ELSE w.wakelock
<1> HIDE DEF n
<1>2. DoConnectFailed(w) = [[w EXCEPT !.told = "failed"] EXCEPT
                               !.sta_state = "IDLE", !.dhcp_wakelock_taken = FALSE, !.wakelock = n]
  BY DEF DoConnectFailed, Tell, n, Typed, Managers
<1> QED
  BY <1>1, <1>2 DEF Sound, Agrees, Typed, Managers, n, StaStates

LEMMA ScanSound ==
    ASSUME NEW w, Typed(w), w.scan_count < RescanLimit, NEW v \in DoScan(w)
    PROVE  Sound(v)
<1> DEFINE x == [w EXCEPT !.sta_state = "SCANNING"]
           y == Send(x, Msg("SCAN_RESULT", None))
<1>1. Typed(x) /\ x.sta_state = "SCANNING" /\ x.scan_count = w.scan_count
  BY DEF Typed, Managers, StaStates
<1> HIDE DEF x
<1>2. Typed(y) /\ y.sta_state = "SCANNING" /\ y.scan_count = w.scan_count
  BY <1>1, SendTyped, MessageTypes DEF SameButQueue
<1>3. v \in {[y EXCEPT !.scan_count = y.scan_count + 1], [y EXCEPT !.trouble = TRUE]}
  BY DEF DoScan, x
<1> HIDE DEF y
<1>4. y.scan_count + 1 \in 0 .. RescanLimit
  BY <1>2, StaAssumption DEF Typed, Managers
<1> QED
  BY <1>2, <1>3, <1>4 DEF Sound, Agrees, Typed, Managers
----------------------------------------------------------------------------
(* cm_main *)

\* What a message that is taken leaves behind.
LEMMA TakenSound ==
    ASSUME StaInv, wlan.events # <<>>
    PROVE  /\ Sound(Taken) /\ Typed(Taken) /\ SameButQueue(Taken, wlan)
           /\ Head(wlan.events) \in Messages
BY TakenTyped DEF StaInv, Sound, SameButQueue, Agrees

\* The state of a manager that scans for a user is the one it returns to.
LEMMA StateSeen ==
    ASSUME StaInv, NEW s \in StaStates \ {"IDLE", "CONNECTED", "SCANNING_USER"}, IsState(s)
    PROVE  wlan.sta_state = s
BY DEF StaInv, Sound, IsState, UserScanning

LEMMA TellTyped ==
    ASSUME NEW w, Typed(w), NEW reason \in {"nothing", "success", "lost", "failed", "disconnected"}
    PROVE  /\ Typed(Tell(w, reason)) /\ Tell(w, reason).told = reason
           /\ Tell(w, reason).sta_state = w.sta_state
           /\ Tell(w, reason).scan_count = w.scan_count
           /\ Tell(w, reason).sta_return_to = w.sta_return_to
           /\ Tell(w, reason).wakelock = w.wakelock
BY DEF Typed, Managers, Tell

\* A change to another state that says nothing of itself.
LEMMA MovedSound ==
    ASSUME NEW w, Typed(w), NEW s \in StaStates \ {"IDLE", "CONNECTED", "SCANNING_USER", "OBTAINING"}
    PROVE  /\ Sound([w EXCEPT !.sta_state = s])
           /\ Sound([w EXCEPT !.sta_state = s, !.scan_count = 0])
<1>1. Typed([w EXCEPT !.sta_state = s]) /\ [w EXCEPT !.sta_state = s].sta_state = s
  BY DEF Typed, Managers
<1>2. 0 \in 0 .. RescanLimit
  BY StaAssumption
<1>3. /\ Typed([w EXCEPT !.sta_state = s, !.scan_count = 0])
      /\ [w EXCEPT !.sta_state = s, !.scan_count = 0].sta_state = s
  BY <1>2 DEF Typed, Managers
<1> QED
  BY <1>1, <1>3 DEF Sound, Agrees

LEMMA SendSound ==
    ASSUME NEW w, Sound(w), NEW m \in Messages
    PROVE  Sound(Send(w, m))
BY SendTyped DEF Sound, SameButQueue, Agrees

LEMMA RescanSound ==
    ASSUME NEW w, Typed(w), Rescan(w)
    PROVE  Sound(wlan')
BY ScanSound, FailedSound DEF Rescan

LEMMA ScanDoneSound ==
    ASSUME StaInv, UserScanDone \/ IgnoreScanResult \/ ConnectScanDone
    PROVE  Sound(wlan')
<1>0. wlan.events # <<>>
  BY DEF UserScanDone, IgnoreScanResult, ConnectScanDone, Got
<1>1. Sound(Taken) /\ Typed(Taken) /\ SameButQueue(Taken, wlan)
  BY <1>0, TakenSound
<1> DEFINE w == Taken
<1> HIDE DEF w
<1>2. CASE UserScanDone
  <2>1. wlan' = [w EXCEPT !.scan_cb = None, !.scan_lock = TRUE, !.clears = TRUE]
    BY <1>2 DEF UserScanDone, PutScanLock, w
  <2> QED
    BY <1>1, <2>1 DEF w, Sound, Agrees, Typed, Managers
<1>3. CASE IgnoreScanResult
  <2>1. wlan' = w \/ wlan' = [w EXCEPT !.scan_lock = TRUE, !.clears = TRUE]
    BY <1>3 DEF IgnoreScanResult, PutScanLock, w
  <2> QED
    BY <1>1, <2>1 DEF w, Sound, Agrees, Typed, Managers
<1>4. CASE ConnectScanDone
  <2>1. CASE wlan' = [w EXCEPT !.trouble = TRUE]
    BY <1>1, <2>1 DEF w, Sound, Agrees, Typed, Managers
  <2>2. ASSUME NEW ok \in BOOLEAN,
               wlan' = Send([w EXCEPT !.sta_state = "ASSOCIATING"], Msg("ASSOC", ok))
        PROVE  Sound(wlan')
    <3>1. Sound([w EXCEPT !.sta_state = "ASSOCIATING"])
      BY <1>1, MovedSound DEF w, StaStates, Linked
    <3> QED
      BY <2>2, <3>1, SendSound, MessageTypes
  <2>3. CASE wlan' = DoConnectFailed(w)
    BY <1>1, <2>3, FailedSound DEF w
  <2>4. CASE Rescan(w)
    BY <1>1, <2>4, RescanSound DEF w
  <2> QED
    BY <1>4, <2>1, <2>2, <2>3, <2>4 DEF ConnectScanDone, Associate, w
<1> QED
  BY <1>2, <1>3, <1>4

\* The state that a user's scan returns to agrees with what was told.
LEMMA ClearSound ==
    ASSUME StaInv, ClearScanFlag
    PROVE  Sound(wlan')
<1>1. Sound(wlan)
  BY DEF StaInv
<1>2. CASE UserScanning
  <2>1. wlan' = [wlan EXCEPT !.clears = FALSE, !.is_scan_lock = FALSE,
                             !.sta_state = wlan.sta_return_to]
    BY <1>2 DEF ClearScanFlag
  <2> QED
    BY <1>1, <1>2, <2>1 DEF UserScanning, Sound, Agrees, Typed, Managers
<1>3. CASE ~UserScanning
  <2>1. wlan' = [wlan EXCEPT !.clears = FALSE, !.is_scan_lock = FALSE,
                             !.sta_state = wlan.sta_state]
    BY <1>3 DEF ClearScanFlag
  <2> QED
    BY <1>1, <2>1 DEF Sound, Agrees, Typed, Managers
<1> QED
  BY <1>2, <1>3

LEMMA AttemptSound ==
    ASSUME StaInv, HandleAssociation \/ Authenticated \/ NotAuthenticated \/ HandleDisassociation
    PROVE  Sound(wlan')
<1>0. wlan.events # <<>>
  BY DEF HandleAssociation, Authenticated, NotAuthenticated, HandleDisassociation, Got
<1>1. Sound(Taken) /\ Typed(Taken) /\ SameButQueue(Taken, wlan)
  BY <1>0, TakenSound
<1>2. CASE HandleAssociation
  <2>1. CASE wlan' = Taken
    BY <1>1, <2>1
  <2>2. CASE wlan' = [Taken EXCEPT !.sta_state = "ASSOCIATED", !.scan_count = 0]
    BY <1>1, <2>2, MovedSound DEF StaStates, Linked
  <2>3. CASE Rescan(Taken)
    BY <1>1, <2>3, RescanSound
  <2> QED
    BY <1>2, <2>1, <2>2, <2>3 DEF HandleAssociation
<1>3. CASE Authenticated
  <2>1. Sound([Taken EXCEPT !.sta_state = "REQUESTING"])
    BY <1>1, MovedSound DEF StaStates, Linked
  <2> QED
    BY <1>1, <1>3, <2>1, SendSound, MessageTypes DEF Authenticated
<1>4. CASE NotAuthenticated \/ HandleDisassociation
  BY <1>1, <1>4, FailedSound DEF NotAuthenticated, HandleDisassociation
<1> QED
  BY <1>2, <1>3, <1>4

LEMMA LossSound ==
    ASSUME StaInv, HandleLinkLoss
    PROVE  Sound(wlan')
<1>0. wlan.events # <<>>
  BY DEF HandleLinkLoss, Got
<1>1. Sound(Taken) /\ Typed(Taken)
  BY <1>0, TakenSound
<1>2. Sound([Tell(Taken, "lost") EXCEPT !.sta_state = "IDLE"])
  <2> DEFINE w == Tell(Taken, "lost")
  <2>1. Typed(w) /\ w.told = "lost"
    BY <1>1, TellTyped
  <2> HIDE DEF w
  <2>2. Sound([w EXCEPT !.sta_state = "IDLE"])
    BY <2>1 DEF Sound, Agrees, Typed, Managers, StaStates
  <2> QED
    BY <2>2 DEF w
<1>3. \/ wlan' = Taken
      \/ wlan' = DoConnectFailed(Taken)
      \/ wlan' = [Tell(Taken, "lost") EXCEPT !.sta_state = "IDLE"]
  BY DEF HandleLinkLoss
<1>4. Sound(DoConnectFailed(Taken))
  BY <1>1, FailedSound
<1> QED
  BY <1>1, <1>2, <1>3, <1>4

LEMMA ConnectedSound ==
    ASSUME NEW w, Typed(w)
    PROVE  Sound([Tell(w, "success") EXCEPT !.sta_state = "CONNECTED"])
<1> DEFINE v == Tell(w, "success")
<1>1. Typed(v) /\ v.told = "success"
  BY TellTyped
<1> HIDE DEF v
<1>2. "CONNECTED" \in StaStates
  BY DEF StaStates, Linked
<1>3. /\ Typed([v EXCEPT !.sta_state = "CONNECTED"])
      /\ [v EXCEPT !.sta_state = "CONNECTED"].sta_state = "CONNECTED"
      /\ [v EXCEPT !.sta_state = "CONNECTED"].told = "success"
  BY <1>1, <1>2 DEF Typed, Managers
<1>4. Sound([v EXCEPT !.sta_state = "CONNECTED"])
  BY <1>3 DEF Sound, Agrees
<1> QED
  BY <1>4 DEF v

LEMMA AddressSound ==
    ASSUME StaInv, HandleAddrConfig \/ HandleDhcp
    PROVE  Sound(wlan')
<1>0. wlan.events # <<>>
  BY DEF HandleAddrConfig, HandleDhcp, Got
<1>1. Sound(Taken) /\ Typed(Taken) /\ SameButQueue(Taken, wlan)
  BY <1>0, TakenSound
<1>2. CASE HandleAddrConfig
  <2> DEFINE w == Taken
             s == [Tell(w, "success") EXCEPT !.sta_state = "CONNECTED"]
             n == w.wakelock + 1
  <2>1. /\ Sound(w) /\ Sound(s)
        /\ n \in Nat /\ n >= 1
    BY <1>1, ConnectedSound DEF Typed, Managers
  <2>2. \/ wlan' = w \/ wlan' = s
        \/ wlan' = [w EXCEPT !.sta_state = "OBTAINING", !.dhcp_wakelock_taken = TRUE, !.wakelock = n]
    BY <1>2 DEF HandleAddrConfig
  <2> HIDE DEF w, s, n
  <2>3. ASSUME wlan' = [w EXCEPT !.sta_state = "OBTAINING", !.dhcp_wakelock_taken = TRUE, !.wakelock = n]
        PROVE  Sound(wlan')
    BY <2>1, <2>3 DEF Sound, Agrees, Typed, Managers, StaStates, Linked
  <2> QED
    BY <2>1, <2>2, <2>3
<1>3. CASE HandleDhcp
  <2> DEFINE t == Taken
             n == Put(t.wakelock)
             w == [t EXCEPT !.wakelock = n, !.dhcp_wakelock_taken = FALSE]
  <2>1. /\ \/ wlan' = w /\ ~IsState("OBTAINING")
           \/ wlan' = Send(w, Msg("CONNECT", w.cur_network_idx)) /\ ~IsState("OBTAINING")
           \/ wlan' = [Tell(w, "success") EXCEPT !.sta_state = "CONNECTED"]
           \/ wlan' = DoConnectFailed(w)
    <3>1. Arg \in BOOLEAN
      BY <1>0, <1>3, TakenSound DEF HandleDhcp, Got, Arg, Messages
    <3> QED
      BY <1>3, <3>1 DEF HandleDhcp
  <2>2. n \in Nat /\ Sound(t) /\ Typed(t) /\ t.sta_state = wlan.sta_state
    BY <1>1 DEF Typed, Managers, Put, SameButQueue
  <2> HIDE DEF n, t
  <2>3. /\ Typed(w) /\ w.sta_state = t.sta_state /\ w.cur_network_idx \in Networks
        /\ w.told = t.told /\ w.sta_return_to = t.sta_return_to
    BY <2>2 DEF Typed, Managers
  <2> HIDE DEF w
  <2>4. ASSUME ~IsState("OBTAINING") PROVE Sound(w)
    <3>1. wlan.sta_state # "OBTAINING"
      BY <2>4 DEF IsState, UserScanning
    <3> QED
      BY <2>2, <2>3, <3>1 DEF Sound, Agrees
  <2>5. Sound([Tell(w, "success") EXCEPT !.sta_state = "CONNECTED"]) /\ Sound(DoConnectFailed(w))
    BY <2>3, ConnectedSound, FailedSound
  <2>6. ~IsState("OBTAINING") => Sound(Send(w, Msg("CONNECT", w.cur_network_idx)))
    BY <2>3, <2>4, SendSound, MessageTypes
  <2> QED
    BY <2>1, <2>4, <2>5, <2>6
<1> QED
  BY <1>2, <1>3

LEMMA ScanRequestSound ==
    ASSUME StaInv, HandleScanRequest
    PROVE  Sound(wlan')
<1>0. wlan.events # <<>> /\ Head(wlan.events).what = "SCAN"
  BY DEF HandleScanRequest, Got
<1>1. Sound(Taken) /\ Typed(Taken) /\ SameButQueue(Taken, wlan) /\ Arg \in Users
  BY <1>0, TakenSound DEF Messages, Arg
<1> DEFINE t == Taken
           a == Arg
           scanning == [t EXCEPT !.sta_state = "SCANNING_USER",
                                 !.sta_return_to = t.sta_state, !.scan_cb = a]
<1>2. \/ /\ IsState("IDLE") \/ IsState("CONNECTED")
         /\ wlan' \in {Send(scanning, Msg("SCAN_RESULT", None)), [scanning EXCEPT !.trouble = TRUE]}
      \/ wlan' = [t EXCEPT !.scan_lock = TRUE]
  BY <1>1 DEF HandleScanRequest, SameButQueue
<1>3. Sound(t) /\ a \in Users /\ t.sta_state = wlan.sta_state
  BY <1>1 DEF SameButQueue
<1>4. IsState("IDLE") \/ IsState("CONNECTED") => t.sta_state \in {"IDLE", "CONNECTED", "SCANNING_USER"}
  BY <1>3 DEF IsState, UserScanning
<1> HIDE DEF t, a
<1>5. /\ Typed(scanning) /\ scanning.sta_state = "SCANNING_USER"
      /\ scanning.sta_return_to = t.sta_state /\ scanning.told = t.told
  BY <1>3 DEF Sound, Typed, Managers, StaStates
<1> HIDE DEF scanning
<1>6. t.sta_state \in {"IDLE", "CONNECTED", "SCANNING_USER"} => Sound(scanning)
  BY <1>3, <1>5 DEF Sound, Agrees
<1>7. Sound(scanning) => Sound([scanning EXCEPT !.trouble = TRUE])
  BY DEF Sound, Agrees, Typed, Managers
<1>8. Sound([t EXCEPT !.scan_lock = TRUE])
  BY <1>3 DEF Sound, Agrees, Typed, Managers
<1> QED
  BY <1>2, <1>4, <1>6, <1>7, <1>8, SendSound, MessageTypes

LEMMA DisconnectSound ==
    ASSUME StaInv, HandleDisconnect
    PROVE  Sound(wlan')
<1>0. wlan.events # <<>>
  BY DEF HandleDisconnect, Got
<1>1. Sound(Taken) /\ Typed(Taken) /\ SameButQueue(Taken, wlan)
  BY <1>0, TakenSound
<1>2. CASE IsState("IDLE")
  BY <1>1, <1>2 DEF HandleDisconnect
<1>3. CASE ~IsState("IDLE")
  <2> DEFINE t == Tell(Taken, "disconnected")
             state == IF UserScanning THEN wlan.sta_return_to ELSE wlan.sta_state
             idle == state # "SCANNING_USER"
             n == IF wlan.dhcp_wakelock_taken THEN Put(t.wakelock) ELSE t.wakelock
             s == IF idle THEN "IDLE" ELSE t.sta_state
             r == IF idle /\ UserScanning THEN "IDLE" ELSE t.sta_return_to
  <2>1. wlan' = [t EXCEPT !.sta_state = s, !.sta_return_to = r,
                          !.dhcp_wakelock_taken = FALSE, !.wakelock = n]
    BY <1>3 DEF HandleDisconnect
  <2>2. /\ Typed(t) /\ t.told = "disconnected"
        /\ t.sta_state = wlan.sta_state /\ t.sta_return_to = wlan.sta_return_to
    BY <1>1, TellTyped DEF SameButQueue
  <2>3. n \in Nat /\ s \in StaStates /\ r \in StaStates
    BY <2>2 DEF Typed, Managers, Put, StaStates
  <2>4. \/ s = "IDLE"
        \/ s = "SCANNING_USER" /\ r = "SCANNING_USER"
    BY <2>2 DEF UserScanning, StaInv, Sound
  <2> HIDE DEF t, n, s, r
  <2>5. /\ Typed(wlan') /\ wlan'.sta_state = s /\ wlan'.sta_return_to = r
        /\ wlan'.told = "disconnected"
    BY <2>1, <2>2, <2>3 DEF Typed, Managers
  <2> QED
    BY <2>4, <2>5 DEF Sound, Agrees
<1> QED
  BY <1>2, <1>3

LEMMA ConnectSound ==
    ASSUME StaInv, HandleConnect
    PROVE  Sound(wlan')
<1>0. wlan.events # <<>> /\ Head(wlan.events).what = "CONNECT"
  BY DEF HandleConnect, Got
<1>1. Typed(Taken) /\ Arg \in Networks
  BY <1>0, TakenSound DEF Messages, Arg
<1> DEFINE w == [Taken EXCEPT !.cur_network_idx = Arg, !.scan_count = 0]
<1>2. wlan' \in DoScan(w) \/ wlan' \in DoScan(Tell(w, "failed"))
  BY DEF HandleConnect
<1>3. Typed(w) /\ w.scan_count = 0
  <2> DEFINE t == Taken
             a == Arg
  <2>1. Typed(t) /\ a \in Networks /\ 0 \in 0 .. RescanLimit
    BY <1>1, StaAssumption
  <2> HIDE DEF t, a
  <2>2. Typed([t EXCEPT !.cur_network_idx = a, !.scan_count = 0])
    BY <2>1 DEF Typed, Managers
  <2>3. [t EXCEPT !.cur_network_idx = a, !.scan_count = 0].scan_count = 0
    BY <2>1 DEF Typed, Managers
  <2> QED
    BY <2>2, <2>3 DEF t, a
<1> HIDE DEF w
<1>4. Typed(Tell(w, "failed")) /\ Tell(w, "failed").scan_count = 0
  BY <1>3, TellTyped
<1> QED
  BY <1>2, <1>3, <1>4, ScanSound, StaAssumption

LEMMA EnvironmentSound ==
    ASSUME StaInv, Environment
    PROVE  Sound(wlan')
<1>1. Sound(wlan)
  BY DEF StaInv
<1>2. ASSUME NEW m \in Messages, wlan' = Send(wlan, m)
      PROVE  Sound(wlan')
  BY <1>1, <1>2, SendSound
<1>3. CASE UNCHANGED wlan
  BY <1>1, <1>3
<1>4. ASSUME NEW u \in Users, TakeScanLock(u)
      PROVE  Sound(wlan')
  <2>1. Sound([wlan EXCEPT !.scan_lock = FALSE])
    BY <1>1 DEF Sound, Agrees, Typed, Managers
  <2> QED
    BY <1>4, <2>1 DEF TakeScanLock
<1>5. ASSUME NEW u \in Users, RaiseScanFlag(u) \/ SendScan(u)
      PROVE  Sound(wlan')
  <2>1. CASE RaiseScanFlag(u)
    <3>1. Sound([wlan EXCEPT !.is_scan_lock = TRUE])
      BY <1>1 DEF Sound, Agrees, Typed, Managers
    <3> QED
      BY <2>1, <3>1 DEF RaiseScanFlag
  <2>2. CASE SendScan(u)
    BY <1>2, <2>2, MessageTypes DEF SendScan
  <2> QED
    BY <1>5, <2>1, <2>2
<1>6. CASE wlan_connect \/ wlan_disconnect
  BY <1>2, <1>6, MessageTypes DEF wlan_connect, wlan_disconnect, Call
<1>7. CASE OpensPort \/ LosesLink \/ \E ok \in BOOLEAN : DhcpReports(ok)
  BY <1>2, <1>7, MessageTypes DEF OpensPort, LosesLink, DhcpReports
<1>8. CASE LosesLease \/ \E u \in Users : wlan_scan(u)
  BY <1>3, <1>8 DEF LosesLease, wlan_scan
<1> QED
  BY <1>4, <1>5, <1>6, <1>7, <1>8 DEF Environment
----------------------------------------------------------------------------
LEMMA RestKept ==
    ASSUME StaInv, [Next]_vars
    PROVE  RestTyped'
<1> DEFINE Cards == [bss : Networks \cup {None}, open : BOOLEAN, dhcp : {"off", "asking", "bound"}]
<1>0. card \in Cards /\ pc \in [Users -> {"out", "waits", "has", "raised"}] /\ calls \in 0 .. MaxCalls
      /\ wlan.cur_network_idx \in Networks
  BY DEF StaInv, RestTyped, Sound, Typed, Managers
<1>1. ASSUME card' \in Cards, UNCHANGED <<pc, calls>>
      PROVE  RestTyped'
  BY <1>0, <1>1 DEF RestTyped
<1>2. ASSUME UNCHANGED card, pc' \in [Users -> {"out", "waits", "has", "raised"}],
             calls' = calls \/ (calls < MaxCalls /\ calls' = calls + 1)
      PROVE  RestTyped'
  <2>1. calls' \in 0 .. MaxCalls
    BY <1>0, <1>2, StaAssumption
  <2> QED
    BY <1>0, <1>2, <2>1 DEF RestTyped
<1>3. CASE UserScanDone \/ IgnoreScanResult \/ ClearScanFlag \/ HandleAssociation
           \/ HandleLinkLoss \/ HandleDisassociation \/ HandleAddrConfig \/ HandleScanRequest
  BY <1>0, <1>1, <1>3 DEF UserScanDone, IgnoreScanResult, ClearScanFlag, HandleAssociation, HandleLinkLoss,
     HandleDisassociation, HandleAddrConfig, HandleScanRequest
<1>4. Deauthenticate => card' \in Cards
  BY <1>0 DEF Deauthenticate
<1>5. CASE ConnectScanDone
  <2>1. Taken.cur_network_idx \in Networks
    <3>1. Typed(wlan) /\ wlan.events # <<>>
      BY <1>5 DEF ConnectScanDone, Got, StaInv, Sound
    <3> QED
      BY <3>1, TakenTyped DEF Typed, Managers
  <2>2. card' = card \/ \E ok \in BOOLEAN :
           card' = [card EXCEPT !.bss = IF ok THEN Taken.cur_network_idx ELSE None, !.open = FALSE]
    BY <1>5 DEF ConnectScanDone, Associate
  <2>3. ASSUME NEW n \in Networks \cup {None}, card' = [card EXCEPT !.bss = n, !.open = FALSE]
        PROVE  card' \in Cards
    BY <1>0, <2>3
  <2>4. card' \in Cards
    BY <1>0, <2>1, <2>2, <2>3
  <2> QED
    BY <1>1, <1>5, <2>4 DEF ConnectScanDone
<1>6. CASE Authenticated \/ NotAuthenticated \/ HandleDhcp \/ HandleConnect
  <2>1. \/ UNCHANGED card \/ Deauthenticate
        \/ \E d \in {"off", "asking"} : card' = [card EXCEPT !.dhcp = d]
    BY <1>6 DEF Authenticated, NotAuthenticated, HandleDhcp, HandleConnect
  <2>2. card' \in Cards
    BY <1>0, <1>4, <2>1
  <2>3. UNCHANGED <<pc, calls>>
    BY <1>6 DEF Authenticated, NotAuthenticated, HandleDhcp, HandleConnect
  <2> QED
    BY <1>1, <2>2, <2>3
<1>7. CASE HandleDisconnect
  <2>1. \/ card' = [card EXCEPT !.dhcp = "off"]
        \/ card' = [[card EXCEPT !.bss = None, !.open = FALSE] EXCEPT !.dhcp = "off"]
    BY <1>7 DEF HandleDisconnect
  <2>2. [card EXCEPT !.bss = None, !.open = FALSE] \in Cards
    BY <1>0
  <2>3. card' \in Cards
    BY <1>0, <2>1, <2>2
  <2> QED
    BY <1>1, <1>7, <2>3 DEF HandleDisconnect
<1>8. CASE wlan_connect \/ wlan_disconnect
  BY <1>0, <1>2, <1>8 DEF wlan_connect, wlan_disconnect, Call
<1>9. CASE \E u \in Users : wlan_scan(u) \/ TakeScanLock(u) \/ RaiseScanFlag(u) \/ SendScan(u)
  <2>1. /\ UNCHANGED card
        /\ \E u \in Users, s \in {"out", "waits", "has", "raised"} : pc' = [pc EXCEPT ![u] = s]
        /\ calls' = calls \/ (calls < MaxCalls /\ calls' = calls + 1)
    BY <1>9 DEF wlan_scan, TakeScanLock, RaiseScanFlag, SendScan
  <2>2. pc' \in [Users -> {"out", "waits", "has", "raised"}]
    BY <1>0, <2>1
  <2> QED
    BY <1>2, <2>1, <2>2
<1>10. CASE OpensPort \/ LosesLink \/ \E ok \in BOOLEAN : DhcpReports(ok)
  <2>1. /\ \/ Deauthenticate
           \/ card' = [card EXCEPT !.open = TRUE]
           \/ \E d \in {"off", "bound"} : card' = [card EXCEPT !.dhcp = d]
        /\ UNCHANGED <<pc, calls>>
    BY <1>10 DEF OpensPort, LosesLink, DhcpReports
  <2>2. card' \in Cards
    <3>1. CASE card' = [card EXCEPT !.open = TRUE]
      BY <1>0, <3>1
    <3>2. CASE \E d \in {"off", "bound"} : card' = [card EXCEPT !.dhcp = d]
      BY <1>0, <3>2
    <3> QED
      BY <1>4, <2>1, <3>1, <3>2
  <2> QED
    BY <1>1, <2>1, <2>2
<1>11. CASE LosesLease
  <2>1. card' \in Cards /\ pc' = pc /\ calls < MaxCalls /\ calls' = calls + 1
    BY <1>0, <1>11 DEF LosesLease
  <2>2. calls' \in 0 .. MaxCalls
    BY <1>0, <2>1, StaAssumption
  <2> QED
    BY <1>0, <2>1, <2>2 DEF RestTyped
<1>12. CASE UNCHANGED vars
  BY <1>0, <1>1, <1>12 DEF vars
<1> QED
  BY <1>3, <1>5, <1>6, <1>7, <1>8, <1>9, <1>10, <1>11, <1>12 DEF Next, CmStep, Environment

LEMMA StaStep == StaInv /\ [Next]_vars => StaInv'
<1> SUFFICES ASSUME StaInv, [Next]_vars PROVE Sound(wlan')
  BY RestKept DEF StaInv
<1>1. CASE UNCHANGED vars
  BY <1>1 DEF vars, StaInv
<1> QED
  BY <1>1, ScanDoneSound, ClearSound, AttemptSound, LossSound, AddressSound, ScanRequestSound, DisconnectSound,
     ConnectSound, EnvironmentSound DEF Next, CmStep

LEMMA InitSta == Init => StaInv
<1> SUFFICES ASSUME Init PROVE StaInv
  OBVIOUS
<1> DEFINE n == CHOOSE n \in Networks : TRUE
<1>1. n \in Networks /\ <<>> \in Seq(Messages) /\ Len(<<>>) <= MaxEvents
  BY StaAssumption
<1> HIDE DEF n
<1>2. Sound(wlan)
  BY <1>1, StaAssumption DEF Init, Sound, Agrees, Typed, Managers, StaStates, n
<1>3. RestTyped
  BY StaAssumption DEF Init, RestTyped
<1> QED
  BY <1>2, <1>3 DEF StaInv

LEMMA StaAlways == Spec => []StaInv
BY InitSta, StaStep, PTL DEF Spec

(* Every reachable state of the manager is typed, for any capacity of its  *)
(* queue, and the queue never holds more than that.                        *)
THEOREM TypeCorrect == Spec => []TypeOK
<1>1. StaInv => TypeOK
  BY DEF StaInv, Sound, Typed, Managers, RestTyped, TypeOK
<1> QED
  BY <1>1, StaAlways, PTL

(* What the application was told last (CONNECTION_EVENT) agrees with the   *)
(* state it reads, even while a user's scan is under way, and although a   *)
(* scan that overlaps another one may never return from it.                *)
THEOREM ToldTheTruth == Spec => []ToldTrue
<1>1. StaInv => ToldTrue
  BY DEF StaInv, Sound, Agrees, ToldTrue, IsState, UserScanning
<1> QED
  BY <1>1, StaAlways, PTL

(* The processor stays awake while the manager waits for an address: the   *)
(* wakelock that wlcm_process_net_dhcp_config puts for a late answer is    *)
(* never the one this attempt took.                                        *)
THEOREM AwakeWhileObtaining == Spec => []ObtainsAwake
<1>1. StaInv => ObtainsAwake
  BY DEF StaInv, Sound, ObtainsAwake
<1> QED
  BY <1>1, StaAlways, PTL
============================================================================
