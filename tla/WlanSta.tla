------------------------------ MODULE WlanSta -------------------------------
(***************************************************************************)
(* The station of the WLAN connection manager (wlan/wlcmgr/wlan.c): the    *)
(* thread cm_main takes one message at a time from wlan.events and runs    *)
(* its handler to the end.  Firmware, DHCP client and other tasks append   *)
(* messages, so what a handler finds may be stale.  `wlan' is the static   *)
(* struct of that name.                                                    *)
(*                                                                         *)
(* Abstractions.  A command blocks cm_main until its answer is queued, so  *)
(* both are one step.  Which access points a scan finds is a choice.       *)
(* Power save is module WlanPs: it is off here, and the answer to a        *)
(* deauthentication, which only ends it, is left out.  So are the micro-AP *)
(* and the options WPS, fast path and 11D of the build.                    *)
(***************************************************************************)
EXTENDS Naturals, Sequences

CONSTANTS
    Networks,    \* the known networks
    Static,      \* those with a static address; the others use DHCP
    Users,       \* tasks that call wlan_scan
    None,
    MaxEvents,   \* capacity of wlan.events
    RescanLimit, \* WLAN_RESCAN_LIMIT
    MaxCalls     \* bound on the calls of the API and on lost leases

ASSUME StaAssumption ==
    /\ Networks # {} /\ Static \subseteq Networks /\ None \notin Networks \cup Users
    /\ MaxEvents \in Nat \ {0} /\ RescanLimit \in Nat \ {0} /\ MaxCalls \in Nat

VARIABLES
    wlan,
    card,   \* external: network of the association, port open, DHCP client
    pc,     \* of each user in wlan_scan
    calls

vars == <<wlan, card, pc, calls>>

Linked == {"ASSOCIATING", "ASSOCIATED", "REQUESTING", "OBTAINING", "CONNECTED"}
Connecting == {"SCANNING"} \cup (Linked \ {"CONNECTED"})
StaStates == {"IDLE", "SCANNING", "SCANNING_USER"} \cup Linked

Msg(what, arg) == [what |-> what, arg |-> arg]
Messages ==
    [what : {"ASSOC", "AUTH", "DHCP"}, arg : BOOLEAN]
    \cup [what : {"SCAN_RESULT", "LINK_LOSS", "DISASSOC", "ADDR_CONFIG", "DISCONNECT"},
          arg : {None}]
    \cup [what : {"CONNECT"}, arg : Networks] \cup [what : {"SCAN"}, arg : Users]

UserScanning == wlan.sta_state = "SCANNING_USER"
\* is_state looks through a user's scan at the state it will return to.
IsState(s) == s = IF UserScanning THEN wlan.sta_return_to ELSE wlan.sta_state

\* The queue takes no message when it is full.
Send(w, m) == IF Len(w.events) < MaxEvents THEN [w EXCEPT !.events = Append(@, m)]
              ELSE [w EXCEPT !.trouble = TRUE]

Put(n) == IF n > 0 THEN n - 1 ELSE n

\* CONNECTION_EVENT: what the application was told last about its connection
\* (a renewed address, WLAN_REASON_ADDRESS_SUCCESS, says nothing of it).
Tell(w, reason) == [w EXCEPT !.told = reason]

DoConnectFailed(w) ==
    [Tell(w, "failed") EXCEPT
        !.sta_state = "IDLE",
        !.dhcp_wakelock_taken = FALSE,
        !.wakelock = IF w.dhcp_wakelock_taken THEN Put(@) ELSE @]

\* do_scan: the command is sent, or is refused and not counted.
DoScan(w) ==
    LET scanning == Send([w EXCEPT !.sta_state = "SCANNING"], Msg("SCAN_RESULT", None))
    IN  {[scanning EXCEPT !.scan_count = @ + 1], [scanning EXCEPT !.trouble = TRUE]}

Rescan(w) ==
    IF w.scan_count < RescanLimit THEN wlan' \in DoScan(w) ELSE wlan' = DoConnectFailed(w)

Deauthenticate == card' = [card EXCEPT !.bss = None, !.open = FALSE]
----------------------------------------------------------------------------
(* handle_message: each handler gets the manager without the message.      *)

Got(what) == ~wlan.clears /\ wlan.events # <<>> /\ Head(wlan.events).what = what
Arg == Head(wlan.events).arg
Taken == [wlan EXCEPT !.events = Tail(@)]

\* The semaphore is put, and the handler has the flag yet to clear: the task that
\* waits for the semaphore may go on first.
PutScanLock(w) == [w EXCEPT !.scan_lock = TRUE, !.clears = TRUE]

\* wlcm_process_scan_result_event: the result of a user's scan.
UserScanDone ==
    /\ Got("SCAN_RESULT") /\ UserScanning
    /\ wlan' = PutScanLock([Taken EXCEPT !.scan_cb = None])
    /\ UNCHANGED <<card, pc, calls>>

\* The end of the handler: the flag is cleared, whoever has raised it, and the
\* state that the scan returns to entered.
ClearScanFlag ==
    /\ wlan.clears
    /\ wlan' = [wlan EXCEPT !.clears = FALSE, !.is_scan_lock = FALSE,
                            !.sta_state = IF UserScanning THEN wlan.sta_return_to ELSE @]
    /\ UNCHANGED <<card, pc, calls>>

\* Mutant: the lock is left to the next scan.
IgnoreScanResultKeepsLock ==
    /\ Got("SCAN_RESULT") /\ wlan.sta_state \notin {"SCANNING", "SCANNING_USER"}
    /\ wlan' = Taken
    /\ UNCHANGED <<card, pc, calls>>

IgnoreScanResult ==
    /\ Got("SCAN_RESULT") /\ wlan.sta_state \notin {"SCANNING", "SCANNING_USER"}
    /\ wlan' = IF wlan.is_scan_lock THEN PutScanLock(Taken) ELSE Taken
    /\ UNCHANGED <<card, pc, calls>>

\* wrapper_wifi_assoc sends the command, and the association is made or not.
Associate(w) ==
    \E ok \in BOOLEAN :
        /\ wlan' = Send([w EXCEPT !.sta_state = "ASSOCIATING"], Msg("ASSOC", ok))
        /\ card' = [card EXCEPT !.bss = IF ok THEN w.cur_network_idx ELSE None,
                                !.open = FALSE]

\* handle_scan_results: no memory, the network found (start_association, which
\* may fail) or not found.
ConnectScanDone ==
    /\ Got("SCAN_RESULT") /\ wlan.sta_state = "SCANNING"
    /\ \/ wlan' = [Taken EXCEPT !.trouble = TRUE] /\ UNCHANGED card
       \/ Associate(Taken)
       \/ wlan' = DoConnectFailed(Taken) /\ UNCHANGED card
       \/ Rescan(Taken) /\ UNCHANGED card
    /\ UNCHANGED <<pc, calls>>

\* wlcm_process_association_event
HandleAssociation ==
    /\ Got("ASSOC")
    /\ IF ~IsState("ASSOCIATING") THEN wlan' = Taken
       ELSE IF Arg THEN wlan' = [Taken EXCEPT !.sta_state = "ASSOCIATED", !.scan_count = 0]
       ELSE Rescan(Taken)
    /\ UNCHANGED <<card, pc, calls>>

\* wlcm_process_authentication_event; net_configure_address starts the DHCP
\* client, or leaves the address as it is, and says that it did.
Authenticated ==
    /\ Got("AUTH") /\ Arg
    /\ IF IsState("ASSOCIATED")
       THEN /\ wlan' = Send([Taken EXCEPT !.sta_state = "REQUESTING"], Msg("ADDR_CONFIG", None))
            /\ card' = [card EXCEPT !.dhcp =
                            IF wlan.cur_network_idx \in Static THEN "off" ELSE "asking"]
       ELSE wlan' = Taken /\ UNCHANGED card
    /\ UNCHANGED <<pc, calls>>

NotAuthenticated ==
    /\ Got("AUTH") /\ ~Arg
    /\ IF IsState("ASSOCIATED") THEN Deauthenticate ELSE UNCHANGED card
    /\ wlan' = DoConnectFailed(Taken)
    /\ UNCHANGED <<pc, calls>>

\* Mutant: the application is not told.
HandleLinkLossSilently ==
    /\ Got("LINK_LOSS")
    /\ wlan' = CASE IsState("IDLE") -> Taken
                 [] IsState("CONNECTED") -> [Taken EXCEPT !.sta_state = "IDLE"]
                 [] OTHER -> DoConnectFailed(Taken)
    /\ UNCHANGED <<card, pc, calls>>

\* Mutant: does not end an attempt.
HandleLinkLossConnected ==
    /\ Got("LINK_LOSS")
    /\ wlan' = IF IsState("CONNECTED") THEN [Tell(Taken, "lost") EXCEPT !.sta_state = "IDLE"]
               ELSE Taken
    /\ UNCHANGED <<card, pc, calls>>

\* wlcm_process_link_loss_event; a user's scan is given up with the link.
HandleLinkLoss ==
    /\ Got("LINK_LOSS")
    /\ wlan' = CASE IsState("IDLE") -> Taken
                 [] IsState("CONNECTED") -> [Tell(Taken, "lost") EXCEPT !.sta_state = "IDLE"]
                 [] OTHER -> DoConnectFailed(Taken)
    /\ UNCHANGED <<card, pc, calls>>

\* wlcm_process_disassoc_event
HandleDisassociation ==
    /\ Got("DISASSOC")
    /\ wlan' = DoConnectFailed(Taken)
    /\ UNCHANGED <<card, pc, calls>>

\* Mutant: the wakelock for the DHCP client is not taken.
HandleAddrConfigNoWakelock ==
    /\ Got("ADDR_CONFIG")
    /\ wlan' = IF ~IsState("REQUESTING") THEN Taken
               ELSE IF wlan.cur_network_idx \in Static
               THEN [Tell(Taken, "success") EXCEPT !.sta_state = "CONNECTED"]
               ELSE [Taken EXCEPT !.sta_state = "OBTAINING", !.dhcp_wakelock_taken = TRUE]
    /\ UNCHANGED <<card, pc, calls>>

\* wlcm_process_sta_addr_config_event
HandleAddrConfig ==
    /\ Got("ADDR_CONFIG")
    /\ wlan' = IF ~IsState("REQUESTING") THEN Taken
               ELSE IF wlan.cur_network_idx \in Static
               THEN [Tell(Taken, "success") EXCEPT !.sta_state = "CONNECTED"]
               ELSE [Taken EXCEPT !.sta_state = "OBTAINING", !.dhcp_wakelock_taken = TRUE,
                                  !.wakelock = @ + 1]
    /\ UNCHANGED <<card, pc, calls>>

\* wlcm_process_net_dhcp_config; the wakelock is put whoever took it.
HandleDhcp ==
    /\ Got("DHCP")
    /\ LET w == [Taken EXCEPT !.wakelock = Put(@), !.dhcp_wakelock_taken = FALSE]
       IN  CASE IsState("OBTAINING") /\ Arg ->
                  /\ wlan' = [Tell(w, "success") EXCEPT !.sta_state = "CONNECTED"]
                  /\ UNCHANGED card
             [] IsState("OBTAINING") /\ ~Arg -> wlan' = DoConnectFailed(w) /\ Deauthenticate
             [] ~IsState("OBTAINING") ->
                  /\ wlan' = IF Arg THEN w ELSE Send(w, Msg("CONNECT", w.cur_network_idx))
                  /\ UNCHANGED card
    /\ UNCHANGED <<pc, calls>>

\* wlcm_request_scan: a scan command that is refused is not noticed.
HandleScanRequest ==
    /\ Got("SCAN")
    /\ LET scanning == [Taken EXCEPT !.sta_state = "SCANNING_USER",
                                     !.sta_return_to = wlan.sta_state, !.scan_cb = Arg]
       IN  IF IsState("IDLE") \/ IsState("CONNECTED")
           THEN wlan' \in {Send(scanning, Msg("SCAN_RESULT", None)),
                           [scanning EXCEPT !.trouble = TRUE]}
           ELSE wlan' = [Taken EXCEPT !.scan_lock = TRUE]
    /\ UNCHANGED <<card, pc, calls>>

\* wlcm_request_disconnect; returns early when there is nothing to disconnect.
HandleDisconnect ==
    /\ Got("DISCONNECT")
    /\ IF IsState("IDLE")
       THEN wlan' = Taken /\ card' = [card EXCEPT !.dhcp = "off"]
       ELSE LET state == IF UserScanning THEN wlan.sta_return_to ELSE wlan.sta_state
                idle == state # "SCANNING_USER"
            IN  /\ wlan' = [Tell(Taken, "disconnected") EXCEPT
                              !.sta_state = IF idle THEN "IDLE" ELSE @,
                              !.sta_return_to = IF idle /\ UserScanning THEN "IDLE" ELSE @,
                              !.dhcp_wakelock_taken = FALSE,
                              !.wakelock = IF wlan.dhcp_wakelock_taken THEN Put(@) ELSE @]
                /\ card' = [IF state \in Linked
                            THEN [card EXCEPT !.bss = None, !.open = FALSE] ELSE card
                            EXCEPT !.dhcp = "off"]
    /\ UNCHANGED <<pc, calls>>

\* wlcm_request_connect and do_connect
HandleConnect ==
    /\ Got("CONNECT")
    /\ LET linked == wlan.sta_state \in Linked
           w == [Taken EXCEPT !.cur_network_idx = Arg, !.scan_count = 0]
       IN  /\ wlan' \in DoScan(IF linked THEN Tell(w, "failed") ELSE w)
           /\ IF linked THEN Deauthenticate ELSE UNCHANGED card
    /\ UNCHANGED <<pc, calls>>

CmStep ==
    \/ UserScanDone \/ IgnoreScanResult \/ ClearScanFlag \/ ConnectScanDone
    \/ HandleAssociation \/ Authenticated \/ NotAuthenticated
    \/ HandleLinkLoss \/ HandleDisassociation
    \/ HandleAddrConfig \/ HandleDhcp
    \/ HandleScanRequest \/ HandleDisconnect \/ HandleConnect
----------------------------------------------------------------------------
(* The API, in the tasks that call it. *)

Call(m) ==
    /\ calls < MaxCalls /\ calls' = calls + 1
    /\ wlan' = Send(wlan, m)
    /\ UNCHANGED <<card, pc>>

wlan_connect == \E n \in Networks : Call(Msg("CONNECT", n))
wlan_disconnect == Call(Msg("DISCONNECT", None))

\* wlan_scan looks at the state, waits for the lock, raises the flag that it is
\* taken, and sends the request.
wlan_scan(u) ==
    /\ pc[u] = "out" /\ (IsState("IDLE") \/ IsState("CONNECTED"))
    /\ calls < MaxCalls /\ calls' = calls + 1
    /\ pc' = [pc EXCEPT ![u] = "waits"]
    /\ UNCHANGED <<wlan, card>>

TakeScanLock(u) ==
    /\ pc[u] = "waits" /\ wlan.scan_lock
    /\ wlan' = [wlan EXCEPT !.scan_lock = FALSE]
    /\ pc' = [pc EXCEPT ![u] = "has"]
    /\ UNCHANGED <<card, calls>>

RaiseScanFlag(u) ==
    /\ pc[u] = "has"
    /\ wlan' = [wlan EXCEPT !.is_scan_lock = TRUE]
    /\ pc' = [pc EXCEPT ![u] = "raised"]
    /\ UNCHANGED <<card, calls>>

SendScan(u) ==
    /\ pc[u] = "raised"
    /\ wlan' = Send(wlan, Msg("SCAN", u))
    /\ pc' = [pc EXCEPT ![u] = "out"]
    /\ UNCHANGED <<card, calls>>

(* The firmware (external): wifi_handle_fw_event turns its events into     *)
(* messages.                                                               *)

OpensPort ==
    /\ card.bss # None /\ ~card.open
    /\ card' = [card EXCEPT !.open = TRUE]
    /\ wlan' = Send(wlan, Msg("AUTH", TRUE))
    /\ UNCHANGED <<pc, calls>>

LosesLink ==
    /\ card.bss # None /\ Deauthenticate
    /\ \E m \in {Msg("LINK_LOSS", None), Msg("DISASSOC", None), Msg("AUTH", FALSE)} :
          wlan' = Send(wlan, m)
    /\ UNCHANGED <<pc, calls>>

\* The DHCP client of the TCP stack (external) and wm_netif_status_callback: an
\* address was obtained, or the client gave up; a lease may be lost in silence.
DhcpReports(ok) ==
    /\ card.dhcp = "asking" /\ (ok => card.open)
    /\ card' = [card EXCEPT !.dhcp = IF ok THEN "bound" ELSE "off"]
    /\ wlan' = Send(wlan, Msg("DHCP", ok))
    /\ UNCHANGED <<pc, calls>>

LosesLease ==
    /\ card.dhcp = "bound" /\ card' = [card EXCEPT !.dhcp = "asking"]
    /\ calls < MaxCalls /\ calls' = calls + 1
    /\ UNCHANGED <<wlan, pc>>

Environment ==
    \/ wlan_connect \/ wlan_disconnect
    \/ \E u \in Users : wlan_scan(u) \/ TakeScanLock(u) \/ RaiseScanFlag(u) \/ SendScan(u)
    \/ OpensPort \/ LosesLink \/ LosesLease \/ \E ok \in BOOLEAN : DhcpReports(ok)

Next == CmStep \/ Environment

\* The state after wlan_start, with the interfaces configured.
Init ==
    /\ wlan = [sta_state |-> "IDLE", sta_return_to |-> "IDLE", events |-> <<>>,
               cur_network_idx |-> CHOOSE n \in Networks : TRUE, scan_count |-> 0,
               scan_cb |-> None, scan_lock |-> TRUE, is_scan_lock |-> FALSE, clears |-> FALSE,
               dhcp_wakelock_taken |-> FALSE, wakelock |-> 0,
               told |-> "nothing", trouble |-> FALSE]
    /\ card = [bss |-> None, open |-> FALSE, dhcp |-> "off"]
    /\ pc = [u \in Users |-> "out"] /\ calls = 0

Spec == Init /\ [][Next]_vars
FairSpec ==
    /\ Spec
    /\ WF_vars(CmStep) /\ WF_vars(OpensPort \/ LosesLink)
    /\ WF_vars(\E ok \in BOOLEAN : DhcpReports(ok)) /\ SF_vars(DhcpReports(TRUE))
    /\ \A u \in Users : WF_vars(TakeScanLock(u)) /\ WF_vars(RaiseScanFlag(u) \/ SendScan(u))
----------------------------------------------------------------------------
TypeOK ==
    /\ wlan \in [sta_state : StaStates, sta_return_to : StaStates,
                 events : Seq(Messages), cur_network_idx : Networks,
                 scan_count : 0 .. RescanLimit, scan_cb : Users \cup {None},
                 scan_lock : BOOLEAN, is_scan_lock : BOOLEAN, clears : BOOLEAN,
                 dhcp_wakelock_taken : BOOLEAN, wakelock : Nat,
                 told : {"nothing", "success", "lost", "failed", "disconnected"},
                 trouble : BOOLEAN]
    /\ Len(wlan.events) <= MaxEvents
    /\ card \in [bss : Networks \cup {None}, open : BOOLEAN, dhcp : {"off", "asking", "bound"}]
    /\ pc \in [Users -> {"out", "waits", "has", "raised"}] /\ calls \in 0 .. MaxCalls

(* The state the application reads and the last event it was given agree,  *)
(* in whatever order losses, failures and requests are handled: connected  *)
(* exactly as long as the last event said so (while the manager is idle or *)
(* connected).                                                             *)
ToldTrue ==
    /\ IsState("CONNECTED") => wlan.told = "success"
    /\ wlan.sta_state = "IDLE" => wlan.told # "success"

(* The processor stays awake as long as the manager waits for an address,  *)
(* though late answers of an old DHCP client put the wakelock too.         *)
ObtainsAwake == wlan.sta_state = "OBTAINING" => wlan.wakelock >= 1

\* A scan for a connect is under way, and the answer to the association of the
\* attempt it replaced is still queued.
StaleAnswer ==
    /\ wlan.sta_state = "SCANNING"
    /\ \E i \in DOMAIN wlan.events : wlan.events[i].what = "ASSOC"

(* Every attempt to connect ends, if no command is refused, no memory is   *)
(* missing, no message is lost and no attempt meets the answers of the one *)
(* it replaced: each state of the attempt has an answer on its way,        *)
(* whatever losses, renewals and user's scans come first.                  *)
ConnectResolves ==
    []~(wlan.trouble \/ StaleAnswer) =>
        (wlan.sta_state \in Connecting ~> wlan.sta_state \notin Connecting)

\* A task has taken the lock that the manager put for the scan before, and raised
\* the flag that the manager is about to clear for that one.
FlagOverrun ==
    wlan.clears /\ ~wlan.scan_lock /\ \A u \in Users : pc[u] # "has"

(* The scan lock comes back: a task that waits in wlan_scan gets it, though *)
(* connects, disconnects and losses cut other scans short, and though what *)
(* comes of these may find the flag of a later scan; if no message is lost *)
(* and the manager clears no flag but that of the scan it ends.            *)
ScanLockComesBack ==
    []~(wlan.trouble \/ FlagOverrun) =>
        \A u \in Users : pc[u] = "waits" ~> pc[u] = "has"

\* What the code does not do: with the flag cleared, a scan that is cut short
\* keeps the lock for ever.
ScanLockAlwaysComesBack ==
    []~wlan.trouble => \A u \in Users : pc[u] = "waits" ~> pc[u] = "has"

(* wlan.h "WLAN_CONNECTED": a connected manager has an association of its  *)
(* card with the network, or a message that takes it down is queued.       *)
ConnectedIsReal ==
    IsState("CONNECTED") /\ ~wlan.trouble =>
        \/ card.bss = wlan.cur_network_idx
        \/ \E i \in DOMAIN wlan.events :
              wlan.events[i].what \in {"LINK_LOSS", "DISASSOC", "AUTH", "CONNECT", "DISCONNECT"}
============================================================================
