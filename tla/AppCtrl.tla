------------------------------ MODULE AppCtrl -------------------------------
(***************************************************************************)
(* The station side of the application framework: the state machine of     *)
(* app_framework/app_ctrl.c with the network it keeps loaded in the WLAN   *)
(* connection manager (app_network_mgr.c) and stored in flash              *)
(* (app_network_config.c).  Its thread takes one event at a time; the      *)
(* manager's thread, wlan_event_cb and the application's calls send them,  *)
(* so an event may tell of something that is no longer so.                 *)
(*                                                                         *)
(* Abstractions.  The manager is wlan.c seen from its API: its requests in *)
(* order, the stages of one attempt, and the events of its callback; the   *)
(* messages inside it are module WlanSta.  Flash writes succeed (module    *)
(* PsmStore).  Events that only inform the application, its answer to a    *)
(* critical event, the provisioning, micro-AP and P2P machines and the     *)
(* options fast path, WPS and channel switch are left out.                 *)
(***************************************************************************)
EXTENDS Naturals, Sequences

CONSTANTS
    Networks, \* contents a network entry may have
    None,
    MaxEvents,   \* capacity of app_ctrl_event_queue
    MaxRequests, \* room for requests in wlan.events
    MaxCalls     \* bound on the calls of the application

ASSUME AppAssumption ==
    /\ None \notin Networks
    /\ MaxEvents \in Nat \ {0} /\ MaxRequests \in Nat \ {0} /\ MaxCalls \in Nat

VARIABLES
    app,   \* the framework: `st', `next', its queue, the flash, the flags
    mgr,   \* the manager: requests, stage, entry of the framework's network
    stops, \* calls of app_sta_stop between wlan_disconnect and the flag
    calls

vars == <<app, mgr, stops, calls>>

AppStates == {"UNCONFIGURED", "CONFIGURED", "INIT", "CONNECTING", "CONNECTED",
              "DISCONNECTED", "NW_CHANGED", "RESET_TO_PROV"}
Stages == {"idle", "scanning", "associating", "associated", "obtaining", "connected"}

Event(what, net) == [what |-> what, net |-> net]
Events ==
    [what : {"CONNECTED", "CONNECT_FAILED", "LINK_LOST", "USER_DISCONNECT",
             "STA_REQUESTED", "RESET_PROV"}, net : {None}]
    \cup [what : {"ADVANCED_SETTINGS", "PROV_NW_SET"}, net : Networks]

\* app_ctrl_notify_event does not wait for room.
Notify(a, e) == IF Len(a.events) < MaxEvents THEN [a EXCEPT !.events = Append(@, e)]
                ELSE [a EXCEPT !.lost = TRUE]
Tell(a, what) == Notify(a, Event(what, None))
----------------------------------------------------------------------------
(* The manager's API as the framework uses it.  app_network_valid is       *)
(* mgr.entry # None.                                                       *)

\* wlan_add_network and wlan_remove_network refuse in these stages.
Busy(m) == m.stage \in {"scanning", "associating", "obtaining"}

Request(m, r) == IF Len(m.reqs) < MaxRequests THEN [m EXCEPT !.reqs = Append(@, r)] ELSE m

\* app_load_configured_network and app_load_this_network
Load(m, net) == IF m.entry # None \/ Busy(m) THEN m ELSE [m EXCEPT !.entry = net]

\* app_unload_configured_network: a connected network is disconnected too.
Refused(m) == m.entry # None /\ Busy(m)
Unload(m) ==
    CASE m.entry = None \/ Busy(m) -> m
      [] m.stage = "connected"     -> Request([m EXCEPT !.entry = None], "disconnect")
      [] OTHER                     -> [m EXCEPT !.entry = None]

\* app_connect_wlan finds the network and room for the request.
CanConnect(m) == m.entry # None /\ Len(m.reqs) < MaxRequests
----------------------------------------------------------------------------
(* app_ctrl_sm *)

Ready == app.st = app.next /\ ~app.reconnecting /\ app.retries = 0
On(states, what) ==
    /\ Ready /\ app.st \in states
    /\ app.events # <<>> /\ Head(app.events).what = what
Net == Head(app.events).net
Taken == [app EXCEPT !.events = Tail(@)]
Goto(a, s) == [a EXCEPT !.next = s]
ByApp == UNCHANGED <<stops, calls>>

\* Mutant: a network that is loaded already is taken for a connection.
EnterConnectingLoaded ==
    /\ app.next = "CONNECTING" /\ app.st # app.next
    /\ LET m == Load(mgr, app.saved)
           a == [app EXCEPT !.st = "CONNECTING", !.critical = m.entry = None]
       IN  IF m.entry = None \/ mgr.entry # None \/ ~CanConnect(m) THEN app' = a /\ mgr' = m
           ELSE app' = a /\ mgr' = Request(m, "connect")
    /\ ByApp

\* Entering CONNECTING loads the network and asks for it; the application is
\* told (AF_EVT_CRITICAL) of a network that cannot be loaded.
EnterConnecting ==
    /\ app.next = "CONNECTING" /\ app.st # app.next
    /\ LET m == Load(mgr, app.saved)
           a == [app EXCEPT !.st = "CONNECTING", !.critical = m.entry = None]
       IN  IF m.entry = None THEN app' = a /\ mgr' = mgr
           ELSE IF CanConnect(m) THEN app' = a /\ mgr' = Request(m, "connect")
           ELSE /\ app' = IF app.stop THEN Tell([a EXCEPT !.stop = FALSE], "USER_DISCONNECT")
                          ELSE [a EXCEPT !.reconnecting = TRUE]
                /\ mgr' = m
    /\ ByApp

\* app_ctrl_attempt_reconnect does nothing else until app_connect_wlan succeeds.
AttemptReconnect ==
    /\ app.reconnecting /\ CanConnect(mgr)
    /\ app' = [app EXCEPT !.reconnecting = FALSE]
    /\ mgr' = Request(mgr, "connect")
    /\ ByApp

Enter ==
    /\ app.st # app.next /\ app.next # "CONNECTING"
    /\ LET a == [app EXCEPT !.st = app.next]
       IN  CASE app.next = "INIT"          -> app' = Goto(a, "CONNECTING") /\ mgr' = mgr
             [] app.next = "RESET_TO_PROV" -> /\ app' = [a EXCEPT !.provisioned = FALSE]
                                              /\ mgr' = Request(mgr, "disconnect")
             [] app.next = "NW_CHANGED"    -> app' = a /\ mgr' = Request(mgr, "disconnect")
             [] app.next = "DISCONNECTED"  -> app' = [a EXCEPT !.stop = FALSE] /\ mgr' = mgr
             [] OTHER                      -> app' = a /\ mgr' = mgr
    /\ ByApp

OnConnected ==
    /\ On({"CONNECTING", "DISCONNECTED"}, "CONNECTED")
    /\ app' = Goto(Taken, "CONNECTED") /\ UNCHANGED mgr /\ ByApp

\* Mutant: no retry after new settings were loaded.
ConnectFailedNoRetry ==
    /\ On({"CONNECTING"}, "CONNECT_FAILED")
    /\ mgr' = IF app.unload THEN Load(Unload(mgr), app.saved) ELSE mgr
    /\ LET a == [Taken EXCEPT !.unload = FALSE]
       IN  IF app.stop
           THEN app' = Goto(Tell([a EXCEPT !.stop = FALSE], "USER_DISCONNECT"), "DISCONNECTED")
           ELSE app' \in {[a EXCEPT !.reconnecting = ~app.unload], Goto(a, "DISCONNECTED")}
    /\ ByApp

\* New settings are loaded when the attempt with the old ones has failed; the
\* application's answer decides whether there is another attempt.
ConnectFailed ==
    /\ On({"CONNECTING"}, "CONNECT_FAILED")
    /\ mgr' = IF app.unload THEN Load(Unload(mgr), app.saved) ELSE mgr
    /\ LET a == [Taken EXCEPT !.unload = FALSE]
       IN  IF app.stop
           THEN app' = Goto(Tell([a EXCEPT !.stop = FALSE], "USER_DISCONNECT"), "DISCONNECTED")
           ELSE app' \in {[a EXCEPT !.reconnecting = TRUE],
                          Goto(a, "DISCONNECTED")}
    /\ ByApp

\* Mutant: the application is told, and the state stays.
LinkGoneStays ==
    /\ \/ On({"CONNECTED"}, "CONNECT_FAILED")
       \/ On({"CONNECTING", "CONNECTED"}, "LINK_LOST")
    /\ app' = Taken /\ UNCHANGED mgr /\ ByApp

\* The link of a connected network is gone, or that of an attempt.
LinkGone ==
    /\ \/ On({"CONNECTED"}, "CONNECT_FAILED")
       \/ On({"CONNECTING", "CONNECTED"}, "LINK_LOST")
    /\ app' = Goto(Taken, "CONNECTING") /\ UNCHANGED mgr /\ ByApp

\* The network is unloaded before the state is left: at once, or within three
\* more tries of four seconds each.
UnloadThen(next) ==
    /\ mgr' = Unload(mgr)
    /\ app' = IF Refused(mgr) THEN [Taken EXCEPT !.retries = 3] ELSE Goto(Taken, next)
    /\ ByApp

Disconnected == On({"CONNECTING"}, "USER_DISCONNECT") /\ UnloadThen("DISCONNECTED")
ResetDone ==
    /\ On({"RESET_TO_PROV"}, "CONNECT_FAILED") \/ On({"RESET_TO_PROV"}, "USER_DISCONNECT")
    /\ UnloadThen("UNCONFIGURED")

RetryUnload ==
    /\ app.retries > 0
    /\ mgr' = Unload(mgr)
    /\ app' = IF Refused(mgr) /\ app.retries > 1 THEN [app EXCEPT !.retries = @ - 1]
              ELSE Goto([app EXCEPT !.retries = 0],
                        IF app.st = "CONNECTING" THEN "DISCONNECTED" ELSE "UNCONFIGURED")
    /\ ByApp

DisconnectedByUser ==
    /\ On({"CONNECTED"}, "USER_DISCONNECT")
    /\ app' = Goto(Taken, "DISCONNECTED") /\ UNCHANGED mgr /\ ByApp

ChangeNetwork ==
    /\ On({"NW_CHANGED"}, "USER_DISCONNECT")
    /\ app' = Goto(Taken, "CONNECTING") /\ mgr' = Unload(mgr) /\ ByApp

Configured(a, net) == [a EXCEPT !.saved = net, !.provisioned = TRUE]

NewSettings ==
    /\ \/ /\ On({"CONNECTING"}, "ADVANCED_SETTINGS")
          /\ app' = [Configured(Taken, Net) EXCEPT !.unload = TRUE] /\ UNCHANGED mgr
       \/ /\ On({"CONNECTED"}, "ADVANCED_SETTINGS")
          /\ app' = Goto(Configured(Taken, Net), "NW_CHANGED") /\ UNCHANGED mgr
       \/ /\ On({"DISCONNECTED"}, "ADVANCED_SETTINGS")
          /\ app' = Goto(Configured(Taken, Net), "INIT") /\ mgr' = Unload(mgr)
       \/ /\ On({"UNCONFIGURED"}, "PROV_NW_SET")
          /\ app' = Goto(Configured(Taken, Net), "INIT") /\ mgr' = Load(mgr, Net)
    /\ ByApp

\* app_set_state_unconfigured, and RESET_TO_PROV where there is a connection.
ResetProv ==
    /\ \/ /\ On({"CONNECTING", "CONNECTED"}, "RESET_PROV")
          /\ app' = Goto(Taken, "RESET_TO_PROV") /\ UNCHANGED mgr
       \/ /\ On({"DISCONNECTED", "CONFIGURED"}, "RESET_PROV")
          /\ app' = Goto([Taken EXCEPT !.provisioned = FALSE], "UNCONFIGURED")
          /\ mgr' = IF app.st = "DISCONNECTED" THEN Unload(mgr) ELSE mgr
    /\ ByApp

StaRequested ==
    /\ On({"UNCONFIGURED", "CONFIGURED", "DISCONNECTED"}, "STA_REQUESTED")
    /\ app' = IF app.st = "UNCONFIGURED" /\ mgr.entry = None THEN Taken ELSE Goto(Taken, "INIT")
    /\ UNCHANGED mgr /\ ByApp

Heeds == [s \in AppStates |->
    CASE s = "UNCONFIGURED" -> {"PROV_NW_SET", "STA_REQUESTED"}
      [] s = "CONFIGURED"   -> {"STA_REQUESTED", "RESET_PROV"}
      [] s = "INIT"         -> {}
      [] s = "CONNECTING"   -> {"CONNECTED", "CONNECT_FAILED", "LINK_LOST", "USER_DISCONNECT",
                                "ADVANCED_SETTINGS", "RESET_PROV"}
      [] s = "CONNECTED"    -> {"CONNECT_FAILED", "LINK_LOST", "USER_DISCONNECT",
                                "ADVANCED_SETTINGS", "RESET_PROV"}
      [] s = "DISCONNECTED" -> {"CONNECTED", "ADVANCED_SETTINGS", "RESET_PROV", "STA_REQUESTED"}
      [] s = "NW_CHANGED"   -> {"USER_DISCONNECT"}
      [] OTHER              -> {"CONNECT_FAILED", "USER_DISCONNECT"}]

IgnoreEvent ==
    /\ Ready /\ app.events # <<>> /\ Head(app.events).what \notin Heeds[app.st]
    /\ app' = Taken /\ UNCHANGED mgr /\ ByApp

AppStep ==
    \/ EnterConnecting \/ Enter \/ AttemptReconnect
    \/ OnConnected \/ ConnectFailed \/ LinkGone
    \/ Disconnected \/ ResetDone \/ RetryUnload \/ DisconnectedByUser \/ ChangeNetwork
    \/ NewSettings \/ ResetProv \/ StaRequested \/ IgnoreEvent
----------------------------------------------------------------------------
(* The manager: requests, and the events of wlan_event_cb. *)

Asked(r) == mgr.reqs # <<>> /\ Head(mgr.reqs) = r
Served == [mgr EXCEPT !.reqs = Tail(@)]
ByMgr == UNCHANGED <<stops, calls>>

\* wlcm_request_connect: an attempt under way ends with a failure event once it
\* has come as far as the association.
HandleConnect ==
    /\ Asked("connect")
    /\ mgr' = [Served EXCEPT !.stage = "scanning"]
    /\ app' = IF mgr.stage \in {"idle", "scanning"} THEN app ELSE Tell(app, "CONNECT_FAILED")
    /\ ByMgr

\* wlcm_request_disconnect says nothing when there is nothing to disconnect.
HandleDisconnect ==
    /\ Asked("disconnect")
    /\ mgr' = [Served EXCEPT !.stage = "idle"]
    /\ app' = IF mgr.stage = "idle" THEN app
              ELSE Tell([app EXCEPT !.stop = FALSE], "USER_DISCONNECT")
    /\ ByMgr

\* The stages of an attempt; the entry is read when it starts to associate.
Advance ==
    \/ /\ mgr.stage = "scanning"
       /\ mgr' = [mgr EXCEPT !.stage = "associating", !.cur = mgr.entry]
       /\ UNCHANGED app /\ ByMgr
    \/ /\ mgr.stage = "associating"
       /\ \E s \in {"scanning", "associated"} : mgr' = [mgr EXCEPT !.stage = s]
       /\ UNCHANGED app /\ ByMgr
    \/ /\ mgr.stage = "associated" /\ mgr' = [mgr EXCEPT !.stage = "obtaining"]
       /\ UNCHANGED app /\ ByMgr
    \/ /\ mgr.stage = "obtaining" /\ mgr' = [mgr EXCEPT !.stage = "connected"]
       /\ Len(app.events) < MaxEvents \* app_ctrl_notify_event_wait
       /\ app' = Tell(app, "CONNECTED") /\ ByMgr

\* do_connect_failed, and the loss of a link.
Fails ==
    /\ mgr.stage # "idle"
    /\ mgr' = [mgr EXCEPT !.stage = "idle"]
    /\ \E what \in {"CONNECT_FAILED", "LINK_LOST"} :
          /\ what = "LINK_LOST" => mgr.stage = "connected"
          /\ app' = Tell(app, what)
    /\ ByMgr

MgrStep == HandleConnect \/ HandleDisconnect \/ Advance \/ Fails
----------------------------------------------------------------------------
(* The application's calls *)

Call == calls < MaxCalls /\ calls' = calls + 1

app_sta_start == Call /\ app' = Tell(app, "STA_REQUESTED") /\ UNCHANGED <<mgr, stops>>

app_sta_start_by_network(net) ==
    /\ Call
    /\ mgr' = Load(Unload(mgr), net)
    /\ app' = IF mgr'.entry = None THEN app ELSE Tell(app, "STA_REQUESTED")
    /\ UNCHANGED stops

app_reset_configured_network ==
    Call /\ app' = Tell(app, "RESET_PROV") /\ UNCHANGED <<mgr, stops>>

app_configure_network(net) ==
    /\ Call
    /\ app' = Notify(app, Event(IF app.provisioned THEN "ADVANCED_SETTINGS" ELSE "PROV_NW_SET",
                                net))
    /\ UNCHANGED <<mgr, stops>>

\* app_sta_stop asks for the disconnection, then notes that it did.
app_sta_stop ==
    /\ Call
    /\ mgr' = Request(mgr, "disconnect")
    /\ stops' = stops + 1
    /\ UNCHANGED app

SetStopCmd ==
    /\ stops > 0 /\ stops' = stops - 1
    /\ app' = [app EXCEPT !.stop = TRUE]
    /\ UNCHANGED <<mgr, calls>>

Application ==
    \/ app_sta_start \/ app_reset_configured_network
    \/ \E n \in Networks : app_sta_start_by_network(n) \/ app_configure_network(n)
    \/ app_sta_stop

Next == AppStep \/ MgrStep \/ SetStopCmd \/ Application

\* After AF_EVT_WLAN_INIT_DONE: configured or not, and nothing loaded.
Init ==
    /\ \E net \in Networks \cup {None} :
          LET s == IF net = None THEN "UNCONFIGURED" ELSE "CONFIGURED"
          IN  app = [st |-> s, next |-> s, events |-> <<>>, saved |-> net,
                     provisioned |-> net # None, unload |-> FALSE, stop |-> FALSE,
                     reconnecting |-> FALSE, retries |-> 0, critical |-> FALSE, lost |-> FALSE]
    /\ mgr = [reqs |-> <<>>, stage |-> "idle", entry |-> None, cur |-> None]
    /\ stops = 0 /\ calls = 0

Spec == Init /\ [][Next]_vars
FairSpec ==
    /\ Spec
    /\ WF_vars(AppStep) /\ WF_vars(HandleConnect \/ HandleDisconnect)
    /\ WF_vars(Advance \/ Fails) /\ WF_vars(SetStopCmd)
----------------------------------------------------------------------------
AppType == [
    st : AppStates, next : AppStates, events : Seq(Events),
    saved : Networks \cup {None}, provisioned : BOOLEAN, unload : BOOLEAN, stop : BOOLEAN,
    reconnecting : BOOLEAN, retries : 0 .. 3, critical : BOOLEAN, lost : BOOLEAN]
MgrType == [
    reqs : Seq({"connect", "disconnect"}), stage : Stages,
    entry : Networks \cup {None}, cur : Networks \cup {None}]

TypeOK ==
    /\ app \in AppType /\ Len(app.events) <= MaxEvents
    /\ mgr \in MgrType /\ Len(mgr.reqs) <= MaxRequests
    /\ stops \in Nat /\ calls \in 0 .. MaxCalls

ConnectAsked == \E i \in DOMAIN mgr.reqs : mgr.reqs[i] = "connect"
Pending(what) == \E i \in DOMAIN app.events : app.events[i].what \in what

(* A framework that tells the application it is connected has a connected  *)
(* manager, or the event that corrects it is queued: however losses,       *)
(* failures, stops and new settings overtake each other.                   *)
ConnectedAttended ==
    app.st = "CONNECTED" /\ app.next = "CONNECTED" /\ ~app.lost =>
        \/ mgr.stage = "connected"
        \/ Pending({"CONNECT_FAILED", "LINK_LOST", "USER_DISCONNECT"})

(* While the framework is connecting an attempt is under way, or asked     *)
(* for, or about to be: it never waits for an answer nobody will give,     *)
(* unless it told the application that the network could not be loaded.    *)
AttemptPending ==
    app.st = "CONNECTING" /\ Ready /\ ~app.lost /\ ~app.critical =>
        \/ mgr.stage # "idle" \/ ConnectAsked
        \/ Pending({"CONNECT_FAILED", "LINK_LOST", "USER_DISCONNECT"})

(* app_framework.h "The AF automatically reinitiates connection attempts": *)
(* a connection that is lost is asked for again, or the application ended  *)
(* it.                                                                     *)
LossRetried ==
    []~(app.lost \/ app.critical) =>
        (app.st = "CONNECTED" /\ mgr.stage = "idle" ~>
            \/ mgr.stage # "idle" \/ ConnectAsked
            \/ app.st \notin {"CONNECTED", "CONNECTING"})

(* The same of a connection that is lost while its settings change.        *)
ChangeRetried ==
    []~(app.lost \/ app.critical) => (app.st = "NW_CHANGED" ~> app.st # "NW_CHANGED")
============================================================================
