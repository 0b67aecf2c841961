------------------------------- MODULE WlanPs -------------------------------
(***************************************************************************)
(* IEEE power save of the WLAN connection manager (wlan/wlcmgr/wlan.c):    *)
(* the state machine wlan_ieeeps_sm that the thread cm_main runs on the    *)
(* events of its queue, the reader-writer lock ps_rwlock that keeps        *)
(* senders out while the card sleeps (module RwLock, whose variables and   *)
(* actions this module extends), and the card.                             *)
(*                                                                         *)
(* The senders are low_level_output, the requesters the tasks that take    *)
(* ps_rwlock, queue a request, and leave it to cm_main to unlock:          *)
(* wlan_disconnect and wlan_healthmon_test_cmd_to_firmware.                *)
(*                                                                         *)
(* Abstractions.  A command blocks cm_main until its response is in the    *)
(* queue, so sending it and queueing the response are one step.  Of        *)
(* sta_state this module keeps whether it is CM_STA_CONNECTED (module      *)
(* WlanSta has the rest).  Deep sleep and the micro-AP are left out.  The  *)
(* card (external) asks to sleep only while it is awake, connected and in  *)
(* power save; it wakes by itself or when a sender pokes it, and says so.  *)
(***************************************************************************)
EXTENDS RwLock, Sequences

CONSTANTS
    cm,         \* the thread cm_main
    Senders,    \* tasks that transmit
    Requesters, \* tasks that call wlan_disconnect or run the heartbeat
    MaxEvents,  \* capacity of the queue wlan.events
    WakelockMax \* maximum of the counting semaphore wakelock

ASSUME PsTasks ==
    /\ Writers = {cm} /\ Readers = Senders \cup Requesters
    /\ Senders \cap Requesters = {}
ASSUME BoundsAssumption == MaxEvents \in Nat \ {0} /\ WakelockMax \in Nat \ {0}

VARIABLES
    ieeeps_state,
    todo,               \* event wlan_ieeeps_sm is called with, or "none"
    g_req_sl_confirm,   \* a sleep confirm has to be sent later
    events,             \* the queue
    configured,         \* cm_ieeeps_configured
    connected,          \* sta_state = CM_STA_CONNECTED
    wakelock,           \* the semaphore that keeps the processor from sleeping
    card,               \* the card: its power, in power save mode, poked
    asked               \* requesters whose request cm_main has to unlock

psVars == <<ieeeps_state, todo, g_req_sl_confirm, events, configured,
            connected, wakelock, card, asked>>
allVars == <<vars, psVars>>

PsStates == {"INIT", "CONFIGURING", "AWAKE", "PRE_SLEEP", "SLEEP",
             "PRE_DISABLE", "DISABLING"}
SmEvents == {"ENTER", "ENABLE", "ENABLE_DONE", "AWAKE", "SLEEP", "SLP_CFM",
             "DISABLE", "DISABLE_DONE"}
\* What cm_main does next: run the state machine on an event, confirm a sleep
\* it holds the lock for, wait for the lock, or take a message.
Todos == SmEvents \cup {"none", "confirm", "lock"}

\* Messages of the firmware and of other tasks; a request names its task.
Request(t, what) == [what |-> what, by |-> t]
Requests == [what : {"DISCONNECT", "HEALTHMON"}, by : Requesters]
Messages == [what : {"SLEEP", "AWAKE", "EN_DONE", "DIS_DONE", "SLP_CFM", "LINK_LOSS",
                     "DEAUTH", "PS_ENTER", "PS_EXIT"}, by : {cm}]
            \cup Requests
Msg(what) == [what |-> what, by |-> cm]

Queued(what) == \E i \in DOMAIN events : events[i].what = what

\* os_queue_send with OS_NO_WAIT: a message that finds the queue full is lost.
Plus(q, m) == IF Len(q) < MaxEvents THEN Append(q, m) ELSE q

\* wakelock_get puts a counting semaphore that may be full, wakelock_put gets
\* it without waiting.
WakelockGet == wakelock' = IF wakelock < WakelockMax THEN wakelock + 1 ELSE wakelock
WakelockPut == wakelock' = IF wakelock > 0 THEN wakelock - 1 ELSE wakelock

LockFree == reader_mutex = Nobody /\ rw_lock
Asleep == card.power = "asleep"
----------------------------------------------------------------------------
(* wlan_ieeeps_sm: one step per state.  A change of state runs the state   *)
(* machine again, with ENTER.                                              *)

Become(s) == ieeeps_state' = s /\ todo' = "ENTER"
Stay == ieeeps_state' = ieeeps_state /\ todo' = "none"

WriteUnlocked ==
    /\ rw_lock' = TRUE /\ Goto(cm, "out")
    /\ UNCHANGED <<reader_mutex, reader_count, wait>>

\* wifi_enter_ieee_power_save
InInit ==
    /\ ieeeps_state = "INIT" /\ todo \in SmEvents
    /\ IF todo = "ENABLE_DONE" THEN Become("CONFIGURING") ELSE Stay
    /\ IF todo = "ENABLE"
       THEN /\ events' = Plus(events, Msg("EN_DONE"))
            /\ card' = [card EXCEPT !.ps = TRUE]
       ELSE UNCHANGED <<events, card>>
    /\ UNCHANGED <<vars, g_req_sl_confirm, configured, connected, wakelock>>

\* Mutant: no wakelock for a card that asks to sleep first.
InConfiguringNoWakelock ==
    /\ ieeeps_state = "CONFIGURING" /\ todo \in SmEvents
    /\ IF todo = "SLEEP" THEN Become("PRE_SLEEP") ELSE Stay
    /\ UNCHANGED <<vars, g_req_sl_confirm, events, configured, connected, wakelock, card>>

InConfiguring ==
    /\ ieeeps_state = "CONFIGURING" /\ todo \in SmEvents
    /\ CASE todo = "AWAKE" ->
              /\ todo' = "lock" /\ UNCHANGED <<ieeeps_state, wakelock>>
              /\ Goto(cm, "enter") /\ wait' = [wait EXCEPT ![cm] = "forever"]
         [] todo = "SLEEP" ->
              Become("PRE_SLEEP") /\ WakelockGet /\ UNCHANGED <<pc, wait>>
         [] OTHER -> Stay /\ UNCHANGED <<wakelock, pc, wait>>
    /\ UNCHANGED <<reader_mutex, rw_lock, reader_count,
                   g_req_sl_confirm, events, configured, connected, card>>

\* CONFIGURING waits for the lock without a limit before it becomes AWAKE.
WaitsForLock ==
    /\ todo = "lock"
    /\ WriterGetsMutex(cm) \/ GetsRwLock(cm)
    /\ IF pc'[cm] = "in" THEN Become("AWAKE") ELSE UNCHANGED <<ieeeps_state, todo>>
    /\ UNCHANGED <<g_req_sl_confirm, events, configured, connected, wakelock, card>>

InAwake ==
    /\ ieeeps_state = "AWAKE" /\ todo \in SmEvents
    /\ CASE todo = "ENTER" ->
              Stay /\ WakelockGet /\ WriteUnlocked
         [] todo = "SLEEP" ->
              Become("PRE_SLEEP") /\ UNCHANGED <<wakelock, vars>>
         [] todo = "DISABLE" ->
              Become("DISABLING") /\ WakelockPut /\ UNCHANGED vars
         [] OTHER -> Stay /\ UNCHANGED <<wakelock, vars>>
    /\ UNCHANGED <<g_req_sl_confirm, events, configured, connected, card>>

\* wlan_host_sleep_and_sleep_confirm takes the lock, without waiting.
InPreSleep ==
    /\ ieeeps_state = "PRE_SLEEP" /\ todo \in SmEvents
    /\ CASE todo \in {"ENTER", "SLEEP"} ->
              IF LockFree
              THEN /\ rw_lock' = FALSE /\ Goto(cm, "in")
                   /\ todo' = "confirm"
                   /\ UNCHANGED <<reader_mutex, reader_count, wait, ieeeps_state, g_req_sl_confirm>>
              ELSE g_req_sl_confirm' = TRUE /\ Stay /\ UNCHANGED vars
         [] todo = "SLP_CFM" ->
              Become("SLEEP") /\ UNCHANGED <<vars, g_req_sl_confirm>>
         [] todo = "DISABLE" ->
              Become("DISABLING") /\ g_req_sl_confirm' = FALSE /\ UNCHANGED vars
         [] OTHER -> Stay /\ UNCHANGED <<vars, g_req_sl_confirm>>
    /\ UNCHANGED <<events, configured, connected, wakelock, card>>

\* Mutant: the lock is given back when the confirm is sent.
ConfirmSleepUnlocks ==
    /\ todo = "confirm" /\ todo' = "none"
    /\ WriteUnlocked
    /\ g_req_sl_confirm' = FALSE
    /\ events' = Plus(events, Msg("SLP_CFM"))
    /\ card' = [card EXCEPT !.power = "asleep"]
    /\ UNCHANGED <<ieeeps_state, configured, connected, wakelock>>

\* The rest of wlan_host_sleep_and_sleep_confirm: the host sleep command may
\* fail; after the confirm the card sleeps, unless it has got traffic.
ConfirmSleep ==
    /\ todo = "confirm" /\ todo' = "none"
    /\ \/ /\ g_req_sl_confirm' = TRUE
          /\ WriteUnlocked
          /\ UNCHANGED <<events, card>>
       \/ /\ connected
          /\ g_req_sl_confirm' = FALSE
          /\ events' = Plus(events, Msg("SLP_CFM"))
          /\ \E p \in {"awake", "asleep"} : card' = [card EXCEPT !.power = p, !.poked = FALSE]
          /\ UNCHANGED vars
    /\ UNCHANGED <<ieeeps_state, configured, connected, wakelock>>

\* Mutant: SLEEP is left for PRE_SLEEP only by an AWAKE.
InSleepStays ==
    /\ ieeeps_state = "SLEEP" /\ todo \in SmEvents
    /\ IF todo = "SLEEP" THEN Stay /\ WriteUnlocked
       ELSE /\ IF todo = "AWAKE" THEN Become("AWAKE") ELSE Stay
            /\ UNCHANGED vars
    /\ UNCHANGED <<g_req_sl_confirm, events, configured, connected, wakelock, card>>

InSleep ==
    /\ ieeeps_state = "SLEEP" /\ todo \in SmEvents
    /\ CASE todo = "ENTER" ->
              /\ Stay /\ g_req_sl_confirm' = FALSE
              /\ WakelockPut /\ UNCHANGED vars
         [] todo = "AWAKE" ->
              Become("AWAKE") /\ UNCHANGED <<g_req_sl_confirm, wakelock, vars>>
         [] todo = "SLEEP" ->
              /\ Become("PRE_SLEEP") /\ WakelockGet
              /\ WriteUnlocked /\ UNCHANGED g_req_sl_confirm
         [] todo = "DISABLE" ->
              /\ Become(IF connected THEN "PRE_DISABLE" ELSE "DISABLING")
              /\ WriteUnlocked /\ UNCHANGED <<g_req_sl_confirm, wakelock>>
         [] OTHER -> Stay /\ UNCHANGED <<g_req_sl_confirm, wakelock, vars>>
    /\ UNCHANGED <<events, configured, connected, card>>

\* wlan_wake_up_card
InPreDisable ==
    /\ ieeeps_state = "PRE_DISABLE" /\ todo \in SmEvents
    /\ IF todo = "AWAKE" THEN Become("DISABLING") ELSE Stay
    /\ card' = IF todo = "ENTER" THEN [card EXCEPT !.poked = TRUE] ELSE card
    /\ UNCHANGED <<vars, g_req_sl_confirm, events, configured, connected, wakelock>>

\* Mutant: does not wait for the command to be done.
InDisablingAtOnce ==
    /\ ieeeps_state = "DISABLING" /\ todo \in SmEvents
    /\ Become("INIT")
    /\ UNCHANGED <<vars, g_req_sl_confirm, events, configured, connected, wakelock, card>>

\* wifi_exit_ieee_power_save: a card that sleeps may not answer in time.
InDisabling ==
    /\ ieeeps_state = "DISABLING" /\ todo \in SmEvents
    /\ IF todo = "DISABLE_DONE" THEN Become("INIT") ELSE Stay
    /\ \/ /\ todo = "ENTER"
          /\ events' = Plus(events, Msg("DIS_DONE"))
          /\ card' = [power |-> "awake", ps |-> FALSE, poked |-> FALSE]
       \/ /\ todo = "ENTER" => Asleep
          /\ UNCHANGED <<events, card>>
    /\ UNCHANGED <<vars, g_req_sl_confirm, configured, connected, wakelock>>

StateMachine ==
    /\ \/ InInit \/ InConfiguring \/ WaitsForLock \/ InAwake \/ InPreSleep
       \/ ConfirmSleep \/ InSleep \/ InPreDisable \/ InDisabling
    /\ UNCHANGED asked
----------------------------------------------------------------------------
(* cm_main: takes a message, when the state machine is done and no unlock  *)
(* of the previous message is still on its way.                            *)

Idle == todo = "none" /\ \A t \in Requesters : pc[t] # "leave"

Takes(what) ==
    /\ Idle /\ events # <<>> /\ Head(events).what = what
    /\ events' = Tail(events)

\* WIFI_EVENT_SLEEP, WIFI_EVENT_AWAKE and the answers of WIFI_EVENT_IEEE_PS
RunsOn(what, smEvent) ==
    /\ Takes(what) /\ todo' = smEvent
    /\ configured' = (configured /\ what # "DIS_DONE")
    /\ UNCHANGED <<vars, ieeeps_state, g_req_sl_confirm, connected, wakelock, card, asked>>

\* CM_STA_USER_REQUEST_PS_ENTER and PS_EXIT (wlan_enable_power_save,
\* wlan_disable_power_save)
HandlePsRequest ==
    /\ \/ Takes("PS_ENTER") /\ todo' = "ENABLE" /\ configured' = TRUE
       \/ Takes("PS_EXIT") /\ todo' = "DISABLE" /\ UNCHANGED configured
    /\ UNCHANGED <<vars, ieeeps_state, g_req_sl_confirm, connected, wakelock, card, asked>>

\* wlcm_process_link_loss_event and wlcm_process_deauthentication_event: both
\* end power save, if it is configured.
HandleLoss ==
    /\ \/ /\ Takes("LINK_LOSS") /\ connected' = FALSE
          /\ todo' = IF connected /\ configured THEN "DISABLE" ELSE "none"
       \/ /\ Takes("DEAUTH") /\ UNCHANGED connected
          /\ todo' = IF configured THEN "DISABLE" ELSE "none"
    /\ UNCHANGED <<vars, ieeeps_state, g_req_sl_confirm, configured, wakelock, card, asked>>

\* wlcm_request_disconnect and wlcm_request_healthmon: the read lock that the
\* requester took is given back here.
HandleRequest ==
    /\ Idle /\ events # <<>>
    /\ LET m == Head(events)
           deauth == m.what = "DISCONNECT" /\ connected
       IN  /\ m.what \in {"DISCONNECT", "HEALTHMON"}
           /\ events' = IF deauth THEN Plus(Tail(events), Msg("DEAUTH")) ELSE Tail(events)
           /\ connected' = (connected /\ m.what # "DISCONNECT")
           /\ Goto(m.by, "leave") /\ asked' = asked \ {m.by}
    /\ WakelockPut
    /\ UNCHANGED <<reader_mutex, rw_lock, reader_count, wait>>
    /\ UNCHANGED <<ieeeps_state, todo, g_req_sl_confirm, configured, card>>

\* os_queue_recv times out: a sleep confirm that was put off is tried again.
RetryConfirm ==
    /\ Idle /\ events = <<>> /\ g_req_sl_confirm /\ connected
    /\ todo' = "SLEEP"
    /\ UNCHANGED <<vars, ieeeps_state, g_req_sl_confirm, events, configured,
                   connected, wakelock, card, asked>>

CmStep ==
    \/ StateMachine
    \/ RunsOn("SLEEP", "SLEEP") \/ RunsOn("AWAKE", "AWAKE")
    \/ RunsOn("EN_DONE", "ENABLE_DONE") \/ RunsOn("DIS_DONE", "DISABLE_DONE")
    \/ RunsOn("SLP_CFM", "SLP_CFM")
    \/ HandlePsRequest \/ HandleLoss \/ HandleRequest \/ RetryConfirm
----------------------------------------------------------------------------
(* The other tasks. *)

cmVars == <<ieeeps_state, todo, g_req_sl_confirm, configured, connected>>

\* The lock's steps for a reader; ps_wakeup_card_cb pokes the card if the
\* first try to get rw_lock fails.
ReaderActs(t) ==
    /\ ReaderStep(t)
    /\ card' = IF pc[t] = "enter" /\ pc'[t] = "first" /\ ~rw_lock
               THEN [card EXCEPT !.poked = TRUE] ELSE card
    /\ IF pc'[t] = "out" /\ t \in Senders THEN WakelockPut ELSE UNCHANGED wakelock
    /\ UNCHANGED <<cmVars, events, asked>>

\* low_level_output holds the wakelock from before it asks for ps_rwlock until
\* it has it no more; its wait is limited.
Transmit(s) ==
    /\ \/ ReadLock(s, "finite") /\ WakelockGet
       \/ ReadUnlock(s) /\ UNCHANGED wakelock
    /\ UNCHANGED <<cmVars, events, card, asked>>

\* wlan_disconnect, wlan_healthmon_test_cmd_to_firmware
LockForRequest(r) ==
    /\ ReadLock(r, "forever") /\ WakelockGet
    /\ UNCHANGED <<cmVars, events, card, asked>>

\* A heartbeat whose request is lost gives the wakelock back, and keeps ps_rwlock.
SendRequest(r, what) ==
    /\ pc[r] = "in" /\ r \notin asked
    /\ asked' = asked \cup {r}
    /\ events' = Plus(events, Request(r, what))
    /\ IF what = "HEALTHMON" /\ Len(events) >= MaxEvents THEN WakelockPut
       ELSE UNCHANGED wakelock
    /\ UNCHANGED <<vars, cmVars, card>>

\* pm_ieeeps_hs_cfg: wlan_ieeeps_on and wlan_ieeeps_off look at
\* cm_ieeeps_configured before cm_main has seen the previous request.
PsRequest ==
    /\ IF configured THEN events' = Plus(events, Msg("PS_EXIT"))
                     ELSE events' = Plus(events, Msg("PS_ENTER"))
    /\ UNCHANGED <<vars, cmVars, wakelock, card, asked>>

(* The card (external), and a new connection (module WlanSta). *)

AsksToSleep ==
    /\ ~Asleep /\ card.ps /\ connected /\ ~Queued("SLEEP")
    /\ events' = Plus(events, Msg("SLEEP"))
    /\ UNCHANGED <<vars, cmVars, wakelock, card, asked>>

\* A card in power save may also say that it is awake without having slept:
\* IEEEPS_CONFIGURING expects it.
SaysAwake ==
    /\ card.ps /\ ~Queued("AWAKE")
    /\ events' = Plus(events, Msg("AWAKE"))
    /\ card' = [card EXCEPT !.power = "awake", !.poked = FALSE]
    /\ UNCHANGED <<vars, cmVars, wakelock, asked>>

LosesLink ==
    /\ ~Asleep /\ connected /\ ~Queued("LINK_LOSS")
    /\ events' = Plus(events, Msg("LINK_LOSS"))
    /\ UNCHANGED <<vars, cmVars, wakelock, card, asked>>

Connects ==
    /\ ~connected /\ Idle /\ ~Asleep
    /\ connected' = TRUE
    /\ UNCHANGED <<vars, ieeeps_state, todo, g_req_sl_confirm, events, configured,
                   wakelock, card, asked>>

Environment ==
    \/ \E t \in Readers : ReaderActs(t)
    \/ \E s \in Senders : Transmit(s)
    \/ \E r \in Requesters : LockForRequest(r)
    \/ \E r \in Requesters, what \in {"DISCONNECT", "HEALTHMON"} : SendRequest(r, what)
    \/ PsRequest \/ AsksToSleep \/ SaysAwake \/ LosesLink \/ Connects
----------------------------------------------------------------------------
PsInit ==
    /\ Init
    /\ ieeeps_state = "INIT" /\ todo = "none" /\ g_req_sl_confirm = FALSE
    /\ events = <<>> /\ configured = FALSE /\ connected = TRUE /\ wakelock = 0
    /\ card = [power |-> "awake", ps |-> FALSE, poked |-> FALSE]
    /\ asked = {}

PsNext == CmStep \/ Environment

PsSpec == PsInit /\ [][PsNext]_allVars
----------------------------------------------------------------------------
(* Types.                                                                  *)
PsTypeOK ==
    /\ TypeOK
    /\ ieeeps_state \in PsStates /\ todo \in Todos
    /\ events \in Seq(Messages) /\ Len(events) <= MaxEvents
    /\ g_req_sl_confirm \in BOOLEAN /\ configured \in BOOLEAN /\ connected \in BOOLEAN
    /\ wakelock \in 0 .. WakelockMax
    /\ card \in [power : {"awake", "asleep"}, ps : BOOLEAN, poked : BOOLEAN]
    /\ asked \subseteq Requesters

Transmitting == {t \in Senders : pc[t] = "in"}

(* Nothing is transmitted to a card that sleeps: the lock that keeps the   *)
(* senders out is given back only after the card has said that it is       *)
(* awake.  While power save is being left the lock does not protect the    *)
(* card: InSleep gives it back on DISABLE, before the card is woken.       *)
TxWhileAwake ==
    Asleep /\ Transmitting # {} => ieeeps_state \in {"PRE_DISABLE", "DISABLING"}

(* The state machine gives rw_lock back, in SLEEP and after it, without    *)
(* looking who has it; it is always its own, whatever events were queued   *)
(* between the sleep confirm and its answer.                               *)
SleepHoldsLock == ieeeps_state = "SLEEP" => pc[cm] = "in"

(* The processor does not go to sleep while the card is awake for it, even *)
(* when leaked wakelocks have filled the counting semaphore and gets are   *)
(* lost.                                                                   *)
WakelockCoversAwake ==
    ieeeps_state \in {"AWAKE", "PRE_SLEEP"} /\ todo # "ENTER" => wakelock >= 1

(* A sleep confirm is never left behind: the card does not sleep once      *)
(* power save is off, or not yet on, whatever stage an exit found it in.   *)
NoSleepOutsidePs == ieeeps_state \in {"INIT", "CONFIGURING"} => ~Asleep

(* pwrmgr.h:174 "The number of wakelock_get() and wakelock_put() requests  *)
(* must exactly match": when power save is off and nobody transmits, what  *)
(* it took is given back, the wakelock and ps_rwlock.                      *)
ExitReleases ==
    ieeeps_state = "INIT" /\ todo = "none" /\ (\A t \in Readers : pc[t] = "out")
        => wakelock = 0 /\ pc[cm] # "in"
============================================================================
