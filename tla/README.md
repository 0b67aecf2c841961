# A TLA+ model of the WMSDK (Marvell wireless microcontroller SDK 2.13.82)

This directory holds TLA+ modules, TLC configurations and machine-checked proofs
about the SDK under `src/wmsdk_bundle-2.13.82`. Each definition that models code
is listed with its file and lines in `PROJECT.json` ("map"). Paths below are
relative to `wmsdk-2.13.82/src`, or to `boot2-1.0.23` for the boot loader.

- `tlasany M.tla` parses a module;
- `tlc -config X.cfg M` checks it (the runs are in `PROJECT.json`, "runs"; section 6 lists further configurations);
- `tlapm M.tla` checks the proofs of `PsmProofs`, `FwUpdateProofs`, `EventFlagsProofs`, `WlanPsProofs`
  (the lock and power save), `WlanStaProofs`, `RxReorderProofs`, `AppCtrlProofs` and `DhcpServerProofs`.

## 1. The system

| Component | State | Operations | Talks to | What is hard | What makes it correct |
|---|---|---|---|---|---|
| **psm** (`middleware/psm`) | flash pages; one cached page; a ring of module-to-page mappings; `psm_mutex`; a handle per client | init, open, set, commit, close, register, erase, format | flash driver; every part with settings | power failure between erase and program; caches that outlive what they cache; error paths that keep the mutex; failed writes nobody looks at | caches agree with flash; a crash costs one page; every call gives the mutex back |
| **partition tables, rfget, boot2** (`core/partition`, `middleware/rfget`, `boot2.c`) | two partition tables, two firmware and two filesystem slots, boot flags, layout in RAM | boot, download to the passive slot, activate (write the other table) | flash, HTTP stream, boot flags | power failure at any write; boot of the backup; two updates in one boot; the higher generation names a bad image | the device always boots; an update never touches what is running; a reported update takes effect |
| **OS layer** (`platform/os/freertos/os.c`) | reader-writer lock: mutex, binary semaphore, count. Event flags: flags, linked list of waiters | lock/unlock with time-outs; get, set, delete | FreeRTOS; users in wlan, applications | time-outs between the two semaphores; nodes freed while others walk the list; delete while tasks wait | exclusion and exact counting; no lost wake-up; the group outlives its waiters |
| **WLAN connection manager, power save** (`wlan/wlcmgr/wlan.c`) | station state, queue of messages, scan lock, DHCP wakelock; power-save state, `ps_rwlock` | connect, disconnect, scan, power save in and out | driver events, user requests, netif, wakelock | events that arrive after the state has moved on; a sleep confirm under way when power save is left | commands never meet a sleeping card; the application is told the truth; every attempt and every scan ends |
| **802.11n receive reordering** (`wlan/wifidriver/mlan_11n_rxreorder.c`) | window start, window of packets, timer | packet, block-ack request, ADDBA, DELBA, time-out | SDIO receive, lwIP | sequence numbers modulo 4096; four threads without a lock: reception cuts into deletions, the timer into both | each packet in its slot, nothing lost or handed up twice, nothing held without a timer |
| **application framework** (`app_framework`) | controller state, network loaded and stored, unload and stop flags | calls and events from one queue | connection manager, psm, application | events of the attempt before; calls that race with them; queues that fill up | what it says is so, or is about to be corrected; a lost connection is asked for again |
| **DHCP server** (`middleware/dhcpd`) | address cache, last address, thread and its control socket | DISCOVER, REQUEST, DECLINE, start, stop | lwIP, micro-AP | a full cache, addresses of an earlier run, late datagrams | what was granted stays granted; everybody ends with an address |
| **power manager, wakelock** (`core/pwrmgr`) | counting semaphore, callbacks | get, put, register | idle hook, WLAN power save | a counter at its maximum | no sleep while the lock is held (in `WlanPs`) |
| **health monitor** (`core/healthmon`) | table of handlers, `h_sem` | register, unregister, monitor loop | watchdog | the semaphore on error paths | the watchdog is strobed only while all is well |
| **mdev** (`core/mdev`) | linked list of devices | register, deregister, lookup | drivers | the head read outside the critical section | no device lost |
| **provisioning** (`middleware/provisioning`) | state of the provisioning threads | start, stop, session | micro-AP, httpd | stop while a session runs | ends with one network configured |
| httpd, httpc, mdns, websockets, telnetd | sockets and parsers | | | byte streams | |
| tls, crypto, json, ezxml, xz, wps, `external/`, drivers, libc, samples | | | | library or hardware code | |

How they call each other: the application calls `app_ctrl`, whose thread takes
those calls and the connection manager's callback events from one queue and
calls the manager back (`AppCtrl`). The manager's thread takes requests and
firmware events from one queue (`WlanSta`), runs the power-save machine on them
and keeps senders out with `ps_rwlock` while the card sleeps (`WlanPs`, which
extends `RwLock`). Packets of the card pass the reorder table before they
reach lwIP (`RxReorder`). Settings go to psm (`Psm`), upgrades to the passive slots
(`FwUpdate`).

The hazards of this code, each with its line and the properties that would
notice it, are in `PROJECT.json` ("hazards").

## 2. Modules

| Module | Models | Kind |
|---|---|---|
| `Psm` | psm.c, psm_partition.c, psm_lock.c, util.c | detailed component |
| `PsmStore` | what psm promises | abstract specification |
| `MCPsm` | | instance for TLC |
| `PsmProofs` | | 7 theorems |
| `FwUpdate` | partition.c, rfget.c, write_firmware.c, write_fs.c, verify_firmware.c, boot2.c | three components composed: tables, updater, boot loader |
| `FwUpdateProofs` | | 5 theorems |
| `RwLock` | `os_rwlock_*` | component |
| `EventFlags` | `os_event_flags_*` | component |
| `MCEventFlags` | | instance for TLC |
| `EventFlagsProofs` | | 6 theorems |
| `WlanPs` | power save of wlan.c, `ps_rwlock`, wakelock | composition: extends `RwLock` |
| `WlanPsProofs` | | 4 theorems on `RwLock`, 5 on `WlanPs` |
| `WlanSta` | station side of wlan.c, `wlan_scan` | component |
| `WlanStaProofs` | | 3 theorems |
| `RxReorder` | mlan_11n_rxreorder.c | component |
| `RxReorderProofs` | | 5 theorems |
| `AppCtrl` | app_ctrl.c, app_network_mgr.c, app_network_config.c | component over the manager's API |
| `AppCtrlProofs` | | 3 theorems |
| `DhcpServer` | dhcp-server.c, dhcp-server-main.c | component and its clients |
| `DhcpServerProofs` | | 3 theorems |

### Psm

`flash[0]` is the metadata page, the other pages hold variables. A page is an
environment, a function from names to values, or unreadable (bad CRC). An entry
has a length that depends on its name (`EntrySize`), so that a full environment
is reached with two entries. `cacheNum` and `cacheBuf` are
`gpsm_partition_cache`, `mapCache` and `mapIndex` the ring of psm_partition.c,
`handle` is `psm_handle_t`.

What a task does is cut where something else may happen: at the flash
operations. `Open`, `Register`, `ErasePartition`, `EraseAndInit` and `Commit`
take the mutex if they have to and start a sequence of steps that `pc` follows
(`LookupHit`/`LookupMiss`, `Load`, `ErasePage`, `ProgramPage`, `WipePage`,
`FormatNext`, `Release`); `ret` says where a page write returns to. `Crash`
leaves nothing but the flash. `BootFinds` and `BootFormats` are `psm_init`.
`unsaved` is a history variable: the cached page holds changes which the code no
longer intends to write (a write failed, or a failing `psm_set` cleared the
dirty flag). It restricts `CacheMatchesFlash` to the other states; the case it
leaves out is what `MCPsm_close.cfg` shows.

`psm_erase_and_init` is modelled as the command `psm-erase` calls it (under the
mutex) and as psm_init does. Its other callers (app_psm.c:245, app_ctrl.c:400
and 961, diagnostics.c:95) do not take the mutex and reset the device right
afterwards; they are not modelled. Nor are a metadata page of another version,
and reading flash that fails.

### PsmStore

A session takes a page as the disk has it, edits a draft, commits it. A power
failure takes the draft back, or costs the page being committed. A format ends
with every page fresh, and the metadata page is the first to be lost and the
last to come back, so that a format cut short is seen at the next boot. `Psm`
implements it under the refinement mapping at its end: a page counts as
committed once it has been erased and is about to be programmed.

### FwUpdate

A layout with two firmware and two filesystem slots. `Boot` is boot2 followed by
`part_init` and `rfget_ftfs_init`: it selects the table with the higher
generation among the readable ones, the slot with the higher generation in it,
and falls back to the other slot if that one does not load; the boot button
forces the other firmware. `StartUpdate` erases the passive slot, `WriteData`
writes the download (that may be partial), `Complete` is
`part_set_active_partition`, which changes the layout in RAM, and `EraseTable`,
`WriteHeader`, `WriteEntry`, `FinishTable` are `part_write_layout`, cut at its
flash writes. `PowerCycle` may come between any two of them, and
`TableWriteFails` is a flash operation whose result nobody looks at.
`Xip` distinguishes images that run from flash, of which boot2 only reads the header.

### RwLock

`reader_mutex`, `rw_lock` and `reader_count` as in the code, one action for each
semaphore operation, and a wait that is for ever or may time out at any moment.
The real lock is released by whoever reads, so a "task" is the role of one
acquisition and its release. A callback given to `os_rwlock_create_with_cb` waits
for `rw_lock` as the lock itself does, which is what `ps_wakeup_card_cb` of
wlan.c comes down to.

### EventFlags

The list of waiters is modelled as it lies in memory: blocks with `next` and
`prev`, given out again after they are freed. What is done under the group's
mutex is one step; the wait on the semaphore, the look at `delete_group` and the
time-out are steps of their own. Walking from a freed head is undefined
behaviour: the model stops there (`system = "undefined"`), and a walk that never
ends leaves the mutex taken for good (`"spins"`). All properties but the two of
`MCEventFlags_list` and `MCEventFlags_clear` are about behaviours whose list has never begun with a freed
node (`damaged = FALSE`): the defect `MCEventFlags_list.cfg` finds is shown once and does not
hide what else could be wrong.

Assumed of the clients: nobody calls get or set while delete runs, nor creates a
new group while tasks are still in the old one. Options other than those of the
type, and a semaphore that cannot be created, are not modelled.

### WlanPs

`ieeeps_state`, `g_req_sl_confirm`, `events`, `configured` and `wakelock` are the
manager's variables; `todo` is the event `wlan_ieeeps_sm` has still to run on,
since one event can take it through several states. The lock is not abstracted:
the module extends `RwLock`, the manager is its one writer, and senders
(`low_level_output`) and requesters (`wlan_disconnect`,
`wlan_healthmon_test_cmd_to_firmware`) are its readers, whose semaphore steps
interleave with the state machine. A requester's read lock is given back by the
manager when it handles the request, as in the code. `card` is external: it asks
to sleep, sleeps after a confirm, wakes when poked or by itself. `WakelockGet`
stops at `WakelockMax` without telling anybody, as a counting semaphore does.

### WlanSta

`wlan` is the static struct of wlan.c, and the ghosts `told` (the last connection
event the application was given) and `trouble` (a message, a command or memory was
lost). One action per message of the queue; `wlan_connect`, `wlan_disconnect`
and `wlan_scan` are the API, the last with its lock in steps of its own
(`pc`). A message may be stale when it is taken: that is what the module is about.
Some things that the code does and the module follows: `wlan_handle_dhcp` puts the
wakelock whatever the state; a connect in OBTAINING takes another; a failure of
the DHCP client that arrives after a disconnect starts a new attempt
(wlan.c:2119-2130); the callback of a user's scan is never called when a
connect, a disconnect or a loss ends it.
The end of a scan is two steps, and so is the beginning of one: the manager puts the
semaphore `scan_lock` (`UserScanDone`, `IgnoreScanResult`) and then clears `is_scan_lock`
(`ClearScanFlag`, while `clears` says that the handler has not returned); a task in
`wlan_scan` takes the semaphore (`TakeScanLock`) and then raises the flag
(`RaiseScanFlag`). They interleave freely. `FlagOverrun` is the state in which the
flag about to be cleared is already that of the next scan.

### RxReorder

One table (`open`, `start_win`, `slot`), its timer, `rx_seq`, the last number
received of the TID, and the four threads that work in it:

| Thread | Priority | Runs |
|---|---|---|
| timer task | 4 (FreeRTOSConfig.h:55) | `wlan_flush_data` |
| `stack_dispatcher` (`rx`) | 3 (netif.c:139, 405) | `mlan_11n_rxreorder_pkt` |
| `wifi_driver` (`driver`) | 1 (wifi.c:509) | DELBA, ADDBA answers, cleanup |
| `wlcmgr` (`manager`) | 1 (wlan.c:3125) | acceptance of an ADDBA (mlan_glue.c:369) |

The spin locks around the table are empty functions (mlan_glue.c:247-285), so
only the priorities order them, and the scheduler preempts and shares out equal ones.
Hence `Runs`: between two steps of `rx` only the timer comes; between
two steps of `driver` or `manager` everybody does. `FlushData` is one step, because
nothing preempts the timer task; everything else goes by single reads and writes of the table.
The two loops, `wlan_11n_dispatch_pkt_until_start_win` and
`wlan_11n_scan_and_dispatch`, are one machine that the threads share, slot by slot: `CountSlots`;
`SkipSlot`, or `TakeSlot` and `ClearSlot`; `LoadSlot`, `PutSlot` and `DropSlot` of the shift;
`SetWindow`, or `SumWindow` and `AdvanceWindow`. `loop` has each thread's locals.
Around it are the other steps of a reception (`Receive`, `Store` and the like, `Finish`), of a deletion
(`DeleteEntry`, `StopTimer`, `FreeTimer`, `FreeTable`, within `CleanUp` once or more), and of an ADDBA
(`Ask`, `CreateTable`).

Three ghosts say what happened, so that the properties can say what holds otherwise:
`stale`, the timer took the packet that a reception had in hand or moved the window the reception
stores by; `cut`, the table was written between two steps of a loop or deletion of the driver
or the manager; `broken`, a freed timer or table was used (undefined: the model ends), or cleanup
forgot a table that was just created. Section 6 has a counterexample of each kind.

`Half` is half the range of sequence numbers and `Win` the window, scaled down; the
code's comparisons are translated with them as parameters. A window of one packet
makes the code index past its array, which is why `WindowAssumption` asks for two.
Allocation never fails. The test of a value and its use, as in `rx_reorder_ptr[i]` at 187-189, are one read.

### AppCtrl

`app` is the controller (`st` and `next` are `ctrl_obj`'s current and next state,
with the entry and exit handlers run between them as in `app_ctrl`'s loop), its
queue and its flags; `mgr` the manager as its API shows it: requests in order,
the stage of one attempt and what it reports; `stops` the calls of `app_sta_stop`
that have asked for the disconnection but not yet set the flag
`sta_stop_cmd`. `lost` records a full queue, `critical` that the application
was told of a network that cannot be loaded. Behaviours the model shows and no
property forbids: the framework's own disconnection answers the next attempt;
a stop flag set after its disconnection stays set and ends a later attempt;
reconnecting goes on for ever when no entry is loaded; settings are not loaded
when the unload was refused.

### DhcpServer

`server` is the thread (down, starting, serving, in a search that does not end,
ended), `running`, the cache and `current_ip`; `life` numbers the runs, so that
what an earlier run granted can be told from what this one did. `Process` is
`process_dhcp_message` with `next_yiaddr` and `ac_not_full`, `Serves`, `Ends` and
`Stop` the thread and its control socket. The clients and `net` (a set of
datagrams: delayed, overtaken, lost by being replaced) are external. Also
translated: any DISCOVER or DECLINE that carries an address makes the server
remember it; `dhcp_server_stop` does nothing before the control socket is open
or after the thread has ended, and `running` then stays set.

## 3. Runs

| Run | Instance | Shows |
|---|---|---|
| `psm_core` | 2 tasks, 2 modules, 2 keys, 2 pages, 1 power failure, 1 flash error, 1 format, ring of 1 slot | coherence of both caches with flash and metadata, distinct pages, at most one page lost per failure |
| `psm_store` | the same without flash errors, room for every variable | refinement of `PsmStore`; the mutex comes back |
| `fw_update` | 3 updates of either component, 1 flash error, power cycles anywhere | bootable unless the table is torn; updates take effect; what runs and what was booted stay |
| `rwlock` | 2 readers, 2 writers with finite waits | exclusion, counting, and both kinds served |
| `ef_group` | 3 tasks, 2 flags, any-of with clear | list, wake-ups, deletion |
| `ef_live` | 2 tasks, 2 flags, all-of with clear | waiters are served, deletion empties the group |
| `wlan_ps` | 1 sender, 1 requester, queue of 4, wakelock of 3 | nothing is sent to a sleeping card, the lock the machine gives back is its own, the wakelock covers an awake card, no sleep outside power save |
| `wlan_ps_exit` (violation) | the same, queue of 3 | power save left in PRE_SLEEP keeps the wakelock and the lock |
| `wlan_sta` | 2 networks (one static), 2 tasks that scan, 3 calls, queue of 5, 2 rescans | the application is told the truth; the processor stays awake for DHCP; attempts and scans end |
| `rx_reorder` | four threads, numbers modulo 8, window 2, packets 6 to 8, one handler of driver or manager at a time | slots, timer, nothing lost or handed up twice, everything held goes up |
| `app_ctrl` | 2 networks, 4 calls, queues of 4 and 3 | "connected" is true or about to be corrected; no waiting for an answer that will not come; losses are retried |
| `dhcp` | 2 clients, room for 1, 8 addresses, the server started twice, 1 client leaves | grants stand; remembered clients share with nobody; all are served |

Why the bounds are enough to see the interesting cases:

- *psm*: two modules share a page or have one each, two keys exhaust the pages,
  the metadata has no room for all five names (`util_set_var` fails for some of
  them; keys are longer than `last_used`, as `common_part` is), a
  ring of one slot wraps at every lookup, and one power failure falls on every
  step of every operation. Flash errors on two
  different writes of one history are not checked by TLC; the theorems cover
  any number of them. `LostPagesBound` leaves out a format of a running system that
  a flash error ends: that one costs the pages it had erased and not written.
- *fw_update*: three updates are one more than there are tables and slots, so a
  slot and a table are written again in the boot that wrote them; generations
  reach the bound 3 updates allow and are only compared.
- *rwlock*: the count distinguishes none, one and more than one reader.
- *event flags*: three nodes are a list with a first, a middle and a last one.
  `MaxAttempt` is the 3 of the code.
- *wlan_ps*: a queue of four holds a confirm's answer with a wake, a loss and a
  request in any order, and fills up; a wakelock of three (10 in the code) is
  filled by the leaks of lost requests, so that gets without effect happen.
- *wlan_sta*: `RescanLimit` is 2 (`WLAN_RESCAN_LIMIT` is 5, or 10 with another option): first scan, last scan and the one
  that is refused. Three calls are a connect, a scan or disconnect that cuts
  in, and a reconnect; a queue of five never fills before there are as many things to say.
  Two tasks that scan reach `FlagOverrun`. What comes of it needs a third scan
  and a loss: `MCWlanSta_scans.cfg` (one network, four calls) shows that
  `ScanLockComesBack` holds there too, and `MCWlanSta_flag.cfg` what happens without its premise.
- *rx_reorder*: the packets are 6, 7 and 0, so every window wraps; a window of two has a
  slot that is taken and one that is moved down, and the three packets are behind,
  in and beyond it. `MaxCalls` is the number of handlers of the driver and the manager
  at work at once: 1 in the run. Two further configurations check its safety
  properties beyond that: `MCRxReorder_both.cfg` with both at once, and
  `MCRxReorder_win3.cfg` with a window of three, where a shift moves two
  slots and a slot is neither first nor last. The theorems cover the real sizes
  (4096, windows up to 64) and both bounds.
- *app_ctrl*: both queues fill up within the calls allowed.
- *dhcp*: with room for one, the second client is the one that is not remembered
  (8 in the code, of as many clients as the micro-AP has); `Wanted` has an address
  of the subnet and a foreign one. One datagram is in the network at a time (a second
  replaces it, or is lost): with two, safety holds as far as 7.5 million states
  were explored, and liveness is out of reach.

The type invariants are proved for every module (section 5); those of `EventFlags`,
`WlanPs` and `WlanSta` can also be checked with `MCEventFlags_types.cfg` (module
`MCEventFlags`), `MCWlanPs_types.cfg` and `MCWlanSta_types.cfg`.

Deadlock is checked where the system never stops: `psm`, `fw_update`, and
the `rwlock` run. The event-flag runs allow it: the system stops where the code's
behaviour is undefined. The others allow it because their bounds on calls,
packets and restarts let the environment fall silent with the queue empty; that
nothing is left undone then is what their liveness properties say.

## 4. Fairness

- `Psm!FairSpec`: a task inside psm goes on (FreeRTOS runs every ready task; psm
  waits for nothing but its mutex), and a client closes what it opened. The mutex
  is not assumed to be served fairly; no property depends on it.
- `RwLock!FairSpec`: whoever is in comes out, and a task that waits is
  eventually given the semaphore if that is free again and again (FreeRTOS
  wakes the longest waiting of the tasks of highest priority, and the users have
  one priority). A finite wait ends, with the semaphore or with a time-out:
  `ReaderTimesOut` and `WriterTimesOut` belong to the steps that are fair. Waiting
  for ever is possible only without a limit. Calling the lock is never forced.
- `EventFlags!FairSpec`: tasks run and get the mutex; a time-out is never owed;
  setting flags, calling get and deleting are never forced. While flags are taken by
  somebody else again and again, `WaiterServed` is not violated: the flags then do
  not stay set.
- `WlanSta!FairSpec`: the manager's thread takes its messages. An association
  that is waiting for its port either opens it or is lost (the supplicant has time-outs). The DHCP client
  reports, and succeeds if it is tried again and again: without that a device
  whose DHCP server is gone tries for ever, and `ConnectResolves` would be
  about the server. A task waiting for the scan lock gets it when it is
  free, raises its flag and sends its scan. Losses and calls are never forced.
- `RxReorder!FairSpec`: the receiving thread goes on with the packet it has, and the
  timer expires. Nothing is asked of the driver and the manager, whom reception may starve,
  and no packet ever has to arrive.
- `AppCtrl!FairSpec`: the framework's and the manager's threads run, one attempt
  advances or fails, and a task inside `app_sta_stop` returns. No call and no loss is forced.
- `DhcpServer!FairSpec`: a client goes on asking, and of what is sent again and
  again some arrives (strong fairness of the server's and the client's
  reception, the usual assumption on a lossy network, and what DHCP's
  retransmissions rely on). That the server stays up is the premise of the
  property, not an assumption.
- `WlanPs` has safety properties only.

## 5. Proofs

All theorems hold for every value of the constants under the assumptions
declared with them (names distinct, sizes natural numbers, finite sets). A
theorem with a further hypothesis states it (`ASSUME`); there are three of
them, `PartitionsDistinct`, `StoreImplemented` and `WakelockKept`, and the text below
says what each asks and what happens without. Every safety invariant and every
action property that a run checks is stated by a theorem.

`PsmProofs`
- `TypeCorrect`: `Spec => []TypeOK`; `TypeOK` is inductive as it stands.
- `MutualExclusion`: from `LockInv` (whoever is inside psm holds the mutex, and
  psm_init is alone until it ends). Steps are grouped as those inside, which
  need the mutex, and calls, which take it.
- `CacheCoherent`: `CacheMatchesFlash` is not inductive: it must be known that a
  dirty handle belongs to the one task inside (`DirtyInv`) and what holds of
  cache and flash during a write and a format (`CacheInv`).
- The next four rest on `BaseInv`: the above, and `SessionInv`, what an actor inside
  works on at each of its steps (which page is cached, for whom, and where the write in
  hand returns to).
- `PartitionsDistinct`: `MetaInv` says of the metadata page, on flash and in the cache,
  that no two keys have one page and none lies above `last_used`. It is shown of
  `psm_register_module` where any of its three `util_set_var` may fail for
  want of room. Hypothesis `LongKeys`: the entry of a key is not
  shorter than that of `last_used`. Without it the property is false, and no
  failure is needed: `MCPsm_short.cfg`.
- `MapCacheCoherent`: `MapInv` ties every slot of the ring to what the
  metadata answers, except while a format wipes, and says that the ring is empty while
  a format writes the pages again. Both parts are about histories without a
  flash error (`errs = 0`), as the property is: when the metadata cannot be
  written the ring answers for a page that is not on the flash.
- `LossContained`: `LossInv` counts the unreadable pages, without the one in
  hand, and through a format those it has still to fill. The case it leaves out
  is the one `LostPagesBound` does.
- `StoreImplemented`: `Psm` implements `PsmStore`. Hypotheses: no flash operation fails
  (`MaxErrs = 0`; `PsmStore` knows power failures only, and with flash errors
  `psm_commit` reports a success that is none), and `Roomy`: a page has room for
  all the variables of the modules, so that `psm_set` does not fail (what happens
  otherwise is `MCPsm_close.cfg`). `VarsInv` (pages of modules hold variables
  only) and `FormatInv` (how far a format has come is what the flash shows) are
  what the mapping needs; then each of psm's steps is one of the store's or
  stutters, one lemma per step.

`FwUpdateProofs`
- `TypeCorrect`, with the bounds on updates and errors playing no part.
- `BootedTableUntouched`: an action property; every write of a running system
  goes to `PassiveTable`, the one not booted from.
- `RunningImageSafe`: from `JobInv` (the slot being updated is not the running
  one) and from boot2 starting good images only.
- `AlwaysBootable`: for images loaded to RAM, from `GenInv` (no header or
  entry is ever written with generation 0, so a readable table wins over an
  unreadable one and a present entry can be selected) and `SafeInv` (some table is
  readable, the one booted from is, and some firmware slot holds a good image).
  `BootableUnlessTorn` says nothing of tables that lack entries, which is why it
  needs no invariant about the order of the writes; that case is `MCFwUpdate_torn.cfg`.
- `ReportedUpdateBoots`: `UpdateTakesEffect` is about a boot that lies in the future. It
  follows from `LayoutInv` (the layout in RAM is never older than the booted table, and
  newer while a table is written) and `EffectInv` (the passive table is that layout
  as far as it has been written, and the layout prefers the slot that was
  activated, also when another component is updated afterwards).

`EventFlagsProofs`
- `EventInv` is `TypeOK`, `OwnInv` (nodes in use and the tasks' nodes are the same,
  one to one), `CallInv` (a node has the flags its task asked for), `ChainInv`, `NoLostWakeup`,
  `DeleteInv` and `WalksEnd`.
- `ChainInv`: until the list is damaged there is an order of the nodes along which
  every `next` and `prev` points, from `list` to null. Insertion appends to it and
  removal takes a position out (`os_event_flags_remove_node`'s cases). What a walk meets is
  a recursive function (`Walk`). That it satisfies its own definition
  (`WalkFollows`) and meets the chain in its order (`ChainSound`) is proved by
  induction over the position; the library's induction rules take an operator, so
  `SetInduction` states induction with sets, from `LeastElement` and the
  well-foundedness of finite subsets.
- `ListStaysSound`, `WakeupsKept`, `DeletionTold`, `GroupFreedLast` follow. `WalksAreSafe` is
  a result of its own: as long as the list is not damaged no walk reads a freed
  node or goes round. What damages it is what `MCEventFlags_list.cfg` finds
  (section 6): once the head has been removed before the others, only `TypeCorrect` still speaks.

`WlanPsProofs`, part I (`RwLock`)
- `LockInv`, the conjunction of the types, `CountExact`, `LockAccounted` and
  `Exclusion`, is inductive; each of them alone is not, as a count that is off by
  one lets a reader in. `TypeCorrect`, `Excludes`, `CountsExactly` and
  `LockNeverLost` follow. The number of readers is any finite one. It has two
  parts, `LockSafe` and `LockHeld` (the lock is free when nobody is in).

`WlanPsProofs`, part II (`WlanPs`)
- The lock's lemmas are used again on the composition, with `LockSafe` only: the
  state machine may forget the write lock it holds (the finding), so
  `LockHeld`, and with it `LockNeverLost`, is not true of `WlanPs`.
- `PsInv` adds the types, where the manager is with the lock in each state
  (`MachineInv`), whose read locks queued requests carry (`RequestInv`), that a
  sleep confirm is answered once and in PRE_SLEEP or on the way out (`ConfirmInv`),
  that the command ending power save is sent once and answered after it
  (`ExitInv`), and what a sleeping card means for the queue (`AsleepInv`).
  `GivesBackItsOwn`, `TransmitsAwake` and `AwakeOutsidePs` follow.
- `WakelockKept`: `WakeInv` says that the semaphore counts at least the tasks that have a
  wakelock of their own and the machine's; "at least", since leaks are real.
  Hypothesis: fewer senders and requesters than the semaphore can count (10,
  pwrmgr_generic.c:167); beyond that gets are lost.

`WlanStaProofs`
- `Sound` is about the struct `wlan` alone: typed, in agreement with what the application was
  told (`Agrees`, for the state and for the state a user's scan returns to), and the
  wakelock is held in OBTAINING. When two scans overlap the second returns to the
  scan itself, which the invariant allows: `told` still agrees.
  One lemma per message, and one for `ClearScanFlag`, which enters the state returned to; `ToldTheTruth` and `AwakeWhileObtaining` follow.

`RxReorderProofs`
- `IInv` is the conjunction of `TypeOK`, of `Core` (`SlotsMatch`, and for each thread
  what it may rely on at its place, `Local`), of `Opens` (who is inside works in a table
  that is there; a deleted table holds nothing), `TimerOK`, `RxOK` and `HeldIsTimed`.
- `Local` is the heart: while slots are taken those before the loop's index are empty;
  while they are moved down, each packet is at the place of its number before or
  after the move, according to the side of the index it is on (`Placed`); what the thread has in
  hand is still in the slot it read (`Exact`); and the window will move by as many
  slots as have been handed up (`Aims`). The parts hold under `~cut`, or `~cut /\ ~stale`,
  and each step of another thread either sets the ghost or leaves them alone (`TouchKeeps`,
  `FlushDataKeeps`, `OtherKeeps`).
- Places are found by arithmetic modulo the range (`PlacesDiffer`, `PlacesMove`, `InWindow`),
  stated as lemmas once for any `Half` and `Win`.
- `StoresInRange`, `SlotsHoldTheirPackets`, `HeldPacketsTimed` follow; `LosesNothing` is
  an action property, one lemma per action that writes a slot (`ClearLosesNothing`,
  `PutLosesNothing`, `DropLosesNothing`) and the reasons why the others keep them.

`AppCtrlProofs`
- `IInv` strengthens `ConnectedAttended` and `AttemptPending` to `Corrected` and
  `Attempted`, which also speak of the steps between an event's handling and the
  state it leads to (`app.next`): an event taken from the queue takes its
  promise with it, and the handler that follows must have renewed it. It is shown of every
  handler, for any number of networks and any size of the queues.

`DhcpServerProofs`
- `IInv` is `TypeOK`, `Sound` (no two entries of the cache share a client or an address) and
  `Standing`: every offer and every grant of this run is `Promised`, which
  means that the client is remembered with the address, or that the cache is full
  and nobody is remembered with it. The second disjunct is why unremembered
  clients may share one address, and why it stays theirs: a full cache never
  takes a new entry. `LeasesStand` and `RememberedOnesAlone` follow.

Model-checked only: liveness, that is `MutexReturned`, `ReadersServed`,
`WritersServed`, `WaiterServed`, `DeletionEmptiesGroup`, `ConnectResolves`, `ScanLockComesBack`,
`HeldGoesUp`, `LossRetried` and `AskersServed`. They need fairness and ENABLED, which
the prover does not handle.

## 6. Findings

`PROJECT.json` ("findings") has the one a run of its own shows: leaving power save in
PRE_SLEEP keeps the wakelock and, if the confirm was already sent, the write lock (wlan.c:652).

Further counterexamples, each found by `tlc -config <cfg> <module>`:

| Configuration | Module, property | The code | What was said of it |
|---|---|---|---|
| `MCPsm_close.cfg` | `MCPsm`, `CloseFlushes` | a `psm_set` that fails clears the dirty flag of those before it; close writes nothing (psm.c:122) | psm.h:224-226: modifications "are flushed to the flash in response to a psm_commit or psm_close" |
| `MCPsm_short.cfg` | `MCPsm`, `DistinctPartitions` | with names shorter than `last_used` the entry of a new key may fit where the new `last_used` does not: the next key gets the same page (psm.c:198, psm_partition.c; no failure involved) | a page belongs to one partition |
| `MCFwUpdate_torn.cfg` | `FwUpdate`, `OkTableIsWhole` | the table's header, with CRC and higher generation, is written before the entries (partition.c:132) | boot2 README:141-144: the bit says whether the table is Ok or Corrupted |
| `MCFwUpdate_xip.cfg` | `FwUpdate`, `AlternateConsidered` | segments that run from flash are not checked (boot2.c:187) | boot2 README:119-122: if reading fails "the alternate partition should be considered" |
| `MCRwLock_forever.cfg` | `RwLock`, `WritersServed` | a writer keeps `reader_mutex` while it waits for ever; the last reader needs it (os.c:723) | os.c:711-713: the last reader gives "a chance to writer now" |
| `MCEventFlags_list.cfg` | `EventFlags`, `ListHoldsWaiters` | the head of the list keeps naming a freed node (os.c:332) | os.c:404: "Remove ourselves from the list" |
| `MCEventFlags_clear.cfg` | `EventFlags`, `ClearsRequested` | `EF_AND_CLEAR` clears every flag (os.c:383) | os.c:397: "Clear the requested flags from main flag" |
| `MCWlanSta_stale.cfg` | `WlanSta`, `ConnectedIsReal` | the answer of an attempt that was replaced is taken for that of the new one | wlan.h: `WLAN_CONNECTED` |
| `MCWlanSta_flag.cfg` | `WlanSta`, `ScanLockAlwaysComesBack` | a task takes the scan lock and raises `is_scan_lock` before the manager clears it for the scan before (wlan.c:1606-1607, 3709-3715): cut short by a loss, its scan keeps the lock for ever | |
| `MCRxReorder_lost.cfg` | `RxReorder`, `NeverLost` | a packet is stored into a slot that the loop of a repeated ADDBA is about to overwrite, or of a table that is being deleted (mlan_11n_rxreorder.c:204-211, 322-347) | the spin locks around the loops, which are empty |
| `MCRxReorder_twice.cfg` | `RxReorder`, `NeverTwice` | the timer flushes between the read of a slot and its clearing (187-189, 268-269) | the same |
| `MCRxReorder_freed.cfg` | `RxReorder`, `NeverBroken` | a packet received during a deletion starts the timer that was freed (332-347, 853-857) | |
| `MCAppCtrl_changed.cfg` | `AppCtrl`, `ChangeRetried` | a loss in NW_CHANGED leaves the framework there | app_framework.h:70-72: "The AF automatically reinitiates connection attempts" |
| `MCDhcpServer_shared.cfg` | `DhcpServer`, `NotAssignedToOthers` | clients beyond the cache may be granted the same address | dhcp-server.c:534-536: "not assigned to any other client" |
| `MCDhcpServer_search.cfg` | `DhcpServer`, `SearchEnds` | in a subnet with no more addresses than the cache has entries the search for a free one never ends, with `dhcp_mutex` held | |

`wlan_sta` and `app_ctrl` state their liveness under explicit premises (no full
queue, no stale answer of a replaced attempt, no network that cannot be loaded):
the stale answer is the one that `MCWlanSta_stale.cfg` shows, and the overrun flag that
`ScanLockComesBack` leaves out the one of `MCWlanSta_flag.cfg`. The premises of
`RxReorder`'s properties (`stale`, `cut`, `broken`) are what the three
configurations above break.

## 7. Plan

Done: store, upgrades and boot, OS layer, power save and station of the
connection manager, receive reordering, application framework, DHCP server;
41 theorems, one or more for each safety property of the runs. Left, as proofs
about what is modelled:

1. `Psm` with flash errors: what of `PsmStore` survives them.
2. The safety half of the liveness properties as invariants: that a wait which
   must end has its cause pending (a timer, a message, an owner of the mutex), as
   `HeldPacketsTimed` and `AnAttemptIsPending` have it, for the scan lock of
   `WlanSta` and the mutex of psm.

## 8. Not modelled

- *Health monitor*: an array polled under one semaphore. What is wrong in it is
  seen in a single call (`h_sem` kept when no handler has the name,
  healthmon.c:217; a slot registered again keeps `failed` and `last_check` of the
  handler before). Its one handler that meets other actors is in `WlanPs`.
- *mdev*: the head of the list is read outside the critical section, but devices
  are registered while the board is initialized, before there is anybody to race.
- *Two updates at once* (rfget.c:244: `update_in_progress` is not consulted):
  two interleaved streams double every variable of the download; the missing guard
  is plain without a run.
- *Status codes* (rfget.c:329, a chunked reply is reported as a success;
  write_fs.c:169, a bad CRC is): one return value each, with no state behind it.
- *psm_erase_and_init without the mutex* (app_psm.c:245, app_ctrl.c:400, 961): a race of
  a few instructions with whoever has a handle, before the device resets.
- *os.c:558*: `delete_group` stays set after a delete that fails; `EventFlags`
  assumes that nobody uses the group again then.
- *dhcp_server_init's failures, the DNS responder*: no state that lasts.
- *Deep sleep, micro-AP, P2P, WPS, the list of networks* in wlan.c; *micro-AP, P2P
  and the provisioning handover* in the framework: state machines beside the
  station's, sharing only the queue.
- *The rest of wlan/wifidriver*: vendor code that formats and parses firmware
  commands, one at a time under one mutex. Its events are inputs of `WlanSta`
  and `WlanPs`.
- *Protocol parsers, cryptography, drivers, libraries, samples*: most of the
  repository's lines, and not state machines of this program. The reasons are with
  each component in `PROJECT.json`.
