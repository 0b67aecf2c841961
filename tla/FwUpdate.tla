------------------------------ MODULE FwUpdate ------------------------------
(***************************************************************************)
(* Active-passive upgrades: the redundant partition tables                 *)
(* (core/partition/partition.c), the download of an image into the passive *)
(* slot of its component (middleware/rfget) and the second stage boot      *)
(* loader that chooses a table and then a firmware (boot2.c).              *)
(*                                                                         *)
(* Power may fail between any two flash operations and each of them may    *)
(* fail.  One task updates at a time.                                      *)
(*                                                                         *)
(* Abstractions.  A layout has two firmware slots and two filesystem       *)
(* slots; their entries are written in this order, and power fails between *)
(* two entries.  An entry is its generation level, or Missing (its bytes   *)
(* are erased).  An image is                                               *)
(* "erased", "partial" (its header is there and it would not pass its CRC) *)
(* or "good".  An image that runs from flash (Xip) is not checked by boot2 *)
(* beyond its header.                                                      *)
(***************************************************************************)
EXTENDS Integers, FiniteSets

CONSTANTS
    Xip,        \* the images run from flash
    MaxErrs,    \* bound: flash operations that fail
    MaxUpdates  \* bound: updates started

ASSUME BoundsAssumption ==
    Xip \in BOOLEAN /\ MaxErrs \in Nat /\ MaxUpdates \in Nat

Tables == {0, 1}
Slots == {0, 1}
Comps == {"FW", "FTFS"}
Missing == -1
Entries == 0 .. 3
EntryOf(comp, slot) == IF comp = "FW" THEN slot ELSE 2 + slot
NoEntries == [e \in Entries |-> Missing]
BadTable == [ok |-> FALSE, gen |-> 0, entry |-> NoEntries]
NoTable == 2            \* no table could be read
NoFirmware == 2         \* boot2 found nothing to start
NoSlot == 2

VARIABLES
    tables,     \* the two partition tables in flash
    image,      \* the images in flash
    run,        \* "off", "up", or "toast": boot2 gave up
    booted,     \* boot flags: the table and the firmware slot in use
    layout,     \* g_flash_table and g_flash_parts
    fsPassive,  \* the passive filesystem rfget_ftfs_init found
    pc,         \* where the updating task is
    job,        \* the component and slot it updates
    next,       \* the next partition entry it writes
    activated,  \* history: firmware slot activated since the last boot
    errs, updates  \* bounded counters

flashVars == <<tables, image>>
bootVars == <<run, booted, fsPassive>>
counters == <<errs, updates>>
vars == <<flashVars, bootVars, layout, pc, job, next, activated, counters>>

PCs == {"idle", "download", "erase", "header", "entries"}
----------------------------------------------------------------------------
(* boot2.c *)

\* load_partition_table: a bad header counts as generation 0.
TableGen(t) == IF tables[t].ok THEN tables[t].gen ELSE 0

\* select_active_partition_table
SelectedTable == IF TableGen(1) > TableGen(0) THEN 1 ELSE 0

\* load_partition_entry: an entry that is not found has generation 0.
FirmwareGen(t, slot) ==
    IF tables[t].entry[slot] = Missing THEN 0 ELSE tables[t].entry[slot]

\* load_firmware returns only if it found the image to be bad.
Starts(slot) == image["FW"][slot] = "good"
Hangs(slot) == Xip /\ image["FW"][slot] = "partial"

\* boot2_main: the slot tried first.  Without a table it is the default
\* firmware, which is the first slot.
MainSlot ==
    LET t == SelectedTable IN
    IF tables[t].ok /\ FirmwareGen(t, 1) > FirmwareGen(t, 0) THEN 1 ELSE 0

\* Without a table boot2_main takes the first slot, and its second entry is
\* an uninitialized variable: BootableUnlessTorn shows that it is never read.
Usable(slot) ==
    LET t == SelectedTable IN
    IF tables[t].ok THEN FirmwareGen(t, slot) >= 1 ELSE slot = MainSlot

\* Mutant: boot2_main gives up if the main firmware is bad.
BootSlotNoFallback(forced) ==
    LET main == MainSlot
        backup == 1 - main
    IN  IF ~forced
        THEN IF Usable(main) /\ Starts(main) THEN main ELSE NoFirmware
        ELSE IF Usable(backup) /\ Starts(backup) THEN backup ELSE NoFirmware

\* boot2_main: the slot that ends up running.  Holding the button for eight
\* seconds (forced) skips the main firmware.
BootSlot(forced) ==
    LET main == MainSlot
        backup == 1 - main
    IN  IF ~forced /\ Usable(main) /\ (Starts(main) \/ Hangs(main))
        THEN IF Hangs(main) THEN NoFirmware ELSE main
        ELSE IF Usable(backup) /\ Starts(backup) THEN backup ELSE NoFirmware

\* rfget_ftfs_init: an image with a valid header can be mounted; between two
\* of them the generation decides.
MountedSlot(entry) ==
    LET mountable(s) == image["FTFS"][s] # "erased"
    IN  IF mountable(1) /\ (~mountable(0) \/ entry[3] > entry[2]) THEN 1
        ELSE IF mountable(0) THEN 0 ELSE NoSlot

FsPassive(entry) ==
    IF \E s \in Slots : entry[EntryOf("FTFS", s)] = Missing THEN NoSlot
    ELSE IF MountedSlot(entry) = 0 THEN 1 ELSE 0

Boot ==
    /\ run = "off"
    /\ \E forced \in BOOLEAN :
          LET t == SelectedTable
              slot == BootSlot(forced)
          IN  /\ run' = IF slot = NoFirmware THEN "toast" ELSE "up"
              /\ booted' = [table |-> t, slot |-> slot]
              /\ layout' = IF tables[t].ok THEN tables[t] ELSE BadTable
              /\ fsPassive' = FsPassive(layout'.entry)
    /\ UNCHANGED <<flashVars, pc, job, next, activated, counters>>

\* Power fails, or the application reboots.
PowerCycle ==
    /\ run # "off"
    /\ run' = "off" /\ booted' = [table |-> NoTable, slot |-> NoSlot]
    /\ layout' = BadTable /\ fsPassive' = NoSlot
    /\ pc' = "idle" /\ job' = [comp |-> "FW", slot |-> NoSlot] /\ next' = 0
    /\ activated' = NoSlot
    /\ UNCHANGED <<flashVars, counters>>
----------------------------------------------------------------------------
(* rfget: the image goes to the passive slot *)

Present(comp) == \A s \in Slots : layout.entry[EntryOf(comp, s)] # Missing

\* Mutant: the passive firmware is the one of the lower generation.
PassiveSlotByGeneration(comp) ==
    IF comp = "FW" THEN IF layout.entry[0] < layout.entry[1] THEN 0 ELSE 1
    ELSE fsPassive

\* rfget_get_passive_firmware goes by the slot that was booted, and the
\* application updates the filesystem that was not mounted.
PassiveSlot(comp) == IF comp = "FW" THEN 1 - booted.slot ELSE fsPassive

\* rfget_update_begin erases the slot, once the header of the image that
\* arrives is known to be valid.
StartUpdate(comp) ==
    /\ run = "up" /\ pc = "idle" /\ updates < MaxUpdates
    /\ layout.ok /\ Present(comp) /\ PassiveSlot(comp) # NoSlot
    /\ updates' = updates + 1
    /\ job' = [comp |-> comp, slot |-> PassiveSlot(comp)]
    /\ image' = [image EXCEPT ![comp][PassiveSlot(comp)] = "erased"]
    /\ pc' = "download"
    /\ UNCHANGED <<tables, bootVars, layout, next, activated, errs>>

\* The erase fails: the old image of the slot is damaged.
StartUpdateFails(comp) ==
    /\ run = "up" /\ pc = "idle" /\ errs < MaxErrs
    /\ layout.ok /\ Present(comp) /\ PassiveSlot(comp) # NoSlot
    /\ errs' = errs + 1
    /\ \E state \in {"erased", "partial"} :
          image' = [image EXCEPT ![comp][PassiveSlot(comp)] = state]
    /\ UNCHANGED <<tables, bootVars, layout, pc, job, next, activated, updates>>

\* rfget_update_data
WriteData(state) ==
    /\ pc = "download"
    /\ image[job.comp][job.slot] # "good"
    /\ image' = [image EXCEPT ![job.comp][job.slot] = state]
    /\ UNCHANGED <<tables, bootVars, layout, pc, job, next, activated, counters>>

\* The stream ends, or a write fails, and the image is found to be bad:
\* verify_load_firmware, or the CRC of write_ftfs_image.
Abandon ==
    /\ pc = "download" /\ image[job.comp][job.slot] # "good"
    /\ pc' = "idle"
    /\ UNCHANGED <<flashVars, bootVars, layout, job, next, activated, counters>>

\* Mutant: the new entry gets the generation of the other one.
CompleteSameGeneration ==
    LET e == EntryOf(job.comp, job.slot)
        other == EntryOf(job.comp, 1 - job.slot)
    IN  /\ pc = "download" /\ image[job.comp][job.slot] = "good"
        /\ layout' = [layout EXCEPT !.entry[e] = layout.entry[other]]
        /\ pc' = "erase"
        /\ UNCHANGED <<flashVars, bootVars, job, next, activated, counters>>

\* part_set_active_partition, up to the call of part_write_layout
Complete ==
    LET e == EntryOf(job.comp, job.slot)
        other == EntryOf(job.comp, 1 - job.slot)
    IN  /\ pc = "download" /\ image[job.comp][job.slot] = "good"
        /\ layout' = [layout EXCEPT !.entry[e] = layout.entry[other] + 1]
        /\ pc' = "erase"
        /\ UNCHANGED <<flashVars, bootVars, job, next, activated, counters>>
----------------------------------------------------------------------------
(* part_write_layout: no return value of the flash driver is looked at *)

\* Mutant: the passive table is the one boot2 would not select now.
NotSelectedTable == 1 - SelectedTable

PassiveTable == 1 - booted.table

EraseTable ==
    /\ pc = "erase"
    /\ tables' = [tables EXCEPT ![PassiveTable] = BadTable]
    /\ layout' = [layout EXCEPT !.gen = layout.gen + 1]
    /\ pc' = "header"
    /\ UNCHANGED <<image, bootVars, job, next, activated, counters>>

WriteHeader ==
    /\ pc = "header"
    /\ tables' = [tables EXCEPT ![PassiveTable].ok = TRUE,
                                ![PassiveTable].gen = layout.gen]
    /\ next' = 0
    /\ pc' = "entries"
    /\ UNCHANGED <<image, bootVars, layout, job, activated, counters>>

WriteEntry ==
    /\ pc = "entries" /\ next \in Entries
    /\ tables' = [tables EXCEPT ![PassiveTable].entry[next] = layout.entry[next]]
    /\ next' = next + 1
    /\ UNCHANGED <<image, bootVars, layout, pc, job, activated, counters>>

\* The CRC of the entries follows them; nothing reads it.  The update is
\* reported as a success.
FinishTable ==
    /\ pc = "entries" /\ next = 4
    /\ pc' = "idle"
    /\ activated' = IF job.comp = "FW" THEN job.slot ELSE activated
    /\ UNCHANGED <<flashVars, bootVars, layout, job, next, counters>>

\* What is programmed over a table that was not erased, or was not
\* programmed at all, is no valid header; entries stay as they are.
TableWriteFails ==
    /\ pc \in {"erase", "header", "entries"} /\ errs < MaxErrs
    /\ errs' = errs + 1
    /\ tables' = IF pc = "entries" THEN tables
                 ELSE [tables EXCEPT ![PassiveTable].ok = FALSE]
    /\ layout' = IF pc = "erase" THEN [layout EXCEPT !.gen = layout.gen + 1]
                 ELSE layout
    /\ next' = 4
    /\ pc' = "entries"
    /\ UNCHANGED <<image, bootVars, job, activated, updates>>
----------------------------------------------------------------------------
\* A fresh layout: the first table, every generation 1, and a firmware and a
\* filesystem in the first slots.
Init ==
    /\ tables = [t \in Tables |->
                    IF t = 0 THEN [ok |-> TRUE, gen |-> 1,
                                   entry |-> [e \in Entries |-> 1]]
                    ELSE BadTable]
    /\ \E second \in {"erased", "good"} :
          image = [c \in Comps |-> [s \in Slots |->
                      IF s = 0 THEN "good"
                      ELSE IF c = "FW" THEN second ELSE "erased"]]
    /\ run = "off" /\ booted = [table |-> NoTable, slot |-> NoSlot]
    /\ layout = BadTable /\ fsPassive = NoSlot
    /\ pc = "idle" /\ job = [comp |-> "FW", slot |-> NoSlot] /\ next = 0
    /\ activated = NoSlot
    /\ errs = 0 /\ updates = 0

Step ==
    \/ \E comp \in Comps : StartUpdate(comp) \/ StartUpdateFails(comp)
    \/ \E state \in {"partial", "good"} : WriteData(state)
    \/ Abandon \/ Complete
    \/ EraseTable \/ WriteHeader \/ WriteEntry \/ FinishTable \/ TableWriteFails

Next == Boot \/ PowerCycle \/ Step

Spec == Init /\ [][Next]_vars
----------------------------------------------------------------------------
(* Types; a system that is up has booted a slot of a table, and an update *)
(* under way has a slot of its own.                                        *)
TypeOK ==
    /\ tables \in [Tables -> [ok : BOOLEAN, gen : Nat,
                              entry : [Entries -> Nat \cup {Missing}]]]
    /\ image \in [Comps -> [Slots -> {"erased", "partial", "good"}]]
    /\ run \in {"off", "up", "toast"}
    /\ booted \in [table : Tables \cup {NoTable}, slot : Slots \cup {NoSlot}]
    /\ layout \in [ok : BOOLEAN, gen : Nat, entry : [Entries -> Nat \cup {Missing}]]
    /\ fsPassive \in Slots \cup {NoSlot}
    /\ pc \in PCs
    /\ job \in [comp : Comps, slot : Slots \cup {NoSlot}]
    /\ next \in 0 .. 4
    /\ activated \in Slots \cup {NoSlot}
    /\ errs \in Nat /\ updates \in Nat
    /\ run = "up" => booted.table \in Tables /\ booted.slot \in Slots
    /\ pc # "idle" => run = "up" /\ job.slot \in Slots

Whole(t) == \A e \in Entries : tables[t].entry[e] # Missing

(* Were power to fail now, boot2 would find a partition table, and it would *)
(* find a firmware to start as long as that table was written to its end.  *)
BootableUnlessTorn ==
    /\ tables[SelectedTable].ok
    /\ Whole(SelectedTable) => BootSlot(FALSE) # NoFirmware

(* A table that boot2 reports as Ok (bits 9 and 10 of the boot flags) and  *)
(* boots from is not corrupted.                                            *)
OkTableIsWhole ==
    run # "off" /\ tables[booted.table].ok => Whole(booted.table)

(* Once an update has been reported as a success the next boot starts the  *)
(* image it wrote, unless the flash failed.                                *)
UpdateTakesEffect ==
    run = "up" /\ pc = "idle" /\ activated # NoSlot /\ errs = 0
        /\ image["FW"][activated] = "good"
        => BootSlot(FALSE) = activated

(* An update never touches the image that is running, whichever of the two *)
(* was started and why.                                                    *)
RunningImageIntact ==
    run = "up" => image["FW"][booted.slot] = "good"

(* The table the system booted from stays as it is until the next boot,    *)
(* however many updates run and fail: it is what boot2 falls back to.      *)
BootedTableStable ==
    [][run = "up" /\ run' = "up" => tables'[booted.table] = tables[booted.table]]_vars

(* boot2 considers the alternate partition whenever reading the main       *)
(* firmware fails: it starts a good image if a partition names one.        *)
AlternateConsidered ==
    (\E slot \in Slots : Usable(slot) /\ Starts(slot))
        => BootSlot(FALSE) # NoFirmware
============================================================================
