-------------------------- MODULE FwUpdateProofs --------------------------
(***************************************************************************)
(* Proofs about FwUpdate, however many updates run and however often power *)
(* and flash fail.                                                         *)
(***************************************************************************)
EXTENDS FwUpdate, TLAPS

Entry == [Entries -> Nat \cup {Missing}]
Table == [ok : BOOLEAN, gen : Nat, entry : Entry]
Image == {"erased", "partial", "good"}
----------------------------------------------------------------------------
(* Types                                                                   *)

LEMMA BadTableType == BadTable \in Table
BY DEF BadTable, Table, Entry, NoEntries, Missing

LEMMA SelectedTableType == SelectedTable \in Tables
BY DEF SelectedTable, Tables

LEMMA PassiveTableType ==
    ASSUME TypeOK, pc # "idle"
    PROVE  PassiveTable \in Tables /\ PassiveTable # booted.table
BY DEF TypeOK, PassiveTable, Tables

LEMMA EntryOfType ==
    ASSUME NEW comp \in Comps, NEW slot \in Slots
    PROVE  EntryOf(comp, slot) \in Entries /\ 1 - slot \in Slots
BY DEF EntryOf, Entries, Slots

LEMMA PassiveSlotType ==
    ASSUME TypeOK, run = "up", NEW comp \in Comps, PassiveSlot(comp) # NoSlot
    PROVE  PassiveSlot(comp) \in Slots
BY DEF TypeOK, PassiveSlot, Slots, NoSlot, Comps

LEMMA FsPassiveType == ASSUME NEW entry PROVE FsPassive(entry) \in Slots \cup {NoSlot}
BY DEF FsPassive, Slots

\* boot2 starts a slot that holds a good image, or none.
LEMMA BootSlotStarts ==
    ASSUME NEW forced \in BOOLEAN
    PROVE  \/ BootSlot(forced) = NoFirmware
           \/ BootSlot(forced) \in Slots /\ image["FW"][BootSlot(forced)] = "good"
<1>1. MainSlot \in Slots /\ 1 - MainSlot \in Slots
  BY DEF MainSlot, Slots
<1> QED
  BY <1>1 DEF BootSlot, Starts

LEMMA InitType == Init => TypeOK
<1> SUFFICES ASSUME Init PROVE TypeOK
  OBVIOUS
<1>1. tables \in [Tables -> Table] /\ layout \in Table
  BY BadTableType DEF Init, Table, Entry, Missing
<1>2. image \in [Comps -> [Slots -> Image]]
  BY DEF Init, Image
<1> QED
  BY <1>1, <1>2 DEF Init, TypeOK, Table, Entry, Image, PCs, Comps

LEMMA BootType == ASSUME TypeOK, Boot PROVE TypeOK'
<1>1. PICK forced \in BOOLEAN :
          /\ run' = IF BootSlot(forced) = NoFirmware THEN "toast" ELSE "up"
          /\ booted' = [table |-> SelectedTable, slot |-> BootSlot(forced)]
          /\ layout' = IF tables[SelectedTable].ok THEN tables[SelectedTable] ELSE BadTable
          /\ fsPassive' = FsPassive(layout'.entry)
  BY DEF Boot
<1>2. booted' \in [table : Tables \cup {NoTable}, slot : Slots \cup {NoSlot}]
  BY <1>1, BootSlotStarts, SelectedTableType DEF NoFirmware, NoSlot
<1>3. run' = "up" => booted'.table \in Tables /\ booted'.slot \in Slots
  BY <1>1, BootSlotStarts, SelectedTableType
<1>4. layout' \in Table
  BY <1>1, SelectedTableType, BadTableType DEF TypeOK, Table, Entry
<1>5. pc = "idle"
  BY DEF Boot, TypeOK
<1> QED
  BY <1>1, <1>2, <1>3, <1>4, <1>5, FsPassiveType
  DEF Boot, TypeOK, Table, Entry, flashVars, counters

LEMMA PowerCycleType == ASSUME TypeOK, PowerCycle PROVE TypeOK'
BY BadTableType
DEF PowerCycle, TypeOK, Table, Entry, PCs, Comps, NoTable, NoSlot, flashVars, counters

LEMMA UpdateType ==
    ASSUME TypeOK,
           \/ \E comp \in Comps : StartUpdate(comp) \/ StartUpdateFails(comp)
           \/ \E state \in {"partial", "good"} : WriteData(state)
           \/ Abandon \/ Complete
    PROVE  TypeOK'
<1>1. ASSUME NEW comp \in Comps, StartUpdate(comp) PROVE TypeOK'
  <2>1. PassiveSlot(comp) \in Slots
    BY <1>1, PassiveSlotType DEF StartUpdate
  <2>2. image' \in [Comps -> [Slots -> Image]]
    BY <1>1, <2>1 DEF StartUpdate, TypeOK, Image
  <2>3. job' \in [comp : Comps, slot : Slots \cup {NoSlot}] /\ job'.slot \in Slots
    BY <1>1, <2>1 DEF StartUpdate
  <2> QED
    BY <1>1, <2>2, <2>3 DEF StartUpdate, TypeOK, Image, PCs, bootVars
<1>2. ASSUME NEW comp \in Comps, StartUpdateFails(comp) PROVE TypeOK'
  <2>1. image' \in [Comps -> [Slots -> Image]]
    BY <1>2, PassiveSlotType DEF StartUpdateFails, TypeOK, Image
  <2> QED
    BY <1>2, <2>1 DEF StartUpdateFails, TypeOK, Image, bootVars
<1>3. ASSUME NEW state \in {"partial", "good"}, WriteData(state) PROVE TypeOK'
  <2>1. image' \in [Comps -> [Slots -> Image]]
    BY <1>3 DEF WriteData, TypeOK, Image
  <2> QED
    BY <1>3, <2>1 DEF WriteData, TypeOK, Image, bootVars, counters
<1>4. CASE Abandon
  BY <1>4 DEF Abandon, TypeOK, PCs, flashVars, bootVars, counters
<1>5. CASE Complete
  <2> DEFINE e == EntryOf(job.comp, job.slot)
             other == EntryOf(job.comp, 1 - job.slot)
  <2>1. e \in Entries /\ other \in Entries
    BY <1>5, EntryOfType DEF Complete, TypeOK
  <2>2. layout \in Table /\ layout.entry[other] + 1 \in Nat
    BY <2>1 DEF TypeOK, Table, Entry, Missing
  <2>3. layout' = [layout EXCEPT !.entry = [layout.entry EXCEPT ![e] = layout.entry[other] + 1]]
    BY <1>5, <2>2 DEF Complete, Table
  <2>4. layout' \in Table
    BY <2>1, <2>2, <2>3 DEF Table, Entry
  <2> QED
    BY <1>5, <2>4 DEF Complete, TypeOK, Table, Entry, PCs, flashVars, bootVars, counters
<1> QED
  BY <1>1, <1>2, <1>3, <1>4, <1>5

LEMMA WriteTableType ==
    ASSUME TypeOK,
           EraseTable \/ WriteHeader \/ WriteEntry \/ FinishTable \/ TableWriteFails
    PROVE  TypeOK'
<1>1. PassiveTable \in Tables
  BY PassiveTableType DEF EraseTable, WriteHeader, WriteEntry, FinishTable, TableWriteFails
<1>2. tables \in [Tables -> Table] /\ layout \in Table
  BY DEF TypeOK, Table, Entry
<1>3. [layout EXCEPT !.gen = layout.gen + 1] \in Table
  BY <1>2 DEF Table
<1>4. CASE EraseTable
  <2>1. tables' \in [Tables -> Table]
    BY <1>1, <1>2, <1>4, BadTableType DEF EraseTable
  <2> QED
    BY <1>3, <1>4, <2>1 DEF EraseTable, TypeOK, Table, Entry, PCs, bootVars, counters
<1>5. CASE WriteHeader
  <2>1. tables' \in [Tables -> Table]
    BY <1>1, <1>2, <1>5 DEF WriteHeader, Table
  <2> QED
    BY <1>5, <2>1 DEF WriteHeader, TypeOK, Table, Entry, PCs, bootVars, counters
<1>6. CASE WriteEntry
  <2>1. layout.entry[next] \in Nat \cup {Missing}
    BY <1>2, <1>6 DEF WriteEntry, Table, Entry
  <2>2. tables' \in [Tables -> Table]
    BY <1>1, <1>2, <1>6, <2>1 DEF WriteEntry, Table, Entry
  <2>3. next' \in 0 .. 4
    BY <1>6 DEF WriteEntry, TypeOK, Entries
  <2> QED
    BY <1>6, <2>2, <2>3 DEF WriteEntry, TypeOK, Table, Entry, bootVars, counters
<1>7. CASE FinishTable
  BY <1>7 DEF FinishTable, TypeOK, PCs, flashVars, bootVars, counters
<1>8. CASE TableWriteFails
  <2>1. tables' \in [Tables -> Table]
    BY <1>1, <1>2, <1>8 DEF TableWriteFails, Table
  <2>2. layout' \in Table
    BY <1>2, <1>3, <1>8 DEF TableWriteFails
  <2>3. pc' = "entries" /\ pc # "idle" /\ errs' \in Nat /\ next' \in 0 .. 4
    BY <1>8 DEF TableWriteFails, TypeOK
  <2> QED
    BY <1>8, <2>1, <2>2, <2>3 DEF TableWriteFails, TypeOK, Table, Entry, PCs, bootVars
<1> QED
  BY <1>4, <1>5, <1>6, <1>7, <1>8

(* Every reachable state is typed; in particular an update under way runs  *)
(* in a system that is up and has a slot of its own.                       *)
THEOREM TypeCorrect == Spec => []TypeOK
<1>1. TypeOK /\ [Next]_vars => TypeOK'
  <2> SUFFICES ASSUME TypeOK, [Next]_vars PROVE TypeOK'
    OBVIOUS
  <2>1. CASE Boot
    BY <2>1, BootType
  <2>2. CASE PowerCycle
    BY <2>2, PowerCycleType
  <2>3. CASE Step
    BY <2>3, UpdateType, WriteTableType DEF Step
  <2>4. CASE UNCHANGED vars
    BY <2>4 DEF TypeOK, vars, flashVars, bootVars, counters
  <2> QED
    BY <2>1, <2>2, <2>3, <2>4 DEF Next
<1> QED
  BY <1>1, InitType, PTL DEF Spec
----------------------------------------------------------------------------
(* What an update leaves alone                                             *)

\* A step of an update neither boots nor writes the table in use.
LEMMA StepKeepsTable ==
    ASSUME TypeOK, Step, run = "up"
    PROVE  /\ UNCHANGED bootVars
           /\ \A t \in Tables : tables'[t] = tables[t] \/ (t = PassiveTable /\ pc # "idle")
<1>1. tables \in [Tables -> Table]
  BY DEF TypeOK, Table, Entry
<1>2. CASE \/ \E comp \in Comps : StartUpdate(comp) \/ StartUpdateFails(comp)
           \/ \E state \in {"partial", "good"} : WriteData(state)
           \/ Abandon \/ Complete \/ FinishTable
  BY <1>2 DEF StartUpdate, StartUpdateFails, WriteData, Abandon, Complete, FinishTable,
              flashVars
<1>3. CASE EraseTable \/ WriteHeader \/ WriteEntry \/ TableWriteFails
  BY <1>1, <1>3 DEF EraseTable, WriteHeader, WriteEntry, TableWriteFails
<1> QED
  BY <1>2, <1>3 DEF Step

(* part_write_layout never touches the table the system booted from.       *)
THEOREM BootedTableUntouched == Spec => BootedTableStable
<1>1. TypeOK /\ [Next]_vars
        => (run = "up" /\ run' = "up" => tables'[booted.table] = tables[booted.table])
  <2> SUFFICES ASSUME TypeOK, [Next]_vars, run = "up", run' = "up"
               PROVE  tables'[booted.table] = tables[booted.table]
    OBVIOUS
  <2>1. CASE Step
    BY <2>1, StepKeepsTable, PassiveTableType DEF TypeOK
  <2>2. CASE Boot \/ PowerCycle
    BY <2>2 DEF Boot, PowerCycle
  <2>3. CASE UNCHANGED vars
    BY <2>3 DEF vars, flashVars
  <2> QED
    BY <2>1, <2>2, <2>3 DEF Next
<1> QED
  BY <1>1, TypeCorrect, PTL DEF Spec, BootedTableStable

\* A firmware is downloaded to the slot that was not booted.
JobInv == pc # "idle" /\ job.comp = "FW" => job.slot = 1 - booted.slot

LEMMA JobStep == ASSUME TypeOK, JobInv, [Next]_vars PROVE JobInv'
<1>1. ASSUME NEW comp \in Comps, StartUpdate(comp) PROVE JobInv'
  BY <1>1 DEF StartUpdate, JobInv, PassiveSlot, bootVars
<1>2. CASE Step /\ UNCHANGED job /\ (pc' # "idle" => pc # "idle")
  <2>1. booted' = booted
    BY <1>2 DEF Step, bootVars, StartUpdate, StartUpdateFails, WriteData, Abandon, Complete,
                EraseTable, WriteHeader, WriteEntry, FinishTable, TableWriteFails
  <2> QED
    BY <1>2, <2>1 DEF JobInv
<1>3. CASE Step
  BY <1>1, <1>2, <1>3 DEF Step, StartUpdateFails, WriteData, Abandon, Complete,
                EraseTable, WriteHeader, WriteEntry, FinishTable, TableWriteFails
<1>4. CASE Boot \/ PowerCycle
  BY <1>4 DEF Boot, PowerCycle, TypeOK, JobInv
<1>5. CASE UNCHANGED vars
  BY <1>5 DEF vars, bootVars, JobInv
<1> QED
  BY <1>3, <1>4, <1>5 DEF Next

\* A step of an update leaves the image of the running firmware alone.
LEMMA StepKeepsImage ==
    ASSUME TypeOK, JobInv, Step, run = "up"
    PROVE  image'["FW"][booted.slot] = image["FW"][booted.slot]
<1>1. image \in [Comps -> [Slots -> Image]] /\ booted.slot \in Slots
  BY DEF TypeOK, Image
<1>2. 1 - booted.slot # booted.slot
  BY <1>1 DEF Slots
<1>3. ASSUME NEW comp \in Comps, StartUpdate(comp) \/ StartUpdateFails(comp)
      PROVE  image'["FW"][booted.slot] = image["FW"][booted.slot]
  <2>1. CASE comp = "FW"
    BY <1>1, <1>2, <1>3, <2>1 DEF StartUpdate, StartUpdateFails, PassiveSlot
  <2>2. CASE comp # "FW"
    <3>1. \E state : image' = [image EXCEPT ![comp][PassiveSlot(comp)] = state]
      BY <1>3 DEF StartUpdate, StartUpdateFails
    <3> QED
      BY <1>1, <2>2, <3>1 DEF Comps
  <2> QED
    BY <2>1, <2>2
<1>4. ASSUME NEW state \in {"partial", "good"}, WriteData(state)
      PROVE  image'["FW"][booted.slot] = image["FW"][booted.slot]
  <2>1. CASE job.comp = "FW"
    BY <1>1, <1>2, <1>4, <2>1 DEF WriteData, JobInv
  <2>2. CASE job.comp # "FW"
    BY <1>1, <1>4, <2>2 DEF WriteData
  <2> QED
    BY <2>1, <2>2
<1>5. CASE Abandon \/ Complete \/ FinishTable
  BY <1>5 DEF Abandon, Complete, FinishTable, flashVars
<1>6. CASE EraseTable \/ WriteHeader \/ WriteEntry \/ TableWriteFails
  BY <1>6 DEF EraseTable, WriteHeader, WriteEntry, TableWriteFails
<1> QED
  BY <1>3, <1>4, <1>5, <1>6 DEF Step

\* The firmware that boot2 starts is good.
LEMMA BootStartsGood == ASSUME Boot, run' = "up" PROVE image'["FW"][booted'.slot] = "good"
BY BootSlotStarts DEF Boot, flashVars

(* No update writes over the firmware that is running, which is what boot2 *)
(* falls back to if the new one is bad.                                    *)
THEOREM RunningImageSafe == Spec => []RunningImageIntact
<1>1. Init => JobInv /\ RunningImageIntact
  BY DEF Init, JobInv, RunningImageIntact
<1>2. TypeOK /\ JobInv /\ RunningImageIntact /\ [Next]_vars => RunningImageIntact'
  <2> SUFFICES ASSUME TypeOK, JobInv, RunningImageIntact, [Next]_vars, run' = "up"
               PROVE  image'["FW"][booted'.slot] = "good"
    BY DEF RunningImageIntact
  <2>1. CASE Boot
    BY <2>1, BootStartsGood
  <2>2. CASE PowerCycle
    BY <2>2 DEF PowerCycle
  <2>3. CASE Step
    <3>1. run = "up"
      BY <2>3 DEF Step, TypeOK, StartUpdate, StartUpdateFails, WriteData, Abandon, Complete,
                  EraseTable, WriteHeader, WriteEntry, FinishTable, TableWriteFails
    <3> QED
      BY <2>3, <3>1, StepKeepsTable, StepKeepsImage DEF RunningImageIntact, bootVars
  <2>4. CASE UNCHANGED vars
    BY <2>4 DEF vars, flashVars, bootVars, RunningImageIntact
  <2> QED
    BY <2>1, <2>2, <2>3, <2>4 DEF Next
<1> QED
  BY <1>1, <1>2, JobStep, TypeCorrect, PTL DEF Spec
----------------------------------------------------------------------------
(* The device can always boot, but for a torn table                        *)

\* Generations start at 1: a header is never written with 0, nor an entry.
GenInv ==
    /\ \A t \in Tables : tables[t].ok => tables[t].gen >= 1
    /\ \A t \in Tables, e \in Entries : tables[t].entry[e] # 0
    /\ \A e \in Entries : layout.entry[e] # 0
    /\ pc \in {"header", "entries"} => layout.gen >= 1
    /\ pc = "download" => Present(job.comp)

\* There is a table to read, which is the one in use, and a firmware to start.
SafeInv ==
    /\ \E t \in Tables : tables[t].ok
    /\ run = "up" => tables[booted.table].ok
    /\ \E slot \in Slots : image["FW"][slot] = "good"

LEMMA SelectedTableOk == ASSUME TypeOK, GenInv, SafeInv PROVE tables[SelectedTable].ok
<1>1. tables[0].ok \/ tables[1].ok
  BY DEF SafeInv, Tables
<1>2. \A t \in {0, 1} : tables[t].ok => TableGen(t) >= 1
  BY DEF GenInv, Tables, TableGen
<1>3. \A t \in {0, 1} : ~tables[t].ok => TableGen(t) = 0
  BY DEF TableGen
<1>4. TableGen(0) \in Nat /\ TableGen(1) \in Nat
  BY DEF TypeOK, Tables, TableGen
<1> QED
  BY <1>1, <1>2, <1>3, <1>4 DEF SelectedTable

\* boot2 finds the one and the other, unless the table lacks entries.
LEMMA SafeBoots ==
    ASSUME TypeOK, GenInv, SafeInv, Xip = FALSE
    PROVE  BootableUnlessTorn
<1>1. tables \in [Tables -> Table]
  BY DEF TypeOK, Table, Entry
<1>2. tables[SelectedTable].ok
  BY SelectedTableOk
<1>3. ASSUME Whole(SelectedTable) PROVE BootSlot(FALSE) # NoFirmware
  <2>1. MainSlot \in Slots /\ 1 - MainSlot \in Slots
    BY DEF MainSlot, Slots
  <2>2. ASSUME NEW slot \in Slots PROVE Usable(slot)
    <3> DEFINE gen == tables[SelectedTable].entry[slot]
    <3>1. slot \in Entries /\ SelectedTable \in Tables
      BY SelectedTableType DEF Slots, Entries
    <3>2. gen \in Nat \cup {Missing} /\ gen # Missing /\ gen # 0
      BY <1>1, <1>3, <3>1 DEF Whole, GenInv, Table, Entry
    <3> QED
      BY <1>2, <3>2 DEF Usable, FirmwareGen
  <2>3. Starts(MainSlot) \/ Starts(1 - MainSlot)
    BY <2>1 DEF SafeInv, Starts, Slots
  <2>4. ~Hangs(MainSlot)
    BY DEF Hangs
  <2> QED
    BY <2>1, <2>2, <2>3, <2>4 DEF BootSlot, Slots, NoFirmware
<1> QED
  BY <1>2, <1>3 DEF BootableUnlessTorn

LEMMA GenUpdate ==
    ASSUME TypeOK, GenInv,
           \/ \E comp \in Comps : StartUpdate(comp) \/ StartUpdateFails(comp)
           \/ \E state \in {"partial", "good"} : WriteData(state)
           \/ Abandon \/ Complete
    PROVE  GenInv'
<1>1. ASSUME NEW comp \in Comps, StartUpdate(comp) PROVE GenInv'
  BY <1>1 DEF StartUpdate, GenInv, Present, EntryOf
<1>2. ASSUME NEW comp \in Comps, StartUpdateFails(comp) PROVE GenInv'
  BY <1>2 DEF StartUpdateFails, GenInv, Present
<1>3. ASSUME NEW state \in {"partial", "good"}, WriteData(state) PROVE GenInv'
  BY <1>3 DEF WriteData, GenInv, Present
<1>4. CASE Abandon
  BY <1>4 DEF Abandon, GenInv, flashVars
<1>5. CASE Complete
  <2> DEFINE e == EntryOf(job.comp, job.slot)
             other == EntryOf(job.comp, 1 - job.slot)
  <2>1. job.slot \in Slots /\ job.comp \in Comps
    BY <1>5 DEF Complete, TypeOK
  <2>2. 1 - job.slot \in Slots /\ other \in Entries
    BY <2>1, EntryOfType
  <2>3. layout.entry[other] \in Nat
    BY <1>5, <2>2 DEF Complete, GenInv, Present, TypeOK
  <2>4. layout \in Table
    BY DEF TypeOK, Table, Entry
  <2>5. layout'.entry = [layout.entry EXCEPT ![e] = layout.entry[other] + 1]
    BY <1>5, <2>4 DEF Complete, Table
  <2>6. \A x \in Entries : layout'.entry[x] # 0
    BY <2>3, <2>4, <2>5 DEF GenInv, Table, Entry
  <2> QED
    BY <1>5, <2>6 DEF Complete, GenInv, flashVars
<1> QED
  BY <1>1, <1>2, <1>3, <1>4, <1>5

LEMMA GenWriteTable ==
    ASSUME TypeOK, GenInv,
           EraseTable \/ WriteHeader \/ WriteEntry \/ FinishTable \/ TableWriteFails
    PROVE  GenInv'
<1>1. tables \in [Tables -> Table] /\ layout \in Table
  BY DEF TypeOK, Table, Entry
<1>2. CASE EraseTable
  <2>1. \A t \in Tables : tables'[t] = tables[t] \/ tables'[t] = BadTable
    BY <1>1, <1>2 DEF EraseTable
  <2>2. layout'.entry = layout.entry /\ layout'.gen = layout.gen + 1 /\ layout.gen \in Nat
    BY <1>1, <1>2 DEF EraseTable, Table
  <2> QED
    BY <1>2, <2>1, <2>2 DEF EraseTable, GenInv, BadTable, NoEntries, Missing
<1>3. CASE WriteHeader
  <2>1. \A t \in Tables : /\ tables'[t].entry = tables[t].entry
                          /\ tables'[t] = tables[t] \/ tables'[t].gen = layout.gen
    BY <1>1, <1>3 DEF WriteHeader, Table
  <2> QED
    BY <1>3, <2>1 DEF WriteHeader, GenInv
<1>4. CASE WriteEntry
  <2>1. \A t \in Tables : /\ tables'[t].ok = tables[t].ok /\ tables'[t].gen = tables[t].gen
                          /\ \A e \in Entries : tables'[t].entry[e]
                                                     \in {tables[t].entry[e], layout.entry[e]}
    BY <1>1, <1>4 DEF WriteEntry, Table, Entry
  <2> QED
    BY <1>4, <2>1 DEF WriteEntry, GenInv
<1>5. CASE FinishTable
  BY <1>5 DEF FinishTable, GenInv, flashVars
<1>6. CASE TableWriteFails
  <2>1. \A t \in Tables : /\ tables'[t].entry = tables[t].entry
                          /\ tables'[t].ok => tables[t].ok
                          /\ tables'[t].gen = tables[t].gen
    BY <1>1, <1>6 DEF TableWriteFails, Table
  <2>2. layout'.entry = layout.entry
    BY <1>1, <1>6 DEF TableWriteFails, Table
  <2>3. layout'.gen >= 1
    BY <1>1, <1>6 DEF TableWriteFails, GenInv, Table
  <2> QED
    BY <1>6, <2>1, <2>2, <2>3 DEF TableWriteFails, GenInv
<1> QED
  BY <1>2, <1>3, <1>4, <1>5, <1>6

LEMMA GenStep == ASSUME TypeOK, GenInv, [Next]_vars PROVE GenInv'
<1>1. CASE Boot
  <2>1. layout' = tables[SelectedTable] \/ layout' = BadTable
    BY <1>1 DEF Boot
  <2>2. \A e \in Entries : layout'.entry[e] # 0
    BY <2>1, SelectedTableType DEF GenInv, BadTable, NoEntries, Missing
  <2>3. pc = "idle"
    BY <1>1 DEF Boot, TypeOK
  <2> QED
    BY <1>1, <2>2, <2>3 DEF Boot, GenInv, flashVars
<1>2. CASE PowerCycle
  BY <1>2 DEF PowerCycle, GenInv, BadTable, NoEntries, Missing, flashVars
<1>3. CASE Step
  BY <1>3, GenUpdate, GenWriteTable DEF Step
<1>4. CASE UNCHANGED vars
  BY <1>4 DEF vars, flashVars, GenInv, Present
<1> QED
  BY <1>1, <1>2, <1>3, <1>4 DEF Next

LEMMA SafeStep ==
    ASSUME TypeOK, JobInv, RunningImageIntact, GenInv, SafeInv, [Next]_vars
    PROVE  SafeInv'
<1>1. CASE Boot
  <2>1. tables[SelectedTable].ok
    BY SelectedTableOk
  <2>2. booted'.table = SelectedTable
    BY <1>1 DEF Boot
  <2> QED
    BY <1>1, <2>1, <2>2 DEF Boot, SafeInv, flashVars
<1>2. CASE PowerCycle
  BY <1>2 DEF PowerCycle, SafeInv, flashVars
<1>3. CASE Step
  <2>1. run = "up"
    BY <1>3 DEF Step, TypeOK, StartUpdate, StartUpdateFails, WriteData, Abandon, Complete,
                EraseTable, WriteHeader, WriteEntry, FinishTable, TableWriteFails
  <2>2. booted.table \in Tables /\ booted.slot \in Slots
    BY <2>1 DEF TypeOK
  <2>3. tables'[booted.table] = tables[booted.table] /\ booted' = booted
    BY <1>3, <2>1, <2>2, StepKeepsTable, PassiveTableType DEF bootVars
  <2>4. image'["FW"][booted.slot] = "good"
    BY <1>3, <2>1, StepKeepsImage DEF RunningImageIntact
  <2> QED
    BY <2>1, <2>2, <2>3, <2>4 DEF SafeInv
<1>4. CASE UNCHANGED vars
  BY <1>4 DEF vars, flashVars, bootVars, SafeInv
<1> QED
  BY <1>1, <1>2, <1>3, <1>4 DEF Next

(* Images that are loaded to RAM: whenever power fails, boot2 finds a      *)
(* partition table and, unless that table was cut short, a firmware to     *)
(* start.                                                                  *)
THEOREM AlwaysBootable == Spec => [](Xip = FALSE => BootableUnlessTorn)
<1>1. Init => JobInv /\ RunningImageIntact /\ GenInv /\ SafeInv
  <2> SUFFICES ASSUME Init PROVE JobInv /\ RunningImageIntact /\ GenInv /\ SafeInv
    OBVIOUS
  <2>1. JobInv /\ RunningImageIntact
    BY DEF Init, JobInv, RunningImageIntact
  <2>2. GenInv
    BY DEF Init, GenInv, BadTable, NoEntries, Missing
  <2>3. tables[0].ok /\ image["FW"][0] = "good" /\ run = "off"
    BY DEF Init, Tables, Comps, Slots
  <2> QED
    BY <2>1, <2>2, <2>3 DEF SafeInv, Tables, Slots
<1>2. TypeOK /\ JobInv /\ GenInv /\ SafeInv /\ [Next]_vars => JobInv' /\ GenInv'
  BY JobStep, GenStep
<1>3. TypeOK /\ JobInv /\ RunningImageIntact /\ GenInv /\ SafeInv /\ [Next]_vars => SafeInv'
  BY SafeStep
<1>4. TypeOK /\ GenInv /\ SafeInv => (Xip = FALSE => BootableUnlessTorn)
  BY SafeBoots
<1> QED
  BY <1>1, <1>2, <1>3, <1>4, TypeCorrect, RunningImageSafe, PTL DEF Spec
----------------------------------------------------------------------------
(* An update that has been reported takes effect                           *)

\* The entries of the layout in memory prefer this firmware.
Newer(slot) == layout.entry[1 - slot] >= 1 /\ layout.entry[slot] > layout.entry[1 - slot]

\* The passive table is the layout in memory, up to an entry, and the newer one.
Written(upTo) ==
    /\ tables[PassiveTable].ok
    /\ tables[PassiveTable].gen = layout.gen
    /\ \A e \in Entries : e < upTo => tables[PassiveTable].entry[e] = layout.entry[e]

\* The layout in memory is never older than the table it was read from.
LayoutInv ==
    /\ run = "up" /\ layout.ok => layout.gen >= tables[booted.table].gen
    /\ pc # "idle" => layout.ok
    /\ pc \in {"header", "entries"} => layout.gen > tables[booted.table].gen

\* What the flash holds of an update, as long as none of its operations failed.
EffectInv ==
    /\ pc = "entries" /\ errs = 0 => Written(next)
    /\ pc \in {"erase", "header", "entries"} /\ job.comp = "FW" => Newer(job.slot)
    /\ activated # NoSlot =>
          /\ run = "up" /\ activated = 1 - booted.slot
          /\ Newer(activated)
          /\ pc \in {"idle", "download"} /\ errs = 0 =>
                Written(4) /\ layout.gen > tables[booted.table].gen

LEMMA LayoutStep == ASSUME TypeOK, LayoutInv, [Next]_vars PROVE LayoutInv'
<1>1. CASE Boot
  <2>1. pc' = "idle"
    BY <1>1 DEF Boot, TypeOK
  <2>2. layout'.ok => layout' = tables[booted'.table]
    BY <1>1 DEF Boot, BadTable
  <2>3. tables[SelectedTable].gen \in Nat /\ booted'.table = SelectedTable /\ tables' = tables
    BY <1>1, SelectedTableType DEF Boot, TypeOK, flashVars
  <2> QED
    BY <2>1, <2>2, <2>3 DEF LayoutInv
<1>2. CASE PowerCycle
  BY <1>2 DEF PowerCycle, LayoutInv
<1>3. CASE Step
  <2>1. run = "up" /\ booted' = booted /\ run' = run /\ tables'[booted.table] = tables[booted.table]
    <3>1. run = "up"
      BY <1>3 DEF Step, TypeOK, StartUpdate, StartUpdateFails, WriteData, Abandon, Complete,
                  EraseTable, WriteHeader, WriteEntry, FinishTable, TableWriteFails
    <3> QED
      BY <1>3, <3>1, StepKeepsTable, PassiveTableType DEF TypeOK, bootVars
  <2>2. layout \in Table /\ tables[booted.table].gen \in Nat
    BY <2>1 DEF TypeOK, Table, Entry
  <2>3. CASE EraseTable \/ TableWriteFails
    <3>1. /\ layout'.ok = layout.ok
          /\ \/ layout'.gen = layout.gen + 1
             \/ layout'.gen = layout.gen /\ pc \in {"header", "entries"}
      BY <2>2, <2>3 DEF EraseTable, TableWriteFails, Table
    <3>2. layout.gen \in Nat /\ pc # "idle"
      BY <2>2, <2>3 DEF EraseTable, TableWriteFails, Table
    <3> QED
      BY <2>1, <2>2, <3>1, <3>2 DEF LayoutInv
  <2>4. CASE Complete
    <3>1. layout'.ok = layout.ok /\ layout'.gen = layout.gen
      BY <2>2, <2>4 DEF Complete, Table
    <3> QED
      BY <2>1, <2>4, <3>1 DEF LayoutInv, Complete
  <2>5. CASE WriteHeader \/ WriteEntry \/ FinishTable \/ Abandon
    BY <2>1, <2>5 DEF LayoutInv, WriteHeader, WriteEntry, FinishTable, Abandon
  <2>6. ASSUME NEW comp \in Comps, StartUpdate(comp) \/ StartUpdateFails(comp)
        PROVE  LayoutInv'
    BY <2>1, <2>6 DEF LayoutInv, StartUpdate, StartUpdateFails
  <2>7. ASSUME NEW state \in {"partial", "good"}, WriteData(state) PROVE LayoutInv'
    BY <2>1, <2>7 DEF LayoutInv, WriteData
  <2> QED
    BY <1>3, <2>3, <2>4, <2>5, <2>6, <2>7 DEF Step
<1>4. CASE UNCHANGED vars
  BY <1>4 DEF vars, flashVars, bootVars, LayoutInv
<1> QED
  BY <1>1, <1>2, <1>3, <1>4 DEF Next

\* The layout of the new firmware in memory: its entry gets the higher generation.
LEMMA EffectComplete ==
    ASSUME TypeOK, JobInv, GenInv, EffectInv, Complete
    PROVE  EffectInv'
<1> DEFINE e == EntryOf(job.comp, job.slot)
           other == EntryOf(job.comp, 1 - job.slot)
<1>1. job.slot \in Slots /\ job.comp \in Comps /\ 1 - job.slot \in Slots
  BY DEF Complete, TypeOK, Slots
<1>2. e \in Entries /\ other \in Entries /\ e # other
  BY <1>1 DEF EntryOf, Entries, Slots
<1>3. layout.entry[other] \in Nat /\ layout.entry[other] >= 1
  BY <1>1, <1>2 DEF Complete, GenInv, Present, TypeOK, Missing
<1>4. layout.entry \in [Entries -> Nat \cup {Missing}] /\ layout \in Table
  BY DEF TypeOK, Table, Entry
<1>5. layout'.entry = [layout.entry EXCEPT ![e] = layout.entry[other] + 1]
  BY <1>4 DEF Complete, Table
<1>6. job.comp = "FW" => Newer(job.slot)'
  <2> SUFFICES ASSUME job.comp = "FW" PROVE Newer(job.slot)'
    OBVIOUS
  <2>1. e = job.slot /\ other = 1 - job.slot
    BY DEF EntryOf
  <2>2. layout'.entry[job.slot] = layout.entry[other] + 1 /\ layout'.entry[1 - job.slot] = layout.entry[other]
    BY <1>2, <1>4, <1>5, <2>1
  <2>3. job' = job
    BY DEF Complete
  <2> QED
    BY <1>3, <2>2, <2>3 DEF Newer
<1>7. activated # NoSlot => Newer(activated)'
  <2> SUFFICES ASSUME activated # NoSlot PROVE Newer(activated)'
    OBVIOUS
  <2>1. activated \in Slots /\ 1 - activated \in Slots /\ activated' = activated
    BY DEF TypeOK, Slots, Complete
  <2>2. CASE job.comp = "FW"
    <3>1. job.slot = activated
      BY <2>2 DEF JobInv, EffectInv, Complete
    <3> QED
      BY <1>6, <2>1, <2>2, <3>1 DEF Complete
  <2>3. CASE job.comp # "FW"
    <3>1. e >= 2 /\ activated \in Entries /\ 1 - activated \in Entries
      BY <1>1, <2>1, <2>3 DEF EntryOf, Slots, Entries
    <3>2. e # activated /\ e # 1 - activated
      BY <1>2, <2>1, <3>1 DEF Slots, Entries
    <3>3. layout'.entry[activated] = layout.entry[activated] /\ layout'.entry[1 - activated] = layout.entry[1 - activated]
      BY <1>2, <1>4, <1>5, <3>1, <3>2
    <3> QED
      BY <2>1, <3>3 DEF Newer, EffectInv
  <2> QED
    BY <2>2, <2>3
<1> QED
  BY <1>6, <1>7 DEF Complete, EffectInv, bootVars

\* The new table is written up to the entry reached.
LEMMA EffectWriteTable ==
    ASSUME TypeOK, JobInv, LayoutInv, EffectInv,
           EraseTable \/ WriteHeader \/ WriteEntry \/ FinishTable \/ TableWriteFails
    PROVE  EffectInv'
<1>1. tables \in [Tables -> Table] /\ layout \in Table
  BY DEF TypeOK, Table, Entry
<1>2. PassiveTable \in Tables /\ PassiveTable # booted.table /\ booted' = booted
  BY PassiveTableType DEF EraseTable, WriteHeader, WriteEntry, FinishTable, TableWriteFails,
                          bootVars
<1>3. PassiveTable' = PassiveTable
  BY <1>2 DEF PassiveTable
<1>4. CASE EraseTable
  <2>1. layout'.entry = layout.entry
    BY <1>1, <1>4 DEF EraseTable, Table
  <2> QED
    BY <1>2, <1>4, <2>1 DEF EraseTable, EffectInv, Newer, bootVars
<1>5. CASE WriteHeader
  <2>1. tables'[PassiveTable].ok /\ tables'[PassiveTable].gen = layout.gen
    BY <1>1, <1>2, <1>5 DEF WriteHeader, Table
  <2>2. Written(next)'
    BY <1>3, <1>5, <2>1 DEF WriteHeader, Written, Entries
  <2> QED
    BY <1>2, <1>5, <2>2 DEF WriteHeader, EffectInv, Newer, bootVars
<1>6. CASE WriteEntry
  <2>1. /\ tables'[PassiveTable].ok = tables[PassiveTable].ok
        /\ tables'[PassiveTable].gen = tables[PassiveTable].gen
        /\ \A e \in Entries : tables'[PassiveTable].entry[e]
              = IF e = next THEN layout.entry[next] ELSE tables[PassiveTable].entry[e]
    BY <1>1, <1>2, <1>6 DEF WriteEntry, Table, Entry
  <2>2. errs = 0 => Written(next)'
    <3> SUFFICES ASSUME errs = 0 PROVE Written(next)'
      OBVIOUS
    <3>1. Written(next) /\ next \in Entries /\ next' = next + 1 /\ layout' = layout
      BY <1>6 DEF WriteEntry, EffectInv
    <3>2. \A e \in Entries : e < next + 1 => e < next \/ e = next
      BY <3>1 DEF Entries
    <3> QED
      BY <1>3, <2>1, <3>1, <3>2 DEF Written
  <2> QED
    BY <1>2, <1>6, <2>2 DEF WriteEntry, EffectInv, Newer, bootVars, counters
<1>7. CASE FinishTable
  <2>1. errs = 0 => Written(4)' /\ layout.gen > tables[booted.table].gen
    BY <1>3, <1>7 DEF FinishTable, EffectInv, Written, LayoutInv, flashVars
  <2>2. CASE job.comp = "FW"
    <3>1. run = "up" /\ job.slot = 1 - booted.slot /\ Newer(job.slot)
      BY <1>7, <2>2 DEF FinishTable, TypeOK, JobInv, EffectInv
    <3> QED
      BY <1>2, <1>7, <2>1, <2>2, <3>1
      DEF FinishTable, EffectInv, Newer, bootVars, flashVars, counters
  <2>3. CASE job.comp # "FW"
    BY <1>2, <1>7, <2>1, <2>3
    DEF FinishTable, EffectInv, Newer, bootVars, flashVars, counters
  <2> QED
    BY <2>2, <2>3
<1>8. CASE TableWriteFails
  <2>1. layout'.entry = layout.entry /\ errs' # 0
    BY <1>1, <1>8 DEF TableWriteFails, Table, TypeOK
  <2> QED
    BY <1>2, <1>8, <2>1 DEF TableWriteFails, EffectInv, Newer, bootVars
<1> QED
  BY <1>4, <1>5, <1>6, <1>7, <1>8

LEMMA EffectStep ==
    ASSUME TypeOK, JobInv, GenInv, LayoutInv, EffectInv, [Next]_vars
    PROVE  EffectInv'
<1>1. CASE Boot
  <2>1. activated' = NoSlot /\ pc' = "idle"
    BY <1>1 DEF Boot, EffectInv, TypeOK
  <2> QED
    BY <2>1 DEF EffectInv
<1>2. CASE PowerCycle
  BY <1>2 DEF PowerCycle, EffectInv
<1>3. ASSUME NEW comp \in Comps, StartUpdate(comp) PROVE EffectInv'
  BY <1>3 DEF StartUpdate, EffectInv, Written, Newer, PassiveTable, bootVars
<1>4. ASSUME NEW comp \in Comps, StartUpdateFails(comp) PROVE EffectInv'
  BY <1>4 DEF StartUpdateFails, EffectInv, Written, Newer, PassiveTable, bootVars, TypeOK
<1>5. ASSUME NEW state \in {"partial", "good"}, WriteData(state) PROVE EffectInv'
  BY <1>5 DEF WriteData, EffectInv, Written, Newer, PassiveTable, bootVars, counters
<1>6. CASE Abandon
  BY <1>6 DEF Abandon, EffectInv, Written, Newer, PassiveTable, flashVars, bootVars, counters
<1>7. CASE UNCHANGED vars
  BY <1>7 DEF vars, flashVars, bootVars, counters, EffectInv, Written, Newer, PassiveTable
<1> QED
  BY <1>1, <1>2, <1>3, <1>4, <1>5, <1>6, <1>7, EffectComplete, EffectWriteTable DEF Next, Step

\* boot2 then selects the table written last, and the firmware it prefers.
LEMMA EffectBoots ==
    ASSUME TypeOK, SafeInv, EffectInv
    PROVE  UpdateTakesEffect
<1> SUFFICES ASSUME run = "up", pc = "idle", activated # NoSlot, errs = 0,
                    image["FW"][activated] = "good"
             PROVE  BootSlot(FALSE) = activated
  BY DEF UpdateTakesEffect
<1>1. Newer(activated) /\ Written(4) /\ layout.gen > tables[booted.table].gen
  BY DEF EffectInv
<1>2. booted.table \in Tables /\ tables[booted.table].ok /\ activated \in Slots
  BY DEF TypeOK, SafeInv, Slots
<1>3. TableGen(PassiveTable) = layout.gen /\ TableGen(booted.table) = tables[booted.table].gen
  BY <1>1, <1>2 DEF Written, TableGen
<1>4. layout.gen \in Nat /\ tables[booted.table].gen \in Nat
  BY <1>2 DEF TypeOK
<1>5. SelectedTable = PassiveTable
  <2>1. CASE booted.table = 0
    BY <1>1, <1>3, <1>4, <2>1 DEF PassiveTable, SelectedTable
  <2>2. CASE booted.table = 1
    BY <1>1, <1>3, <1>4, <2>2 DEF PassiveTable, SelectedTable
  <2> QED
    BY <1>2, <2>1, <2>2 DEF Tables
<1>6. tables[SelectedTable].ok
  BY <1>1, <1>5 DEF Written
<1>7. \A s \in Slots : tables[SelectedTable].entry[s] = layout.entry[s]
  BY <1>1, <1>5 DEF Written, Slots, Entries
<1>8. \A s \in Slots : layout.entry[s] \in Nat \cup {Missing} /\ 1 - s \in Slots
  BY DEF TypeOK, Slots, Entries
<1>9. /\ layout.entry[activated] >= 1 /\ layout.entry[1 - activated] >= 1
      /\ layout.entry[activated] > layout.entry[1 - activated]
  BY <1>1, <1>2, <1>8 DEF Newer, Missing
<1>10. /\ FirmwareGen(SelectedTable, activated) = layout.entry[activated]
       /\ FirmwareGen(SelectedTable, 1 - activated) = layout.entry[1 - activated]
  BY <1>2, <1>7, <1>8, <1>9 DEF FirmwareGen, Missing
<1>11. MainSlot = activated
  <2>1. CASE activated = 0
    BY <1>2, <1>6, <1>8, <1>9, <1>10, <2>1 DEF MainSlot, Missing
  <2>2. CASE activated = 1
    BY <1>2, <1>6, <1>8, <1>9, <1>10, <2>2 DEF MainSlot, Missing
  <2> QED
    BY <1>2, <2>1, <2>2 DEF Slots
<1>12. Usable(activated) /\ Starts(activated) /\ ~Hangs(activated)
  BY <1>6, <1>9, <1>10 DEF Usable, Starts, Hangs
<1> QED
  BY <1>11, <1>12 DEF BootSlot

(* Once part_set_active_partition has reported an update, and no flash     *)
(* operation failed, boot2 selects the table it wrote and the firmware it  *)
(* wrote, whatever updates of either component preceded or followed it and *)
(* however often power failed before.                                      *)
THEOREM ReportedUpdateBoots == Spec => []UpdateTakesEffect
<1>1. Init => JobInv /\ GenInv /\ SafeInv /\ LayoutInv /\ EffectInv
  <2> SUFFICES ASSUME Init PROVE JobInv /\ GenInv /\ SafeInv /\ LayoutInv /\ EffectInv
    OBVIOUS
  <2>1. JobInv /\ LayoutInv /\ EffectInv
    BY DEF Init, JobInv, LayoutInv, EffectInv
  <2>2. GenInv
    BY DEF Init, GenInv, BadTable, NoEntries, Missing
  <2>3. tables[0].ok /\ image["FW"][0] = "good" /\ run = "off"
    BY DEF Init, Tables, Comps, Slots
  <2> QED
    BY <2>1, <2>2, <2>3 DEF SafeInv, Tables, Slots
<1>2. TypeOK /\ JobInv /\ GenInv /\ LayoutInv /\ EffectInv /\ [Next]_vars
        => JobInv' /\ GenInv' /\ LayoutInv' /\ EffectInv'
  BY JobStep, GenStep, LayoutStep, EffectStep
<1>3. TypeOK /\ JobInv /\ RunningImageIntact /\ GenInv /\ SafeInv /\ [Next]_vars => SafeInv'
  BY SafeStep
<1>4. TypeOK /\ SafeInv /\ EffectInv => UpdateTakesEffect
  BY EffectBoots
<1> QED
  BY <1>1, <1>2, <1>3, <1>4, TypeCorrect, RunningImageSafe, PTL DEF Spec
============================================================================
