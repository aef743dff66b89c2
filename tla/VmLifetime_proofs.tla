------------------------- MODULE VmLifetime_proofs -------------------------
(***************************************************************************)
(* Machine-checked proofs about VmLifetime, for every set of boot orders   *)
(* and images and every value of the bounds.                               *)
(***************************************************************************)
EXTENDS VmLifetime, TLAPS

USE OrdersAssumption, ImagesAssumption, LimitsAssumption

-----------------------------------------------------------------------------
(* Where the session and the Machine are at every place of the VM thread.  *)

\* No Machine and no session.
Ended == st # "Running" /\ sess = NoImage /\ ram = NoOrder /\ ~stuck /\ ~disk

\* A Machine with the lifetime's disk.
Runs == st = "Running" /\ ram # NoOrder /\ sess = ltpath /\ (disk <=> sess # NoImage)

\* A session that is open and not yet, or no longer, with a Machine.
Detached == sess = ltpath /\ ~stuck /\ ~disk

\* The commands that keep the session over a new Machine.
Resets == {"Reset", "Guest_Reset"}

\* Places of commands that find no Machine.
WithoutMachine == {"down", "open", "bind_early", "stage", "bind", "apply",
                   "save_previous", "save_candidate", "save_pending", "remove"}

\* One conjunct per place, or group of places, of the VM thread.
Places ==
    /\ pc = "idle" => (Ended \/ Runs) /\ (stuck => frozen)
    /\ pc \in WithoutMachine => Ended
    /\ pc \in WithoutMachine \ {"down", "open", "remove"} => op = "Install"
    /\ pc = "remove" => op = "Abandon"
    /\ pc = "save_start" => IF op = "Start" THEN Ended ELSE op = "Reset" /\ Runs
    /\ pc = "save_launch" => IF op = "Reset" THEN Runs ELSE op # "Guest_Reset" /\ Ended
    /\ pc = "open" => op \notin Resets
    /\ pc \in {"barrier", "close", "save_reset"} => Runs
    /\ pc = "barrier" => op \in Resets
    /\ pc = "close" => op \notin Resets
    /\ pc = "save_reset" => op = "Guest_Reset"
    /\ pc = "shutdown" => /\ ram # NoOrder /\ ~stuck /\ ~disk
                          /\ sess = (IF op \in Resets THEN ltpath ELSE NoImage)
    /\ pc = "boot" => Detached /\ ram = NoOrder
    /\ pc = "configure" => Detached /\ ram # NoOrder
    /\ pc = "boot_failed" => Detached
    /\ pc = "rollback" => op = "Guest_Reset" /\ (Ended \/ Runs)
    /\ pc \in {"finish_cmos", "finish_state"} =>
           IF op = "Abandon" THEN Ended ELSE Runs /\ ~stuck

\* The tuples of the UNCHANGED lists, and the ends of steps.
USE DEF life, cmos, install, storage, past, bounds, Goto, Done, Fault, NoFault

-----------------------------------------------------------------------------
(* Types.                                                                  *)

\* A preparation has an image.
Selected ==
    pc \in {"bind_early", "stage", "bind", "apply", "save_candidate"} => path # NoImage

\* The records that the steps make are install states.
LEMMA InactiveTyped == Inactive \in Install_State
BY DEF Inactive, Install_State, Phases

\* The fields of an install state.
LEMMA FieldsTyped ==
    ASSUME NEW s \in Install_State
    PROVE  /\ s.phase \in Phases /\ s.image \in Images \cup {NoImage}
           /\ s.resets \in 0..MaxResets /\ s.order \in Orders \cup {NoOrder}
BY DEF Install_State

\* Its updates.
LEMMA UpdatesTyped ==
    ASSUME NEW s \in Install_State
    PROVE  /\ \A p \in Phases : [s EXCEPT !.phase = p] \in Install_State
           /\ \A o \in Orders \cup {NoOrder} : [s EXCEPT !.order = o] \in Install_State
           /\ s.resets < MaxResets => [s EXCEPT !.resets = @ + 1] \in Install_State
BY DEF Install_State

\* The state that binds the selected image.
LEMMA CandidateTyped == TypeOK => Candidate \in Install_State
BY DEF TypeOK, Candidate, Install_State, Phases

\* What a saved state reads back as.
LEMMA WrittenTyped ==
    ASSUME NEW s \in Install_State, NEW t \in Written(s)
    PROVE  t \in Install_File
BY DEF Written, Install_State, Install_File

\* What was read is an install state.
LEMMA ReadTyped ==
    ASSUME NEW s \in Install_File
    PROVE  Readable(s) => s \in Install_State
<1> SUFFICES ASSUME Readable(s) PROVE s \in Install_State
  OBVIOUS
<1>1. s.image \in Images \cup {NoImage}
  BY DEF Readable, Install_File
<1>2. s = [phase |-> s.phase, image |-> s.image, resets |-> s.resets, order |-> s.order]
  BY DEF Install_File
<1>3. s.phase \in Phases /\ s.resets \in 0..MaxResets /\ s.order \in Orders \cup {NoOrder}
  BY DEF Install_File
<1> QED BY <1>1, <1>2, <1>3 DEF Install_State

\* The types hold at first.
LEMMA InitTyped == Init => TypeOK /\ Selected
<1> SUFFICES ASSUME Init PROVE TypeOK /\ Selected
  OBVIOUS
<1>1. user \in SUBSET Orders
  BY DEF Init
<1>2. prep \in [Images -> {"Clean", "Dirty", "Prepared"}] /\ enrolled \in SUBSET Images
  BY DEF Init
<1>3. crashes \in 0..MaxCrashes /\ faults \in 0..MaxFaults
  BY DEF Init
<1>4. /\ sess \in Images \cup {NoImage} /\ ltpath \in Images \cup {NoImage}
      /\ path \in Images \cup {NoImage}
      /\ ram \in Orders \cup {NoOrder} /\ mem \in Orders \cup {NoOrder}
      /\ cmosFile \in Orders \cup {NoOrder}
  BY DEF Init
<1>5. /\ pc \in Controls /\ op \in Commands /\ st \in {"Stopped", "Running", "Recovery"}
      /\ Selected
  BY DEF Init, Controls, Commands, Selected
<1>6. /\ stuck \in BOOLEAN /\ disk \in BOOLEAN /\ kept \in BOOLEAN
      /\ started \in BOOLEAN /\ frozen \in BOOLEAN /\ invalid \in BOOLEAN
      /\ lost \in BOOLEAN
  BY DEF Init
<1>7. inst \in Install_State /\ txn \in Install_State /\ instFile \in Install_File
  BY InactiveTyped DEF Init, Install_State, Install_File
<1> QED BY <1>1, <1>2, <1>3, <1>4, <1>5, <1>6, <1>7 DEF TypeOK

\* Every step keeps the types.
LEMMA StepTyped == ASSUME TypeOK, Selected, [Next]_vars PROVE TypeOK'
<1>1. CASE Launch
  <2>1. /\ pc' \in Controls /\ op' \in Commands
        /\ st' \in {"Stopped", "Running", "Recovery"}
    BY <1>1 DEF TypeOK, Launch, Controls, Commands
  <2>2. /\ stuck' \in BOOLEAN /\ disk' \in BOOLEAN /\ kept' \in BOOLEAN
        /\ started' \in BOOLEAN /\ frozen' \in BOOLEAN /\ invalid' \in BOOLEAN
    BY <1>1 DEF TypeOK, Launch
  <2>3. sess' \in Images \cup {NoImage} /\ ltpath' \in Images \cup {NoImage}
    BY <1>1 DEF TypeOK, Launch
  <2>4. ram' \in Orders \cup {NoOrder} /\ mem' \in Orders \cup {NoOrder}
    BY <1>1 DEF TypeOK, Launch
  <2>5. inst' \in Install_State /\ txn' \in Install_State
    BY <1>1, InactiveTyped, ReadTyped DEF TypeOK, Launch
  <2> QED BY <1>1, <2>1, <2>2, <2>3, <2>4, <2>5 DEF TypeOK, Launch
<1>2. CASE Crash
  <2>1. /\ pc' \in Controls /\ op' \in Commands
        /\ st' \in {"Stopped", "Running", "Recovery"}
    BY <1>2 DEF TypeOK, Crash, Controls, Commands
  <2>2. /\ stuck' \in BOOLEAN /\ disk' \in BOOLEAN /\ kept' \in BOOLEAN
        /\ started' \in BOOLEAN /\ frozen' \in BOOLEAN /\ invalid' \in BOOLEAN
    BY <1>2 DEF TypeOK, Crash
  <2>3. sess' \in Images \cup {NoImage} /\ ltpath' \in Images \cup {NoImage}
    BY <1>2 DEF TypeOK, Crash
  <2>4. ram' \in Orders \cup {NoOrder} /\ mem' \in Orders \cup {NoOrder}
    BY <1>2 DEF TypeOK, Crash
  <2>5. inst' \in Install_State /\ txn' \in Install_State
    BY <1>2, InactiveTyped DEF TypeOK, Crash
  <2>6. prep' \in [Images -> {"Clean", "Dirty", "Prepared"}]
    BY <1>2 DEF TypeOK, Crash
  <2>7. crashes' \in 0..MaxCrashes
    BY <1>2 DEF TypeOK, Crash
  <2> QED BY <1>2, <2>1, <2>2, <2>3, <2>4, <2>5, <2>6, <2>7 DEF TypeOK, Crash
<1>3. CASE Select
  <2>1. path' \in Images \cup {NoImage}
    BY <1>3 DEF TypeOK, Select
  <2> QED BY <1>3, <2>1 DEF TypeOK, Select
<1>4. CASE Start
  <2>1. pc' \in Controls /\ op' \in Commands
    BY <1>4 DEF TypeOK, Start, Controls, Commands
  <2>2. frozen' \in BOOLEAN
    BY <1>4 DEF TypeOK, Start
  <2> QED BY <1>4, <2>1, <2>2 DEF TypeOK, Start
<1>5. CASE Reset
  <2>1. pc' \in Controls /\ op' \in Commands
    BY <1>5 DEF TypeOK, Reset, Controls, Commands
  <2>2. frozen' \in BOOLEAN
    BY <1>5 DEF TypeOK, Reset
  <2> QED BY <1>5, <2>1, <2>2 DEF TypeOK, Reset
<1>6. CASE SaveStart
  <2>1. pc' \in Controls /\ op' \in Commands
    BY <1>6 DEF TypeOK, SaveStart, Controls, Commands
  <2>2. frozen' \in BOOLEAN
    BY <1>6 DEF TypeOK, SaveStart
  <2>3. instFile' \in Install_File
    BY <1>6, WrittenTyped DEF TypeOK, SaveStart, SaveInstall, SaveInstallFails
  <2>4. faults' \in 0..MaxFaults
    BY <1>6 DEF TypeOK, SaveStart, SaveInstall, SaveInstallFails
  <2> QED BY <1>6, <2>1, <2>2, <2>3, <2>4 DEF TypeOK, SaveStart
<1>7. CASE SaveLaunch
  <2>1. pc' \in Controls /\ op' \in Commands
    BY <1>7 DEF TypeOK, SaveLaunch, Controls, Commands
  <2>2. frozen' \in BOOLEAN
    BY <1>7 DEF TypeOK, SaveLaunch
  <2>3. inst' \in Install_State /\ instFile' \in Install_File
    BY <1>7, UpdatesTyped, WrittenTyped DEF TypeOK, SaveLaunch, SaveInstall,
       SaveInstallFails, Phases
  <2>4. faults' \in 0..MaxFaults
    BY <1>7 DEF TypeOK, SaveLaunch, SaveInstall, SaveInstallFails
  <2> QED BY <1>7, <2>1, <2>2, <2>3, <2>4 DEF TypeOK, SaveLaunch
<1>8. CASE Open
  <2>1. pc' \in Controls /\ op' \in Commands
    BY <1>8 DEF TypeOK, Open, Controls, Commands
  <2>2. frozen' \in BOOLEAN
    BY <1>8 DEF TypeOK, Open
  <2>3. sess' \in Images \cup {NoImage}
    BY <1>8 DEF TypeOK, Open
  <2>4. faults' \in 0..MaxFaults
    BY <1>8 DEF TypeOK, Open
  <2> QED BY <1>8, <2>1, <2>2, <2>3, <2>4 DEF TypeOK, Open
<1>9. CASE Boot
  <2>1. pc' \in Controls /\ op' \in Commands
    BY <1>9 DEF TypeOK, Boot, Controls, Commands
  <2>2. kept' \in BOOLEAN
    BY <1>9 DEF TypeOK, Boot
  <2>3. ram' \in Orders \cup {NoOrder}
    BY <1>9 DEF TypeOK, Boot
  <2>4. faults' \in 0..MaxFaults
    BY <1>9 DEF TypeOK, Boot
  <2> QED BY <1>9, <2>1, <2>2, <2>3, <2>4 DEF TypeOK, Boot
<1>10. CASE Configure
  <2>1. /\ pc' \in Controls /\ op' \in Commands
        /\ st' \in {"Stopped", "Running", "Recovery"}
    BY <1>10 DEF TypeOK, Configure, Booted, BootFails, SaveInstallFails, Controls,
       Commands
  <2>2. disk' \in BOOLEAN /\ started' \in BOOLEAN /\ frozen' \in BOOLEAN
    BY <1>10 DEF TypeOK, Configure, Booted, BootFails, SaveInstallFails
  <2>3. ram' \in Orders \cup {NoOrder}
    BY <1>10 DEF TypeOK, Configure
  <2>4. inst' \in Install_State /\ instFile' \in Install_File
    <3>1. [inst EXCEPT !.order = ram] \in Install_State
      BY UpdatesTyped DEF TypeOK
    <3>2. CASE inst' = inst /\ instFile' = instFile
      BY <3>2 DEF TypeOK
    <3>3. CASE inst' = [inst EXCEPT !.order = ram] /\ instFile' \in Written(inst')
      BY <3>1, <3>3, WrittenTyped
    <3> QED BY <1>10, <3>2, <3>3 DEF Configure, SaveInstallFails
  <2>5. faults' \in 0..MaxFaults
    BY <1>10 DEF TypeOK, Configure, Booted, BootFails, SaveInstallFails
  <2> QED BY <1>10, <2>1, <2>2, <2>3, <2>4, <2>5 DEF TypeOK, Configure
<1>11. CASE BootFailed
  <2>1. /\ pc' \in Controls /\ op' \in Commands
        /\ st' \in {"Stopped", "Running", "Recovery"}
    BY <1>11 DEF TypeOK, BootFailed, Controls, Commands
  <2>2. /\ stuck' \in BOOLEAN /\ disk' \in BOOLEAN /\ kept' \in BOOLEAN
        /\ frozen' \in BOOLEAN
    BY <1>11 DEF TypeOK, BootFailed, ShutdownMachine, ReleaseSession, SaveCmos,
       SaveCmosFails
  <2>3. sess' \in Images \cup {NoImage}
    BY <1>11 DEF TypeOK, BootFailed, ShutdownMachine, ReleaseSession, SaveCmos,
       SaveCmosFails
  <2>4. /\ ram' \in Orders \cup {NoOrder} /\ mem' \in Orders \cup {NoOrder}
        /\ cmosFile' \in Orders \cup {NoOrder}
    BY <1>11 DEF TypeOK, BootFailed, ShutdownMachine, ReleaseSession, SaveCmos,
       SaveCmosFails
  <2>5. user' \in SUBSET Orders
    BY <1>11 DEF TypeOK, BootFailed, ShutdownMachine, ReleaseSession, SaveCmos,
       SaveCmosFails
  <2>6. faults' \in 0..MaxFaults
    BY <1>11 DEF TypeOK, BootFailed, ShutdownMachine, ReleaseSession, SaveCmos,
       SaveCmosFails
  <2> QED BY <1>11, <2>1, <2>2, <2>3, <2>4, <2>5, <2>6 DEF TypeOK, BootFailed
<1>12. CASE Barrier
  <2>1. pc' \in Controls /\ op' \in Commands
    BY <1>12 DEF TypeOK, Barrier, Controls, Commands
  <2>2. stuck' \in BOOLEAN /\ disk' \in BOOLEAN /\ frozen' \in BOOLEAN
    <3>1. stuck' \in BOOLEAN
      BY <1>12 DEF TypeOK, Barrier
    <3>2. disk' \in BOOLEAN /\ frozen' \in BOOLEAN
      BY <1>12 DEF TypeOK, Barrier
    <3> QED BY <3>1, <3>2
  <2>3. faults' \in 0..MaxFaults
    <3>1. UNCHANGED faults \/ (faults < MaxFaults /\ faults' = faults + 1)
      BY <1>12, Zenon DEF Barrier
    <3> QED BY <3>1 DEF TypeOK
  <2> QED BY <1>12, <2>1, <2>2, <2>3 DEF TypeOK, Barrier
<1>13. CASE Stop
  <2>1. pc' \in Controls /\ op' \in Commands
    BY <1>13 DEF TypeOK, Stop, CloseFor, Controls, Commands
  <2>2. frozen' \in BOOLEAN
    BY <1>13 DEF TypeOK, Stop, CloseFor
  <2> QED BY <1>13, <2>1, <2>2 DEF TypeOK, Stop
<1>14. CASE Exit
  <2>1. pc' \in Controls /\ op' \in Commands
    BY <1>14 DEF TypeOK, Exit, CloseFor, Controls, Commands
  <2>2. frozen' \in BOOLEAN
    BY <1>14 DEF TypeOK, Exit, CloseFor
  <2> QED BY <1>14, <2>1, <2>2 DEF TypeOK, Exit
<1>15. CASE GuestPowersOff
  <2>1. pc' \in Controls /\ op' \in Commands
    BY <1>15 DEF TypeOK, GuestPowersOff, CloseFor, Controls, Commands
  <2>2. frozen' \in BOOLEAN
    BY <1>15 DEF TypeOK, GuestPowersOff, CloseFor
  <2> QED BY <1>15, <2>1, <2>2 DEF TypeOK, GuestPowersOff
<1>16. CASE Close
  <2>1. pc' \in Controls /\ op' \in Commands
    BY <1>16 DEF TypeOK, Close, Controls, Commands
  <2>2. stuck' \in BOOLEAN /\ disk' \in BOOLEAN /\ frozen' \in BOOLEAN
    <3>1. stuck' \in BOOLEAN
      BY <1>16 DEF TypeOK, Close
    <3>2. disk' \in BOOLEAN /\ frozen' \in BOOLEAN
      BY <1>16 DEF TypeOK, Close
    <3> QED BY <3>1, <3>2
  <2>3. sess' \in Images \cup {NoImage}
    BY <1>16 DEF TypeOK, Close
  <2>4. faults' \in 0..MaxFaults
    <3>1. UNCHANGED faults \/ (faults < MaxFaults /\ faults' = faults + 1)
      BY <1>16, Zenon DEF Close
    <3> QED BY <3>1 DEF TypeOK
  <2> QED BY <1>16, <2>1, <2>2, <2>3, <2>4 DEF TypeOK, Close
<1>17. CASE Shutdown
  <2>1. /\ pc' \in Controls /\ op' \in Commands
        /\ st' \in {"Stopped", "Running", "Recovery"}
    BY <1>17 DEF TypeOK, Shutdown, Controls, Commands
  <2>2. disk' \in BOOLEAN /\ kept' \in BOOLEAN /\ frozen' \in BOOLEAN
    BY <1>17 DEF TypeOK, Shutdown, ShutdownMachine, SaveCmos, SaveCmosFails
  <2>3. /\ ram' \in Orders \cup {NoOrder} /\ mem' \in Orders \cup {NoOrder}
        /\ cmosFile' \in Orders \cup {NoOrder}
    BY <1>17 DEF TypeOK, Shutdown, ShutdownMachine, SaveCmos, SaveCmosFails
  <2>4. user' \in SUBSET Orders
    BY <1>17 DEF TypeOK, Shutdown, ShutdownMachine, SaveCmos, SaveCmosFails
  <2>5. faults' \in 0..MaxFaults
    BY <1>17 DEF TypeOK, Shutdown, ShutdownMachine, SaveCmos, SaveCmosFails
  <2> QED BY <1>17, <2>1, <2>2, <2>3, <2>4, <2>5 DEF TypeOK, Shutdown
<1>18. CASE GuestSetsOrder
  <2>1. ram' \in Orders \cup {NoOrder}
    BY <1>18 DEF TypeOK, GuestSetsOrder
  <2> QED BY <1>18, <2>1 DEF TypeOK, GuestSetsOrder, GuestRuns
<1>19. CASE StorageFails
  <2>1. stuck' \in BOOLEAN /\ frozen' \in BOOLEAN
    BY <1>19 DEF TypeOK, StorageFails
  <2>2. faults' \in 0..MaxFaults
    BY <1>19 DEF TypeOK, StorageFails
  <2> QED BY <1>19, <2>1, <2>2 DEF TypeOK, StorageFails, GuestRuns
<1>20. CASE MachineFreezes
  <2>1. frozen' \in BOOLEAN
    BY <1>20 DEF TypeOK, MachineFreezes
  <2>2. faults' \in 0..MaxFaults
    BY <1>20 DEF TypeOK, MachineFreezes
  <2> QED BY <1>20, <2>1, <2>2 DEF TypeOK, MachineFreezes, GuestRuns
<1>21. CASE GuestResets
  <2>1. pc' \in Controls /\ op' \in Commands
    BY <1>21 DEF TypeOK, GuestResets, GuestRuns, Controls, Commands
  <2>2. frozen' \in BOOLEAN
    BY <1>21 DEF TypeOK, GuestResets
  <2>3. inst' \in Install_State /\ txn' \in Install_State
    BY <1>21, UpdatesTyped DEF TypeOK, GuestResets
  <2> QED BY <1>21, <2>1, <2>2, <2>3 DEF TypeOK, GuestResets, GuestRuns
<1>22. CASE SaveReset
  <2>1. pc' \in Controls /\ op' \in Commands
    BY <1>22 DEF TypeOK, SaveReset, Controls, Commands
  <2>2. frozen' \in BOOLEAN
    BY <1>22 DEF TypeOK, SaveReset
  <2>3. inst' \in Install_State /\ instFile' \in Install_File
    BY <1>22, WrittenTyped DEF TypeOK, SaveReset, SaveInstall, SaveInstallFails
  <2>4. faults' \in 0..MaxFaults
    BY <1>22 DEF TypeOK, SaveReset, SaveInstall, SaveInstallFails
  <2> QED BY <1>22, <2>1, <2>2, <2>3, <2>4 DEF TypeOK, SaveReset
<1>23. CASE Rollback
  <2>1. pc' \in Controls /\ op' \in Commands
    BY <1>23 DEF TypeOK, Rollback, Controls, Commands
  <2>2. frozen' \in BOOLEAN
    BY <1>23 DEF TypeOK, Rollback
  <2>3. inst' \in Install_State /\ instFile' \in Install_File
    BY <1>23, WrittenTyped DEF TypeOK, Rollback, SaveInstall, SaveInstallFails
  <2>4. faults' \in 0..MaxFaults
    BY <1>23 DEF TypeOK, Rollback, SaveInstall, SaveInstallFails
  <2> QED BY <1>23, <2>1, <2>2, <2>3, <2>4 DEF TypeOK, Rollback
<1>24. CASE Install
  <2>1. pc' \in Controls /\ op' \in Commands
    BY <1>24 DEF TypeOK, Install, InstallAccepted, Controls, Commands
  <2>2. frozen' \in BOOLEAN
    BY <1>24 DEF TypeOK, Install, InstallAccepted
  <2> QED BY <1>24, <2>1, <2>2 DEF TypeOK, Install
<1>25. CASE BindEarly
  <2>1. pc' \in Controls /\ op' \in Commands
    BY <1>25 DEF TypeOK, BindEarly, Controls, Commands
  <2>2. frozen' \in BOOLEAN
    BY <1>25 DEF TypeOK, BindEarly
  <2>3. inst' \in Install_State /\ instFile' \in Install_File
    BY <1>25, CandidateTyped, WrittenTyped DEF TypeOK, BindEarly, SaveInstall,
       SaveInstallFails
  <2>4. faults' \in 0..MaxFaults
    BY <1>25 DEF TypeOK, BindEarly, SaveInstall, SaveInstallFails
  <2> QED BY <1>25, <2>1, <2>2, <2>3, <2>4 DEF TypeOK, BindEarly
<1>26. CASE Stage
  <2>1. pc' \in Controls /\ op' \in Commands
    BY <1>26 DEF TypeOK, Stage, Controls, Commands
  <2>2. frozen' \in BOOLEAN
    BY <1>26 DEF TypeOK, Stage
  <2>3. prep' \in [Images -> {"Clean", "Dirty", "Prepared"}]
    BY <1>26 DEF TypeOK, Stage
  <2>4. faults' \in 0..MaxFaults
    BY <1>26 DEF TypeOK, Stage
  <2> QED BY <1>26, <2>1, <2>2, <2>3, <2>4 DEF TypeOK, Stage
<1>27. CASE Bind
  <2>1. pc' \in Controls /\ op' \in Commands
    BY <1>27 DEF TypeOK, Bind, Controls, Commands
  <2>2. inst' \in Install_State /\ instFile' \in Install_File
    BY <1>27, CandidateTyped, WrittenTyped DEF TypeOK, Bind, SaveInstall,
       SaveInstallFails
  <2>3. faults' \in 0..MaxFaults
    BY <1>27 DEF TypeOK, Bind, SaveInstall, SaveInstallFails
  <2> QED BY <1>27, <2>1, <2>2, <2>3 DEF TypeOK, Bind
<1>28. CASE Apply
  <2>1. pc' \in Controls /\ op' \in Commands
    BY <1>28 DEF TypeOK, Apply, Controls, Commands
  <2>2. frozen' \in BOOLEAN
    BY <1>28 DEF TypeOK, Apply
  <2>3. /\ prep' \in [Images -> {"Clean", "Dirty", "Prepared"}]
        /\ enrolled' \in SUBSET Images
    <3>1. path \in Images
      BY <1>28 DEF Apply, Selected, TypeOK
    <3> QED BY <1>28, <3>1 DEF TypeOK, Apply
  <2>4. faults' \in 0..MaxFaults
    BY <1>28 DEF TypeOK, Apply
  <2> QED BY <1>28, <2>1, <2>2, <2>3, <2>4 DEF TypeOK, Apply
<1>29. CASE SavePrevious
  <2>1. pc' \in Controls /\ op' \in Commands
    BY <1>29 DEF TypeOK, SavePrevious, Controls, Commands
  <2>2. frozen' \in BOOLEAN
    BY <1>29 DEF TypeOK, SavePrevious
  <2>3. inst' \in Install_State /\ instFile' \in Install_File
    BY <1>29, InactiveTyped, WrittenTyped DEF TypeOK, SavePrevious, SaveInstall,
       SaveInstallFails
  <2>4. faults' \in 0..MaxFaults
    BY <1>29 DEF TypeOK, SavePrevious, SaveInstall, SaveInstallFails
  <2> QED BY <1>29, <2>1, <2>2, <2>3, <2>4 DEF TypeOK, SavePrevious
<1>30. CASE SaveCandidate
  <2>1. pc' \in Controls /\ op' \in Commands
    BY <1>30 DEF TypeOK, SaveCandidate, Controls, Commands
  <2>2. frozen' \in BOOLEAN
    BY <1>30 DEF TypeOK, SaveCandidate
  <2>3. inst' \in Install_State /\ instFile' \in Install_File
    BY <1>30, CandidateTyped, WrittenTyped DEF TypeOK, SaveCandidate, SaveInstall,
       SaveInstallFails
  <2>4. enrolled' \in SUBSET Images
    <3>1. path \in Images
      BY <1>30 DEF SaveCandidate, Selected, TypeOK
    <3> QED BY <1>30, <3>1 DEF TypeOK, SaveCandidate, SaveInstall, SaveInstallFails
  <2>5. faults' \in 0..MaxFaults
    BY <1>30 DEF TypeOK, SaveCandidate, SaveInstall, SaveInstallFails
  <2> QED BY <1>30, <2>1, <2>2, <2>3, <2>4, <2>5 DEF TypeOK, SaveCandidate
<1>31. CASE SavePending
  <2>1. pc' \in Controls /\ op' \in Commands
    BY <1>31 DEF TypeOK, SavePending, Controls, Commands
  <2>2. frozen' \in BOOLEAN
    BY <1>31 DEF TypeOK, SavePending
  <2>3. inst' \in Install_State /\ instFile' \in Install_File
    BY <1>31, UpdatesTyped, WrittenTyped DEF TypeOK, SavePending, SaveInstall,
       SaveInstallFails, Phases
  <2>4. faults' \in 0..MaxFaults
    BY <1>31 DEF TypeOK, SavePending, SaveInstall, SaveInstallFails
  <2> QED BY <1>31, <2>1, <2>2, <2>3, <2>4 DEF TypeOK, SavePending
<1>32. CASE Abandon
  <2>1. pc' \in Controls /\ op' \in Commands
    BY <1>32 DEF TypeOK, Abandon, Controls, Commands
  <2>2. frozen' \in BOOLEAN /\ invalid' \in BOOLEAN
    BY <1>32 DEF TypeOK, Abandon
  <2>3. instFile' \in Install_File
    BY <1>32, InactiveTyped, WrittenTyped DEF TypeOK, Abandon, SaveInstall,
       SaveInstallFails
  <2>4. faults' \in 0..MaxFaults
    BY <1>32 DEF TypeOK, Abandon, SaveInstall, SaveInstallFails
  <2> QED BY <1>32, <2>1, <2>2, <2>3, <2>4 DEF TypeOK, Abandon
<1>33. CASE Remove
  <2>1. pc' \in Controls /\ op' \in Commands
    BY <1>33 DEF TypeOK, Remove, Controls, Commands
  <2>2. frozen' \in BOOLEAN
    BY <1>33 DEF TypeOK, Remove
  <2>3. prep' \in [Images -> {"Clean", "Dirty", "Prepared"}]
    BY <1>33 DEF TypeOK, Remove
  <2>4. faults' \in 0..MaxFaults
    BY <1>33 DEF TypeOK, Remove
  <2> QED BY <1>33, <2>1, <2>2, <2>3, <2>4 DEF TypeOK, Remove
<1>34. CASE SetupCompletes
  <2>1. pc' \in Controls /\ op' \in Commands
    BY <1>34 DEF TypeOK, SetupCompletes, GuestRuns, Controls, Commands
  <2> QED BY <1>34, <2>1 DEF TypeOK, SetupCompletes, GuestRuns
<1>35. CASE FinishCmos
  <2>1. pc' \in Controls /\ op' \in Commands
    BY <1>35 DEF TypeOK, FinishCmos, Controls, Commands
  <2>2. frozen' \in BOOLEAN
    BY <1>35 DEF TypeOK, FinishCmos
  <2>3. cmosFile' \in Orders \cup {NoOrder}
    BY <1>35, FieldsTyped DEF TypeOK, FinishCmos, Current, SaveCmos, Restored,
       SaveCmosFails
  <2>4. user' \in SUBSET Orders
    BY <1>35, FieldsTyped DEF TypeOK, FinishCmos, Current, SaveCmos, Restored,
       SaveCmosFails
  <2>5. faults' \in 0..MaxFaults
    BY <1>35 DEF TypeOK, FinishCmos, Current, SaveCmos, Restored, SaveCmosFails
  <2> QED BY <1>35, <2>1, <2>2, <2>3, <2>4, <2>5 DEF TypeOK, FinishCmos
<1>36. CASE FinishState
  <2>1. pc' \in Controls /\ op' \in Commands
    BY <1>36 DEF TypeOK, FinishState, Controls, Commands
  <2>2. frozen' \in BOOLEAN
    BY <1>36 DEF TypeOK, FinishState
  <2>3. ram' \in Orders \cup {NoOrder} /\ mem' \in Orders \cup {NoOrder}
    BY <1>36, FieldsTyped DEF TypeOK, FinishState, SaveInstall, Current, Restored,
       SaveInstallFails
  <2>4. inst' \in Install_State /\ instFile' \in Install_File
    BY <1>36, InactiveTyped, WrittenTyped DEF TypeOK, FinishState, SaveInstall,
       Current, Restored, SaveInstallFails
  <2>5. faults' \in 0..MaxFaults
    BY <1>36 DEF TypeOK, FinishState, SaveInstall, Current, Restored, SaveInstallFails
  <2> QED BY <1>36, <2>1, <2>2, <2>3, <2>4, <2>5 DEF TypeOK, FinishState
<1>37. CASE UNCHANGED vars
  BY <1>37 DEF TypeOK, vars
<1> QED BY <1>1, <1>2, <1>3, <1>4, <1>5, <1>6, <1>7, <1>8, <1>9, <1>10, <1>11, <1>12,
   <1>13, <1>14, <1>15, <1>16, <1>17, <1>18, <1>19, <1>20, <1>21, <1>22, <1>23, <1>24,
   <1>25, <1>26, <1>27, <1>28, <1>29, <1>30, <1>31, <1>32, <1>33, <1>34, <1>35, <1>36,
   <1>37 DEF Next
\* Only a preparation enters its places, and a selection keeps an image.
LEMMA StepSelected == ASSUME Selected, [Next]_vars PROVE Selected'
<1>1. CASE Install \/ Stage \/ BindEarly \/ Bind \/ Select
  BY <1>1, ImagesAssumption DEF Selected, Install, InstallAccepted, Stage, BindEarly,
     Bind, Select
<1>2. CASE Launch \/ Crash \/ Start \/ Reset \/ SaveStart \/ SaveLaunch \/ Open
  BY <1>2, ImagesAssumption DEF Selected, Launch, Crash, Start, Reset, SaveStart,
     SaveLaunch, Open
<1>3. CASE Boot \/ Configure \/ BootFailed \/ Barrier \/ Stop \/ Exit
   \/ GuestPowersOff \/ Close \/ Shutdown
  BY <1>3, ImagesAssumption DEF Selected, Boot, Configure, Booted, BootFails,
     BootFailed, Barrier, Stop, CloseFor, Exit, GuestPowersOff, Close, Shutdown
<1>4. CASE GuestSetsOrder \/ StorageFails \/ MachineFreezes \/ GuestResets
   \/ SaveReset \/ Rollback
  BY <1>4, ImagesAssumption DEF Selected, GuestSetsOrder, GuestRuns, StorageFails,
     MachineFreezes, GuestResets, SaveReset, Rollback
<1>5. CASE Apply \/ SavePrevious \/ SaveCandidate \/ SavePending \/ Abandon
   \/ Remove \/ SetupCompletes \/ FinishCmos \/ FinishState
  BY <1>5, ImagesAssumption DEF Selected, Apply, SavePrevious, SaveCandidate,
     SavePending, Abandon, Remove, SetupCompletes, GuestRuns, FinishCmos, FinishState
<1>6. CASE UNCHANGED vars
  BY <1>6 DEF Selected, vars
<1> QED BY <1>1, <1>2, <1>3, <1>4, <1>5, <1>6 DEF Next

\* Every variable keeps its type, whatever fails and wherever the process dies
\* (src/src/vmlifetime.odin, vm_thread.odin and the installation they run).
THEOREM TypeCorrect == Spec => []TypeOK
<1>1. TypeOK /\ Selected /\ [Next]_vars => (TypeOK /\ Selected)'
  BY StepTyped, StepSelected
<1> QED BY InitTyped, <1>1, PTL DEF Spec

\* Every step keeps Machine and session together.
LEMMA StepPlaces == ASSUME TypeOK, Places, [Next]_vars PROVE Places'
<1> USE DEF Places, Ended, Runs, Detached, Resets, WithoutMachine
<1>1. CASE Launch
  BY <1>1 DEF TypeOK, Launch
<1>2. CASE Crash
  BY <1>2 DEF TypeOK, Crash
<1>3. CASE Select
  BY <1>3 DEF TypeOK, Select
<1>4. CASE Start
  BY <1>4 DEF TypeOK, Start
<1>5. CASE Reset
  BY <1>5 DEF TypeOK, Reset
<1>6. CASE SaveStart
  BY <1>6 DEF TypeOK, SaveStart
<1>7. CASE SaveLaunch
  BY <1>7 DEF TypeOK, SaveLaunch
<1>8. CASE Open
  BY <1>8 DEF TypeOK, Open
<1>9. CASE Boot
  BY <1>9 DEF TypeOK, Boot
<1>10. CASE Configure
  <2>1. /\ pc = "configure" /\ ram' # NoOrder
        /\ UNCHANGED <<sess, stuck, ltpath>>
    BY <1>10 DEF Configure, SaveInstallFails, BootFails
  <2>2. \/ /\ pc' = "idle" /\ st' = "Running" /\ disk' = (sess # NoImage)
        \/ pc' = "boot_failed" /\ UNCHANGED disk
    BY <1>10 DEF Configure, Booted, BootFails, SaveInstallFails
  <2>3. Detached /\ sess' = ltpath' /\ ~stuck'
    BY <2>1 DEF Detached
  <2>4. CASE pc' = "idle" /\ st' = "Running" /\ disk' = (sess # NoImage)
    <3>1. disk' <=> sess' # NoImage
      BY <2>1, <2>4
    <3> QED BY <2>1, <2>3, <2>4, <3>1
  <2>5. CASE pc' = "boot_failed" /\ UNCHANGED disk
    BY <2>1, <2>3, <2>5
  <2> QED BY <2>2, <2>4, <2>5
<1>11. CASE BootFailed
  BY <1>11 DEF TypeOK, BootFailed, ShutdownMachine, ReleaseSession
<1>12. CASE Barrier
  <2>1. /\ pc = "barrier" /\ UNCHANGED <<st, sess, ram, ltpath>>
        /\ Runs /\ op \in Resets
    BY <1>12 DEF Barrier
  <2>2. \/ ~stuck' /\ ~disk' /\ pc' = "shutdown" /\ op' = op
        \/ UNCHANGED disk /\ pc' = "rollback" /\ op' = op /\ op = "Guest_Reset"
        \/ UNCHANGED disk /\ pc' = "idle" /\ frozen'
    BY <1>12, Zenon DEF Barrier
  <2> QED BY <2>1, <2>2
<1>13. CASE Stop
  BY <1>13 DEF TypeOK, Stop, CloseFor
<1>14. CASE Exit
  BY <1>14 DEF TypeOK, Exit, CloseFor
<1>15. CASE GuestPowersOff
  BY <1>15 DEF TypeOK, GuestPowersOff, CloseFor
<1>16. CASE Close
  <2>1. /\ pc = "close" /\ UNCHANGED <<st, ram, ltpath>>
        /\ Runs /\ op \notin Resets
    BY <1>16 DEF Close
  <2>2. \/ ~stuck' /\ ~disk' /\ sess' = NoImage /\ pc' = "shutdown" /\ op' = op
        \/ UNCHANGED <<disk, sess>> /\ pc' = "idle" /\ frozen'
    BY <1>16, Zenon DEF Close
  <2> QED BY <2>1, <2>2
<1>17. CASE Shutdown
  BY <1>17 DEF TypeOK, Shutdown, ShutdownMachine
<1>18. CASE GuestSetsOrder
  BY <1>18 DEF TypeOK, GuestSetsOrder, GuestRuns
<1>19. CASE StorageFails
  BY <1>19 DEF TypeOK, StorageFails, GuestRuns
<1>20. CASE MachineFreezes
  BY <1>20 DEF TypeOK, MachineFreezes, GuestRuns
<1>21. CASE GuestResets
  BY <1>21 DEF TypeOK, GuestResets, GuestRuns
<1>22. CASE SaveReset
  BY <1>22 DEF TypeOK, SaveReset
<1>23. CASE Rollback
  BY <1>23 DEF TypeOK, Rollback
<1>24. CASE Install
  BY <1>24 DEF TypeOK, Install, InstallAccepted
<1>25. CASE BindEarly
  BY <1>25 DEF TypeOK, BindEarly
<1>26. CASE Stage
  BY <1>26 DEF TypeOK, Stage
<1>27. CASE Bind
  BY <1>27 DEF TypeOK, Bind
<1>28. CASE Apply
  BY <1>28 DEF TypeOK, Apply
<1>29. CASE SavePrevious
  BY <1>29 DEF TypeOK, SavePrevious
<1>30. CASE SaveCandidate
  BY <1>30 DEF TypeOK, SaveCandidate
<1>31. CASE SavePending
  BY <1>31 DEF TypeOK, SavePending
<1>32. CASE Abandon
  BY <1>32 DEF TypeOK, Abandon
<1>33. CASE Remove
  BY <1>33 DEF TypeOK, Remove
<1>34. CASE SetupCompletes
  BY <1>34 DEF TypeOK, SetupCompletes, GuestRuns
<1>35. CASE FinishCmos
  BY <1>35 DEF TypeOK, FinishCmos, Current, Restored
<1>36. CASE FinishState
  BY <1>36 DEF TypeOK, FinishState, Current, Restored
<1>37. CASE UNCHANGED vars
  BY <1>37 DEF vars
<1> QED BY <1>1, <1>2, <1>3, <1>4, <1>5, <1>6, <1>7, <1>8, <1>9, <1>10, <1>11, <1>12,
   <1>13, <1>14, <1>15, <1>16, <1>17, <1>18, <1>19, <1>20, <1>21, <1>22, <1>23, <1>24,
   <1>25, <1>26, <1>27, <1>28, <1>29, <1>30, <1>31, <1>32, <1>33, <1>34, <1>35, <1>36,
   <1>37 DEF Next

\* A process that is down has no Machine.
LEMMA InitPlaces == Init => Places
BY DEF Init, Places, Ended, WithoutMachine

\* A session is open between commands exactly as long as the Machine runs,
\* and the Machine never holds the block device of a closed one
\* (vm_lifetime_start, vm_lifetime_reset, vm_lifetime_stop and the release of
\* a failed boot in src/src/vmlifetime.odin).
THEOREM SessionsEnd == Spec => []SessionFollowsMachine
<1>1. TypeOK /\ Selected /\ Places /\ [Next]_vars => (TypeOK /\ Selected /\ Places)'
  BY StepTyped, StepSelected, StepPlaces
<1>2. TypeOK /\ Places => SessionFollowsMachine
  <2> SUFFICES ASSUME TypeOK, Places PROVE SessionFollowsMachine
    OBVIOUS
  <2>1. disk => sess # NoImage /\ ram # NoOrder
    BY DEF TypeOK, Controls, Places, Ended, Runs, Detached, WithoutMachine
  <2>2. pc = "idle" => Ended \/ Runs
    BY DEF Places
  <2>3. Runs => disk = (sess # NoImage)
    BY DEF Runs, TypeOK
  <2> QED BY <2>1, <2>2, <2>3 DEF SessionFollowsMachine, Ended, Runs
<1> QED BY InitTyped, InitPlaces, <1>1, <1>2, PTL DEF Spec

\* A frozen session is never left behind a running guest, nor behind a Machine
\* that is reported stopped (vm_thread.odin).
THEOREM FrozenStorageIsSeen == Spec => []FrozenStorageStopsGuest
<1>1. TypeOK /\ Selected /\ Places /\ [Next]_vars => (TypeOK /\ Selected /\ Places)'
  BY StepTyped, StepSelected, StepPlaces
<1>2. Places => FrozenStorageStopsGuest
  BY DEF Places, Ended, Runs, FrozenStorageStopsGuest
<1> QED BY InitTyped, InitPlaces, <1>1, <1>2, PTL DEF Spec

-----------------------------------------------------------------------------
(* Where the boot order is.                                                *)

\* An install state with an order of its own.
Saved(s) == Active(s) /\ s.order # NoOrder

\* The two profile files hold an order of the user.
Kept == IF Saved(instFile) THEN instFile.order \in user ELSE FileOrder \in user

\* Memory and file agree on whether there is an installation, and on its order,
\* also when the path in the file is overwritten.
SameOrder ==
    (pc # "down" /\ ~invalid) =>
        (Active(instFile) <=> Active(inst)) /\ instFile.order = inst.order

\* A process that could not read the state has no Machine and the CMOS as filed.
Unread ==
    (pc # "down" /\ invalid) => /\ inst = Inactive /\ pc = "idle" /\ ram = NoOrder
                                /\ st # "Running" /\ mem = cmosFile

\* The copies of the CMOS: the Machine's, the lifetime's and the file.
CmosCopies ==
    /\ ram # NoOrder => ~kept
    /\ started => ram # NoOrder \/ mem # NoOrder
    /\ (pc # "down" /\ ram = NoOrder /\ mem = NoOrder) => cmosFile = NoOrder
    /\ (pc # "down" /\ ram = NoOrder /\ mem # NoOrder /\ ~Saved(inst) /\ ~invalid) =>
           mem \in user

\* A Machine runs an installation only once the order is saved; one that is
\* being configured still has the order of the user.
OverrideIsSaved ==
    (ram # NoOrder /\ Active(inst) /\ inst.order = NoOrder) =>
        pc \in {"configure", "boot_failed"} /\ ram \in user

\* Places of a reset.
Resetting == {"save_reset", "barrier", "shutdown", "boot", "configure", "boot_failed",
              "rollback"}

\* A guest's reset falls back to a state with the same order.
FallbackIsSame ==
    (pc \in Resetting /\ op = "Guest_Reset") =>
        /\ Active(txn) <=> Active(inst)
        /\ txn.order = inst.order
        /\ Active(inst) => inst.order # NoOrder

\* Places where a preparation may still be taken back.
Preparation == {"bind_early", "stage", "bind", "save_previous", "save_candidate"}

\* What the steps of an installation and of its end find.
InstallPlaces ==
    /\ pc \in Preparation => FileOrder \in user /\ (mem # NoOrder => mem \in user)
    /\ pc \in {"save_start", "save_launch", "save_pending", "save_reset",
               "apply", "remove", "finish_cmos", "finish_state"} => Active(inst)
    /\ pc \in {"finish_cmos", "finish_state"} => Current # NoOrder
    /\ pc = "finish_state" => cmosFile = Restored /\ Restored \in user

BootOrders ==
    Kept /\ SameOrder /\ Unread /\ CmosCopies /\ OverrideIsSaved /\ FallbackIsSame /\ InstallPlaces

\* Whatever becomes of the path, the rest is written as it was given.
LEMMA WrittenKeeps ==
    ASSUME NEW s \in Install_State, NEW t \in Written(s)
    PROVE  (Active(t) <=> Active(s)) /\ t.order = s.order
BY DEF Written, Active, Install_State

\* The fields of the records that the steps make.
LEMMA UpdateFields ==
    ASSUME NEW s \in Install_State
    PROVE  /\ \A p \in Phases : LET t == [s EXCEPT !.phase = p]
                                IN  t.phase = p /\ t.order = s.order
           /\ \A o \in Orders \cup {NoOrder} : LET t == [s EXCEPT !.order = o]
                                               IN  t.phase = s.phase /\ t.order = o
           /\ LET t == [s EXCEPT !.resets = @ + 1]
              IN  t.phase = s.phase /\ t.order = s.order
BY DEF Install_State, Phases

\* Every step keeps the user's order in the files.
LEMMA StepBootOrders ==
    ASSUME TypeOK, TypeOK', Places, Places', BootOrders, [Next]_vars, ~lost'
    PROVE  BootOrders'
<1> USE DEF TypeOK, Places, Ended, Runs, Detached, Resets, WithoutMachine,
           BootOrders, Kept, SameOrder, Unread, CmosCopies, OverrideIsSaved,
           FallbackIsSame, InstallPlaces, FileOrder, Saved, Active,
           Current, Restored, Resetting, Preparation
<1>1. CASE Launch
  BY <1>1, UpdateFields DEF Launch
<1>2. CASE Crash
  BY <1>2 DEF Crash
<1>3. CASE Select
  BY <1>3 DEF Select
<1>4. CASE Start
  BY <1>4 DEF Start, Gate
<1>5. CASE Reset
  BY <1>5 DEF Reset
<1>6. CASE SaveStart
  BY <1>6, WrittenKeeps DEF SaveStart, SaveInstall, SaveInstallFails
<1>7. CASE SaveLaunch
  <2>1. LET t == [inst EXCEPT !.phase = "Setup_Running"]
        IN  Active(t) /\ t.order = inst.order
    BY UpdateFields DEF Phases
  <2>2. CASE inst' = [inst EXCEPT !.phase = "Setup_Running"] /\ instFile' \in Written(inst')
    <3>1. Active(inst') /\ inst'.order = inst.order
      BY <2>1, <2>2
    <3>2. Active(instFile') /\ instFile'.order = inst.order
      BY <2>2, <3>1, WrittenKeeps
    <3> QED BY <1>7, <3>1, <3>2 DEF SaveLaunch
  <2>3. CASE UNCHANGED <<inst, instFile>>
    BY <1>7, <2>3 DEF SaveLaunch, SaveInstallFails
  <2> QED BY <1>7, <2>2, <2>3, WrittenKeeps DEF SaveLaunch, SaveInstall,
     SaveInstallFails
<1>8. CASE Open
  BY <1>8 DEF Open
<1>9. CASE Boot
  BY <1>9 DEF Boot
<1>10. CASE Configure
  <2>1. /\ pc = "configure" /\ pc' \in {"idle", "boot_failed"} /\ ram' # NoOrder
        /\ UNCHANGED <<kept, mem, cmosFile, user, invalid, txn>>
        /\ op' = op \/ pc' = "idle"
    BY <1>10 DEF Configure, Booted, BootFails, SaveInstallFails
  <2>2. CASE inst' = inst /\ instFile' = instFile /\ (Active(inst) => inst.order # NoOrder)
    BY <2>1, <2>2
  <2>3. CASE UNCHANGED <<inst, instFile, ram>> /\ Active(inst) /\ pc' = "boot_failed"
    BY <2>1, <2>3
  <2>4. CASE /\ Active(inst) /\ inst.order = NoOrder
             /\ inst' = [inst EXCEPT !.order = ram] /\ instFile' \in Written(inst')
    <3>1. inst'.order = ram /\ Active(inst')
      BY <2>4, UpdateFields
    <3>2. ram # NoOrder /\ ram \in user
      BY <2>1, <2>4
    <3>3. pc' \in Resetting => op # "Guest_Reset"
      BY <2>1, <2>4
    <3>4. Active(instFile') /\ instFile'.order = ram
      BY <2>4, <3>1, WrittenKeeps
    <3> QED BY <2>1, <2>4, <3>1, <3>2, <3>3, <3>4
  <2> QED BY <1>10, <2>2, <2>3, <2>4, WrittenKeeps DEF Configure, SaveInstallFails,
     BootFails
<1>11. CASE BootFailed
  BY <1>11 DEF BootFailed, ShutdownMachine, ReleaseSession, SaveCmos, SaveCmosFails
<1>12. CASE Barrier
  BY <1>12 DEF Barrier
<1>13. CASE Stop
  BY <1>13 DEF Stop, CloseFor
<1>14. CASE Exit
  BY <1>14 DEF Exit, CloseFor
<1>15. CASE GuestPowersOff
  BY <1>15 DEF GuestPowersOff, CloseFor
<1>16. CASE Close
  BY <1>16 DEF Close
<1>17. CASE Shutdown
  BY <1>17 DEF Shutdown, ShutdownMachine, SaveCmos, SaveCmosFails
<1>18. CASE GuestSetsOrder
  BY <1>18 DEF GuestSetsOrder, GuestRuns
<1>19. CASE StorageFails
  BY <1>19 DEF StorageFails, GuestRuns
<1>20. CASE MachineFreezes
  BY <1>20 DEF MachineFreezes, GuestRuns
<1>21. CASE GuestResets
  BY <1>21, UpdateFields DEF GuestResets, GuestRuns
<1>22. CASE SaveReset
  BY <1>22, WrittenKeeps DEF SaveReset, SaveInstall, SaveInstallFails
<1>23. CASE Rollback
  BY <1>23, WrittenKeeps DEF Rollback, SaveInstall, SaveInstallFails
<1>24. CASE Install
  BY <1>24 DEF Install, InstallAccepted
<1>25. CASE BindEarly
  BY <1>25, WrittenKeeps DEF BindEarly, SaveInstall, Candidate, SaveInstallFails
<1>26. CASE Stage
  BY <1>26 DEF Stage
<1>27. CASE Bind
  BY <1>27, WrittenKeeps DEF Bind, SaveInstall, Candidate, SaveInstallFails
<1>28. CASE Apply
  BY <1>28 DEF Apply
<1>29. CASE SavePrevious
  BY <1>29, WrittenKeeps DEF SavePrevious, SaveInstall, SaveInstallFails, Inactive
<1>30. CASE SaveCandidate
  BY <1>30, WrittenKeeps DEF SaveCandidate, SaveInstall, Candidate, SaveInstallFails
<1>31. CASE SavePending
  <2>1. LET t == [inst EXCEPT !.phase = "Launch_Pending"]
        IN  Active(t) /\ t.order = inst.order
    BY UpdateFields DEF Phases
  <2>2. CASE inst' = [inst EXCEPT !.phase = "Launch_Pending"] /\ instFile' \in Written(inst')
    <3>1. Active(inst') /\ inst'.order = inst.order
      BY <2>1, <2>2
    <3>2. Active(instFile') /\ instFile'.order = inst.order
      BY <2>2, <3>1, WrittenKeeps
    <3> QED BY <1>31, <3>1, <3>2 DEF SavePending
  <2>3. CASE UNCHANGED <<inst, instFile>>
    BY <1>31, <2>3 DEF SavePending, SaveInstallFails
  <2> QED BY <1>31, <2>2, <2>3, WrittenKeeps DEF SavePending, SaveInstall,
     SaveInstallFails
<1>32. CASE Abandon
  <2>1. CASE invalid /\ instFile' \in Written(Inactive) /\ ~invalid' /\ pc' = "idle"
             /\ lost' = (lost \/ instFile.order \notin {NoOrder, FileOrder})
    <3>1. instFile' = Inactive /\ inst = Inactive
      BY <1>32, <2>1 DEF Abandon, Written, Inactive
    <3>2. FileOrder \in user
      BY <2>1
    <3> QED BY <1>32, <2>1, <3>1, <3>2 DEF Abandon, Inactive
  <2>2. CASE UNCHANGED <<invalid, instFile>>
    BY <1>32, <2>2 DEF Abandon
  <2> QED BY <1>32, <2>1, <2>2 DEF Abandon, SaveInstall, SaveInstallFails
<1>33. CASE Remove
  BY <1>33 DEF Remove
<1>34. CASE SetupCompletes
  BY <1>34 DEF SetupCompletes, GuestRuns
<1>35. CASE FinishCmos
  BY <1>35 DEF FinishCmos, SaveCmos, SaveCmosFails
<1>36. CASE FinishState
  BY <1>36, WrittenKeeps DEF FinishState, SaveInstall, SaveInstallFails, Inactive
<1>37. CASE UNCHANGED vars
  BY <1>37 DEF vars
<1> QED BY <1>1, <1>2, <1>3, <1>4, <1>5, <1>6, <1>7, <1>8, <1>9, <1>10, <1>11, <1>12,
   <1>13, <1>14, <1>15, <1>16, <1>17, <1>18, <1>19, <1>20, <1>21, <1>22, <1>23, <1>24,
   <1>25, <1>26, <1>27, <1>28, <1>29, <1>30, <1>31, <1>32, <1>33, <1>34, <1>35, <1>36,
   <1>37 DEF Next

\* Without an installation the CMOS file has the order.
LEMMA InitBootOrders == Init => BootOrders
BY DEF Init, BootOrders, Kept, SameOrder, Unread, CmosCopies, OverrideIsSaved,
   FallbackIsSame, InstallPlaces, FileOrder, Saved, Active, Inactive, Resetting,
      Preparation

\* Only an abandoned state loses an order, and for good.
LEMMA LostStays == TypeOK /\ lost /\ [Next]_vars => lost'
<1> SUFFICES ASSUME TypeOK, lost, [Next]_vars PROVE lost'
  OBVIOUS
<1>1. CASE Abandon
  BY <1>1 DEF Abandon
<1>2. CASE UNCHANGED vars
  BY <1>2 DEF vars
<1>3. CASE Next /\ ~Abandon
  BY <1>3 DEF Next, Launch, Crash, Select, Start, Reset, SaveStart, SaveLaunch, Open, Boot,
     Configure, BootFailed, Barrier, Stop, Exit, GuestPowersOff, Close, Shutdown,
     GuestSetsOrder, StorageFails, MachineFreezes, GuestResets, SaveReset, Rollback,
     Install, BindEarly, Stage, Bind, Apply, SavePrevious, SaveCandidate, SavePending,
     Remove, SetupCompletes, FinishCmos, FinishState
<1> QED BY <1>1, <1>2, <1>3

\* However often the process dies or a save fails, and whatever becomes of the
\* freed path of install_state_save, the profile files hold a boot order of the
\* user and never the one of the installation, until the user abandons a state
\* that could not be read and that alone held the order
\* (src/src/install_session.odin, main.odin, vmlifetime.odin, profile/install_state.odin).
THEOREM UserOrderIsKept == Spec => []BootOrderKept
<1> DEFINE Inv == TypeOK /\ Selected /\ Places /\ (~lost => BootOrders)
<1>1. Init => Inv
  BY InitTyped, InitPlaces, InitBootOrders
<1>2. Inv /\ [Next]_vars => Inv'
  <2> SUFFICES ASSUME Inv, [Next]_vars PROVE Inv'
    OBVIOUS
  <2>1. TypeOK' /\ Selected' /\ Places'
    BY StepTyped, StepSelected, StepPlaces
  <2>2. ~lost' => BootOrders'
    BY <2>1, LostStays, StepBootOrders
  <2> QED BY <2>1, <2>2
<1>3. Inv => BootOrderKept
  BY DEF BootOrderKept, DurableOrder, BootOrders, Kept, Saved
<1> QED BY <1>1, <1>2, <1>3, PTL DEF Spec

-----------------------------------------------------------------------------
(* The install state in memory and the one in the file.                    *)

\* The file is what a save of the memory writes.
Same == instFile \in Written(inst)

\* The file still counts a reset that was taken back in memory.
Ahead == Active(inst) /\ instFile \in Written([inst EXCEPT !.resets = @ + 1])

\* How far the two may differ, at every place of the VM thread.
FileFollows ==
    /\ pc = "idle" => invalid \/ Same \/ (Ahead /\ ~GuestRuns)
    /\ pc \in {"save_start", "close"} => Same \/ Ahead
    /\ pc \in {"remove", "finish_cmos", "finish_state"} =>
           Same \/ (Ahead /\ op = "Abandon")
    /\ pc = "shutdown" => Same \/ (Ahead /\ op \notin Resets)
    /\ pc \in Preparation \cup {"apply", "save_pending", "save_launch", "open", "barrier",
                                "boot", "configure", "boot_failed", "rollback"} => Same
    /\ pc = "save_reset" => instFile \in Written(txn)

\* A guest's reset can be taken back: the transaction holds the state before
\* the count, and the boot does not save another one in between.
CountIsUndoable ==
    (pc \in Resetting /\ op = "Guest_Reset") =>
        inst = IF Active(txn) THEN [txn EXCEPT !.resets = @ + 1] ELSE txn

\* A Machine that runs an installation has saved the user's order.
OrderIsSaved == (pc # "down" /\ st = "Running" /\ Active(inst)) => inst.order # NoOrder

\* A Machine starts only for a state that was read; the steps that save one have it.
StateIsHeld ==
    /\ (invalid /\ pc # "down") => /\ inst = Inactive /\ ~Readable(instFile)
                                  /\ pc = "idle" /\ st # "Running"
    /\ pc \in {"save_start", "save_launch", "save_pending", "save_reset", "apply"} =>
           Active(inst)
    /\ pc \in {"barrier", "boot", "configure", "boot_failed", "shutdown"}
           /\ op \in Resets => st = "Running"

InstallFile == FileFollows /\ CountIsUndoable /\ OrderIsSaved /\ StateIsHeld

\* What was read is what its own save may have written.
LEMMA WrittenSelf == \A s : s \in Written(s)
BY DEF Written

\* Every step keeps the file where the next one expects it.
LEMMA StepInstallFile ==
    ASSUME TypeOK, TypeOK', Places, Places', InstallFile, [Next]_vars
    PROVE  InstallFile'
<1> USE DEF TypeOK, Places, Ended, Runs, Detached, Resets, WithoutMachine, InstallFile,
           FileFollows, CountIsUndoable, OrderIsSaved, StateIsHeld, Same, Ahead, Active,
           Resetting, Preparation
<1>1. CASE Launch
  BY <1>1, WrittenSelf DEF Launch, Inactive
<1>2. CASE Crash
  BY <1>2 DEF Crash
<1>3. CASE Select
  BY <1>3 DEF Select, GuestRuns
<1>4. CASE Start
  BY <1>4 DEF Start, Gate, GuestRuns
<1>5. CASE Reset
  BY <1>5 DEF Reset, GuestRuns
<1>6. CASE SaveStart
  BY <1>6 DEF SaveStart, GuestRuns, SaveInstall, SaveInstallFails
<1>7. CASE SaveLaunch
  <2>1. LET t == [inst EXCEPT !.phase = "Setup_Running"]
        IN  Active(t) /\ t.order = inst.order
    BY UpdateFields DEF Phases
  <2>2. CASE inst' = [inst EXCEPT !.phase = "Setup_Running"] /\ instFile' \in Written(inst')
    BY <1>7, <2>1, <2>2 DEF SaveLaunch, GuestRuns
  <2>3. CASE UNCHANGED <<inst, instFile>>
    BY <1>7, <2>3 DEF SaveLaunch, GuestRuns
  <2> QED BY <1>7, <2>2, <2>3 DEF SaveLaunch, SaveInstall, SaveInstallFails
<1>8. CASE Open
  BY <1>8 DEF Open, GuestRuns
<1>9. CASE Boot
  BY <1>9 DEF Boot
<1>10. CASE Configure
  <2>1. /\ pc = "configure" /\ pc' \in {"idle", "boot_failed"} /\ ram # NoOrder
        /\ UNCHANGED <<invalid, txn>>
        /\ op' = op \/ pc' = "idle"
        /\ pc' = "boot_failed" => op' = op /\ st' = st
    BY <1>10 DEF Configure, Booted, BootFails, SaveInstallFails
  <2>2. CASE UNCHANGED <<inst, instFile>> /\ (Active(inst) => inst.order # NoOrder)
    BY <2>1, <2>2 DEF GuestRuns
  <2>3. CASE UNCHANGED <<inst, instFile>> /\ Active(inst) /\ pc' = "boot_failed"
    BY <2>1, <2>3 DEF GuestRuns
  <2>4. CASE /\ Active(inst) /\ inst.order = NoOrder
             /\ inst' = [inst EXCEPT !.order = ram] /\ instFile' \in Written(inst')
    <3>1. inst'.order = ram /\ Active(inst')
      BY <2>4, UpdateFields
    <3>2. op # "Guest_Reset"
      BY <2>1, <2>4
    <3> QED BY <2>1, <2>4, <3>1, <3>2 DEF GuestRuns
  <2> QED BY <1>10, <2>2, <2>3, <2>4 DEF Configure, SaveInstallFails,
     BootFails
<1>11. CASE BootFailed
  BY <1>11 DEF BootFailed, GuestRuns, ShutdownMachine, ReleaseSession, SaveCmos, SaveCmosFails
<1>12. CASE Barrier
  BY <1>12 DEF Barrier, GuestRuns
<1>13. CASE Stop
  BY <1>13 DEF Stop, CloseFor
<1>14. CASE Exit
  BY <1>14 DEF Exit, GuestRuns, CloseFor
<1>15. CASE GuestPowersOff
  BY <1>15 DEF GuestPowersOff, CloseFor, GuestRuns
<1>16. CASE Close
  BY <1>16 DEF Close, GuestRuns
<1>17. CASE Shutdown
  BY <1>17 DEF Shutdown, GuestRuns, ShutdownMachine, SaveCmos, SaveCmosFails
<1>18. CASE GuestSetsOrder
  BY <1>18 DEF GuestSetsOrder, GuestRuns
<1>19. CASE StorageFails
  BY <1>19 DEF StorageFails, GuestRuns
<1>20. CASE MachineFreezes
  BY <1>20 DEF MachineFreezes, GuestRuns
<1>21. CASE GuestResets
  BY <1>21, UpdateFields DEF GuestResets, GuestRuns
<1>22. CASE SaveReset
  <2>1. CASE inst' = inst /\ instFile' \in Written(inst) /\ pc' = "barrier"
    BY <1>22, <2>1 DEF SaveReset, SaveInstall
  <2>2. CASE inst' = txn /\ instFile' = instFile /\ pc' = "idle" /\ frozen'
    <3>1. Active(txn) => txn.order = inst.order /\ Active(inst)
      BY <1>22, UpdateFields DEF SaveReset
    <3> QED BY <1>22, <2>2, <3>1 DEF SaveReset, GuestRuns
  <2> QED BY <1>22, <2>1, <2>2 DEF SaveReset, SaveInstall, SaveInstallFails
<1>23. CASE Rollback
  <2>1. CASE inst' = txn /\ instFile' \in Written(txn)
    <3>1. Active(txn) => txn.order = inst.order /\ Active(inst)
      BY <1>23, UpdateFields DEF Rollback
    <3> QED BY <1>23, <2>1, <3>1 DEF Rollback, GuestRuns
  <2>2. CASE inst' = txn /\ instFile' = instFile /\ Active(txn)
    <3>1. inst = [txn EXCEPT !.resets = @ + 1] /\ instFile \in Written(inst)
      BY <1>23, <2>2 DEF Rollback
    <3> QED BY <1>23, <2>2, <3>1 DEF Rollback, GuestRuns
  <2>3. CASE inst' = txn /\ instFile' = instFile /\ ~Active(txn)
    BY <1>23, <2>3 DEF Rollback, GuestRuns
  <2> QED BY <1>23, <2>1, <2>2, <2>3 DEF Rollback, SaveInstall, SaveInstallFails
<1>24. CASE Install
  BY <1>24 DEF Install, GuestRuns, InstallAccepted
<1>25. CASE BindEarly
  BY <1>25 DEF BindEarly, GuestRuns, SaveInstall, SaveInstallFails
<1>26. CASE Stage
  BY <1>26 DEF Stage, GuestRuns
<1>27. CASE Bind
  BY <1>27 DEF Bind, Candidate, SaveInstall, SaveInstallFails
<1>28. CASE Apply
  BY <1>28 DEF Apply, GuestRuns
<1>29. CASE SavePrevious
  BY <1>29 DEF SavePrevious, GuestRuns, SaveInstall, SaveInstallFails
<1>30. CASE SaveCandidate
  BY <1>30 DEF SaveCandidate, GuestRuns, SaveInstall, SaveInstallFails
<1>31. CASE SavePending
  <2>1. LET t == [inst EXCEPT !.phase = "Launch_Pending"]
        IN  Active(t) /\ t.order = inst.order
    BY UpdateFields DEF Phases
  <2>2. CASE inst' = [inst EXCEPT !.phase = "Launch_Pending"] /\ instFile' \in Written(inst')
    BY <1>31, <2>1, <2>2 DEF SavePending, GuestRuns
  <2>3. CASE UNCHANGED <<inst, instFile>>
    BY <1>31, <2>3 DEF SavePending, GuestRuns
  <2> QED BY <1>31, <2>2, <2>3 DEF SavePending, SaveInstall, SaveInstallFails
<1>32. CASE Abandon
  BY <1>32 DEF Abandon, GuestRuns, SaveInstall, SaveInstallFails
<1>33. CASE Remove
  BY <1>33 DEF Remove, GuestRuns
<1>34. CASE SetupCompletes
  BY <1>34 DEF SetupCompletes, GuestRuns
<1>35. CASE FinishCmos
  BY <1>35 DEF FinishCmos, GuestRuns, SaveCmos, SaveCmosFails
<1>36. CASE FinishState
  BY <1>36 DEF FinishState, GuestRuns, SaveInstall, SaveInstallFails, Inactive
<1>37. CASE UNCHANGED vars
  BY <1>37 DEF vars, GuestRuns
<1> QED BY <1>1, <1>2, <1>3, <1>4, <1>5, <1>6, <1>7, <1>8, <1>9, <1>10, <1>11,
   <1>12, <1>13, <1>14, <1>15, <1>16, <1>17, <1>18, <1>19, <1>20, <1>21, <1>22, <1>23,
   <1>24, <1>25, <1>26, <1>27, <1>28, <1>29, <1>30, <1>31, <1>32, <1>33, <1>34, <1>35,
   <1>36, <1>37 DEF Next

\* At first there is no installation.
LEMMA InitInstallFile == Init => InstallFile
BY WrittenSelf DEF Init, InstallFile, FileFollows, CountIsUndoable, OrderIsSaved, StateIsHeld, Same,
   Active, Inactive, Resetting, Preparation

\* Between commands the install state in memory is the one in the file, except
\* after a reset that could be neither done nor taken back in the file, and never
\* while the guest runs (src/src/install_reset_transaction.odin, vm_thread.odin).
THEOREM InstallStateIsKept == Spec => []InstallStateIsDurable
<1> DEFINE Inv == TypeOK /\ Selected /\ Places /\ InstallFile
<1>1. Init => Inv
  BY InitTyped, InitPlaces, InitInstallFile
<1>2. Inv /\ [Next]_vars => Inv'
  BY StepTyped, StepSelected, StepPlaces, StepInstallFile
<1>3. Inv => InstallStateIsDurable
  BY DEF InstallFile, FileFollows, StateIsHeld, Same, Ahead, InstallStateIsDurable
<1> QED BY <1>1, <1>2, <1>3, PTL DEF Spec
=============================================================================
