----------------------------- MODULE VmLifetime -----------------------------
(***************************************************************************)
(* The lifetime of the Machine and of a guided Windows 98 installation:    *)
(* src/src/vmlifetime.odin, machine_lifecycle.odin, the command loop of    *)
(* vm_thread.odin, install_session.odin, install_reset_transaction.odin,   *)
(* install_image_flow.odin and the two profile files they keep, the CMOS   *)
(* and the install state (src/src/profile).                                *)
(*                                                                         *)
(* The VM thread runs one command at a time; every step below that writes  *)
(* a file ends with that write, so that the process can die between any    *)
(* two of them.  The UI thread selects the hard drive meanwhile.  Files    *)
(* are replaced atomically (write, then rename) and the death modelled is  *)
(* that of the process.  The disk session is the one MachineSession        *)
(* describes: here it is open, frozen or closed.                           *)
(*                                                                         *)
(* Of the 128 CMOS bytes the model keeps the boot order (0x38 and 0x3D).   *)
(* The milestone of an installation follows from its phase and its reset   *)
(* count.  Failing memory allocations are left out.                        *)
(***************************************************************************)
EXTENDS Integers, FiniteSets

CONSTANTS Orders,            \* boot orders
          DefaultOrder,      \* the order of a Machine without a CMOS file
          InstallOrder,      \* install_apply_boot_order: the hard drive first
          Images,            \* hard-drive image paths
          NoOrder, NoImage,  \* no CMOS, no image
          BadPath,           \* an image path that was overwritten: not an absolute one
          MaxResets,         \* bound: guest resets counted (0xFFFF_FFFF in the code)
          MaxCrashes,        \* bound: times the process dies
          MaxFaults          \* bound: failing file, disk and boot operations

ASSUME OrdersAssumption ==
    DefaultOrder \in Orders /\ InstallOrder \in Orders /\ NoOrder \notin Orders

ASSUME ImagesAssumption == NoImage \notin Images /\ BadPath \notin Images \cup {NoImage}

ASSUME LimitsAssumption ==
    MaxResets \in Nat /\ MaxCrashes \in Nat /\ MaxFaults \in Nat

VARIABLES
    pc,       \* where the VM thread is; "down" when there is no process
    op,       \* the command or guest request it is handling
    st,       \* Vm_Lifetime.state
    sess,     \* the image of the open Machine session
    stuck,    \* that session is frozen: every barrier and close fails
    disk,     \* the Machine has the session's block device
    ram,      \* boot order in the CMOS of the live Machine
    kept,     \* cmos_retained_generation = machine_generation
    mem,      \* Vm_Lifetime.cmos
    started,  \* the VM thread's m is not nil
    frozen,   \* the VM thread's frozen flag: the guest does not run
    ltpath,   \* Vm_Lifetime.hard_drive_path, with attach_storage
    inst,     \* Vm_Ctx.install_state
    invalid,  \* install_state_recovery_required(install_state_diagnostic)
    txn,      \* the install state before the guest reset being handled
    path,     \* the selected hard drive, in Vm_Ctx and in the settings file
    cmosFile, \* the order in the CMOS file
    instFile, \* the install state file
    prep,     \* per image: what the preparation left on it
    enrolled, \* images that carry an identity
    user,     \* history: the boot orders the user may find after the installation
    lost,     \* history: an unreadable state was abandoned with the only copy of an order
    crashes,  \* times the process died
    faults    \* operations that failed

life     == <<st, sess, stuck, disk>>
cmos     == <<ram, kept, mem, cmosFile, user>>
install  == <<inst, invalid, instFile>>
storage  == <<prep, enrolled>>
past     == <<crashes, lost>>
bounds   == <<past, faults>>
vars     == <<pc, op, st, sess, stuck, disk, ram, kept, mem, started, frozen,
              ltpath, inst, invalid, txn, path, cmosFile, instFile, prep,
              enrolled, user, lost, crashes, faults>>

----------------------------------------------------------------------------
(* The values of the state.                                                *)

Phases == {"None", "Preparing", "Launch_Pending", "Setup_Running"}

Install_State ==
    [phase : Phases, image : Images \cup {NoImage}, resets : 0..MaxResets,
     order : Orders \cup {NoOrder}]

Inactive == [phase |-> "None", image |-> NoImage, resets |-> 0, order |-> NoOrder]

Active(s) == s.phase # "None"

\* What is in the file.
Install_File == [phase : Phases, image : Images \cup {NoImage, BadPath},
                 resets : 0..MaxResets, order : Orders \cup {NoOrder}]

\* install_state_save frees the normalized path at the end of the block that
\* made it, and json.marshal reads it after that: the file has the path, or
\* what the allocator left or put in its place.
Written(s) == {s} \cup (IF Active(s) THEN {[s EXCEPT !.image = BadPath]} ELSE {})

\* install_state_load takes no other than an absolute path.
Readable(s) == s.image # BadPath

Commands == {"None", "Start", "Reset", "Stop", "Exit", "Power_Off", "Guest_Reset",
             "Install", "Abandon", "Finish"}

Controls == {"down", "idle", "save_start", "save_launch", "open", "boot",
             "configure", "boot_failed", "barrier", "shutdown", "close",
             "save_reset", "rollback", "bind_early", "stage", "bind", "apply",
             "save_previous", "save_candidate", "save_pending", "remove",
             "finish_cmos", "finish_state"}

Init ==
    /\ pc = "down" /\ op = "None"
    /\ st = "Stopped" /\ sess = NoImage /\ stuck = FALSE /\ disk = FALSE
    /\ ram = NoOrder /\ kept = TRUE /\ mem = NoOrder
    /\ started = FALSE /\ frozen = FALSE /\ ltpath = NoImage
    /\ inst = Inactive /\ invalid = FALSE /\ txn = Inactive
    /\ path \in Images \cup {NoImage}
    /\ cmosFile \in Orders \cup {NoOrder} /\ instFile = Inactive
    /\ prep = [i \in Images |-> "Clean"] /\ enrolled \in SUBSET Images
    /\ user = {IF cmosFile = NoOrder THEN DefaultOrder ELSE cmosFile}
    /\ lost = FALSE /\ crashes = 0 /\ faults = 0

----------------------------------------------------------------------------
(* Steps of the VM thread.                                                 *)

Fault == faults < MaxFaults /\ faults' = faults + 1

NoFault == UNCHANGED faults

Goto(l) == pc' = l /\ UNCHANGED op

\* The command is over; freeze says what it leaves in the frozen flag.
Done(freeze) == pc' = "idle" /\ op' = "None" /\ frozen' = freeze

\* profile.install_state_save: the file holds s, or it failed and is unchanged.
SaveInstall(s) == NoFault /\ instFile' \in Written(s)

SaveInstallFails == Fault /\ UNCHANGED instFile

\* profile.cmos_save of the order o; a failure at shutdown is only logged.
SaveCmos(o) == NoFault /\ cmosFile' = o

SaveCmosFails == Fault /\ UNCHANGED cmosFile

Allowed(s) == s.phase # "Preparing" /\ (Active(s) => s.image # NoImage)

\* install_image_boot_gate_loaded on the selected image
Gate ==
    /\ ~invalid
    /\ Active(inst) => /\ Allowed(inst)
                       /\ path # NoImage /\ inst.image = path
                       /\ prep[path] = "Prepared"

\* The process starts: main.odin loads the profile and makes the lifetime.
Launch ==
    /\ pc = "down"
    /\ pc' = "idle" /\ op' = "None"
    /\ st' = "Stopped" /\ sess' = NoImage /\ stuck' = FALSE /\ disk' = FALSE
    /\ ram' = NoOrder /\ kept' = TRUE /\ mem' = cmosFile
    /\ started' = FALSE /\ ltpath' = path /\ txn' = Inactive
    /\ inst' = IF Readable(instFile) THEN instFile ELSE Inactive
    /\ invalid' = ~Readable(instFile)
    /\ frozen' = ~Allowed(inst')
    /\ UNCHANGED <<path, cmosFile, instFile, prep, enrolled, user, bounds>>

\* The process dies.  An image being edited keeps what was written so far.
Crash ==
    /\ pc # "down" /\ crashes < MaxCrashes
    /\ crashes' = crashes + 1
    /\ pc' = "down" /\ op' = "None"
    /\ st' = "Stopped" /\ sess' = NoImage /\ stuck' = FALSE /\ disk' = FALSE
    /\ ram' = NoOrder /\ kept' = TRUE /\ mem' = NoOrder
    /\ started' = FALSE /\ frozen' = FALSE /\ ltpath' = NoImage
    /\ inst' = Inactive /\ invalid' = FALSE /\ txn' = Inactive
    /\ prep' \in CASE pc \in {"stage", "bind"} ->
                          {[prep EXCEPT ![path] = v] : v \in {"Clean", "Dirty"}}
                   [] pc = "apply" ->
                          {[prep EXCEPT ![path] = v] : v \in {"Dirty", "Prepared"}}
                   [] pc = "remove" ->
                          {[prep EXCEPT ![inst.image] = v] :
                               v \in {prep[inst.image], "Dirty", "Clean"}}
                   [] OTHER -> {prep}
    /\ UNCHANGED <<path, cmosFile, instFile, enrolled, user, lost, faults>>

\* gui_hard_drive_select on the UI thread, which sees no Machine while one is
\* reset.  The settings and Vm_Ctx follow; the lifetime keeps its own path.
Select ==
    /\ pc # "down"
    /\ st = "Running" => op \in {"Reset", "Guest_Reset"}
    /\ op # "Install" /\ ~Active(inst) /\ ~invalid
    /\ path' \in Images
    /\ UNCHANGED <<pc, op, life, cmos, started, frozen, ltpath, install, txn,
                   storage, bounds>>

----------------------------------------------------------------------------
(* Start and Reset.                                                        *)

\* case .Start, .Reset: blocked, or on to the saves that come first.
Start ==
    /\ pc = "idle" /\ st # "Running"
    /\ IF Gate /\ Allowed(inst)
       THEN /\ op' = "Start" /\ UNCHANGED frozen
            /\ pc' = IF Active(inst) THEN "save_start" ELSE "open"
       ELSE Done(TRUE)
    /\ UNCHANGED <<life, cmos, started, ltpath, install, txn, path, storage, bounds>>

Reset ==
    /\ pc = "idle" /\ st = "Running"
    /\ IF Allowed(inst)
       THEN /\ op' = "Reset" /\ UNCHANGED frozen
            /\ pc' = IF Active(inst) THEN "save_start" ELSE "barrier"
       ELSE Done(TRUE)
    /\ UNCHANGED <<life, cmos, started, ltpath, install, txn, path, storage, bounds>>

\* install_state_save "before manual reset"
SaveStart ==
    /\ pc = "save_start"
    /\ \/ /\ SaveInstall(inst) /\ UNCHANGED <<op, frozen>>
          /\ pc' = IF inst.phase = "Launch_Pending" THEN "save_launch"
                   ELSE IF op = "Start" THEN "open" ELSE "barrier"
       \/ SaveInstallFails /\ Done(TRUE)
    /\ UNCHANGED <<life, cmos, started, ltpath, inst, invalid, txn, path, storage,
                   past>>

\* install_launch_prepare
SaveLaunch ==
    /\ pc = "save_launch"
    /\ \/ /\ inst' = [inst EXCEPT !.phase = "Setup_Running"]
          /\ SaveInstall(inst') /\ UNCHANGED <<op, frozen>>
          /\ pc' = IF op = "Reset" THEN "barrier" ELSE "open"
       \/ SaveInstallFails /\ Done(TRUE) /\ UNCHANGED inst
    /\ UNCHANGED <<life, cmos, started, ltpath, invalid, txn, path, storage, past>>

\* vm_start_machine: the gate again, then vm_lifetime_start up to the open
\* session.  An image that an edit owns does not open.
Open ==
    /\ pc = "open"
    /\ \/ /\ Gate /\ st = "Stopped"
          /\ ltpath # NoImage => prep[ltpath] # "Dirty"
          /\ sess' = ltpath /\ NoFault /\ Goto("boot") /\ UNCHANGED frozen
       \/ /\ \/ ~Gate \/ st # "Stopped" \/ (ltpath # NoImage /\ prep[ltpath] = "Dirty")
          /\ NoFault /\ Done(TRUE) /\ UNCHANGED sess
       \/ /\ Gate /\ st = "Stopped" /\ ltpath # NoImage
          /\ Fault /\ Done(TRUE) /\ UNCHANGED sess
    /\ UNCHANGED <<st, stuck, disk, cmos, started, ltpath, install, txn, path,
                   storage, past>>

\* vm_lifetime_boot up to machine_cmos_import
Boot ==
    /\ pc = "boot"
    /\ \/ /\ ram' = IF mem = NoOrder THEN DefaultOrder ELSE mem
          /\ kept' = FALSE /\ NoFault /\ Goto("configure")
       \/ Fault /\ Goto("boot_failed") /\ UNCHANGED <<ram, kept>>
    /\ UNCHANGED <<life, mem, cmosFile, user, started, frozen, ltpath, install, txn,
                   path, storage, past>>

\* The rest of the boot succeeds: the disk is attached and the command is over.
Booted ==
    /\ disk' = (sess # NoImage) /\ st' = "Running" /\ started' = TRUE
    /\ Done(FALSE)

\* ... or fails in load_roms, with the media, or on a frozen bus.
BootFails == Goto("boot_failed") /\ UNCHANGED <<disk, st, started, frozen>>

\* A plausible bug: the boot order is overridden before it is saved.
ConfigureOverriddenFirst ==
    /\ pc = "configure"
    /\ ram' = IF Active(inst) THEN InstallOrder ELSE ram
    /\ inst' = [inst EXCEPT !.order = IF Active(inst) /\ @ = NoOrder THEN ram' ELSE @]
    /\ instFile' \in IF Active(inst) THEN Written(inst') ELSE {instFile}
    /\ (NoFault /\ Booted) \/ (Fault /\ BootFails)
    /\ UNCHANGED <<sess, stuck, kept, mem, cmosFile, user, ltpath, invalid, txn, path,
                   storage, past>>

\* gui_vm_lifetime_configure with install_prepare_boot_cmos: the original
\* order is saved before the Machine's is overridden.
Configure ==
    /\ pc = "configure"
    /\ \/ /\ ~Active(inst) /\ UNCHANGED <<ram, inst, instFile>>
          /\ (NoFault /\ Booted) \/ (Fault /\ BootFails)
       \/ /\ Active(inst) /\ inst.order # NoOrder
          /\ ram' = InstallOrder /\ UNCHANGED <<inst, instFile>>
          /\ (NoFault /\ Booted) \/ (Fault /\ BootFails)
       \/ /\ Active(inst) /\ inst.order = NoOrder
          /\ \/ /\ inst' = [inst EXCEPT !.order = ram] /\ instFile' \in Written(inst')
                /\ ram' = InstallOrder
                /\ (NoFault /\ Booted) \/ (Fault /\ BootFails)
             \/ SaveInstallFails /\ BootFails /\ UNCHANGED <<ram, inst>>
    /\ UNCHANGED <<sess, stuck, kept, mem, cmosFile, user, ltpath, invalid, txn, path,
                   storage, past>>

\* vm_lifetime_save_cmos and the end of the Machine, in vm_lifetime_shutdown_machine
ShutdownMachine ==
    /\ IF ram # NoOrder /\ ~kept
       THEN /\ mem' = ram /\ kept' = TRUE
            /\ \/ SaveCmos(ram) /\ user' = IF Active(inst) THEN user ELSE {ram}
               \/ SaveCmosFails /\ user' = IF Active(inst) THEN user ELSE user \cup {ram}
       ELSE NoFault /\ UNCHANGED <<mem, kept, cmosFile, user>>
    /\ ram' = NoOrder /\ disk' = FALSE

\* A plausible bug: the session of a failed boot is left open.
ReleaseSessionNot == UNCHANGED <<sess, stuck>>

\* vm_lifetime_release_failed_boot_session: committed, or else retained on the image
ReleaseSession == sess' = NoImage /\ stuck' = FALSE

BootFailed ==
    /\ pc = "boot_failed"
    /\ ShutdownMachine /\ ReleaseSession /\ st' = "Recovery"
    /\ IF op = "Guest_Reset" THEN Goto("rollback") /\ UNCHANGED frozen ELSE Done(TRUE)
    /\ UNCHANGED <<started, ltpath, install, txn, path, storage, past>>

\* A plausible bug: the guest goes on after a Reset whose barrier failed.
BarrierGoesOn ==
    /\ pc = "barrier"
    /\ \/ ~stuck /\ NoFault /\ disk' = FALSE /\ Goto("shutdown") /\ UNCHANGED <<stuck, frozen>>
       \/ /\ sess # NoImage /\ (IF stuck THEN NoFault ELSE Fault)
          /\ stuck' \in {stuck, TRUE} /\ UNCHANGED disk /\ Done(frozen)
    /\ UNCHANGED <<st, sess, cmos, started, ltpath, install, txn, path, storage, past>>

\* vm_lifetime_reset: Reset barrier, then the disk is detached.
Barrier ==
    /\ pc = "barrier"
    /\ \/ /\ ~stuck /\ NoFault /\ disk' = FALSE
          /\ Goto("shutdown") /\ UNCHANGED <<stuck, frozen>>
       \/ /\ sess # NoImage /\ (IF stuck THEN NoFault ELSE Fault)
          /\ stuck' \in {stuck, TRUE} /\ UNCHANGED disk
          /\ IF op = "Guest_Reset" THEN Goto("rollback") /\ UNCHANGED frozen
                                   ELSE Done(TRUE)
    /\ UNCHANGED <<st, sess, cmos, started, ltpath, install, txn, path, storage, past>>

----------------------------------------------------------------------------
(* Stop, Exit and the guest's power off.                                   *)

\* vm_close_then_shutdown on a Machine that runs
CloseFor(o) == op' = o /\ pc' = "close" /\ UNCHANGED frozen

Stop ==
    /\ pc = "idle" /\ st = "Running" /\ CloseFor("Stop")
    /\ UNCHANGED <<life, cmos, started, ltpath, install, txn, path, storage, bounds>>

\* case .Power_Off.  In the state Recovery vm_lifetime_stop refuses.
Exit ==
    /\ pc = "idle"
    /\ \/ st = "Stopped" /\ pc' = "down" /\ op' = "Exit" /\ UNCHANGED frozen
       \/ st = "Running" /\ CloseFor("Exit")
       \/ st = "Recovery" /\ pc' = "idle" /\ op' = "Exit" /\ frozen' = TRUE
    /\ UNCHANGED <<life, cmos, started, ltpath, install, txn, path, storage, bounds>>

GuestPowersOff ==
    /\ pc = "idle" /\ st = "Running" /\ ~frozen /\ CloseFor("Power_Off")
    /\ UNCHANGED <<life, cmos, started, ltpath, install, txn, path, storage, bounds>>

\* vm_lifetime_stop: Clean_Close barrier, detach, close.  When one of them
\* fails the Machine keeps its disk and its session.
Close ==
    /\ pc = "close"
    /\ \/ /\ ~stuck /\ NoFault
          /\ disk' = FALSE /\ sess' = NoImage
          /\ Goto("shutdown") /\ UNCHANGED <<stuck, frozen>>
       \/ /\ sess # NoImage /\ (IF stuck THEN NoFault ELSE Fault)
          /\ stuck' \in {stuck, TRUE} /\ UNCHANGED <<disk, sess>> /\ Done(TRUE)
    /\ UNCHANGED <<st, cmos, started, ltpath, install, txn, path, storage, past>>

\* vm_lifetime_shutdown_machine, before the next boot or at the end
Shutdown ==
    /\ pc = "shutdown" /\ ShutdownMachine
    /\ CASE op \in {"Reset", "Guest_Reset"} -> Goto("boot") /\ UNCHANGED <<st, frozen>>
         [] op = "Exit" -> Goto("down") /\ st' = "Stopped" /\ UNCHANGED frozen
         [] OTHER -> st' = "Stopped" /\ Done(FALSE)
    /\ UNCHANGED <<sess, stuck, started, ltpath, install, txn, path, storage, past>>

----------------------------------------------------------------------------
(* What the guest does.                                                    *)

GuestRuns == pc = "idle" /\ st = "Running" /\ ~frozen

\* The guest's BIOS setup stores a boot order.
GuestSetsOrder ==
    /\ GuestRuns
    /\ ram' \in Orders \ {ram}
    /\ UNCHANGED <<pc, op, life, kept, mem, cmosFile, user, started, frozen, ltpath,
                   install, txn, path, storage, bounds>>

\* A guest write freezes the session; the VM thread sees it after the step.
StorageFails ==
    /\ GuestRuns /\ sess # NoImage /\ Fault
    /\ stuck' = TRUE /\ frozen' = TRUE
    /\ UNCHANGED <<pc, op, st, sess, disk, cmos, started, ltpath, install, txn, path,
                   storage, past>>

\* The step ends with a frozen bus or a failed run guard.
MachineFreezes ==
    /\ GuestRuns /\ Fault
    /\ frozen' = TRUE
    /\ UNCHANGED <<pc, op, life, cmos, started, ltpath, install, txn, path, storage,
                   past>>

\* A plausible bug: the reset count is not checked against its limit.
GuestResetsUnchecked ==
    /\ GuestRuns
    /\ txn' = inst
    /\ inst' = IF Active(inst) THEN [inst EXCEPT !.resets = @ + 1] ELSE inst
    /\ op' = "Guest_Reset" /\ pc' = IF Active(inst) THEN "save_reset" ELSE "barrier"
    /\ UNCHANGED <<life, cmos, started, frozen, ltpath, invalid, instFile, path, storage,
                   bounds>>

\* machine_reset_requested: install_reset_transaction_stage counts the reset.
GuestResets ==
    /\ GuestRuns
    /\ txn' = inst
    /\ IF ~Active(inst)
       THEN op' = "Guest_Reset" /\ pc' = "barrier" /\ UNCHANGED <<inst, frozen>>
       ELSE \/ /\ inst.resets < MaxResets
               /\ inst' = [inst EXCEPT !.resets = @ + 1]
               /\ op' = "Guest_Reset" /\ pc' = "save_reset" /\ UNCHANGED frozen
            \/ inst.resets = MaxResets /\ Done(TRUE) /\ UNCHANGED inst
    /\ UNCHANGED <<life, cmos, started, ltpath, invalid, instFile, path, storage, bounds>>

\* A plausible bug: a count that could not be saved is kept in memory.
SaveResetKept ==
    /\ pc = "save_reset"
    /\ \/ SaveInstall(inst) /\ Goto("barrier") /\ UNCHANGED frozen
       \/ SaveInstallFails /\ Done(TRUE)
    /\ UNCHANGED <<life, cmos, started, ltpath, inst, invalid, txn, path, storage, past>>

\* install_state_save "after guest reset"
SaveReset ==
    /\ pc = "save_reset"
    /\ \/ SaveInstall(inst) /\ Goto("barrier") /\ UNCHANGED <<inst, frozen>>
       \/ SaveInstallFails /\ inst' = txn /\ Done(TRUE)
    /\ UNCHANGED <<life, cmos, started, ltpath, invalid, txn, path, storage, past>>

\* install_reset_transaction_rollback after a reset that failed
Rollback ==
    /\ pc = "rollback"
    /\ inst' = txn
    /\ IF Active(txn) THEN SaveInstall(txn) \/ SaveInstallFails
                      ELSE NoFault /\ UNCHANGED instFile
    /\ Done(TRUE)
    /\ UNCHANGED <<life, cmos, started, ltpath, invalid, txn, path, storage, past>>

----------------------------------------------------------------------------
(* Guided installation.                                                    *)

\* case .Install_Windows_98: refused while an install state is held.
InstallAccepted == st # "Running" /\ ~Active(inst) /\ ~invalid /\ path # NoImage

\* install_image_candidate on the lifetime's CMOS snapshot
Candidate == [phase |-> "Preparing", image |-> path, resets |-> 0, order |-> mem]

Install ==
    /\ pc = "idle" /\ InstallAccepted
    /\ IF prep[path] = "Dirty"
       THEN Done(TRUE)
       ELSE /\ op' = "Install" /\ UNCHANGED frozen
            /\ pc' = IF path \in enrolled THEN "bind_early" ELSE "stage"
    /\ UNCHANGED <<life, cmos, started, ltpath, install, txn, path, storage, bounds>>

\* An enrolled image is bound before it is edited.
BindEarly ==
    /\ pc = "bind_early"
    /\ \/ SaveInstall(Candidate) /\ inst' = Candidate /\ Goto("stage") /\ UNCHANGED frozen
       \/ SaveInstallFails /\ UNCHANGED inst /\ Done(frozen)
    /\ UNCHANGED <<life, cmos, started, ltpath, invalid, txn, path, storage, past>>

\* win98imageprep.prepare up to the ready hook.  It may be cancelled, refuse
\* the media or the image (one that was prepared before among them), or fail
\* and leave the edit on the image.
Stage ==
    /\ pc = "stage"
    /\ \/ NoFault /\ prep[path] = "Clean" /\ Goto("bind") /\ UNCHANGED <<prep, frozen>>
       \/ NoFault /\ Goto("save_previous") /\ UNCHANGED <<prep, frozen>>
       \/ /\ Fault /\ prep' = [prep EXCEPT ![path] = "Dirty"]
          /\ IF Active(inst) THEN Done(TRUE) ELSE Goto("save_candidate") /\ UNCHANGED frozen
    /\ UNCHANGED <<life, cmos, started, ltpath, install, txn, path, enrolled, past>>

\* install_image_binding_persist, the ready hook of the Apply
Bind ==
    /\ pc = "bind"
    /\ \/ SaveInstall(Candidate) /\ inst' = Candidate /\ Goto("apply")
       \/ SaveInstallFails /\ UNCHANGED inst /\ Goto("save_previous")
    /\ UNCHANGED <<life, cmos, started, frozen, ltpath, invalid, txn, path, storage,
                   past>>

\* The Apply runs to its end, or its evidence is retained.
Apply ==
    /\ pc = "apply"
    /\ \/ /\ NoFault /\ prep' = [prep EXCEPT ![path] = "Prepared"]
          /\ enrolled' = enrolled \cup {path}
          /\ Goto("save_pending") /\ UNCHANGED frozen
       \/ /\ Fault /\ prep' = [prep EXCEPT ![path] = "Dirty"]
          /\ UNCHANGED enrolled /\ Done(TRUE)
    /\ UNCHANGED <<life, cmos, started, ltpath, install, txn, path, past>>

\* A preparation that failed on a clean image puts the previous state back.
SavePrevious ==
    /\ pc = "save_previous"
    /\ \/ SaveInstall(Inactive) /\ inst' = Inactive /\ Done(frozen)
       \/ SaveInstallFails /\ UNCHANGED inst /\ Done(TRUE)
    /\ UNCHANGED <<life, cmos, started, ltpath, invalid, txn, path, storage, past>>

\* One that left a newly enrolled image dirty binds it.
SaveCandidate ==
    /\ pc = "save_candidate"
    /\ \/ SaveInstall(Candidate) /\ inst' = Candidate /\ enrolled' = enrolled \cup {path}
       \/ SaveInstallFails /\ UNCHANGED <<inst, enrolled>>
    /\ Done(TRUE)
    /\ UNCHANGED <<life, cmos, started, ltpath, invalid, txn, path, prep, past>>

\* The launch state of a prepared image; the launch and the start follow.
SavePending ==
    /\ pc = "save_pending"
    /\ \/ /\ inst' = [inst EXCEPT !.phase = "Launch_Pending"]
          /\ SaveInstall(inst') /\ Goto("save_launch") /\ UNCHANGED frozen
       \/ SaveInstallFails /\ UNCHANGED inst /\ Done(TRUE)
    /\ UNCHANGED <<life, cmos, started, ltpath, invalid, txn, path, storage, past>>

\* The order in the CMOS file, as the next Machine reads it.
FileOrder == IF cmosFile = NoOrder THEN DefaultOrder ELSE cmosFile

\* case .Abandon_Windows_98_Installation: an invalid file is set aside, with the
\* boot order it may hold; a bound installation is removed from its image first.
Abandon ==
    /\ pc = "idle" /\ st # "Running"
    /\ \/ /\ invalid
          /\ \/ /\ SaveInstall(Inactive) /\ invalid' = FALSE /\ Done(FALSE)
                /\ lost' = (lost \/ instFile.order \notin {NoOrder, FileOrder})
             \/ SaveInstallFails /\ UNCHANGED <<invalid, lost>> /\ Done(TRUE)
       \/ /\ ~invalid /\ Active(inst) /\ NoFault
          /\ op' = "Abandon" /\ pc' = "remove"
          /\ UNCHANGED <<frozen, invalid, instFile, lost>>
    /\ UNCHANGED <<life, cmos, started, ltpath, inst, txn, path, storage, crashes>>

\* The image carries the owner file of the preparation, or its edit.
Removable == prep[inst.image] # "Clean"

\* win98imageprep.abandon: nothing to remove from a clean image is an error.
\* install_session_finish then refuses when no Machine was started.
Remove ==
    /\ pc = "remove"
    /\ \/ /\ Removable /\ NoFault
          /\ prep' = [prep EXCEPT ![inst.image] = "Clean"]
          /\ IF started THEN Goto("finish_cmos") /\ UNCHANGED frozen ELSE Done(TRUE)
       \/ ~Removable /\ NoFault /\ UNCHANGED prep /\ Done(TRUE)
       \/ /\ Fault /\ Done(TRUE)
          /\ prep' \in {prep, [prep EXCEPT ![inst.image] = "Dirty"]}
    /\ UNCHANGED <<life, cmos, started, ltpath, install, txn, path, enrolled, past>>

\* The completion marker is found on the guest's disk.
SetupCompletes ==
    /\ GuestRuns /\ inst.phase = "Setup_Running" /\ inst.resets > 0
    /\ sess # NoImage /\ ~stuck
    /\ op' = "Finish" /\ pc' = "finish_cmos"
    /\ UNCHANGED <<life, cmos, started, frozen, ltpath, install, txn, path, storage, bounds>>

\* install_session_finish_persist: the CMOS to save has the original order.
Current == IF ram # NoOrder THEN ram ELSE mem

Restored == IF inst.order # NoOrder THEN inst.order ELSE Current

FinishCmos ==
    /\ pc = "finish_cmos"
    /\ \/ /\ Current # NoOrder /\ SaveCmos(Restored)
          /\ user' = (IF inst.order # NoOrder THEN user ELSE user \cup {Current})
          /\ Goto("finish_state") /\ UNCHANGED frozen
       \/ /\ Current # NoOrder /\ SaveCmosFails /\ UNCHANGED user
          /\ Done(op = "Abandon")
       \/ /\ Current = NoOrder /\ NoFault /\ UNCHANGED <<cmosFile, user>>
          /\ Goto("finish_state") /\ UNCHANGED frozen
    /\ UNCHANGED <<life, ram, kept, mem, started, ltpath, install, txn, path, storage,
                   past>>

\* Then the inactive state, and only then the memory and the live Machine.
FinishState ==
    /\ pc = "finish_state"
    /\ \/ /\ SaveInstall(Inactive) /\ inst' = Inactive /\ Done(FALSE)
          /\ mem' = (IF Current # NoOrder THEN Restored ELSE mem)
          /\ ram' = (IF ram # NoOrder THEN Restored ELSE ram)
       \/ SaveInstallFails /\ UNCHANGED <<inst, mem, ram>> /\ Done(op = "Abandon")
    /\ UNCHANGED <<life, kept, cmosFile, user, started, ltpath, invalid, txn, path, storage,
                   past>>

----------------------------------------------------------------------------
Next ==
    \/ Launch \/ Crash \/ Select
    \/ Start \/ Reset \/ SaveStart \/ SaveLaunch \/ Open \/ Boot \/ Configure
    \/ BootFailed \/ Barrier
    \/ Stop \/ Exit \/ GuestPowersOff \/ Close \/ Shutdown
    \/ GuestSetsOrder \/ StorageFails \/ MachineFreezes \/ GuestResets
    \/ SaveReset \/ Rollback
    \/ Install \/ BindEarly \/ Stage \/ Bind \/ Apply \/ SavePrevious
    \/ SaveCandidate \/ SavePending
    \/ Abandon \/ Remove \/ SetupCompletes \/ FinishCmos \/ FinishState

Spec == Init /\ [][Next]_vars

----------------------------------------------------------------------------
(* Properties.                                                             *)

\* Every variable stays within its type.
TypeOK ==
    /\ pc \in Controls /\ op \in Commands
    /\ st \in {"Stopped", "Running", "Recovery"}
    /\ sess \in Images \cup {NoImage} /\ stuck \in BOOLEAN /\ disk \in BOOLEAN
    /\ ram \in Orders \cup {NoOrder} /\ kept \in BOOLEAN
    /\ mem \in Orders \cup {NoOrder}
    /\ started \in BOOLEAN /\ frozen \in BOOLEAN
    /\ ltpath \in Images \cup {NoImage}
    /\ inst \in Install_State /\ invalid \in BOOLEAN /\ txn \in Install_State
    /\ path \in Images \cup {NoImage}
    /\ cmosFile \in Orders \cup {NoOrder}
    /\ instFile \in Install_File
    /\ prep \in [Images -> {"Clean", "Dirty", "Prepared"}]
    /\ enrolled \in SUBSET Images /\ user \in SUBSET Orders /\ lost \in BOOLEAN
    /\ crashes \in 0..MaxCrashes /\ faults \in 0..MaxFaults

\* The boot order a user gets back when an installation is over
\* (install_session.odin): the one the install state saved, or the CMOS file's.
DurableOrder ==
    IF Active(instFile) /\ instFile.order # NoOrder THEN instFile.order ELSE FileOrder

\* However often the process dies or a save fails, the two profile files
\* together hold a boot order of the user, never the override of the
\* installation (install_prepare_boot_cmos, install_session_finish_persist,
\* install_reset_transaction_rollback, vm_lifetime_save_cmos).  There is one way
\* to lose it: the user abandons a state that reads back as invalid while the
\* CMOS file holds the override (install_state_save, install_state_abandon_invalid).
BootOrderKept == ~lost => DurableOrder \in user

\* A test of install_session_finish (install_lifecycle_tests.odin) expects that when
\* no install state is left, the CMOS file has the boot order of the user again.
BootOrderRestored == (pc = "idle" /\ instFile = Inactive) => FileOrder \in user

\* Between commands the file is what a save of the state in memory writes, or it
\* could not be read when the process started.  They differ only after a reset
\* that could be neither done nor taken back in the file (vm_thread.odin,
\* "install state rollback failed"), and never while the guest runs.
InstallStateIsDurable ==
    pc = "idle" =>
        IF invalid THEN ~Readable(instFile) /\ inst = Inactive
        ELSE \/ instFile \in Written(inst)
             \/ /\ ~GuestRuns /\ Active(inst)
                /\ instFile \in Written([inst EXCEPT !.resets = @ + 1])

\* The Machine never holds the block device of a closed session, and between
\* commands a session is open exactly as long as the Machine runs: the freed
\* session of vmlifetime.odin is not reached, and no image stays locked behind
\* a Machine that is reported stopped.
SessionFollowsMachine ==
    /\ disk => sess # NoImage /\ ram # NoOrder
    /\ pc = "idle" => /\ st = "Running" <=> ram # NoOrder
                      /\ sess # NoImage => st = "Running"
                      /\ st = "Running" => sess = ltpath /\ disk = (sess # NoImage)

\* A session that has frozen is never left behind a running guest, and a stop
\* that cannot close it is never reported as done (vm_thread.odin, user-guide.md
\* "freezes the machine instead of pretending it stopped").
FrozenStorageStopsGuest ==
    stuck /\ pc = "idle" => frozen /\ st = "Running"

\* user-guide.md: "Start opens the selected image".
StartOpensSelectedImage == (pc = "idle" /\ st = "Running") => sess = path
=============================================================================
