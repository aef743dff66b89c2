# A TLA+ model of RETVRN99

RETVRN99 (`src/src`, Odin) is a virtual PC for Windows 98 on the Windows
hypervisor platform. This directory models the parts of it that are hard to test:
the crash-safe disk session, the guard that cancels the virtual CPU, the path
of a picture from the guest to the window, the lifetime of the Machine with
the guided installation, and the guest's drivers with the devices they talk to:
sound, 3D, and the arbitration of the display. Every definition is translated from the source; the
lines are in `PROJECT.json` under `map`.

1. [The system](#1-the-system)
2. [Inventory](#2-inventory)
3. [Modules](#3-modules)
4. [Runs](#4-runs)
5. [Fairness](#5-fairness)
6. [Proofs](#6-proofs)
7. [Disagreements between code and documents](#7-disagreements-between-code-and-documents)
8. [Observations that are not findings](#8-observations-that-are-not-findings)
9. [Plan](#9-plan)
10. [Not modelled](#10-not-modelled)

## 1. The system

One process has two main threads.

- The **UI thread** (`main.odin`) draws the window, takes frames from the frame
  mailbox, and turns menu actions into commands.
- The **VM thread** (`vm_thread.odin`) takes commands, owns the `Vm_Lifetime`
  and the Machine in it, and runs the virtual CPU one `machine.step` at a time.

Pool threads of the operating system call back for timers, an SDL thread pulls
audio. The hard drive is a FAT32 image file. Only one owner at a time may write it:
a *Machine session* (the guest's writes) or an *Edit session* (the host browses,
imports files, prepares an installation). By default the owner is a helper
process behind a pipe, so that a crash of the virtual machine does not tear the image.

```
   UI thread                VM thread                        helper process
  +-----------+  commands  +----------------------+  pipe   +---------------+
  | menu, UI  |----------->| Vm_Lifetime, Machine |-------->| FAT32 session |--> image
  | window    |<-----------| VGA, devices, disks  |         | redo log      |--> companion
  +-----------+  mailbox   +----------------------+         +---------------+    directory
        \  kick  +-----------+  cancel /     \
         ------->| run guard |----------      +--> profile files: CMOS, install state
                 +-----------+ <-- timer callbacks
```

Inside the guest, drivers of the project (`drivers/win98`, C) use devices of the
project: `GSWSOUND.DRV` and its VxD play through the PCM device, `GSWMINI.VXD`
submits 3D work to the GSW3D device, which a worker thread of the host hands to the
renderer, and decides which virtual machine of Windows may program the display.

## 2. Inventory

`PROJECT.json` lists every component with its source files. The ones that keep
state worth a model:

| Component | State | Operations | What is hard | Correct when |
|---|---|---|---|---|
| Machine session (`fat32session`, `fat32image`) | image sectors, marker, two state slots, redo log, sequence numbers | open, recover, write, read, barriers, checkpoint, close | a crash between any two storage steps, I/O errors, recovery that is itself cut off | no acknowledged write is lost; a dirty image always finds its owner; a clean one is coherent |
| Edit session (`fat32session/edit_*`, `fat32edit`) | overlay, prepared batch, apply cursor in the same companion directory | open, stage, apply, discard, retain | crash during apply, conflict with a Machine owner | the batch is applied entirely or not at all |
| Helper protocol (`process_adapter`, `server`) | request ids, frozen and closed flags, orphaned session | exchange, terminal error, close, destroy | lost pipe, killed helper, late answers | an answer belongs to its request; an orphan is closed once |
| vCPU guard (`vcpu_watchdog`, `hosttime`) | generation, valid flag, waitable timer, evidence ring | bind, arm, deadline, kick, unbind, quiesce | callbacks that run late, on other threads, across Machines | no cancel of a deleted or of another partition; a command is never stuck behind a running guest |
| Frame pipeline (`vga`, `videopresentation`, `host`) | damage batches, two slots, lifecycle, baseline, texture | capture, publish, acquire, stage, commit, acknowledge, retry | two threads, failing uploads, Machines replaced in between | nothing stale stays on the screen; the screen shows one picture of this Machine |
| VM lifetime (`vmlifetime`, `machine_lifecycle`, `vm_thread`) | state, session, CMOS copies, frozen flag | Start, Reset, Stop, Exit, guest reset and power off | each of several steps may fail | session and Machine end together; a frozen disk stops the guest |
| Guided installation (`install_*`, `win98imageprep`, `profile`) | install state, CMOS file, image preparation | Install, Abandon, count a reset, complete | three files that must agree over crashes | the user's boot order is never lost; an installation can be ended |
| Event scheduler (`machine/event_scheduler`) | heap and its index | set, clear, next, take due | index and heap drift apart | the next event is the earliest |
| Devices (`machine`, `disk`, `audio`, `vga`) | registers, FIFOs, DMA cursors | port accesses, interrupts, transfers | requests that race their completion | an interrupt is neither lost nor repeated |
| Guest sound (`gsw-sound`, `audio/gsw_pcm`) | header queue, plays, ring, completions, position | open, write, pause, reset, break a loop, close; pump; pull; Plug and Play | a timer that preempts the application's call, a full ring, a device that goes away | a header comes back once, after its last frame was heard |
| Guest 3D (`gsw3d_transport.c`, `vga/gsw3d`) | context table, fence counter; queue, result FIFO, generation | contexts, submit, upload, present, process end; worker, poll, reset | three threads and a renderer that finishes out of order, resets with work in flight | a fence follows its effect; accepted work ends |
| Display arbiter (`gsw_display_arbiter.c`, `gsw_display_adapter.c`) | lifecycle, authority, transition | VDD callbacks, mode sets, DirectDraw, requests of VMs | callbacks that are missing or out of order | only the owner of the screen programs it |
| GSW surfaces and presents (`vga/gsw2d*`, `presentation`, `host/gsw3d*`) | surfaces, present transactions | present, commit, retire | three parties with own generations | the screen shows what was presented last |
| Input and pause (`host`, `input_control`) | bounded queue, pause reasons | push, coalesce, apply | a full queue, a key release that is lost | no key stays held |

Interactions: commands go through `push_cmd`, which kicks the guard; the lifetime
binds the guard to a Machine, opens the session and hands its block device to the
Machine; the guest's writes go through the disk controllers to the session; the VM
thread publishes frames to the mailbox; both threads reset the mailbox when a
Machine comes or goes; the installation edits the image through an Edit session
while no Machine runs, and records what it did in the profile.

The hazards are in `PROJECT.json` (`hazards`), each with the line where it bites
and the properties that would catch it.

## 3. Modules

### MachineSession and DurableDisk

`MachineSession` is `wal.odin`, `in_process_adapter.odin` and the parts of
`fat32image` that write the image. For the image, the marker sector and the
companion directory it keeps the value that a reader sees (`img`, `mark`, `comp`)
and the set of values that a crash may leave (`imgMay`, `markMay`, `compMay`): a
write adds to the set, a sync reduces it to the visible value, a crash picks any
member. `pc`, `io` and `op` say where the session's thread is, `st` is `wal.state`,
`seq` and `dseq` are the two sequence numbers, `ri` is recovery's cursor, `w` the
write being served. `allowed` is a history variable: what the guest may rely on in
each sector.

Actions follow the procedures: `OpenStaged` to `Activated` are the open of a clean
image, `RecoverRecord` to `RecoveredIncoherent` are `wal_recover` and the repair of
the FAT mirrors and FSInfo sectors, `GuestWrite` to `ImageApply` are one write
(log, sync, image), `StartBarrier` to `BarrierReturns` a barrier with its
checkpoint, `CloseSync` to `Retire` a clean close. `PrepareFails`, `RecoverFails`
and `SessionFreezes` are I/O errors, `Crash` a loss of power.

Assumptions about storage: a 512-byte sector is written entirely or not at all; a
sync that fails leaves every possible content possible; a failed operation on the
marker or on a companion file settles to the old or the new content; renames and
unlinks keep their order. Records of the log are one sector long. Writes the code
ignores are stuttering steps. The Edit owner of the directory is absent and other
processes are excluded by the image lock. A torn write of the FAT status
sector alone is not a case of its own.

`DurableDisk` says what the session promises: a disk that may go away at any time;
what was acknowledged is there when it returns, what was unanswered is there or is
not, and its return settles which. `Disk` in `MachineSession` is the refinement
mapping: reads are those of the image while the session is up, the possible
contents are `allowed`.

### VcpuGuard

`vcpu_watchdog.odin` with `hosttime/armable_wake_windows.odin`, between three kinds
of threads: the VM thread, pool threads that run timer callbacks, and the UI
thread that pushes a command and kicks. Each critical section of `guard.mu` or
`wake.mu` is one step; a callback releases one before it takes the other
(`Dispatch`, `Deadline`), which is where the races are. Delays are abstracted to
"has elapsed or not". `hv.cancel` is external: it ends a run in progress, and
between two runs the cancel may be kept for the next one or lost. `StepFreezes`
allows a step to freeze at any time, which is more than the code does.
The machine's scheduler is never empty, so a wake is always armed.

### FramePipeline

Damage tracking (`vga/damage.odin`, `scanout_descriptor.odin`), the two-slot
mailbox and its consumer (`videopresentation`), and the window's texture
(`host/presentation.odin`). VM and UI thread interleave at every critical section
of `mailbox.mu` and `shared.mu`. The screen is a set of regions plus video memory
that is not shown; a pixel is the pair of the Machine and the sequence number that
drew it, so the model can tell a stale pixel from a current one. The model covers
the legacy VGA path in one display mode; GSW presents, mode changes and the
sequence numbers that only they use are left out.

### VmLifetime

`vmlifetime.odin`, `machine_lifecycle.odin`, the command loop of `vm_thread.odin`,
`install_session.odin`, `install_reset_transaction.odin`,
`install_image_flow.odin`, and the profile files. The VM thread runs one command
at a time; each step ends with at most one file write, and the process may die
between two steps. The UI thread selects a hard drive meanwhile.

| Variable | Code |
|---|---|
| `st`, `sess`, `disk`, `stuck` | `Vm_Lifetime.state`, its session and whether that is frozen, the Machine's block device |
| `ram`, `mem`, `cmosFile`, `kept` | boot order in the live CMOS, in `Vm_Lifetime.cmos`, in the file; `cmos_retained_generation` |
| `inst`, `invalid`, `instFile`, `txn` | `Vm_Ctx.install_state`, its diagnostic, the file, the state before a counted reset |
| `path`, `ltpath` | the selected image in `Vm_Ctx`, and the one in `Vm_Lifetime` |
| `prep`, `enrolled` | what a preparation left on each image, and which images carry an identity |
| `started`, `frozen` | the VM thread's `m` and `frozen` |
| `user` | history: the boot orders the user may expect to find afterwards |
| `lost` | history: a state that could not be read was abandoned, and it alone held an order |

Of the 128 CMOS bytes only the boot order (0x38, 0x3D) is kept. The milestone of
an installation follows from its phase and its reset count. The disk session is
the one of `MachineSession`, reduced to open, frozen or closed; staging and
applying a preparation are steps that succeed, refuse, fail or are cut off, and
leave the image clean, dirty or prepared. Files are replaced by write and rename;
the death modelled is that of the process, for which the rename is atomic.

`install_state_save` frees the image path before it encodes it
(`profile/install_state.odin:319` and `:336`), so every save of an active state has two
outcomes (`Written`): the path is intact, or it is `BadPath`, no absolute path any more,
and the next start finds the state invalid (`Readable`). That the memory holds another
absolute path by then, which another thread would have had to put there, is left out.

### PcmStream and GswWave

`PcmStream` is one playback stream: the transport of the VxD (`tr`), the PCM device
(`dev`), the ring between them and the Plug and Play state of the device node. Its
requests (`Pm...`) are one step each; the device pulls one frame at a time.
`GswWave` extends it with the Win16 driver: the cyclic queue of headers (`queue`,
`w`), the plays submitted to the VxD (`plays`), the pump that the timer starts
(`pump`) and the call of the application in progress (`app`). A call is split where
a pump in between sees another state than before or after it: `Write`,
`WriteAdvances`, `WriteCounts`; `Pause`, `Pauses`; `Reset`, `ResetCollects`,
`ResetFlushes`. `heard`, `outcome` and `hurt` are history: what was played of a
header, how it came back, and what happened that a guarantee does not cover
(`preempted`, `lapped`, `stopped`, `fault`, `torn`; `Laps` says when a pump laps a
queue, and an abort that follows from one is put down to it).

### DisplayArbiter

Every event of `gsw_display_arbiter.c` is an operator on the state `s`; `Emit` and the
actions after it are the entries of the adapter, which observe the owner of the CRTC,
apply the event and set the traps. The VDD is the environment (`screen`, `switch`): it
moves the screen with a PRE and a POST callback, or between DOS boxes without any.
`odd` remembers that a callback was dropped or announced what did not happen.
The driver is taken to run on this project's adapter, not under QEMU.

### Gsw3dTransport

Driver and device together. `drv` is the driver's state with its table of contexts,
`call` the call in progress (`Post`, `Doorbell`, `Verify` are its register accesses),
`dev` the device with queue and FIFO, `worker` and `work` the worker thread.
`BackendSettles` is the renderer: it finishes work in any order, with success or
failure. `MachinePolls` is the poll in every round of the machine. `Move` lets
ConfigMgr move the device, which the driver notices at the next mode set. `accepted`
and `done` are history: the fences taken and those whose work is finished; `cause`
says why the device may be in error.

## 4. Runs

Every bound is a constant of the module, named in the comment where it is declared.

| Run | Module, configuration | Shows | States |
|---|---|---|---|
| `machine_crash` | `MachineSession`, `MachineCrash` | `TypeOK`, `NoAckedWriteLost`, `OwnerMatchesMarker`, `CleanImageIsCoherent`, `ImplementsDurableDisk`, `BarrierMakesImageStable`, `OperationsEnd`, `DirtyImageReopens` | 870 k |
| `machine_stranded` | `MachineStranded` | a violation, section 7 | |
| `vcpu_guard` | `VcpuGuard` | `ValidGuardHasPartition`, `CancelsItsOwnMachine`, `NoCallbackOutlivesGuard`, `EvidenceInOrder`, `CommandsAreTaken` | 1.3 M |
| `frame_pipeline` | `FramePipeline` | `TypeOK`, `DamageCoversDifference` when the batch list is full, `ScreenShowsThisMachine` over two Machines | 3.3 M |
| `frame_live` | `FramePipeline`, `FrameLive` | `SlotsHaveOneOwner`, `ScreenIsAPicture`, `ChangesReachTheScreen` with partial frames and a failure | 217 k |
| `vm_sessions` | `VmLifetime`, `VmSessions` | `TypeOK`, `SessionFollowsMachine`, `FrozenStorageStopsGuest`, `BootOrderKept`, `InstallStateIsDurable` | 8.5 M |
| `vm_unreadable` | `VmUnreadable` | a violation, section 7 | |
| `vm_selected` | `VmSelected` | a violation, section 7 | |
| `gsw_wave` | `GswWave` | `TypeOK`, `RingHoldsSent`, `AbortMeansFault`, `QueueIsWhatIsOwed` | 1.7 M |
| `gsw_wave_live` | `GswWave`, `GswWaveLive` | `PlayedWasHeard`, `HeadersComeBack` | 267 k |
| `display_arbiter` | `DisplayArbiter` | `VgaAuthorityNeedsVga`, `BackgroundIsShutOut`, `OwnerIsServed` | 6 k |
| `gsw3d` | `Gsw3dTransport` | `TypeOK`, `FencesTellTheTruth`, `ContextsAgree`, `ErrorHasACause`, `PresentsAreCounted`, `AcceptedWorkEnds`, `ResetEnds` | 117 k |

Why the bounds are enough:

- **MachineSession.** A data sector, a FAT sector and both FSInfo sectors give a log that
  holds records of different sectors and two of the same one, and every mirror
  repair. The image starts without an identity, so enrolment is crossed too.
  `WalRecords = 3` with three writes and `WalLag = 2` reach the checkpoint that the
  log forces as well as the one of a barrier. `MaxEpoch = 3` uses both state slots and
  the first again. Two faults are a crash and a second crash, or an I/O error, in the
  recovery of the first.
- **VcpuGuard.** One pool thread and two Machines are the least with which a callback
  of the first Machine meets the second. Six generations cover two boots with a rearm in
  each, two commands a kick that is lost and one that follows. A ring of one entry
  overflows. With two pool threads the liveness check does not end in time; the three
  properties that two callbacks could break are theorems for any number (section 6).
- **FramePipeline.** Two regions are the least with a partial frame. In `frame_pipeline`
  two batches with four changes overflow the list twice, and three lifecycles with two
  Machines are a frame in flight from the first, a host that knows the second and a
  mailbox in the third. In `frame_live` a warm reset gives a partial frame of a lifecycle
  whose baseline the host lacks, so that it asks for a full one, and the failure is a boot,
  a capture or an upload. Damage that a failure loses shows there too: `ScreenIsAPicture`
  compares the texture with the whole picture at the capture.
- **VmLifetime.** Three orders tell apart the default, the user's and the
  installation's. Two images are what a selection needs. One reset, one death of the
  process and one failing operation meet at any step; that more of them change nothing is
  proved. `VmUnreadable` allows no death, no failure and no reset, so that its trace
  has nothing in it but the freed path.
- **GswWave.** A queue of three headers with four writes is full, wraps and reuses a header,
  and is the shortest in which a lap of the cursor (section 8) meets a loop that has not
  ended and aborts the queue. The completion list has the length of the queue, as in the
  code. Tokens wrap at five. Buffers have one frame there. `gsw_wave_live` has buffers of
  two frames over a ring with room for one, so that a buffer is partly in the ring, loops
  of two rounds and a fault.
- **DisplayArbiter.** Two DOS boxes: one may have the screen while the other asks. Proved for
  any number.
- **Gsw3dTransport.** A queue of two is full with four commands, as is a FIFO of one
  result; with one present in flight and one context left the limits on both are met.
  Three generations are a binding, its reset and a second binding while work of the
  first may still be executed.

Deadlock is checked but in the runs of `GswWave`, where an application may stop calling
when its headers are back.

## 5. Fairness

- `MachineSession`: weak fairness of the session thread's own steps: the calls it
  makes return. Nothing is assumed of the guest or of the faults, of which
  there are finitely many. `DirtyImageReopens` also assumes an owner that keeps
  opening the image (`SpecReopens`, which has the states of `Spec`). A guest that writes
  the two FATs and is cut off between them leaves an image that the open refuses
  (`complete_recovery`; the model's name for this refusal is FAT_Invalid). The property
  says that nothing else ends this way.
- `VcpuGuard`: the VM thread goes round its loop, the timer's delay elapses, the timer
  signals, a pool thread runs its callback. Not assumed: that the guest leaves
  `hv.run` by itself, which is exactly what the guard is for.
- `FramePipeline`: the VM thread publishes while it has a Machine, strongly fair because a
  round that reset the Machine goes on to the test of `SNAP_PERIOD`
  (`vm_thread.odin:860`), so that a guest that resets itself without end does not
  keep its picture off the screen; a boot ends, the UI thread goes round. Not assumed: that the guest draws, or that the user
  stops anything. Failures are bounded by `MaxFails`.
- `VmLifetime` and `DisplayArbiter` state no liveness: a session or a screen may stay as it
  is for ever.
- `GswWave`: the timer ticks while the stream is open (`timeSetEvent`), what the
  processor has begun it ends, the device pulls frames while it runs, and its interrupt
  line is served. Not assumed: that the application calls, that Plug and Play starts the
  device again, or that a fault goes away.
- `Gsw3dTransport`: the worker thread runs, the renderer ends its work with success or
  failure (the UI thread drains the bridge, and the cancel callback ends what is blocked
  at a reset), and the machine polls the device in every round (`machine.odin:1159`). Not
  assumed: that the driver does anything.

## 6. Proofs

TLAPS checks the following for every value of the constants that satisfies the
named assumptions.

**`MachineSession_proofs`.** `TypeCorrect`: `Spec => []TypeOK`. The invariant is
inductive as it stands. One lemma per storage primitive (`ImageWriteTyped`,
`CompanionWriteTyped`, `SettlesTyped`, ...) says that visible value and possible
values keep their type; `StepTyped` has one step per action and cites them.
Assumptions: `SectorsDistinct`, `ConstantTypes`.

**`MachineDurability_proofs`.** The durability of the session, for every set of
sectors, contents and identities and any number of crashes and I/O errors, from the same
assumptions. `AckedWritesSurvive`, `OwnerAlwaysFound`, `CleanMeansCoherent` and
`BarrierIsDurable` state the four properties of `machine_crash` beside type and refinement. They say what a reader
finds on the disk now; what the *next* recovery will find depends on where the session
was stopped, so the inductive invariant `Durable` (theorem `AlwaysDurable`) speaks of all
states a crash may leave (`imgMay`, `compMay`, `markMay`) at every place of the session:

- `Marks`, `SlotsInPlace`, `Settled`: which markers, slots and directories a crash may
  leave. The marker may be either one only while it is being written; what was removed from a
  clean image may come back until its successor is synced;
- `Owned`, `Log`: the session's copy of the state is the one the next open will load, and
  no record is ahead of it but that of the write being applied;
- `Stability`: where the whole image is stable, and where mirrors and FSInfo agree;
- `Covered`: a write that a crash may take back is in the log. `Safe`: what recovery
  will make of each sector is allowed. `Replayed`: recovery, stopped at any record and
  begun again, ends with the last record of each sector;
- `ImageAllowed`, `Writing`: the same for the image once recovery is over, and for the
  write being served.

`SessionImplementsDisk` is the refinement of `DurableDisk`: initial states map to initial
states, and each action of the session to a step of the disk or a stutter, given `Durable`.

**`VcpuGuard_proofs`.** `TypeCorrect` needs one fact more than the type, that no
more evidence was flushed than recorded (`Typed`). The three other theorems come
from one inductive invariant

    Inv == Typed /\ Control /\ Generations /\ OwnWakes /\ Quiet /\ CancelsItsOwnMachine

- `Control` ties the flags of the guard to the place of the VM thread: the guard is
  valid only between bind and unbind, where the partition lives.
- `Generations`: no wake, armed or read by a callback, carries a generation that
  was not handed out yet. Without it a stale callback could match a later arm.
- `OwnWakes`: a wake that carries the current generation was armed for the current
  Machine. This is why comparing generations is enough to tell Machines apart.
- `Quiet`: once the wake is unregistered no callback is queued or running.

`NoCancelWithoutPartition`, `NoCancelOfAnotherMachine` and `DestroyedGuardIsQuiet`
follow. They hold for any number of pool threads, Machines, kicks and any size of
the evidence ring.

`EvidenceIsOrdered` (`EvidenceInOrder`) has an invariant of its own: slot `k % Capacity`
holds event `k` as long as no event a ring later has been recorded (`RingHoldsRecent`), and
what the trace has received is older than the next event a flush looks at
(`DeliveredIsOld`). That two events less than a ring apart have different slots
(`SlotsDistinct`) is arithmetic on `%` for every capacity.

**`FramePipeline_proofs`.** For every set of regions, every length of the damage list from
two on, and any number of frames, lifecycles, Machines and failures. `SlotsOwned`,
`DamageIsKept`, `OnePicture`, `OneMachine` and `PipelineTypeCorrect` are the five safety
properties of the pipeline; the inductive invariant is `Typed /\ Pipeline`
(`PipelineInvariant`):

- `Ownership`, `Lifecycles`: which thread has which slot, and that frames, copies and
  textures are of no later lifecycle than the mailbox;
- `Numbers`: batches are in order, and nothing carries the current sequence while damage of
  it is pending. Without it an acknowledgement could remove damage its frame did not carry;
- `CapturesCovered`, `CopiesCovered`: where a capture or a copy differs from video memory, a
  batch younger than it says so, also after the two oldest were merged;
- `FramesComplete`, `StagedComplete`, `TextureComplete`: what a partial frame leaves out is
  already where the frame will be applied, or in the frame that is applied before it;
- `Machines`: whose pictures they are.

**`VmLifetime_proofs`.** `TypeCorrect` needs `Selected`: the places of a
preparation are reached only with a selected image, which joins the set of enrolled
images. `SessionsEnd` (`SessionFollowsMachine`) and `FrozenStorageIsSeen`
(`FrozenStorageStopsGuest`) follow from `Places`, which says for every place of the VM
thread whether there is a Machine (`Runs`), none (`Ended`), or a session between two
Machines (`Detached`), and which commands lead there. The properties
speak of the time between commands only; the proof needs the places in between.

`UserOrderIsKept` (`BootOrderKept`) holds for any number of crashes, faults and resets
and for every outcome of `Written`. There is one way to lose the order: the user abandons
a state that reads back as invalid while the CMOS file has the override. `lost` records
exactly that, it is never taken back (`LostStays`), and section 7 has the run. Until then
the invariant `BootOrders`, on top of `Places`, is

- `Kept`: one of the two files holds an order of the user;
- `SameOrder`: the install state in memory and in the file agree on the order, also when
  the path in the file was overwritten (`WrittenKeeps`), but for the next part;
- `Unread`: while the state is invalid the one in memory is inactive, the VM thread is
  between commands and there is no Machine, so that only Abandon leads on;
- `CmosCopies`: without a Machine the lifetime's copy is the user's, unless
  an order is saved, and it is empty only if the file is;
- `OverrideIsSaved`: a Machine that runs an installation has its order saved. Between
  the import of the CMOS and the override it has the user's;
- `FallbackIsSame`: a reset that is taken back falls back to the same order;
- `InstallPlaces`: as long as a preparation can be taken back the CMOS file is the
  user's; an end of the installation writes the restored order to it first.

`InstallStateIsKept` (`InstallStateIsDurable`) says that the file has the state in memory
or what `Written` makes of it. Its invariant `InstallFile` says at every place of the VM
thread how far memory and file may differ (`FileFollows`: not at all, or by a reset that
was counted in the file and could not be taken back), that a reset of the guest can be
undone from its transaction (`CountIsUndoable`), and that the steps that save a state have
one (`OrderIsSaved`, `StateIsHeld`).

**`DisplayArbiter_proofs`.** For every set of DOS boxes, from `VMAssumption` alone.
`VgaAuthorityIsSafe`, `BackgroundIsSafe`, `OwnerIsLetThrough`, `TransitionsAreClosed` and
`TypeCorrect` come from one inductive invariant. Its parts beside the four properties:

- `ScreenFollowsSwitch`: between a PRE and its POST the screen is where the switch came
  from or where it goes, and the desktop is on it only while the system VM owns it;
- `TransitionIsSwitch`: a transition the arbiter holds is that of the switch under way;
- `VgaBetweenSwitches`, `VgaInSwitch`: who may hold the authority for the VGA outside a
  switch, and in each of its three stages.

The properties speak of the time outside a switch, or of the last answer; what happens
at a POST depends on what PRE left, which is why the stages are needed.

**`Gsw3dTransport_proofs`.** For all capacities, all finite sets of contexts and all
processes, with the synchronous and the asynchronous backend. Assumptions:
`CapacityAssumption`, `ProcessAssumption` (`None` is neither a context nor a process) and
`BoundsAssumption`. Three inductive invariants, each on top of the one before:

- `Typed`, for `TypeCorrect` and `PresentsCounted`: beside type and count, a worker
  that is busy has a place in the FIFO (`RoomForResult`). The code looks for the place when
  it takes the command and adds the result without another look.
- `Fencing`, for `FencesAreTrue`: for some k the accepted fences are 1..k; those in flight
  are the last of them, in order over FIFO, worker and queue; all before them are done
  (`Ordered`); and the driver's next fence is k + 1, or k after a failure that
  came between doorbell and verification (`Numbered`). Work of an earlier generation is
  in the worker at most, and counts for nothing (`Mine`). `Sound` ties a poisoned device
  and a failed result to a failure of the backend.
- `Holding`, for `TablesAgree` and `ErrorsAreCaused`: the device has the contexts of the
  driver's table, except for the command it has accepted and the driver has not
  verified (`Agree`); and while nothing has gone wrong, each call meets a device that can
  execute its command at the doorbell (`Quiet`). The registration of the staging region
  never fails then, since a new binding finds an empty queue, which follows from `Fencing`.

**`GswWave_proofs`.** For all headers, all sizes of ring, queue and completion list, and
any number of writes, preemptions, device failures and stops by Plug and Play: `TypeCorrect`,
`RingIsRight` (`RingHoldsSent`), `QueueIsKept` (`QueueIsWhatIsOwed`), `AbortsAreFaults`
(`AbortMeansFault`) and `PlayedIsHeard` (`PlayedWasHeard`). Assumptions:
`SourcesAssumption`, `RingAssumption`, `CapacityAssumption`, `GainsAssumption`,
`QueueAssumption`, `BufferAssumption` and `TokenAssumption`. The indexes of both rings are
taken modulo a constant, which the SMT solver cannot do: `ModAdd` and `ModSub` turn them
into a case each, and the rest is linear but for the products of rounds and sizes. For the first
three the inductive invariant is `PcmInv /\ WaveInv` (`InvariantHolds`):

- `PcmInv`: beside `RingHoldsSent`, an open stream has a configured device, or the device
  would refuse the tail that the transport has already taken; and a device runs only for
  an open stream. `SubmitCells` and `PullCells` say which cells change;
- `Sound`: the loops to be released are the releases among the plays (so
  `pending` never falls below 0), a slot in use has frames to submit, and a write that is
  under way has its slot (`Extra`);
- `Shape`: the slots in use are those from the oldest on, counted or being written,
  `queue_write` is the next one, no header is in two slots, and while a reset flushes it holds
  all that is owed. It is assumed only while no abort has torn a write (`Whole`).

The attempt showed that `QueueIsWhatIsOwed` did not hold as it was first stated: the run has
one fault, and with two an abort meets a write that is not counted (section 8). The
property now excepts exactly that, and a run with two faults agrees
(1.5 M states with two writes).

The other two speak of a stream that nothing has happened to (`hurt = {}`). Each adds an
invariant to the one before, first `StreamInv` (`StreamHolds`):

- `Healthy`: device, VxD and driver agree on the stream and on the pause, and the pump runs
  only between calls; `Answers`: the completions of the VxD are those of the plays, one
  for one (during a reset there are none);
- `Nested`: the loops in the queue do not nest, and `queue_loop_open` tells whether the
  last is open;
- `Placed`: there are marks, `mark[i]` being the number of buffers gone when i plays are
  answered, and a place k of the schedule (`Scheduled`). Each play returns what lies between
  its marks, a loop as a whole; what is scheduled after the last mark is the loop being
  played. The code keeps no such marks: its plays name indexes of the queue, and the proof
  shows that these always mean the head. Hence `NoPollAbort` and `NoSubmitAbort`.

Then `HearInv` (`FramesAreKept`), an account of every frame of the queued headers:

- `Kept`: the ring's position and what is sent add up to what was submitted; what is sent
  belongs to queued headers; every slot agrees with what was asked for its header, also on
  the rounds of the loop it is in (`Sizes`);
- `Told`: frames pulled plus frames sent (`Given`) of every buffer are a whole number of
  rounds, given by where it lies between the last mark and the schedule (`Share`), plus
  what its slot says is submitted; and whatever a play returns is pulled
  when its completion is due (`Due`). So what goes back has nothing left in the ring, and
  `Given` is what was heard.

The attempt on the second invariant found how far a lap goes (section 8), which
`Lapped` now covers.

All of it was model-checked before it was proved.

Only model-checked:

- the liveness properties (`OperationsEnd`, `DirtyImageReopens`, `CommandsAreTaken`,
  `ChangesReachTheScreen`, `HeadersComeBack`, `AcceptedWorkEnds`, `ResetEnds`): fairness and
  ENABLED are out of the prover's reach.

## 7. Disagreements between code and documents

Each is a run that expects a violation; TLC's trace is the scenario.

1. `machine_stranded` (`ClosedImageOpens`): the companion directory is created
   durably before its first state. A crash in between leaves a clean image that
   no open accepts, although nothing was written to it.
2. `vm_selected` (`StartOpensSelectedImage`): selecting another hard drive updates
   the settings and `Vm_Ctx`, not `Vm_Lifetime`. Start opens the image of the
   process start; an installation prepares one image and boots the other.
3. `vm_unreadable` (`BootOrderRestored`): tests of the install state and of
   `install_session_finish` expect that a saved state reads back with its path, and that
   the CMOS file has the user's boot order again once no installation is active. The
   `defer delete(normalized_path)` of `install_state_save` stands in the block of the `if`,
   so the path is freed before `json.marshal` reads it. The run installs, exits (which
   saves the override to the CMOS file), starts with a state that is invalid, and abandons
   it: `install_state_abandon_invalid` keeps a copy as evidence but restores nothing, and
   the hard drive stays first. No crash and no failing operation is needed. The tests use
   the temporary allocator, where a delete does nothing; `settings.odin:202` has the
   `defer` at the level of the procedure.

## 8. Observations without a run

Behaviours the models have and no run singles out:

- An image that is not enrolled gets its identity from the Prepared state; after a
  crash before `activate` the state is refused because the image carries no
  identity (`wal.odin:525`). Edit owners have `restore_unenrolled` for this case.
- Abandon in a process that has not started a Machine removes the staged files,
  then `install_session_finish` returns for a nil Machine and the state stays
  (`vm_thread.odin:594`). Start is then blocked by the missing preparation and the
  next Abandon by the missing files.
- After a failed boot the state is Recovery, where Start and Exit are both refused;
  the message of Exit blames the disk (`machine_lifecycle.odin:69`).
- A process that dies between saving the binding and editing the image leaves a
  preparation that can be neither retried nor abandoned
  (`install_image_flow.odin:268`).

Others:

- An upload that fails half way retires the texture. If an earlier frame's
  acknowledgement has removed the visible damage, the retried capture has nothing to
  bring and the window stays empty until the guest draws
  (`TextureLost`, exempted in `ChangesReachTheScreen`).
- A frame of a new lifecycle that is consumed before the host adopted it is refused
  and not retried; the next publication brings it.
- Requests for a baseline frame happen on this path only when `machine_running`
  flickers around a warm or a refused reset.
- `Vm_Guard.arm_failures` is not reset by a new bind: one failure to arm freezes every
  later Machine of the process.
- A machine whose trace buffer cannot be allocated is shut down before the saved CMOS
  was imported, and the shutdown saves the defaults over it. Failing allocations are
  left out of the model.
- `atomic_replace` does not sync: a loss of power may leave an older or an empty file.
- The UI thread frees `Vm_Ctx.hard_drive_path` while the VM thread may read it.
- The Maintenance state of `Vm_Lifetime` is not reached by any command.

Sound driver (the model has them; the properties except them through `hurt`):

- The timer's callback preempts the application in the driver and nothing masks it. A
  pump between the advance of the write index and the count of a write
  (`gswsound_drv.c:696`) can schedule the oldest buffer of a full queue again: it is then
  played twice and another comes back unheard. A pump between the stop of the
  device and the flag `paused` (`gswsound_drv.c:750`) is refused and returns every header as
  aborted. A pump in a reset (`gswsound_drv.c:740`) submits to the stream that was just
  emptied and leaves a completion in the VxD that no play waits for. The queue still
  holds every header that is owed (`QueueIsWhatIsOwed`).
- An abort of the queue forgets the header of a write it meets between the link and the
  count (`gswsound_drv.c:219`, `hurt` gets `torn`): the abort zeroes the slot, the write
  then counts it empty, and the header keeps `WHDR_INQUEUE`. It takes a timer tick inside
  the write and a device failure, or two ticks inside one write.
- A reset that is preempted between the collection and the zeroing of the queue
  (`gswsound_drv.c:219`) returns what it collected also when the pump has returned it
  already: the application may get `WOM_DONE` twice for one header.
- A queue that is full with a loop of several buffers lets the cursor lap the buffers
  that are still playing (`gswsound_drv.c:403`, `Lapped`): they are submitted again. With
  three slots or more the head that is submitted again may also begin another loop than
  the active one; `gsw_finish_occurrence` then fails and the whole queue is aborted. The
  proof of `AbortMeansFault` met this; with two slots it cannot happen.
- A device that loses bus mastering while a buffer is partly in the ring plays nothing and
  reports nothing the pump reacts to: the header waits for a reset
  (`gswsound_drv.c:263`).

Display arbiter: the driver's README says "Desktop return commits through the directional
VDD POST only when its fresh physical-owner observation agrees"
(`drivers/win98/derived/vmdisp9x-gsw/README.md:39`). The arbiter also commits the desktop on
`DESKTOP_PROGRAMMED` while the driver reconfigures (`gsw_display_arbiter.c:266`), an event
without an observation: a DOS box that is on the screen when the driver is disabled,
registered again and sets its mode loses the authority while it owns the CRTC.

3D transport:

- A process that ends while the queue is full is forgotten by the driver and kept by the
  device (`gsw3d_transport.c:364`). A later context of the same id is refused with an error
  that no call clears, and 3D stops for every process until the next binding
  (`cause` is `orphan`).
- One invalid upload or submission of any process does the same (`invalid`).
- The reset of a shutdown is asynchronous. An initialisation that comes before the worker
  has done it finds the device not ready and gives 3D up for that binding
  (`gsw3d_transport.c:185`).
- After ConfigMgr moved the device the driver cannot unregister the staging region of
  the old binding; the new registration is refused and 3D is lost until a
  shutdown and an initialisation (`moved`).

## 9. Plan

Done: `MachineSession`, `DurableDisk`, `VcpuGuard`, `FramePipeline`, `VmLifetime`,
`PcmStream`, `GswWave`, `DisplayArbiter`, `Gsw3dTransport`, and the proofs of section 6.
Next, in this order:

1. `HelperProtocol`: client and server of the session pipe, a killed helper, a lost
   pipe; composed with the states of the session that `VmLifetime` uses. Abstract
   specification: a request is answered at most once, by its own answer, or the
   session is frozen.
2. `EditSession`: the other owner of the companion directory, the prepared batch and
   its application; abstract specification: an atomic batch on the disk of
   `DurableDisk`. With it the hard-drive controllers and the adoption of images.
3. `EventScheduler`: the heap with its index against a map from devices to deadlines.
4. `Interrupts` (PIC, PIT, i8042, CMOS), then `IdeChannel` (task file, bus-master DMA,
   ATAPI) and `Fdc`: requests, completions and interrupts as state machines.
5. `GswPresent`: surfaces, presents and their commit, the hand-over of 3D work between
   VM and UI thread behind `BackendSettles`, and the GSW half and mode changes of
   `FramePipeline`.
6. `InputQueue` (bounded queue, held keys, pause reasons), `AudioRing`,
   `ProfileLock`, `RasterJournal`.

Theorems: every invariant and every action property that a run checks is proved. What is
left comes with the modules above, such as the heap order of `EventScheduler`.

## 10. Not modelled

Rendering and register semantics of the VGA, sample synthesis, readers of ISO,
cabinet and image files, cryptographic and path helpers: functions of their
input, better tested than modelled. SDL and hypervisor calls are external.
Telemetry feeds nothing back. Of the guest's C code the mixer of the sound driver, the
surface commands of the 2D transport, the DirectDraw bridge and the window-system layer
for Mesa are left out: they wait for each answer under one lock and keep little state.
SeaBIOS, VGABIOS and Dear ImGui under `vendor_local` are third-party code that is built
as it is, and most of the C in the repository; the project's own logic is the Odin
code under `src/src` and the drivers. Acceptance runners, scripts and tools are not part of the product.
`PROJECT.json` gives the reason for each.
