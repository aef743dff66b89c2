----------------------------- MODULE VcpuGuard -----------------------------
(***************************************************************************)
(* The vCPU run guard: src/src/vcpu_watchdog.odin on top of the armable    *)
(* timer of src/src/hosttime, as the VM thread uses it while it boots,     *)
(* steps, resets and tears down a Machine (vmlifetime.odin, machine.odin). *)
(*                                                                         *)
(* Three kinds of threads meet here.  The VM thread arms a deadline before *)
(* it enters hv.run and destroys the partition when the Machine stops.     *)
(* Timer callbacks run on pool threads and cancel the vCPU.  The UI thread *)
(* queues a command and kicks the vCPU so that the VM thread sees it.      *)
(*                                                                         *)
(* Every critical section of guard.mu or wake.mu is one step.  The         *)
(* scheduler always has a next event (the CMOS clock never stops), so a    *)
(* wake is always armed; the time to the deadline is abstracted to the     *)
(* flag wake.due.                                                          *)
(***************************************************************************)
EXTENDS Integers, Sequences, FiniteSets

CONSTANTS Callbacks,    \* pool threads that can run a timer callback
          MaxGen,       \* bound: guard generations
          MaxMachines,  \* bound: Machines booted
          MaxSignals,   \* bound: timer signals queued and not yet dispatched
          MaxKicks,     \* bound: commands queued by the UI
          MaxWakes,     \* bound: wakes recorded, except those a run still needs
          Capacity,     \* VM_GUARD_EVIDENCE_CAPACITY
          Batch         \* len(batch) of vm_guard_flush_wake_evidence

ASSUME BoundsAssumption ==
    /\ MaxGen \in Nat /\ MaxMachines \in Nat /\ MaxSignals \in Nat
    /\ MaxKicks \in Nat /\ MaxWakes \in Nat

ASSUME EvidenceAssumption == Capacity \in Nat \ {0} /\ Batch \in Nat \ {0}

VARIABLES
    pc,        \* where the VM thread is
    mode,      \* the schedule mode it is applying, while pc = "arm" or "arm_wake"
    ret,       \* where it goes after that
    part,      \* the WHPX partition: none, live, closing
    mach,      \* number of the current Machine
    guard,     \* Vm_Guard: generation, vm bound, valid
    wake,      \* Armable_Wake: armed, periodic, generation, due
    failed,    \* guard.arm_failures > 0: set once, for all later Machines too
    timer,     \* the waitable timer: set or not
    signals,   \* timer signals whose callback has not started
    cb,        \* per pool thread: the callback it is in
    cancel,    \* a cancel is pending in the hypervisor
    cmds,      \* commands queued and not taken
    kicks,     \* commands queued so far
    evid,      \* wake evidence: count, flushed, dropped
    ring,      \* the evidence ring: the number of the event in each slot
    delivered, \* evidence handed to the hardware trace, in order
    hit        \* the last cancel: the Machine it was armed for, the Machine it met

vm    == <<pc, mode, ret>>
world == <<part, mach>>
ev    == <<evid, ring, delivered>>
vars  == <<pc, mode, ret, part, mach, guard, wake, failed, timer, signals, cb,
           cancel, cmds, kicks, evid, ring, delivered, hit>>

Modes == {"Disarm", "One_Shot", "Run_Guard"}

\* The wake of a Machine that is being booted is armed for that Machine; mach
\* and gen of an idle callback are those of its last dispatch.
Callback == [in : BOOLEAN, gen : Nat, mach : Nat]
Guard    == [gen : Nat, vm : BOOLEAN, valid : BOOLEAN]
Wake     == [armed : BOOLEAN, periodic : BOOLEAN, gen : Nat, due : BOOLEAN,
             registered : BOOLEAN, mach : Nat]
Evidence == [count : Nat, flushed : Nat, dropped : Nat]
Cancel   == [armed : Nat, mach : Nat]

TypeOK ==
    /\ pc \in {"down", "booted", "bind_disarm", "bind_set", "arm", "arm_wake",
               "top", "loop", "enter", "run", "flush", "stepped", "frozen",
               "unbind_disarm", "destroy", "closing", "final_disarm",
               "quiesce", "quiesce_disarm", "unregister", "gone", "destroy_failed"}
    /\ mode \in Modes
    /\ ret \in {"top", "loop", "enter", "run", "flush"}
    /\ part \in {"none", "live", "closing"}
    /\ mach \in Nat
    /\ guard \in Guard
    /\ wake \in Wake
    /\ failed \in BOOLEAN
    /\ timer \in BOOLEAN
    /\ signals \in Nat
    /\ cb \in [Callbacks -> Callback]
    /\ cancel \in BOOLEAN
    /\ cmds \in Nat
    /\ kicks \in Nat
    /\ evid \in Evidence
    /\ ring \in [0..Capacity - 1 -> Nat]
    /\ delivered \in Seq(Nat)
    /\ hit \in Cancel

Init ==
    /\ pc = "down" /\ mode = "Disarm" /\ ret = "top"
    /\ part = "none" /\ mach = 0
    /\ guard = [gen |-> 0, vm |-> FALSE, valid |-> FALSE]
    /\ wake = [armed |-> FALSE, periodic |-> FALSE, gen |-> 0, due |-> FALSE,
               registered |-> TRUE, mach |-> 0]
    /\ failed = FALSE /\ timer = FALSE /\ signals = 0
    /\ cb = [t \in Callbacks |-> [in |-> FALSE, gen |-> 0, mach |-> 0]]
    /\ cancel = FALSE
    /\ cmds = 0 /\ kicks = 0
    /\ evid = [count |-> 0, flushed |-> 0, dropped |-> 0]
    /\ ring = [i \in 0..Capacity - 1 |-> 0]
    /\ delivered = <<>>
    /\ hit = [armed |-> 0, mach |-> 0]

-----------------------------------------------------------------------------
(* The hypervisor, external: hv.cancel ends a run in progress.  Outside a   *)
(* run the request may be kept for the next run or lost; the code never     *)
(* relies on either, a run guard is repeated until the run ends.            *)

HvCancel == cancel' \in IF pc = "run" THEN {TRUE} ELSE {cancel, TRUE}

\* One cancel of the vCPU, on behalf of the wake armed for Machine m.
CancelFor(m) ==
    /\ HvCancel
    /\ hit' = [armed |-> m, mach |-> mach]

-----------------------------------------------------------------------------
(* Armable_Wake                                                             *)

\* armable_wake_disarm: a callback that is already queued stays queued.
Disarm ==
    /\ IF wake.registered
       THEN /\ wake' = [wake EXCEPT !.armed = FALSE, !.periodic = FALSE]
            /\ timer' = FALSE
       ELSE UNCHANGED <<wake, timer>>

\* Mutant: no retry period, as if the guard were an ordinary one-shot wake.
ArmOnce(m) ==
    /\ wake.registered
    /\ wake' = [wake EXCEPT !.armed = TRUE, !.periodic = FALSE,
                            !.gen = guard.gen, !.due = FALSE, !.mach = mach]
    /\ timer' = TRUE

\* armable_wake_arm, with the retry period that vm_guard_arm asks for.
Arm(m) ==
    /\ wake.registered
    /\ wake' = [wake EXCEPT !.armed = TRUE, !.periodic = (m = "Run_Guard"),
                            !.gen = guard.gen, !.due = FALSE, !.mach = mach]
    /\ timer' = TRUE

\* SetWaitableTimerEx fails, or the wait is no longer registered.
ArmFails ==
    /\ wake' = IF wake.registered
               THEN [wake EXCEPT !.armed = FALSE, !.periodic = (mode = "Run_Guard"),
                                 !.gen = guard.gen, !.due = FALSE, !.mach = mach]
               ELSE wake
    /\ UNCHANGED timer

\* Time passes the delay of the armed wake.
DelayElapses ==
    /\ wake.armed /\ ~wake.due
    /\ wake' = [wake EXCEPT !.due = TRUE]
    /\ UNCHANGED <<vm, world, guard, failed, timer, signals, cb, cancel, cmds, kicks,
                   ev, hit>>

\* The timer expires: its callback is queued on the pool, again and again
\* when the timer is periodic.  Past MaxWakes it expires only for a run that
\* nothing has cancelled yet, which keeps the bound from ending the retries.
TimerSignals ==
    /\ timer /\ wake.due /\ signals < MaxSignals
    /\ evid.count < MaxWakes \/ (pc = "run" /\ ~cancel)
    /\ signals' = signals + 1
    /\ timer' = wake.periodic
    /\ UNCHANGED <<vm, world, guard, failed, wake, cb, cancel, cmds, kicks, ev, hit>>

\* armable_wake_dispatch up to the unlock of wake.mu: the generation is read
\* here and used after the lock is released.
Dispatch(t) ==
    /\ signals > 0 /\ ~cb[t].in /\ wake.registered
    /\ signals' = signals - 1
    /\ IF wake.armed /\ wake.due
       THEN /\ cb' = [cb EXCEPT ![t] = [in |-> TRUE, gen |-> wake.gen,
                                        mach |-> wake.mach]]
            /\ wake' = [wake EXCEPT !.armed = wake.periodic]
       ELSE UNCHANGED <<cb, wake>>
    /\ UNCHANGED <<vm, world, guard, failed, timer, cancel, cmds, kicks, ev, hit>>

-----------------------------------------------------------------------------
(* Vm_Guard                                                                 *)

\* Mutant: the callback does not compare generations.
DeadlineAnyGeneration(t) ==
    /\ cb[t].in
    /\ cb' = [cb EXCEPT ![t].in = FALSE]
    /\ IF guard.valid /\ guard.vm
       THEN /\ CancelFor(cb[t].mach)
            /\ ring' = [ring EXCEPT ![evid.count % Capacity] = evid.count]
            /\ evid' = [evid EXCEPT !.count = @ + 1]
       ELSE UNCHANGED <<cancel, hit, ring, evid>>
    /\ UNCHANGED <<vm, world, guard, failed, wake, timer, signals, cmds, kicks,
                   delivered>>

\* vm_guard_deadline
Deadline(t) ==
    /\ cb[t].in
    /\ cb' = [cb EXCEPT ![t].in = FALSE]
    /\ IF guard.gen = cb[t].gen /\ guard.valid /\ guard.vm
       THEN /\ CancelFor(cb[t].mach)
            /\ ring' = [ring EXCEPT ![evid.count % Capacity] = evid.count]
            /\ evid' = [evid EXCEPT !.count = @ + 1]
       ELSE UNCHANGED <<cancel, hit, ring, evid>>
    /\ UNCHANGED <<vm, world, guard, failed, wake, timer, signals, cmds, kicks,
                   delivered>>

\* push_cmd: the command is queued, then vm_guard_kick.
PushCommand ==
    /\ kicks < MaxKicks /\ pc # "gone"
    /\ kicks' = kicks + 1
    /\ cmds' = cmds + 1
    /\ IF guard.valid /\ guard.vm THEN CancelFor(mach) ELSE UNCHANGED <<cancel, hit>>
    /\ UNCHANGED <<vm, world, guard, failed, wake, timer, signals, cb, ev>>

\* Mutant: the generation moves on but the partition stays bound.
InvalidateGenerationOnly ==
    guard' = [guard EXCEPT !.gen = @ + 1]

\* The first section of vm_guard_bind, vm_guard_unbind and vm_guard_quiesce.
Invalidate ==
    guard' = [gen |-> guard.gen + 1, vm |-> FALSE, valid |-> FALSE]

-----------------------------------------------------------------------------
(* The VM thread                                                            *)

Schedule(m, back) == pc' = "arm" /\ mode' = m /\ ret' = back

Goto(where) == pc' = where /\ UNCHANGED <<mode, ret>>

NoCallbackState == UNCHANGED <<failed, signals, cb, cmds, kicks, ev, hit>>

\* The loop of vm_thread_proc takes all queued commands before each step ...
TakeCommands ==
    /\ pc = "top"
    /\ cmds' = 0
    /\ Goto("loop")
    /\ UNCHANGED <<world, guard, failed, wake, timer, signals, cb, cancel, kicks,
                   ev, hit>>

\* ... and, between two sleeps, while no Machine lives or it is frozen.
TakeCommandsIdle ==
    /\ pc \in {"down", "frozen"} /\ cmds > 0
    /\ cmds' = 0
    /\ UNCHANGED <<vm, world, guard, failed, wake, timer, signals, cb, cancel,
                   kicks, ev, hit>>

\* vm_lifetime_boot up to the guard: hv.create made the partition.
Boot ==
    /\ pc = "down" /\ mach < MaxMachines /\ guard.gen < MaxGen
    /\ part' = "live" /\ mach' = mach + 1 /\ cancel' = FALSE
    /\ Goto("booted")
    /\ UNCHANGED <<guard, wake, timer>> /\ NoCallbackState

BindClear ==
    /\ pc = "booted"
    /\ Invalidate
    /\ Goto("bind_disarm")
    /\ UNCHANGED <<world, wake, timer, cancel>> /\ NoCallbackState

BindDisarm ==
    /\ pc = "bind_disarm"
    /\ Disarm
    /\ Goto("bind_set")
    /\ UNCHANGED <<world, guard, cancel>> /\ NoCallbackState

\* machine_set_wake_adapter follows, and arms the first wake.
BindSet ==
    /\ pc = "bind_set"
    /\ guard' = [guard EXCEPT !.vm = TRUE, !.valid = TRUE]
    /\ Schedule("One_Shot", "top")
    /\ UNCHANGED <<world, wake, timer, cancel>> /\ NoCallbackState

\* vm_guard_arm, up to the unlock of guard.mu
ArmGeneration ==
    /\ pc = "arm"
    /\ guard' = [guard EXCEPT !.gen = @ + 1]
    /\ Goto("arm_wake")
    /\ UNCHANGED <<world, wake, timer, cancel>> /\ NoCallbackState

ArmWake ==
    /\ pc = "arm_wake"
    /\ IF mode = "Disarm" THEN Disarm ELSE Arm(mode)
    /\ Goto(ret)
    /\ UNCHANGED <<world, guard, cancel>> /\ NoCallbackState

\* The failure freezes the bus: a boot or a warm reset fails on it, and a step
\* returns at once, or leaves hv.run if the access that moved the event is in it.
ArmWakeFails ==
    /\ pc = "arm_wake" /\ mode # "Disarm"
    /\ ArmFails
    /\ failed' = TRUE
    /\ CASE ret = "top" -> Goto("frozen")
         [] ret = "run" -> Schedule("Disarm", "flush")
         [] OTHER       -> Goto("flush")
    /\ UNCHANGED <<world, guard, signals, cb, cancel, cmds, kicks, ev, hit>>

\* A paused Machine is not stepped.
StepPaused ==
    /\ pc = "loop"
    /\ Goto("top")
    /\ UNCHANGED <<world, guard, wake, timer, cancel>> /\ NoCallbackState

\* Input and CPU-mode changes that are applied between steps rearm the wake.
InputRearms ==
    /\ pc = "loop" /\ guard.gen < MaxGen
    /\ Schedule("One_Shot", "loop")
    /\ UNCHANGED <<world, guard, wake, timer, cancel>> /\ NoCallbackState

\* step: a halted CPU arms a one-shot wake and sleeps on its own waiter.
StepHalted ==
    /\ pc = "loop" /\ guard.gen < MaxGen
    /\ Schedule("One_Shot", "flush")
    /\ UNCHANGED <<world, guard, wake, timer, cancel>> /\ NoCallbackState

\* step: machine_arm_run_guard, then hv.run.
StepRuns ==
    /\ pc = "loop" /\ guard.gen < MaxGen
    /\ Schedule("Run_Guard", "enter")
    /\ UNCHANGED <<world, guard, wake, timer, cancel>> /\ NoCallbackState

EnterRun ==
    /\ pc = "enter"
    /\ Goto("run")
    /\ UNCHANGED <<world, guard, wake, timer, cancel>> /\ NoCallbackState

\* A device access inside hv.run moves the next event forward.
RearmInRun ==
    /\ pc = "run" /\ guard.gen < MaxGen
    /\ Schedule("Run_Guard", "run")
    /\ UNCHANGED <<world, guard, wake, timer, cancel>> /\ NoCallbackState

\* hv.run returns because it was cancelled; machine_disarm_wake follows.
RunCanceled ==
    /\ pc = "run" /\ cancel
    /\ cancel' = FALSE
    /\ Schedule("Disarm", "flush")
    /\ UNCHANGED <<world, guard, wake, timer>> /\ NoCallbackState

\* hv.run returns for a reason of the guest's.
RunExits ==
    /\ pc = "run"
    /\ Schedule("Disarm", "flush")
    /\ UNCHANGED <<world, guard, wake, timer, cancel>> /\ NoCallbackState

\* Mutant: the reader does not skip the slots that were overwritten.
FlushOverwritten ==
    /\ pc = "flush"
    /\ LET n == IF evid.count - evid.flushed < Batch
                THEN evid.count - evid.flushed ELSE Batch
       IN /\ evid' = [evid EXCEPT !.flushed = @ + n]
          /\ delivered' = delivered \o [i \in 1..n |->
                                ring[(evid.flushed + i - 1) % Capacity]]
          /\ Goto(IF n < Batch THEN "stepped" ELSE "flush")
    /\ UNCHANGED <<world, guard, failed, wake, timer, signals, cb, cancel, cmds,
                   kicks, ring, hit>>

\* vm_guard_flush_wake_evidence: one pass of its loop.
Flush ==
    /\ pc = "flush"
    /\ LET oldest == IF evid.count > Capacity THEN evid.count - Capacity ELSE 0
           from   == IF evid.flushed < oldest THEN oldest ELSE evid.flushed
           n      == IF evid.count - from < Batch THEN evid.count - from ELSE Batch
       IN /\ evid' = [count   |-> evid.count,
                     flushed |-> from + n,
                     dropped |-> evid.dropped + (from - evid.flushed)]
          /\ delivered' = delivered \o [i \in 1..n |-> ring[(from + i - 1) % Capacity]]
          /\ Goto(IF n < Batch THEN "stepped" ELSE "flush")
    /\ UNCHANGED <<world, guard, failed, wake, timer, signals, cb, cancel, cmds,
                   kicks, ring, hit>>

\* vm_lifetime_guard_failed is checked after every flush, and then whether the
\* step ended the Machine's run.
StepDone ==
    /\ pc = "stepped"
    /\ Goto(IF failed THEN "frozen" ELSE "top")
    /\ UNCHANGED <<world, guard, wake, timer, cancel>> /\ NoCallbackState

\* The loop freezes the Machine: the storage session failed for good, which is
\* looked at before the flush, or the step found the bus frozen.
StepFreezes ==
    /\ pc \in {"flush", "stepped"}
    /\ Goto("frozen")
    /\ UNCHANGED <<world, guard, wake, timer, cancel>> /\ NoCallbackState

\* vm_lifetime_warm_cpu_reset: the partition stays, guard.mu is held over the
\* CPU reset.  A failed reset leaves the guard invalid and freezes the Machine.
WarmReset ==
    /\ pc = "stepped" /\ ~failed /\ guard.gen < MaxGen
    /\ Schedule("One_Shot", "top")
    /\ UNCHANGED <<world, guard, wake, timer, cancel>> /\ NoCallbackState

WarmResetFails ==
    /\ pc = "stepped" /\ ~failed
    /\ guard' = [guard EXCEPT !.valid = FALSE]
    /\ Goto("frozen")
    /\ UNCHANGED <<world, wake, timer, cancel>> /\ NoCallbackState

\* vm_lifetime_shutdown_machine: on stop, before the boot of a reset (asked for by
\* a command or, after a step, by the guest), and when a later step of a boot
\* failed, although the guard was never bound then.
Unbind ==
    /\ pc \in {"booted", "loop", "frozen"} \/ (pc = "stepped" /\ ~failed)
    /\ Invalidate
    /\ Goto("unbind_disarm")
    /\ UNCHANGED <<world, wake, timer, cancel>> /\ NoCallbackState

UnbindDisarm ==
    /\ pc = "unbind_disarm"
    /\ Disarm
    /\ Goto("destroy")
    /\ UNCHANGED <<world, guard, cancel>> /\ NoCallbackState

\* machine_destroy: hv.destroy deletes the partition.
DestroyMachine ==
    /\ pc = "destroy"
    /\ part' = "closing"
    /\ Goto("closing")
    /\ UNCHANGED <<mach, guard, wake, timer, cancel>> /\ NoCallbackState

MachineDestroyed ==
    /\ pc = "closing"
    /\ part' = "none"
    /\ Goto("down")
    /\ UNCHANGED <<mach, guard, wake, timer, cancel>> /\ NoCallbackState

\* vm_lifetime_destroy shuts the Machine down once more, which unbinds ...
DestroyLifetime ==
    /\ pc \in {"down", "destroy_failed"}
    /\ Invalidate
    /\ Goto("final_disarm")
    /\ UNCHANGED <<world, wake, timer, cancel>> /\ NoCallbackState

FinalDisarm ==
    /\ pc = "final_disarm"
    /\ Disarm
    /\ Goto("quiesce")
    /\ UNCHANGED <<world, guard, cancel>> /\ NoCallbackState

\* ... and then destroys the guard: vm_guard_quiesce, and its memory is cleared.
Quiesce ==
    /\ pc = "quiesce"
    /\ Invalidate
    /\ Goto("quiesce_disarm")
    /\ UNCHANGED <<world, wake, timer, cancel>> /\ NoCallbackState

QuiesceDisarm ==
    /\ pc = "quiesce_disarm"
    /\ Disarm
    /\ Goto("unregister")
    /\ UNCHANGED <<world, guard, cancel>> /\ NoCallbackState

\* Mutant: the wait is unregistered without waiting for its callbacks.
UnregisterAtOnce ==
    /\ pc = "unregister"
    /\ wake' = [wake EXCEPT !.registered = FALSE]
    /\ signals' = 0
    /\ Goto("gone")
    /\ UNCHANGED <<world, guard, failed, timer, cb, cancel, cmds, kicks, ev, hit>>

\* UnregisterWaitEx(INVALID_HANDLE_VALUE) blocks until no callback runs.
Unregister ==
    /\ pc = "unregister" /\ \A t \in Callbacks : ~cb[t].in
    /\ wake' = [wake EXCEPT !.registered = FALSE]
    /\ signals' = 0
    /\ Goto("gone")
    /\ UNCHANGED <<world, guard, failed, timer, cb, cancel, cmds, kicks, ev, hit>>

\* The wait cannot be unregistered: Destroy_Failed, and the memory is retained.
UnregisterFails ==
    /\ pc = "unregister" /\ guard.gen < MaxGen
    /\ Goto("destroy_failed")
    /\ UNCHANGED <<world, guard, wake, timer, cancel>> /\ NoCallbackState

\* The process ends.
Gone == pc \in {"gone", "destroy_failed"} /\ UNCHANGED vars

VmThread ==
    \/ TakeCommands \/ TakeCommandsIdle \/ Boot \/ BindClear \/ BindDisarm \/ BindSet
    \/ ArmGeneration \/ ArmWake \/ ArmWakeFails
    \/ StepPaused \/ InputRearms \/ StepHalted \/ StepRuns \/ EnterRun \/ RearmInRun
    \/ RunCanceled \/ RunExits \/ Flush \/ StepDone \/ StepFreezes
    \/ WarmReset \/ WarmResetFails
    \/ Unbind \/ UnbindDisarm \/ DestroyMachine \/ MachineDestroyed
    \/ DestroyLifetime \/ FinalDisarm \/ Quiesce \/ QuiesceDisarm
    \/ Unregister \/ UnregisterFails \/ Gone

Timers == DelayElapses \/ TimerSignals \/ \E t \in Callbacks : Dispatch(t) \/ Deadline(t)

Next == VmThread \/ Timers \/ PushCommand

Spec == Init /\ [][Next]_vars

\* The VM thread runs, except that nothing makes the guest leave hv.run or a
\* Machine boot or stop; time passes, and the pool runs the callbacks.
VmProgress ==
    \/ TakeCommands \/ TakeCommandsIdle \/ BindClear \/ BindDisarm \/ BindSet \/ ArmGeneration \/ ArmWake
    \/ StepPaused \/ StepHalted \/ StepRuns \/ EnterRun \/ RunCanceled \/ Flush \/ StepDone
    \/ UnbindDisarm \/ DestroyMachine \/ MachineDestroyed
    \/ FinalDisarm \/ Quiesce \/ QuiesceDisarm \/ Unregister

Fairness ==
    /\ WF_vars(VmProgress)
    /\ WF_vars(DelayElapses)
    /\ WF_vars(TimerSignals)
    /\ \A t \in Callbacks : WF_vars(Dispatch(t)) /\ WF_vars(Deadline(t))

FairSpec == Spec /\ Fairness

-----------------------------------------------------------------------------
(* Properties                                                               *)

\* A cancel can reach the partition only through a valid guard, so the guard is
\* never valid while the partition does not exist or is being deleted, in any
\* interleaving of callbacks, kicks, boots, resets and shutdowns.
ValidGuardHasPartition == guard.valid => part = "live"

\* vm_guard_deadline: a deadline that was armed for one Machine never cancels
\* the run of the next one, however late its callback runs.
CancelsItsOwnMachine == hit.armed = hit.mach

\* vm_guard_destroy: once the wait is unregistered no callback is running or
\* queued that would still lock the guard whose memory is cleared.
NoCallbackOutlivesGuard ==
    pc = "gone" => signals = 0 /\ \A t \in Callbacks : ~cb[t].in

\* vm_guard_flush_wake_evidence: the trace receives each wake at most once and
\* in the order of the deadlines, and what it did not receive is counted as
\* dropped, also when callbacks overwrite the ring between two batches.
EvidenceInOrder ==
    /\ \A i, j \in 1..Len(delivered) : i < j => delivered[i] < delivered[j]
    /\ Len(delivered) + evid.dropped = evid.flushed
    /\ evid.flushed <= evid.count

\* The run guard exists for this: a command queued by the UI is taken although
\* the guest never leaves hv.run by itself and its kick came too early.
CommandsAreTaken == cmds > 0 ~> (cmds = 0 \/ pc \in {"gone", "destroy_failed"})
=============================================================================
