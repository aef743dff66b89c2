-------------------------- MODULE VcpuGuard_proofs --------------------------
(***************************************************************************)
(* Machine-checked proofs about VcpuGuard, for every set of pool threads,  *)
(* every evidence capacity and batch size and every value of the bounds.   *)
(***************************************************************************)
EXTENDS VcpuGuard, SequenceTheorems, TLAPS

USE BoundsAssumption, EvidenceAssumption

-----------------------------------------------------------------------------
(* Types.  The reader of the evidence ring subtracts its own counter from   *)
(* the writer's, so the counters' order belongs to the typing invariant.    *)

Typed == TypeOK /\ evid.flushed <= evid.count

\* A slot number is an index of the evidence ring.
LEMMA SlotInRing == ASSUME NEW k \in Nat PROVE k % Capacity \in 0..Capacity - 1
OBVIOUS

\* The fields that the steps compute with.
LEMMA Fields ==
    ASSUME TypeOK
    PROVE  /\ guard.gen \in Nat /\ guard.gen + 1 \in Nat
           /\ wake.gen \in Nat /\ wake.mach \in Nat
           /\ wake.periodic \in BOOLEAN
           /\ mach + 1 \in Nat /\ cmds + 1 \in Nat /\ kicks + 1 \in Nat /\ signals + 1 \in Nat
           /\ signals > 0 => signals - 1 \in Nat
           /\ \A t \in Callbacks : cb[t] \in Callback /\ cb[t].gen \in Nat /\ cb[t].mach \in Nat
<1>1. guard.gen \in Nat
  BY DEF TypeOK, Guard
<1>2. wake.gen \in Nat /\ wake.mach \in Nat /\ wake.periodic \in BOOLEAN
  BY DEF TypeOK, Wake
<1>3. \A t \in Callbacks : cb[t] \in Callback /\ cb[t].gen \in Nat /\ cb[t].mach \in Nat
  BY DEF TypeOK, Callback
<1> QED BY <1>1, <1>2, <1>3 DEF TypeOK

LEMMA GuardFields ==
    ASSUME NEW g \in Guard, NEW n \in Nat, NEW b \in BOOLEAN
    PROVE  /\ [g EXCEPT !.gen = n] \in Guard
           /\ [g EXCEPT !.valid = b] \in Guard
           /\ [g EXCEPT !.vm = TRUE, !.valid = TRUE] \in Guard
           /\ [gen |-> n, vm |-> FALSE, valid |-> FALSE] \in Guard
BY DEF Guard

LEMMA WakeFields ==
    ASSUME NEW k \in Wake, NEW a \in BOOLEAN, NEW p \in BOOLEAN, NEW n \in Nat, NEW m \in Nat
    PROVE  /\ [k EXCEPT !.armed = FALSE, !.periodic = FALSE] \in Wake
           /\ [k EXCEPT !.armed = a] \in Wake
           /\ [k EXCEPT !.due = a] \in Wake
           /\ [k EXCEPT !.registered = FALSE] \in Wake
           /\ [k EXCEPT !.armed = a, !.periodic = p, !.gen = n, !.due = FALSE, !.mach = m] \in Wake
BY DEF Wake

LEMMA InitTyped == Init => Typed
<1> SUFFICES ASSUME Init PROVE Typed
  OBVIOUS
<1>1. <<>> \in Seq(Nat) /\ ring \in [0..Capacity - 1 -> Nat]
  BY DEF Init
<1>2. cb \in [Callbacks -> Callback]
  BY DEF Init, Callback
<1>3. guard \in Guard /\ wake \in Wake
  BY DEF Init, Guard, Wake
<1>4. evid \in Evidence /\ hit \in Cancel /\ evid.flushed <= evid.count
  BY DEF Init, Evidence, Cancel
<1> QED BY <1>1, <1>2, <1>3, <1>4 DEF Init, Typed, TypeOK, Modes

LEMMA BootTyped == ASSUME Typed, Boot PROVE Typed'
<1>1. mach' \in Nat
  BY Fields DEF Boot, Typed
<1>2. cancel' \in BOOLEAN
  BY DEF Boot
<1> QED BY <1>1, <1>2 DEF Boot, NoCallbackState, Goto, ev, Typed, TypeOK
LEMMA ArmGenerationTyped == ASSUME Typed, ArmGeneration PROVE Typed'
<1>1. guard' \in Guard
  BY Fields, GuardFields DEF Typed, TypeOK, ArmGeneration
<1> QED
BY <1>1 DEF ArmGeneration, NoCallbackState, Goto, world, ev, Typed, TypeOK
LEMMA ArmWakeTyped == ASSUME Typed, ArmWake PROVE Typed'
<1>1. wake' \in Wake
  <2>1. wake \in Wake /\ guard.gen \in Nat /\ mach \in Nat
    BY Fields DEF Typed, TypeOK
  <2>2. [wake EXCEPT !.armed = FALSE, !.periodic = FALSE] \in Wake
    BY <2>1 DEF Wake
  <2>3. [wake EXCEPT !.armed = TRUE, !.periodic = (mode = "Run_Guard"), !.gen = guard.gen,
                     !.due = FALSE, !.mach = mach] \in Wake
    BY <2>1 DEF Wake
  <2> QED BY <2>1, <2>2, <2>3 DEF ArmWake, Arm, Disarm
<1>2. timer' \in BOOLEAN
  BY DEF Typed, TypeOK, ArmWake, Arm, Disarm
<1> QED
BY <1>1, <1>2 DEF ArmWake, NoCallbackState, Goto, world, ev, Typed, TypeOK
LEMMA ArmWakeFailsTyped == ASSUME Typed, ArmWakeFails PROVE Typed'
<1>1. wake' \in Wake
  <2>1. wake \in Wake /\ guard.gen \in Nat /\ mach \in Nat
    BY Fields DEF Typed, TypeOK
  <2>2. [wake EXCEPT !.armed = FALSE, !.periodic = (mode = "Run_Guard"), !.gen = guard.gen,
                     !.due = FALSE, !.mach = mach] \in Wake
    BY <2>1 DEF Wake
  <2> QED BY <2>1, <2>2 DEF ArmWakeFails, ArmFails
<1>2. pc' \in {"frozen", "flush", "arm"} /\ mode' \in Modes /\ ret' \in {"top", "loop", "enter", "run", "flush"}
  BY DEF ArmWakeFails, Goto, Schedule, Typed, TypeOK, Modes
<1>3. failed' \in BOOLEAN /\ timer' \in BOOLEAN
  BY DEF ArmWakeFails, ArmFails, Typed, TypeOK
<1> QED BY <1>1, <1>2, <1>3 DEF ArmWakeFails, world, ev, Typed, TypeOK

LEMMA PushCommandTyped == ASSUME Typed, PushCommand PROVE Typed'
<1>1. cancel' \in BOOLEAN
 BY DEF Typed, TypeOK, PushCommand, CancelFor, HvCancel
<1>2. hit' \in Cancel
 BY DEF Typed, TypeOK, PushCommand, CancelFor, Cancel
<1> QED BY <1>1, <1>2, Fields DEF PushCommand, Typed, TypeOK, world, vm, ev
LEMMA DispatchTyped == ASSUME Typed, NEW t \in Callbacks, Dispatch(t) PROVE Typed'
<1>1. wake' \in Wake
  BY Fields, WakeFields DEF Typed, TypeOK, Dispatch
<1>2. [in |-> TRUE, gen |-> wake.gen, mach |-> wake.mach] \in Callback
  BY Fields DEF Typed, Callback
<1>3. cb' \in [Callbacks -> Callback]
  <2>1. CASE cb' = cb
    BY <2>1 DEF Typed, TypeOK
  <2>2. CASE cb' = [cb EXCEPT ![t] = [in |-> TRUE, gen |-> wake.gen, mach |-> wake.mach]]
    BY <2>2, <1>2 DEF Typed, TypeOK
  <2> QED BY <2>1, <2>2 DEF Dispatch
<1>4. signals' \in Nat
  BY Fields DEF Typed, Dispatch
<1> QED
BY <1>1, <1>3, <1>4 DEF Dispatch, world, ev, vm, Typed, TypeOK
LEMMA DeadlineTyped == ASSUME Typed, NEW t \in Callbacks, Deadline(t) PROVE Typed'
<1>1. cb[t] \in Callback /\ cb[t].mach \in Nat
  BY Fields DEF Typed
<1>2. cb' \in [Callbacks -> Callback]
  <2>1. [cb[t] EXCEPT !.in = FALSE] \in Callback
    BY <1>1 DEF Callback
  <2>2. cb' = [cb EXCEPT ![t] = [cb[t] EXCEPT !.in = FALSE]]
    BY DEF Deadline
  <2> QED BY <2>1, <2>2 DEF Typed, TypeOK
<1>7. evid.count \in Nat /\ evid.flushed \in Nat /\ evid.dropped \in Nat
  BY DEF Typed, TypeOK, Evidence
<1>8. evid.count + 1 \in Nat /\ evid.count % Capacity \in 0..Capacity-1
  BY <1>7, SlotInRing
<1>3. ring' \in [0..Capacity - 1 -> Nat]
  <2>1. CASE ring' = ring
    BY <2>1 DEF Typed, TypeOK
  <2>2. CASE ring' = [ring EXCEPT ![evid.count % Capacity] = evid.count]
    BY <2>2, <1>8, <1>7 DEF Typed, TypeOK
  <2> QED BY <2>1, <2>2 DEF Deadline
<1>5. evid' \in Evidence /\ (evid.flushed <= evid.count)'
  <2>1. CASE evid' = evid
    BY <2>1 DEF Typed, TypeOK
  <2>2. CASE evid' = [evid EXCEPT !.count = @ + 1]
    <3>1. evid \in Evidence
      BY DEF Typed, TypeOK
    <3>2. evid'.count = evid.count + 1 /\ evid'.flushed = evid.flushed
      BY <2>2, <3>1 DEF Evidence
    <3>3. evid' \in Evidence
      BY <2>2, <3>1, <1>8 DEF Evidence
    <3> QED BY <3>2, <3>3, <1>7 DEF Typed
  <2> QED BY <2>1, <2>2 DEF Deadline
<1>4. hit' \in Cancel
  BY <1>1 DEF Typed, TypeOK, Deadline, CancelFor, Cancel
<1>6.  cancel' \in BOOLEAN
  BY DEF Typed, TypeOK, Deadline, CancelFor, HvCancel
<1> QED BY <1>2, <1>3, <1>4, <1>5, <1>6 DEF Deadline, Typed, TypeOK, vm, world
LEMMA WarmResetFailsTyped == ASSUME Typed, WarmResetFails PROVE Typed'
<1>1. guard' \in Guard
  BY Fields, GuardFields DEF Typed, TypeOK, WarmResetFails
<1> QED
BY <1>1 DEF WarmResetFails, NoCallbackState, Goto, world, ev, Typed, TypeOK
LEMMA DelayElapsesTyped == ASSUME Typed, DelayElapses PROVE Typed'
<1>1. wake' \in Wake
  BY Fields, WakeFields DEF Typed, TypeOK, DelayElapses
<1> QED
BY <1>1 DEF DelayElapses, world, ev, vm, Typed, TypeOK

\* One pass of vm_guard_flush_wake_evidence keeps the counters in order and
\* reads only slots of the ring.
LEMMA FlushTyped == ASSUME Typed, Flush PROVE Typed'
<1> DEFINE oldest == IF evid.count > Capacity THEN evid.count - Capacity ELSE 0
           from   == IF evid.flushed < oldest THEN oldest ELSE evid.flushed
           n      == IF evid.count - from < Batch THEN evid.count - from ELSE Batch
<1>1. /\ evid.count \in Nat /\ evid.flushed \in Nat /\ evid.dropped \in Nat
      /\ evid.flushed <= evid.count
  BY DEF Typed, TypeOK, Evidence
<1>2. oldest \in Nat /\ oldest <= evid.count
  BY <1>1
<1>3. from \in Nat /\ evid.flushed <= from /\ from <= evid.count
  BY <1>1, <1>2
<1>4. n \in Nat /\ from + n <= evid.count
  BY <1>1, <1>3
<1>5. evid' = [count |-> evid.count, flushed |-> from + n,
                dropped |-> evid.dropped + (from - evid.flushed)]
  BY DEF Flush
<1>6. evid' \in Evidence /\ (evid.flushed <= evid.count)'
  <2> HIDE DEF from, n
  <2> QED BY <1>1, <1>3, <1>4, <1>5 DEF Evidence
<1>7. delivered' \in Seq(Nat)
  <2>1. delivered' = delivered \o [i \in 1..n |-> ring[(from + i - 1) % Capacity]]
    BY DEF Flush
  <2> HIDE DEF from, n
  <2>2. ASSUME NEW i \in 1..n PROVE ring[(from + i - 1) % Capacity] \in Nat
    <3>1. from + i - 1 \in Nat
      BY <1>3, <1>4
    <3>2. (from + i - 1) % Capacity \in 0..Capacity - 1
      BY <3>1, SlotInRing
    <3> QED BY <3>2 DEF Typed, TypeOK
  <2>3. [i \in 1..n |-> ring[(from + i - 1) % Capacity]] \in Seq(Nat)
    BY <1>4, <2>2
  <2> QED BY <2>1, <2>3 DEF Typed, TypeOK
<1>8. pc' \in {"stepped", "flush"} /\ UNCHANGED <<mode, ret>>
  BY DEF Flush, Goto
<1> QED BY <1>6, <1>7, <1>8 DEF Flush, Typed, TypeOK, world


LEMMA StepTyped == Typed /\ [Next]_vars => Typed'
<1>0. SUFFICES ASSUME Typed, [Next]_vars PROVE Typed'
  OBVIOUS
<1>1. ASSUME TakeCommands PROVE Typed'
  BY <1>0, <1>1 DEF TakeCommands, Goto, vm, world, ev, Typed, TypeOK, Modes
<1>2. ASSUME TakeCommandsIdle PROVE Typed'
  BY <1>0, <1>2 DEF TakeCommandsIdle, vm, world, ev, Typed, TypeOK, Modes
<1>3. ASSUME Boot PROVE Typed'
  BY <1>0, <1>3, BootTyped
<1>4. ASSUME BindClear PROVE Typed'
  BY <1>0, <1>4, Fields, GuardFields DEF BindClear, Invalidate,
      NoCallbackState, Goto, vm, world, ev, Typed, TypeOK, Modes
<1>5. ASSUME BindDisarm PROVE Typed'
  BY <1>0, <1>5, Fields, WakeFields DEF BindDisarm, Disarm, NoCallbackState,
      Goto, vm, world, ev, Typed, TypeOK, Modes
<1>6. ASSUME BindSet PROVE Typed'
  BY <1>0, <1>6, Fields, GuardFields DEF BindSet, NoCallbackState, Schedule,
      vm, world, ev, Typed, TypeOK, Modes
<1>7. ASSUME ArmGeneration PROVE Typed'
  BY <1>0, <1>7, ArmGenerationTyped
<1>8. ASSUME ArmWake PROVE Typed'
  BY <1>0, <1>8, ArmWakeTyped
<1>9. ASSUME ArmWakeFails PROVE Typed'
  BY <1>0, <1>9, ArmWakeFailsTyped
<1>10. ASSUME StepPaused PROVE Typed'
  BY <1>0, <1>10 DEF StepPaused, NoCallbackState, Goto, vm, world, ev, Typed,
      TypeOK, Modes
<1>11. ASSUME InputRearms PROVE Typed'
  BY <1>0, <1>11 DEF InputRearms, NoCallbackState, Schedule, vm, world, ev,
      Typed, TypeOK, Modes
<1>12. ASSUME StepHalted PROVE Typed'
  BY <1>0, <1>12 DEF StepHalted, NoCallbackState, Schedule, vm, world, ev,
      Typed, TypeOK, Modes
<1>13. ASSUME StepRuns PROVE Typed'
  BY <1>0, <1>13 DEF StepRuns, NoCallbackState, Schedule, vm, world, ev,
      Typed, TypeOK, Modes
<1>14. ASSUME EnterRun PROVE Typed'
  BY <1>0, <1>14 DEF EnterRun, NoCallbackState, Goto, vm, world, ev, Typed,
      TypeOK, Modes
<1>15. ASSUME RearmInRun PROVE Typed'
  BY <1>0, <1>15 DEF RearmInRun, NoCallbackState, Schedule, vm, world, ev,
      Typed, TypeOK, Modes
<1>16. ASSUME RunCanceled PROVE Typed'
  BY <1>0, <1>16 DEF RunCanceled, NoCallbackState, Schedule, vm, world, ev,
      Typed, TypeOK, Modes
<1>17. ASSUME RunExits PROVE Typed'
  BY <1>0, <1>17 DEF RunExits, NoCallbackState, Schedule, vm, world, ev,
      Typed, TypeOK, Modes
<1>18. ASSUME Flush PROVE Typed'
  BY <1>0, <1>18, FlushTyped
<1>19. ASSUME StepDone PROVE Typed'
  BY <1>0, <1>19 DEF StepDone, NoCallbackState, Goto, vm, world, ev, Typed,
      TypeOK, Modes
<1>20. ASSUME StepFreezes PROVE Typed'
  BY <1>0, <1>20 DEF StepFreezes, NoCallbackState, Goto, vm, world, ev, Typed,
      TypeOK, Modes
<1>21. ASSUME WarmReset PROVE Typed'
  BY <1>0, <1>21 DEF WarmReset, NoCallbackState, Schedule, vm, world, ev,
      Typed, TypeOK, Modes
<1>22. ASSUME WarmResetFails PROVE Typed'
  BY <1>0, <1>22, WarmResetFailsTyped
<1>23. ASSUME Unbind PROVE Typed'
  BY <1>0, <1>23, Fields, GuardFields DEF Unbind, Invalidate, NoCallbackState,
      Goto, vm, world, ev, Typed, TypeOK, Modes
<1>24. ASSUME UnbindDisarm PROVE Typed'
  BY <1>0, <1>24, Fields, WakeFields DEF UnbindDisarm, Disarm,
      NoCallbackState, Goto, vm, world, ev, Typed, TypeOK, Modes
<1>25. ASSUME DestroyMachine PROVE Typed'
  BY <1>0, <1>25 DEF DestroyMachine, NoCallbackState, Goto, vm, world, ev,
      Typed, TypeOK, Modes
<1>26. ASSUME MachineDestroyed PROVE Typed'
  BY <1>0, <1>26 DEF MachineDestroyed, NoCallbackState, Goto, vm, world, ev,
      Typed, TypeOK, Modes
<1>27. ASSUME DestroyLifetime PROVE Typed'
  BY <1>0, <1>27, Fields, GuardFields DEF DestroyLifetime, Invalidate,
      NoCallbackState, Goto, vm, world, ev, Typed, TypeOK, Modes
<1>28. ASSUME FinalDisarm PROVE Typed'
  BY <1>0, <1>28, Fields, WakeFields DEF FinalDisarm, Disarm, NoCallbackState,
      Goto, vm, world, ev, Typed, TypeOK, Modes
<1>29. ASSUME Quiesce PROVE Typed'
  BY <1>0, <1>29, Fields, GuardFields DEF Quiesce, Invalidate,
      NoCallbackState, Goto, vm, world, ev, Typed, TypeOK, Modes
<1>30. ASSUME QuiesceDisarm PROVE Typed'
  BY <1>0, <1>30, Fields, WakeFields DEF QuiesceDisarm, Disarm,
      NoCallbackState, Goto, vm, world, ev, Typed, TypeOK, Modes
<1>31. ASSUME Unregister PROVE Typed'
  BY <1>0, <1>31, Fields, WakeFields DEF Unregister, Goto, vm, world, ev,
      Typed, TypeOK, Modes
<1>32. ASSUME UnregisterFails PROVE Typed'
  BY <1>0, <1>32 DEF UnregisterFails, NoCallbackState, Goto, vm, world, ev,
      Typed, TypeOK, Modes
<1>33. ASSUME Gone PROVE Typed'
  BY <1>0, <1>33 DEF Gone, vars, vm, world, ev, Typed, TypeOK, Modes
<1>34. ASSUME DelayElapses PROVE Typed'
  BY <1>0, <1>34, DelayElapsesTyped
<1>35. ASSUME TimerSignals PROVE Typed'
  BY <1>0, <1>35, Fields DEF TimerSignals, vm, world, ev, Typed, TypeOK, Modes
<1>36. ASSUME PushCommand PROVE Typed'
  BY <1>0, <1>36, PushCommandTyped
<1>37. ASSUME NEW t \in Callbacks, Dispatch(t) PROVE Typed'
  BY <1>0, <1>37, DispatchTyped
<1>38. ASSUME NEW t \in Callbacks, Deadline(t) PROVE Typed'
  BY <1>0, <1>38, DeadlineTyped
<1>39. CASE UNCHANGED vars
  BY <1>0, <1>39 DEF vars, Typed, TypeOK, Modes
<1> QED
  BY <1>0, <1>1, <1>2, <1>3, <1>4, <1>5, <1>6, <1>7, <1>8, <1>9, <1>10, <1>11,
      <1>12, <1>13, <1>14, <1>15, <1>16, <1>17, <1>18, <1>19, <1>20, <1>21,
      <1>22, <1>23, <1>24, <1>25, <1>26, <1>27, <1>28, <1>29, <1>30, <1>31,
      <1>32, <1>33, <1>34, <1>35, <1>36, <1>37, <1>38, <1>39
  DEF Next, VmThread, Timers

\* The state of the run guard always has its type.
THEOREM TypeCorrect == Spec => []TypeOK
<1>1. Init => Typed
  BY InitTyped
<1>2. Typed /\ [Next]_vars => Typed'
  BY StepTyped
<1>3. Typed => TypeOK
  BY DEF Typed
<1> QED BY <1>1, <1>2, <1>3, PTL DEF Spec

-----------------------------------------------------------------------------
(* The partition and the generations.                                       *)

\* Where the VM thread is while a partition exists ...
Alive == {"booted", "bind_disarm", "bind_set", "arm", "arm_wake", "top", "loop",
          "enter", "run", "flush", "stepped", "frozen", "unbind_disarm",
          "destroy"}

\* ... while the guard may be valid ...
Guarded ==
    {"arm", "arm_wake", "top", "loop", "enter", "run", "flush", "stepped", "frozen"}

\* ... and since the generation last moved on for the current Machine.
Bound == Guarded \cup {"bind_disarm", "bind_set"}

\* The guard is valid only in places where the partition exists.
Control ==
    /\ pc \in Alive => part = "live"
    /\ guard.valid => pc \in Guarded

\* No wake and no callback knows a generation that the guard has not reached.
Generations ==
    /\ wake.gen <= guard.gen
    /\ \A t \in Callbacks : cb[t].gen <= guard.gen

\* While a Machine is bound, whatever carries the current generation was armed
\* for that Machine: binding moves the generation past all older wakes.
OwnWakes ==
    pc \in Bound =>
        /\ wake.gen = guard.gen => wake.mach = mach
        /\ \A t \in Callbacks : cb[t].gen = guard.gen => cb[t].mach = mach

\* A guard that is being destroyed has no timer, and then no callback.
Quiet ==
    /\ wake.registered <=> pc # "gone"
    /\ pc \in {"unregister", "gone"} => ~timer
    /\ NoCallbackOutlivesGuard

Inv == Typed /\ Control /\ Generations /\ OwnWakes /\ Quiet /\ CancelsItsOwnMachine

LEMMA InitInv == Init => Inv
<1> SUFFICES ASSUME Init PROVE Inv
  OBVIOUS
<1>1. Typed
  BY InitTyped
<1>2. \A t \in Callbacks : cb[t] = [in |-> FALSE, gen |-> 0, mach |-> 0]
  BY DEF Init
<1> QED BY <1>1, <1>2 DEF Init, Inv, Control, Generations, OwnWakes, Quiet, Alive, Guarded,
    Bound, CancelsItsOwnMachine, NoCallbackOutlivesGuard

\* What disarming and arming leave of the wake.
LEMMA DisarmKeeps ==
    ASSUME TypeOK, Disarm
    PROVE  /\ wake'.gen = wake.gen /\ wake'.mach = wake.mach
           /\ wake'.registered = wake.registered
           /\ wake.registered => ~timer'
BY DEF TypeOK, Disarm, Wake

LEMMA ArmSets ==
    ASSUME TypeOK, NEW m, Arm(m)
    PROVE  /\ wake'.gen = guard.gen /\ wake'.mach = mach
           /\ wake'.registered = wake.registered
BY DEF TypeOK, Arm, Wake

\* A wake that is dispatched keeps what it was armed with.
LEMMA DispatchKeeps ==
    ASSUME TypeOK, NEW t \in Callbacks, Dispatch(t)
    PROVE  /\ wake'.gen = wake.gen /\ wake'.mach = wake.mach
           /\ wake'.registered = wake.registered
           /\ \A u \in Callbacks :
                 \/ cb'[u] = cb[u]
                 \/ cb'[u].gen = wake.gen /\ cb'[u].mach = wake.mach
<1>1. /\ wake'.gen = wake.gen /\ wake'.mach = wake.mach
      /\ wake'.registered = wake.registered
  BY DEF TypeOK, Dispatch, Wake
<1>2. ASSUME NEW u \in Callbacks
      PROVE  \/ cb'[u] = cb[u]
             \/ cb'[u].gen = wake.gen /\ cb'[u].mach = wake.mach
  BY DEF TypeOK, Dispatch
<1> QED BY <1>1, <1>2

\* Each step keeps the control facts.
LEMMA StepControl == Inv /\ [Next]_vars => Control'
<1>0. SUFFICES ASSUME Inv, [Next]_vars PROVE Control'
  OBVIOUS
<1>1. ASSUME TakeCommands PROVE Control'
  BY <1>0, <1>1 DEF TakeCommands, Goto, vm, world, ev, Inv, Typed, TypeOK,
      Control, Alive, Guarded
<1>2. ASSUME TakeCommandsIdle PROVE Control'
  BY <1>0, <1>2 DEF TakeCommandsIdle, vm, world, ev, Inv, Typed, TypeOK,
      Control, Alive, Guarded
<1>3. ASSUME Boot PROVE Control'
  BY <1>0, <1>3 DEF Boot, NoCallbackState, Goto, vm, world, ev, Inv, Typed,
      TypeOK, Control, Alive, Guarded
<1>4. ASSUME BindClear PROVE Control'
  BY <1>0, <1>4 DEF BindClear, Invalidate, NoCallbackState, Goto, vm, world,
      ev, Inv, Typed, TypeOK, Control, Alive, Guarded
<1>5. ASSUME BindDisarm PROVE Control'
  BY <1>0, <1>5 DEF BindDisarm, Disarm, NoCallbackState, Goto, vm, world, ev,
      Inv, Typed, TypeOK, Control, Alive, Guarded
<1>6. ASSUME BindSet PROVE Control'
  BY <1>0, <1>6 DEF BindSet, NoCallbackState, Schedule, vm, world, ev, Inv,
      Typed, TypeOK, Control, Alive, Guarded
<1>7. ASSUME ArmGeneration PROVE Control'
  BY <1>0, <1>7 DEF ArmGeneration, NoCallbackState, Goto, vm, world, ev, Inv,
      Typed, TypeOK, Control, Alive, Guarded
<1>8. ASSUME ArmWake PROVE Control'
  BY <1>0, <1>8 DEF ArmWake, Disarm, Arm, NoCallbackState, Goto, vm, world,
      ev, Inv, Typed, TypeOK, Control, Alive, Guarded
<1>9. ASSUME ArmWakeFails PROVE Control'
  BY <1>0, <1>9 DEF ArmWakeFails, ArmFails, Schedule, Goto, vm, world, ev,
      Inv, Typed, TypeOK, Control, Alive, Guarded
<1>10. ASSUME StepPaused PROVE Control'
  BY <1>0, <1>10 DEF StepPaused, NoCallbackState, Goto, vm, world, ev, Inv,
      Typed, TypeOK, Control, Alive, Guarded
<1>11. ASSUME InputRearms PROVE Control'
  BY <1>0, <1>11 DEF InputRearms, NoCallbackState, Schedule, vm, world, ev,
      Inv, Typed, TypeOK, Control, Alive, Guarded
<1>12. ASSUME StepHalted PROVE Control'
  BY <1>0, <1>12 DEF StepHalted, NoCallbackState, Schedule, vm, world, ev,
      Inv, Typed, TypeOK, Control, Alive, Guarded
<1>13. ASSUME StepRuns PROVE Control'
  BY <1>0, <1>13 DEF StepRuns, NoCallbackState, Schedule, vm, world, ev, Inv,
      Typed, TypeOK, Control, Alive, Guarded
<1>14. ASSUME EnterRun PROVE Control'
  BY <1>0, <1>14 DEF EnterRun, NoCallbackState, Goto, vm, world, ev, Inv,
      Typed, TypeOK, Control, Alive, Guarded
<1>15. ASSUME RearmInRun PROVE Control'
  BY <1>0, <1>15 DEF RearmInRun, NoCallbackState, Schedule, vm, world, ev,
      Inv, Typed, TypeOK, Control, Alive, Guarded
<1>16. ASSUME RunCanceled PROVE Control'
  BY <1>0, <1>16 DEF RunCanceled, NoCallbackState, Schedule, vm, world, ev,
      Inv, Typed, TypeOK, Control, Alive, Guarded
<1>17. ASSUME RunExits PROVE Control'
  BY <1>0, <1>17 DEF RunExits, NoCallbackState, Schedule, vm, world, ev, Inv,
      Typed, TypeOK, Control, Alive, Guarded
<1>18. ASSUME Flush PROVE Control'
  BY <1>0, <1>18 DEF Flush, Goto, vm, world, ev, Inv, Typed, TypeOK, Control,
      Alive, Guarded
<1>19. ASSUME StepDone PROVE Control'
  BY <1>0, <1>19 DEF StepDone, NoCallbackState, Goto, vm, world, ev, Inv,
      Typed, TypeOK, Control, Alive, Guarded
<1>20. ASSUME StepFreezes PROVE Control'
  BY <1>0, <1>20 DEF StepFreezes, NoCallbackState, Goto, vm, world, ev, Inv,
      Typed, TypeOK, Control, Alive, Guarded
<1>21. ASSUME WarmReset PROVE Control'
  BY <1>0, <1>21 DEF WarmReset, NoCallbackState, Schedule, vm, world, ev, Inv,
      Typed, TypeOK, Control, Alive, Guarded
<1>22. ASSUME WarmResetFails PROVE Control'
  BY <1>0, <1>22 DEF WarmResetFails, NoCallbackState, Goto, vm, world, ev,
      Inv, Typed, TypeOK, Control, Alive, Guarded
<1>23. ASSUME Unbind PROVE Control'
  BY <1>0, <1>23 DEF Unbind, Invalidate, NoCallbackState, Goto, vm, world, ev,
      Inv, Typed, TypeOK, Control, Alive, Guarded
<1>24. ASSUME UnbindDisarm PROVE Control'
  BY <1>0, <1>24 DEF UnbindDisarm, Disarm, NoCallbackState, Goto, vm, world,
      ev, Inv, Typed, TypeOK, Control, Alive, Guarded
<1>25. ASSUME DestroyMachine PROVE Control'
  BY <1>0, <1>25 DEF DestroyMachine, NoCallbackState, Goto, vm, world, ev,
      Inv, Typed, TypeOK, Control, Alive, Guarded
<1>26. ASSUME MachineDestroyed PROVE Control'
  BY <1>0, <1>26 DEF MachineDestroyed, NoCallbackState, Goto, vm, world, ev,
      Inv, Typed, TypeOK, Control, Alive, Guarded
<1>27. ASSUME DestroyLifetime PROVE Control'
  BY <1>0, <1>27 DEF DestroyLifetime, Invalidate, NoCallbackState, Goto, vm,
      world, ev, Inv, Typed, TypeOK, Control, Alive, Guarded
<1>28. ASSUME FinalDisarm PROVE Control'
  BY <1>0, <1>28 DEF FinalDisarm, Disarm, NoCallbackState, Goto, vm, world,
      ev, Inv, Typed, TypeOK, Control, Alive, Guarded
<1>29. ASSUME Quiesce PROVE Control'
  BY <1>0, <1>29 DEF Quiesce, Invalidate, NoCallbackState, Goto, vm, world,
      ev, Inv, Typed, TypeOK, Control, Alive, Guarded
<1>30. ASSUME QuiesceDisarm PROVE Control'
  BY <1>0, <1>30 DEF QuiesceDisarm, Disarm, NoCallbackState, Goto, vm, world,
      ev, Inv, Typed, TypeOK, Control, Alive, Guarded
<1>31. ASSUME Unregister PROVE Control'
  BY <1>0, <1>31 DEF Unregister, Goto, vm, world, ev, Inv, Typed, TypeOK,
      Control, Alive, Guarded
<1>32. ASSUME UnregisterFails PROVE Control'
  BY <1>0, <1>32 DEF UnregisterFails, NoCallbackState, Goto, vm, world, ev,
      Inv, Typed, TypeOK, Control, Alive, Guarded
<1>33. ASSUME Gone PROVE Control'
  BY <1>0, <1>33 DEF Gone, vars, vm, world, ev, Inv, Typed, TypeOK, Control,
      Alive, Guarded
<1>34. ASSUME DelayElapses PROVE Control'
  BY <1>0, <1>34 DEF DelayElapses, vm, world, ev, Inv, Typed, TypeOK, Control,
      Alive, Guarded
<1>35. ASSUME TimerSignals PROVE Control'
  BY <1>0, <1>35 DEF TimerSignals, vm, world, ev, Inv, Typed, TypeOK, Control,
      Alive, Guarded
<1>36. ASSUME PushCommand PROVE Control'
  BY <1>0, <1>36 DEF PushCommand, CancelFor, HvCancel, vm, world, ev, Inv,
      Typed, TypeOK, Control, Alive, Guarded
<1>37. ASSUME NEW t \in Callbacks, Dispatch(t) PROVE Control'
  BY <1>0, <1>37 DEF Dispatch, vm, world, ev, Inv, Typed, TypeOK, Control,
      Alive, Guarded
<1>38. ASSUME NEW t \in Callbacks, Deadline(t) PROVE Control'
  BY <1>0, <1>38 DEF Deadline, CancelFor, HvCancel, vm, world, ev, Inv, Typed,
      TypeOK, Control, Alive, Guarded
<1>39. CASE UNCHANGED vars
  BY <1>0, <1>39 DEF vars, Inv, Typed, TypeOK, Control, Alive, Guarded
<1> QED
  BY <1>0, <1>1, <1>2, <1>3, <1>4, <1>5, <1>6, <1>7, <1>8, <1>9, <1>10, <1>11,
      <1>12, <1>13, <1>14, <1>15, <1>16, <1>17, <1>18, <1>19, <1>20, <1>21,
      <1>22, <1>23, <1>24, <1>25, <1>26, <1>27, <1>28, <1>29, <1>30, <1>31,
      <1>32, <1>33, <1>34, <1>35, <1>36, <1>37, <1>38, <1>39
  DEF Next, VmThread, Timers

\* Each step keeps the generations in order and the wakes with their Machine.
LEMMA StepGenerations == Inv /\ [Next]_vars => Generations' /\ OwnWakes'
<1>0. SUFFICES ASSUME Inv, [Next]_vars PROVE Generations' /\ OwnWakes'
  OBVIOUS
<1>T. \A t \in Callbacks : cb[t].gen \in Nat /\ cb[t].mach \in Nat
  BY <1>0, Fields DEF Inv, Typed
<1>G. guard.gen \in Nat /\ wake.gen \in Nat
  BY <1>0, Fields DEF Inv, Typed
<1>1. ASSUME TakeCommands PROVE Generations' /\ OwnWakes'
  BY <1>0, <1>1, <1>T, <1>G DEF TakeCommands, Goto, vm, world, ev, Inv, Typed,
      TypeOK, Generations, OwnWakes, Bound, Guarded
<1>2. ASSUME TakeCommandsIdle PROVE Generations' /\ OwnWakes'
  BY <1>0, <1>2, <1>T, <1>G DEF TakeCommandsIdle, vm, world, ev, Inv, Typed,
      TypeOK, Generations, OwnWakes, Bound, Guarded
<1>3. ASSUME Boot PROVE Generations' /\ OwnWakes'
  BY <1>0, <1>3, <1>T, <1>G DEF Boot, NoCallbackState, Goto, vm, world, ev,
      Inv, Typed, TypeOK, Generations, OwnWakes, Bound, Guarded
<1>4. ASSUME BindClear PROVE Generations' /\ OwnWakes'
  BY <1>0, <1>4, <1>T, <1>G DEF BindClear, Invalidate, NoCallbackState, Goto,
      vm, world, ev, Inv, Typed, TypeOK, Generations, OwnWakes, Bound, Guarded
<1>5. ASSUME BindDisarm PROVE Generations' /\ OwnWakes'
  BY <1>0, <1>5, <1>T, <1>G, DisarmKeeps DEF BindDisarm, Goto, NoCallbackState, world, Inv,
      Typed, Generations, OwnWakes, Bound, Guarded
<1>6. ASSUME BindSet PROVE Generations' /\ OwnWakes'
  BY <1>0, <1>6, <1>T, <1>G DEF BindSet, NoCallbackState, Schedule, vm, world,
      ev, Inv, Typed, TypeOK, Generations, OwnWakes, Bound, Guarded
<1>7. ASSUME ArmGeneration PROVE Generations' /\ OwnWakes'
  BY <1>0, <1>7, <1>T, <1>G DEF ArmGeneration, NoCallbackState, Goto, vm,
      world, ev, Inv, Typed, TypeOK, Generations, OwnWakes, Bound, Guarded
<1>8. ASSUME ArmWake PROVE Generations' /\ OwnWakes'
  <2>1. pc \in Bound /\ UNCHANGED <<mach, guard, cb>>
    BY <1>8 DEF ArmWake, NoCallbackState, world, Bound, Guarded
  <2>2. \/ wake'.gen = wake.gen /\ wake'.mach = wake.mach
        \/ wake'.gen = guard.gen /\ wake'.mach = mach
    BY <1>0, <1>8, DisarmKeeps, ArmSets DEF ArmWake, Inv, Typed
  <2> QED BY <1>0, <1>T, <1>G, <2>1, <2>2 DEF Inv, Generations, OwnWakes
<1>9. ASSUME ArmWakeFails PROVE Generations' /\ OwnWakes'
  BY <1>0, <1>9, <1>T, <1>G DEF ArmWakeFails, ArmFails, Schedule, Goto, vm,
      world, ev, Inv, Typed, TypeOK, Generations, OwnWakes, Bound, Guarded
<1>10. ASSUME StepPaused PROVE Generations' /\ OwnWakes'
  BY <1>0, <1>10, <1>T, <1>G DEF StepPaused, NoCallbackState, Goto, vm, world,
      ev, Inv, Typed, TypeOK, Generations, OwnWakes, Bound, Guarded
<1>11. ASSUME InputRearms PROVE Generations' /\ OwnWakes'
  BY <1>0, <1>11, <1>T, <1>G DEF InputRearms, NoCallbackState, Schedule, vm,
      world, ev, Inv, Typed, TypeOK, Generations, OwnWakes, Bound, Guarded
<1>12. ASSUME StepHalted PROVE Generations' /\ OwnWakes'
  BY <1>0, <1>12, <1>T, <1>G DEF StepHalted, NoCallbackState, Schedule, vm,
      world, ev, Inv, Typed, TypeOK, Generations, OwnWakes, Bound, Guarded
<1>13. ASSUME StepRuns PROVE Generations' /\ OwnWakes'
  BY <1>0, <1>13, <1>T, <1>G DEF StepRuns, NoCallbackState, Schedule, vm,
      world, ev, Inv, Typed, TypeOK, Generations, OwnWakes, Bound, Guarded
<1>14. ASSUME EnterRun PROVE Generations' /\ OwnWakes'
  BY <1>0, <1>14, <1>T, <1>G DEF EnterRun, NoCallbackState, Goto, vm, world,
      ev, Inv, Typed, TypeOK, Generations, OwnWakes, Bound, Guarded
<1>15. ASSUME RearmInRun PROVE Generations' /\ OwnWakes'
  BY <1>0, <1>15, <1>T, <1>G DEF RearmInRun, NoCallbackState, Schedule, vm,
      world, ev, Inv, Typed, TypeOK, Generations, OwnWakes, Bound, Guarded
<1>16. ASSUME RunCanceled PROVE Generations' /\ OwnWakes'
  BY <1>0, <1>16, <1>T, <1>G DEF RunCanceled, NoCallbackState, Schedule, vm,
      world, ev, Inv, Typed, TypeOK, Generations, OwnWakes, Bound, Guarded
<1>17. ASSUME RunExits PROVE Generations' /\ OwnWakes'
  BY <1>0, <1>17, <1>T, <1>G DEF RunExits, NoCallbackState, Schedule, vm,
      world, ev, Inv, Typed, TypeOK, Generations, OwnWakes, Bound, Guarded
<1>18. ASSUME Flush PROVE Generations' /\ OwnWakes'
  BY <1>0, <1>18, <1>T, <1>G DEF Flush, Goto, vm, world, ev, Inv, Typed,
      TypeOK, Generations, OwnWakes, Bound, Guarded
<1>19. ASSUME StepDone PROVE Generations' /\ OwnWakes'
  BY <1>0, <1>19, <1>T, <1>G DEF StepDone, NoCallbackState, Goto, vm, world,
      ev, Inv, Typed, TypeOK, Generations, OwnWakes, Bound, Guarded
<1>20. ASSUME StepFreezes PROVE Generations' /\ OwnWakes'
  BY <1>0, <1>20, <1>T, <1>G DEF StepFreezes, NoCallbackState, Goto, vm,
      world, ev, Inv, Typed, TypeOK, Generations, OwnWakes, Bound, Guarded
<1>21. ASSUME WarmReset PROVE Generations' /\ OwnWakes'
  BY <1>0, <1>21, <1>T, <1>G DEF WarmReset, NoCallbackState, Schedule, vm,
      world, ev, Inv, Typed, TypeOK, Generations, OwnWakes, Bound, Guarded
<1>22. ASSUME WarmResetFails PROVE Generations' /\ OwnWakes'
  BY <1>0, <1>22, <1>T, <1>G DEF WarmResetFails, NoCallbackState, Goto, vm,
      world, ev, Inv, Typed, TypeOK, Generations, OwnWakes, Bound, Guarded
<1>23. ASSUME Unbind PROVE Generations' /\ OwnWakes'
  BY <1>0, <1>23, <1>T, <1>G DEF Unbind, Invalidate, NoCallbackState, Goto,
      vm, world, ev, Inv, Typed, TypeOK, Generations, OwnWakes, Bound, Guarded
<1>24. ASSUME UnbindDisarm PROVE Generations' /\ OwnWakes'
  BY <1>0, <1>24, <1>T, <1>G, DisarmKeeps DEF UnbindDisarm, Goto, NoCallbackState, world, Inv,
      Typed, Generations, OwnWakes, Bound, Guarded
<1>25. ASSUME DestroyMachine PROVE Generations' /\ OwnWakes'
  BY <1>0, <1>25, <1>T, <1>G DEF DestroyMachine, NoCallbackState, Goto, vm,
      world, ev, Inv, Typed, TypeOK, Generations, OwnWakes, Bound, Guarded
<1>26. ASSUME MachineDestroyed PROVE Generations' /\ OwnWakes'
  BY <1>0, <1>26, <1>T, <1>G DEF MachineDestroyed, NoCallbackState, Goto, vm,
      world, ev, Inv, Typed, TypeOK, Generations, OwnWakes, Bound, Guarded
<1>27. ASSUME DestroyLifetime PROVE Generations' /\ OwnWakes'
  BY <1>0, <1>27, <1>T, <1>G DEF DestroyLifetime, Invalidate, NoCallbackState,
      Goto, vm, world, ev, Inv, Typed, TypeOK, Generations, OwnWakes, Bound,
      Guarded
<1>28. ASSUME FinalDisarm PROVE Generations' /\ OwnWakes'
  BY <1>0, <1>28, <1>T, <1>G, DisarmKeeps DEF FinalDisarm, Goto, NoCallbackState, world, Inv,
      Typed, Generations, OwnWakes, Bound, Guarded
<1>29. ASSUME Quiesce PROVE Generations' /\ OwnWakes'
  BY <1>0, <1>29, <1>T, <1>G DEF Quiesce, Invalidate, NoCallbackState, Goto,
      vm, world, ev, Inv, Typed, TypeOK, Generations, OwnWakes, Bound, Guarded
<1>30. ASSUME QuiesceDisarm PROVE Generations' /\ OwnWakes'
  BY <1>0, <1>30, <1>T, <1>G, DisarmKeeps DEF QuiesceDisarm, Goto, NoCallbackState, world, Inv,
      Typed, Generations, OwnWakes, Bound, Guarded
<1>31. ASSUME Unregister PROVE Generations' /\ OwnWakes'
  BY <1>0, <1>31, <1>T, <1>G DEF Unregister, Goto, vm, world, ev, Inv, Typed,
      TypeOK, Generations, OwnWakes, Bound, Guarded
<1>32. ASSUME UnregisterFails PROVE Generations' /\ OwnWakes'
  BY <1>0, <1>32, <1>T, <1>G DEF UnregisterFails, NoCallbackState, Goto, vm,
      world, ev, Inv, Typed, TypeOK, Generations, OwnWakes, Bound, Guarded
<1>33. ASSUME Gone PROVE Generations' /\ OwnWakes'
  BY <1>0, <1>33, <1>T, <1>G DEF Gone, vars, vm, world, ev, Inv, Typed,
      TypeOK, Generations, OwnWakes, Bound, Guarded
<1>34. ASSUME DelayElapses PROVE Generations' /\ OwnWakes'
  BY <1>0, <1>34, <1>T, <1>G DEF DelayElapses, vm, world, ev, Inv, Typed,
      TypeOK, Generations, OwnWakes, Bound, Guarded
<1>35. ASSUME TimerSignals PROVE Generations' /\ OwnWakes'
  BY <1>0, <1>35, <1>T, <1>G DEF TimerSignals, vm, world, ev, Inv, Typed,
      TypeOK, Generations, OwnWakes, Bound, Guarded
<1>36. ASSUME PushCommand PROVE Generations' /\ OwnWakes'
  BY <1>0, <1>36, <1>T, <1>G DEF PushCommand, CancelFor, HvCancel, vm, world,
      ev, Inv, Typed, TypeOK, Generations, OwnWakes, Bound, Guarded
<1>37. ASSUME NEW t \in Callbacks, Dispatch(t) PROVE Generations' /\ OwnWakes'
  <2>1. UNCHANGED <<pc, mach, guard>>
    BY <1>37 DEF Dispatch, vm, world
  <2>2. /\ wake'.gen = wake.gen /\ wake'.mach = wake.mach
        /\ \A u \in Callbacks : \/ cb'[u] = cb[u]
                                \/ cb'[u].gen = wake.gen /\ cb'[u].mach = wake.mach
    BY <1>0, <1>37, DispatchKeeps DEF Inv, Typed
  <2> QED BY <1>0, <1>T, <1>G, <2>1, <2>2 DEF Inv, Generations, OwnWakes
<1>38. ASSUME NEW t \in Callbacks, Deadline(t) PROVE Generations' /\ OwnWakes'
  <2>1. UNCHANGED <<pc, mach, guard, wake>>
    BY <1>38 DEF Deadline, vm, world
  <2>2. \A u \in Callbacks : cb'[u].gen = cb[u].gen /\ cb'[u].mach = cb[u].mach
    <3>1. cb' = [cb EXCEPT ![t] = [cb[t] EXCEPT !.in = FALSE]]
      BY <1>38 DEF Deadline
    <3> QED BY <1>0, <3>1 DEF Inv, Typed, TypeOK, Callback
  <2> QED BY <1>0, <1>T, <1>G, <2>1, <2>2 DEF Inv, Generations, OwnWakes
<1>39. CASE UNCHANGED vars
  BY <1>0, <1>39 DEF vars, Inv, Typed, TypeOK, Generations, OwnWakes, Bound,
      Guarded
<1> QED
  BY <1>0, <1>1, <1>2, <1>3, <1>4, <1>5, <1>6, <1>7, <1>8, <1>9, <1>10, <1>11,
      <1>12, <1>13, <1>14, <1>15, <1>16, <1>17, <1>18, <1>19, <1>20, <1>21,
      <1>22, <1>23, <1>24, <1>25, <1>26, <1>27, <1>28, <1>29, <1>30, <1>31,
      <1>32, <1>33, <1>34, <1>35, <1>36, <1>37, <1>38, <1>39
  DEF Next, VmThread, Timers

\* Each step keeps a destroyed guard quiet.
LEMMA StepQuiet == Inv /\ [Next]_vars => Quiet'
<1>0. SUFFICES ASSUME Inv, [Next]_vars PROVE Quiet'
  OBVIOUS
<1>1. ASSUME TakeCommands PROVE Quiet'
  BY <1>0, <1>1 DEF TakeCommands, Goto, vm, world, ev, Inv, Typed, TypeOK,
      Quiet, NoCallbackOutlivesGuard
<1>2. ASSUME TakeCommandsIdle PROVE Quiet'
  BY <1>0, <1>2 DEF TakeCommandsIdle, vm, world, ev, Inv, Typed, TypeOK,
      Quiet, NoCallbackOutlivesGuard
<1>3. ASSUME Boot PROVE Quiet'
  BY <1>0, <1>3 DEF Boot, NoCallbackState, Goto, vm, world, ev, Inv, Typed,
      TypeOK, Quiet, NoCallbackOutlivesGuard
<1>4. ASSUME BindClear PROVE Quiet'
  BY <1>0, <1>4 DEF BindClear, Invalidate, NoCallbackState, Goto, vm, world,
      ev, Inv, Typed, TypeOK, Quiet, NoCallbackOutlivesGuard
<1>5. ASSUME BindDisarm PROVE Quiet'
  BY <1>0, <1>5, DisarmKeeps DEF BindDisarm, Goto, NoCallbackState, Inv, Typed, Quiet,
      NoCallbackOutlivesGuard
<1>6. ASSUME BindSet PROVE Quiet'
  BY <1>0, <1>6 DEF BindSet, NoCallbackState, Schedule, vm, world, ev, Inv,
      Typed, TypeOK, Quiet, NoCallbackOutlivesGuard
<1>7. ASSUME ArmGeneration PROVE Quiet'
  BY <1>0, <1>7 DEF ArmGeneration, NoCallbackState, Goto, vm, world, ev, Inv,
      Typed, TypeOK, Quiet, NoCallbackOutlivesGuard
<1>8. ASSUME ArmWake PROVE Quiet'
  <2>1. pc \notin {"unregister", "gone"} /\ pc' \notin {"unregister", "gone"}
    BY <1>0, <1>8 DEF ArmWake, Goto, Inv, Typed, TypeOK
  <2>2. wake'.registered = wake.registered
    BY <1>0, <1>8, DisarmKeeps, ArmSets DEF ArmWake, Inv, Typed
  <2> QED BY <1>0, <2>1, <2>2 DEF Inv, Quiet, NoCallbackOutlivesGuard
<1>9. ASSUME ArmWakeFails PROVE Quiet'
  BY <1>0, <1>9 DEF ArmWakeFails, ArmFails, Schedule, Goto, vm, world, ev,
      Inv, Typed, TypeOK, Quiet, NoCallbackOutlivesGuard
<1>10. ASSUME StepPaused PROVE Quiet'
  BY <1>0, <1>10 DEF StepPaused, NoCallbackState, Goto, vm, world, ev, Inv,
      Typed, TypeOK, Quiet, NoCallbackOutlivesGuard
<1>11. ASSUME InputRearms PROVE Quiet'
  BY <1>0, <1>11 DEF InputRearms, NoCallbackState, Schedule, vm, world, ev,
      Inv, Typed, TypeOK, Quiet, NoCallbackOutlivesGuard
<1>12. ASSUME StepHalted PROVE Quiet'
  BY <1>0, <1>12 DEF StepHalted, NoCallbackState, Schedule, vm, world, ev,
      Inv, Typed, TypeOK, Quiet, NoCallbackOutlivesGuard
<1>13. ASSUME StepRuns PROVE Quiet'
  BY <1>0, <1>13 DEF StepRuns, NoCallbackState, Schedule, vm, world, ev, Inv,
      Typed, TypeOK, Quiet, NoCallbackOutlivesGuard
<1>14. ASSUME EnterRun PROVE Quiet'
  BY <1>0, <1>14 DEF EnterRun, NoCallbackState, Goto, vm, world, ev, Inv,
      Typed, TypeOK, Quiet, NoCallbackOutlivesGuard
<1>15. ASSUME RearmInRun PROVE Quiet'
  BY <1>0, <1>15 DEF RearmInRun, NoCallbackState, Schedule, vm, world, ev,
      Inv, Typed, TypeOK, Quiet, NoCallbackOutlivesGuard
<1>16. ASSUME RunCanceled PROVE Quiet'
  BY <1>0, <1>16 DEF RunCanceled, NoCallbackState, Schedule, vm, world, ev,
      Inv, Typed, TypeOK, Quiet, NoCallbackOutlivesGuard
<1>17. ASSUME RunExits PROVE Quiet'
  BY <1>0, <1>17 DEF RunExits, NoCallbackState, Schedule, vm, world, ev, Inv,
      Typed, TypeOK, Quiet, NoCallbackOutlivesGuard
<1>18. ASSUME Flush PROVE Quiet'
  BY <1>0, <1>18 DEF Flush, Goto, vm, world, ev, Inv, Typed, TypeOK, Quiet,
      NoCallbackOutlivesGuard
<1>19. ASSUME StepDone PROVE Quiet'
  BY <1>0, <1>19 DEF StepDone, NoCallbackState, Goto, vm, world, ev, Inv,
      Typed, TypeOK, Quiet, NoCallbackOutlivesGuard
<1>20. ASSUME StepFreezes PROVE Quiet'
  BY <1>0, <1>20 DEF StepFreezes, NoCallbackState, Goto, vm, world, ev, Inv,
      Typed, TypeOK, Quiet, NoCallbackOutlivesGuard
<1>21. ASSUME WarmReset PROVE Quiet'
  BY <1>0, <1>21 DEF WarmReset, NoCallbackState, Schedule, vm, world, ev, Inv,
      Typed, TypeOK, Quiet, NoCallbackOutlivesGuard
<1>22. ASSUME WarmResetFails PROVE Quiet'
  BY <1>0, <1>22 DEF WarmResetFails, NoCallbackState, Goto, vm, world, ev,
      Inv, Typed, TypeOK, Quiet, NoCallbackOutlivesGuard
<1>23. ASSUME Unbind PROVE Quiet'
  BY <1>0, <1>23 DEF Unbind, Invalidate, NoCallbackState, Goto, vm, world, ev,
      Inv, Typed, TypeOK, Quiet, NoCallbackOutlivesGuard
<1>24. ASSUME UnbindDisarm PROVE Quiet'
  BY <1>0, <1>24, DisarmKeeps DEF UnbindDisarm, Goto, NoCallbackState, Inv, Typed, Quiet,
      NoCallbackOutlivesGuard
<1>25. ASSUME DestroyMachine PROVE Quiet'
  BY <1>0, <1>25 DEF DestroyMachine, NoCallbackState, Goto, vm, world, ev,
      Inv, Typed, TypeOK, Quiet, NoCallbackOutlivesGuard
<1>26. ASSUME MachineDestroyed PROVE Quiet'
  BY <1>0, <1>26 DEF MachineDestroyed, NoCallbackState, Goto, vm, world, ev,
      Inv, Typed, TypeOK, Quiet, NoCallbackOutlivesGuard
<1>27. ASSUME DestroyLifetime PROVE Quiet'
  BY <1>0, <1>27 DEF DestroyLifetime, Invalidate, NoCallbackState, Goto, vm,
      world, ev, Inv, Typed, TypeOK, Quiet, NoCallbackOutlivesGuard
<1>28. ASSUME FinalDisarm PROVE Quiet'
  BY <1>0, <1>28, DisarmKeeps DEF FinalDisarm, Goto, NoCallbackState, Inv, Typed, Quiet,
      NoCallbackOutlivesGuard
<1>29. ASSUME Quiesce PROVE Quiet'
  BY <1>0, <1>29 DEF Quiesce, Invalidate, NoCallbackState, Goto, vm, world,
      ev, Inv, Typed, TypeOK, Quiet, NoCallbackOutlivesGuard
<1>30. ASSUME QuiesceDisarm PROVE Quiet'
  BY <1>0, <1>30, DisarmKeeps DEF QuiesceDisarm, Goto, NoCallbackState, Inv, Typed, Quiet,
      NoCallbackOutlivesGuard
<1>31. ASSUME Unregister PROVE Quiet'
  BY <1>0, <1>31 DEF Unregister, Goto, vm, world, ev, Inv, Typed, TypeOK,
      Quiet, NoCallbackOutlivesGuard
<1>32. ASSUME UnregisterFails PROVE Quiet'
  BY <1>0, <1>32 DEF UnregisterFails, NoCallbackState, Goto, vm, world, ev,
      Inv, Typed, TypeOK, Quiet, NoCallbackOutlivesGuard
<1>33. ASSUME Gone PROVE Quiet'
  BY <1>0, <1>33 DEF Gone, vars, vm, world, ev, Inv, Typed, TypeOK, Quiet,
      NoCallbackOutlivesGuard
<1>34. ASSUME DelayElapses PROVE Quiet'
  BY <1>0, <1>34 DEF DelayElapses, vm, world, ev, Inv, Typed, TypeOK, Quiet,
      NoCallbackOutlivesGuard
<1>35. ASSUME TimerSignals PROVE Quiet'
  BY <1>0, <1>35 DEF TimerSignals, vm, world, ev, Inv, Typed, TypeOK, Quiet,
      NoCallbackOutlivesGuard
<1>36. ASSUME PushCommand PROVE Quiet'
  BY <1>0, <1>36 DEF PushCommand, CancelFor, HvCancel, vm, world, ev, Inv,
      Typed, TypeOK, Quiet, NoCallbackOutlivesGuard
<1>37. ASSUME NEW t \in Callbacks, Dispatch(t) PROVE Quiet'
  <2>1. pc # "gone"
    BY <1>0, <1>37 DEF Dispatch, Inv, Quiet
  <2>2. wake'.registered = wake.registered
    BY <1>0, <1>37, DispatchKeeps DEF Inv, Typed
  <2> QED BY <1>0, <1>37, <2>1, <2>2 DEF Dispatch, vm, Inv, Quiet, NoCallbackOutlivesGuard
<1>38. ASSUME NEW t \in Callbacks, Deadline(t) PROVE Quiet'
  BY <1>0, <1>38 DEF Deadline, CancelFor, HvCancel, vm, world, ev, Inv, Typed,
      TypeOK, Quiet, NoCallbackOutlivesGuard
<1>39. CASE UNCHANGED vars
  BY <1>0, <1>39 DEF vars, Inv, Typed, TypeOK, Quiet, NoCallbackOutlivesGuard
<1> QED
  BY <1>0, <1>1, <1>2, <1>3, <1>4, <1>5, <1>6, <1>7, <1>8, <1>9, <1>10, <1>11,
      <1>12, <1>13, <1>14, <1>15, <1>16, <1>17, <1>18, <1>19, <1>20, <1>21,
      <1>22, <1>23, <1>24, <1>25, <1>26, <1>27, <1>28, <1>29, <1>30, <1>31,
      <1>32, <1>33, <1>34, <1>35, <1>36, <1>37, <1>38, <1>39
  DEF Next, VmThread, Timers

\* Each cancel meets the Machine it was armed for.
LEMMA StepCancels == Inv /\ [Next]_vars => CancelsItsOwnMachine'
<1>0. SUFFICES ASSUME Inv, [Next]_vars PROVE CancelsItsOwnMachine'
  OBVIOUS
<1>1. CASE UNCHANGED hit
  BY <1>0, <1>1 DEF Inv, CancelsItsOwnMachine
<1>2. ASSUME PushCommand, hit' # hit PROVE CancelsItsOwnMachine'
  BY <1>2 DEF PushCommand, CancelFor, CancelsItsOwnMachine
<1>3. ASSUME NEW t \in Callbacks, Deadline(t), hit' # hit PROVE CancelsItsOwnMachine'
  <2>1. guard.valid /\ guard.gen = cb[t].gen /\ hit' = [armed |-> cb[t].mach, mach |-> mach]
    BY <1>3 DEF Deadline, CancelFor
  <2>2. pc \in Bound
    BY <1>0, <2>1 DEF Inv, Control, Bound
  <2>3. cb[t].mach = mach
    BY <1>0, <2>1, <2>2 DEF Inv, OwnWakes
  <2> QED BY <2>1, <2>3 DEF CancelsItsOwnMachine
<1>4. \/ UNCHANGED hit
      \/ PushCommand
      \/ \E t \in Callbacks : Deadline(t)
  <2>1. ASSUME VmThread PROVE UNCHANGED hit
    BY <2>1 DEF VmThread, TakeCommands, TakeCommandsIdle, Boot, BindClear, BindDisarm, BindSet,
        ArmGeneration, ArmWake, ArmWakeFails, StepPaused, InputRearms, StepHalted, StepRuns, EnterRun,
        RearmInRun,
        RunCanceled, RunExits, Flush, StepDone, StepFreezes, WarmReset, WarmResetFails, Unbind, UnbindDisarm,
        DestroyMachine, MachineDestroyed, DestroyLifetime, FinalDisarm, Quiesce, QuiesceDisarm,
        Unregister, UnregisterFails, Gone, vars,
        NoCallbackState
  <2>2. ASSUME DelayElapses \/ TimerSignals \/ \E t \in Callbacks : Dispatch(t)
        PROVE  UNCHANGED hit
    BY <2>2 DEF DelayElapses, TimerSignals, Dispatch
  <2>3. ASSUME UNCHANGED vars PROVE UNCHANGED hit
    BY <2>3 DEF vars
  <2> QED BY <1>0, <2>1, <2>2, <2>3 DEF Next, Timers
<1> QED BY <1>1, <1>2, <1>3, <1>4

LEMMA StepInv == Inv /\ [Next]_vars => Inv'
<1>1. Inv /\ [Next]_vars => Typed'
  BY StepTyped DEF Inv
<1> QED BY <1>1, StepControl, StepGenerations, StepQuiet, StepCancels DEF Inv

LEMMA Invariance == Spec => []Inv
BY InitInv, StepInv, PTL DEF Spec

\* The guard is never valid without a live partition, so neither a deadline nor
\* a kick ever cancels a vCPU of a partition that is deleted.
THEOREM NoCancelWithoutPartition == Spec => []ValidGuardHasPartition
<1>1. Inv => ValidGuardHasPartition
  BY DEF Inv, Control, Guarded, Alive, ValidGuardHasPartition
<1> QED BY <1>1, Invariance, PTL

\* A late callback never cancels the run of another Machine than its own.
THEOREM NoCancelOfAnotherMachine == Spec => []CancelsItsOwnMachine
<1>1. Inv => CancelsItsOwnMachine
  BY DEF Inv
<1> QED BY <1>1, Invariance, PTL

\* A destroyed guard is never touched by a callback again.
THEOREM DestroyedGuardIsQuiet == Spec => []NoCallbackOutlivesGuard
<1>1. Inv => NoCallbackOutlivesGuard
  BY DEF Inv, Quiet
<1> QED BY <1>1, Invariance, PTL

-----------------------------------------------------------------------------
(* The wake evidence.  Deadline is the only writer of the ring and Flush its *)
(* only reader, but a callback may record while a flush is between batches.  *)

\* The ring holds the last Capacity events that were recorded, each in the slot
\* of its number.
RingHoldsRecent ==
    \A k \in Nat : k < evid.count /\ evid.count <= k + Capacity => ring[k % Capacity] = k

\* What the trace received is older than the next event a flush looks at.
DeliveredIsOld == \A i \in 1..Len(delivered) : delivered[i] < evid.flushed

EvidenceInv == Typed /\ RingHoldsRecent /\ DeliveredIsOld /\ EvidenceInOrder

LEMMA Division ==
    ASSUME NEW a \in Nat
    PROVE  \E p \in Int : a = Capacity * p + (a % Capacity) /\ a % Capacity \in Int
<1>1. a = Capacity * (a \div Capacity) + (a % Capacity)
  BY EvidenceAssumption
<1>2. a \div Capacity \in Int
  BY EvidenceAssumption
<1>3. a % Capacity \in Int
  BY EvidenceAssumption
<1> QED BY <1>1, <1>2, <1>3, Zenon

\* Two events less than a ring apart have different slots.
LEMMA SlotsDistinct ==
    ASSUME NEW a \in Nat, NEW b \in Nat, a < b, b < a + Capacity
    PROVE  a % Capacity # b % Capacity
<1> DEFINE C == Capacity
<1>0. C \in Nat \ {0}
  BY EvidenceAssumption
<1>p. PICK p \in Int : a = C * p + (a % C) /\ a % C \in Int
  BY Division, Zenon
<1>q. PICK q \in Int : b = C * q + (b % C) /\ b % C \in Int
  BY Division, Zenon
<1>1. /\ a = C * p + (a % C) /\ b = C * q + (b % C)
      /\ p \in Int /\ q \in Int /\ a % C \in Int /\ b % C \in Int
  BY <1>p, <1>q, Zenon
<1> SUFFICES ASSUME a % C = b % C PROVE FALSE
  OBVIOUS
<1>2. b - a = C * q - C * p /\ b < a + C
  BY <1>0, <1>1
<1> HIDE DEF C
<1>3. CASE q <= p
  <2>1. C * q <= C * p
    BY <1>0, <1>1, <1>3
  <2> QED BY <1>0, <1>1, <1>2, <2>1
<1>4. CASE q >= p + 1
  <2>1. C * q >= C * (p + 1)
    BY <1>0, <1>1, <1>4
  <2>2. C * (p + 1) = C * p + C
    BY <1>0, <1>1
  <2> QED BY <1>0, <1>1, <1>2, <2>1, <2>2
<1> QED BY <1>1, <1>3, <1>4

LEMMA InitEvidence == Init => EvidenceInv
<1> SUFFICES ASSUME Init PROVE EvidenceInv
  OBVIOUS
<1>1. evid.count = 0 /\ evid.flushed = 0 /\ evid.dropped = 0 /\ Len(delivered) = 0
  BY DEF Init
<1> QED BY <1>1, InitTyped DEF EvidenceInv, RingHoldsRecent, DeliveredIsOld, EvidenceInOrder

\* A callback records its event over the oldest one and no other.
LEMMA DeadlineEvidence ==
    ASSUME EvidenceInv, NEW t \in Callbacks, Deadline(t)
    PROVE  RingHoldsRecent' /\ DeliveredIsOld' /\ EvidenceInOrder'
<1>0. evid \in Evidence /\ ring \in [0..Capacity - 1 -> Nat] /\ delivered' = delivered
  BY DEF EvidenceInv, Typed, TypeOK, Deadline
<1>1. /\ evid.count \in Nat /\ evid.flushed \in Nat /\ evid.dropped \in Nat
      /\ Capacity \in Nat \ {0}
  BY <1>0, EvidenceAssumption DEF Evidence
<1>2. CASE UNCHANGED <<evid, ring>>
  BY <1>0, <1>2 DEF EvidenceInv, RingHoldsRecent, DeliveredIsOld, EvidenceInOrder
<1>3. CASE /\ ring' = [ring EXCEPT ![evid.count % Capacity] = evid.count]
           /\ evid' = [evid EXCEPT !.count = @ + 1]
  <2>1. evid'.count = evid.count + 1 /\ evid'.flushed = evid.flushed
        /\ evid'.dropped = evid.dropped
    BY <1>0, <1>3 DEF Evidence
  <2>2. DeliveredIsOld' /\ EvidenceInOrder'
    <3>1. /\ Len(delivered) + evid.dropped = evid.flushed
          /\ evid.flushed <= evid.count
          /\ \A i, j \in 1..Len(delivered) : i < j => delivered[i] < delivered[j]
      BY DEF EvidenceInv, EvidenceInOrder
    <3>2. evid.flushed <= evid.count + 1
      BY <1>1, <3>1
    <3>3. EvidenceInOrder'
      BY <1>0, <2>1, <3>1, <3>2 DEF EvidenceInOrder
    <3> QED BY <1>0, <2>1, <3>3 DEF EvidenceInv, DeliveredIsOld
  <2>3. ASSUME NEW k \in Nat, k < evid'.count, evid'.count <= k + Capacity
        PROVE  ring'[k % Capacity] = k
    <3>1. k % Capacity \in 0..Capacity - 1 /\ evid.count % Capacity \in 0..Capacity - 1
      BY <1>1, SlotInRing
    <3>2. CASE k = evid.count
      BY <1>0, <1>3, <3>1, <3>2
    <3>3. CASE k < evid.count
      <4>1. evid.count <= k + Capacity /\ evid.count < k + Capacity
        BY <1>1, <2>1, <2>3
      <4>2. ring[k % Capacity] = k
        BY <3>3, <4>1 DEF EvidenceInv, RingHoldsRecent
      <4>3. k % Capacity # evid.count % Capacity
        BY <1>1, <3>3, <4>1, SlotsDistinct
      <4> QED BY <1>0, <1>3, <3>1, <4>2, <4>3
    <3> QED BY <1>1, <2>1, <2>3, <3>2, <3>3
  <2> QED BY <2>2, <2>3 DEF RingHoldsRecent
<1> QED BY <1>2, <1>3 DEF Deadline

\* A pass of the flush hands over consecutive events and counts the ones it
\* skipped: none of what it reads has been overwritten.
LEMMA FlushEvidence ==
    ASSUME EvidenceInv, Flush
    PROVE  RingHoldsRecent' /\ DeliveredIsOld' /\ EvidenceInOrder'
<1> DEFINE oldest == IF evid.count > Capacity THEN evid.count - Capacity ELSE 0
           from   == IF evid.flushed < oldest THEN oldest ELSE evid.flushed
           n      == IF evid.count - from < Batch THEN evid.count - from ELSE Batch
           new    == [i \in 1..n |-> ring[(from + i - 1) % Capacity]]
<1>1. /\ evid.count \in Nat /\ evid.flushed \in Nat /\ evid.dropped \in Nat
      /\ evid.flushed <= evid.count
      /\ Capacity \in Nat \ {0} /\ Batch \in Nat \ {0}
  BY EvidenceAssumption DEF EvidenceInv, Typed, TypeOK, Evidence
<1>2. oldest \in Nat /\ oldest <= evid.count /\ evid.count <= oldest + Capacity
  BY <1>1
<1>3. from \in Nat /\ evid.flushed <= from /\ oldest <= from /\ from <= evid.count
  BY <1>1, <1>2
<1>4. n \in Nat /\ from + n <= evid.count
  BY <1>1, <1>3
<1>5. /\ evid'.count = evid.count /\ evid'.flushed = from + n
      /\ evid'.dropped = evid.dropped + (from - evid.flushed)
      /\ delivered' = delivered \o new /\ ring' = ring
  BY DEF Flush
<1> HIDE DEF oldest, from, n
<1>6. ASSUME NEW i \in 1..n
      PROVE  ring[(from + i - 1) % Capacity] = from + i - 1 /\ from + i - 1 \in Nat
  <2>1. from + i - 1 \in Nat /\ from + i - 1 < evid.count
        /\ evid.count <= (from + i - 1) + Capacity
    BY <1>1, <1>2, <1>3, <1>4
  <2>2. ring[(from + i - 1) % Capacity] = from + i - 1
    BY <2>1 DEF EvidenceInv, RingHoldsRecent
  <2> QED BY <2>1, <2>2
<1>7. /\ delivered \in Seq(Nat) /\ new \in Seq(Nat) /\ Len(new) = n
      /\ \A i \in 1..n : new[i] = from + i - 1
  <2>1. ASSUME NEW i \in 1..n PROVE ring[(from + i - 1) % Capacity] \in Nat
    BY <1>6
  <2>2. new \in Seq(Nat) /\ Len(new) = n
    BY <1>4, <2>1
  <2>3. \A i \in 1..n : new[i] = from + i - 1
    BY <1>6
  <2> QED BY <2>2, <2>3 DEF EvidenceInv, Typed, TypeOK
<1>8. /\ Len(delivered') = Len(delivered) + n
      /\ Len(delivered) \in Nat
      /\ \A i \in 1..Len(delivered) : delivered'[i] = delivered[i]
      /\ \A i \in 1..Len(delivered') : i > Len(delivered) =>
             delivered'[i] = from + (i - Len(delivered)) - 1
  <2> HIDE DEF new
  <2>1. /\ Len(delivered') = Len(delivered) + n /\ Len(delivered) \in Nat
        /\ \A i \in 1..Len(delivered) : delivered'[i] = delivered[i]
        /\ \A i \in 1..Len(delivered') : i > Len(delivered) =>
               delivered'[i] = new[i - Len(delivered)]
    <3>1. /\ Len(delivered \o new) = Len(delivered) + Len(new) /\ Len(delivered) \in Nat
          /\ \A i \in 1..Len(delivered) + Len(new) :
                 (delivered \o new)[i] = IF i <= Len(delivered) THEN delivered[i]
                                         ELSE new[i - Len(delivered)]
      <4>1. delivered \in Seq(Nat) /\ new \in Seq(Nat)
        BY <1>7
      <4>2. Len(delivered) \in Nat
        BY <4>1
      <4> QED BY <4>1, <4>2, ConcatProperties, Zenon
    <3>2. \A i \in 1..Len(delivered) : i \in 1..Len(delivered) + n /\ i <= Len(delivered)
      BY <1>4, <3>1
    <3>3. \A i \in 1..Len(delivered) + n : i > Len(delivered) => ~(i <= Len(delivered))
      BY <1>4, <3>1
    <3> QED BY <1>5, <1>7, <3>1, <3>2, <3>3
  <2>2. ASSUME NEW i \in 1..Len(delivered'), i > Len(delivered)
        PROVE  delivered'[i] = from + (i - Len(delivered)) - 1
    <3>1. i - Len(delivered) \in 1..n
      BY <1>4, <2>1, <2>2
    <3> QED BY <1>7, <2>1, <2>2, <3>1
  <2> QED BY <2>1, <2>2
<1> HIDE DEF new
<1>9. \A i \in 1..Len(delivered) : delivered[i] < evid.flushed /\ delivered[i] \in Nat
  BY <1>7 DEF EvidenceInv, DeliveredIsOld
<1>10. DeliveredIsOld'
  <2> SUFFICES ASSUME NEW i \in 1..Len(delivered') PROVE delivered'[i] < evid'.flushed
    BY DEF DeliveredIsOld
  <2>1. CASE i \in 1..Len(delivered)
    BY <1>1, <1>3, <1>4, <1>5, <1>8, <1>9, <2>1
  <2>2. CASE i > Len(delivered)
    BY <1>1, <1>3, <1>4, <1>5, <1>8, <2>2
  <2> QED BY <1>8, <2>1, <2>2
<1>11. \A i, j \in 1..Len(delivered') : i < j => delivered'[i] < delivered'[j]
  <2> SUFFICES ASSUME NEW i \in 1..Len(delivered'), NEW j \in 1..Len(delivered'), i < j
               PROVE  delivered'[i] < delivered'[j]
    OBVIOUS
  <2>1. CASE j \in 1..Len(delivered)
    <3>1. i \in 1..Len(delivered)
      BY <1>8, <2>1
    <3> QED BY <1>8, <2>1, <3>1 DEF EvidenceInv, EvidenceInOrder
  <2>2. CASE j > Len(delivered) /\ i \in 1..Len(delivered)
    BY <1>1, <1>3, <1>8, <1>9, <2>2
  <2>3. CASE j > Len(delivered) /\ i > Len(delivered)
    BY <1>3, <1>8, <2>3
  <2> QED BY <1>8, <2>1, <2>2, <2>3
<1>12. Len(delivered') + evid'.dropped = evid'.flushed /\ evid'.flushed <= evid'.count
  <2>1. Len(delivered) + evid.dropped = evid.flushed
    BY DEF EvidenceInv, EvidenceInOrder
  <2> QED BY <1>1, <1>3, <1>4, <1>5, <1>8, <2>1
<1>13. RingHoldsRecent'
  BY <1>5 DEF EvidenceInv, RingHoldsRecent
<1> QED BY <1>10, <1>11, <1>12, <1>13 DEF EvidenceInOrder

\* No other step touches the evidence.
LEMMA OthersKeepEvidence ==
    ASSUME [Next]_vars, ~Flush, \A t \in Callbacks : ~Deadline(t)
    PROVE  ev' = ev
<1>1. CASE VmThread
  BY <1>1 DEF VmThread, TakeCommands, TakeCommandsIdle, Boot, BindClear, BindDisarm,
      BindSet, ArmGeneration, ArmWake, ArmWakeFails, StepPaused, InputRearms, StepHalted,
      StepRuns, EnterRun, RearmInRun, RunCanceled, RunExits, StepDone, StepFreezes,
      WarmReset, WarmResetFails, Unbind, UnbindDisarm, DestroyMachine, MachineDestroyed,
      DestroyLifetime, FinalDisarm, Quiesce, QuiesceDisarm, Unregister, UnregisterFails,
      Gone, NoCallbackState, vars, ev
<1>2. CASE Timers
  BY <1>2 DEF Timers, DelayElapses, TimerSignals, Dispatch
<1>3. CASE PushCommand
  BY <1>3 DEF PushCommand
<1>4. CASE UNCHANGED vars
  BY <1>4 DEF vars, ev
<1> QED BY <1>1, <1>2, <1>3, <1>4 DEF Next

LEMMA StepEvidence == EvidenceInv /\ [Next]_vars => EvidenceInv'
<1> SUFFICES ASSUME EvidenceInv, [Next]_vars PROVE EvidenceInv'
  OBVIOUS
<1>1. Typed'
  BY StepTyped DEF EvidenceInv
<1>2. CASE Flush
  BY <1>1, <1>2, FlushEvidence DEF EvidenceInv
<1>3. CASE \E t \in Callbacks : Deadline(t)
  BY <1>1, <1>3, DeadlineEvidence DEF EvidenceInv
<1>4. CASE ev' = ev
  BY <1>1, <1>4 DEF EvidenceInv, RingHoldsRecent, DeliveredIsOld, EvidenceInOrder, ev
<1> QED BY <1>2, <1>3, <1>4, OthersKeepEvidence

\* The trace receives each wake at most once and in order, and every wake that
\* it missed is counted, for any size of the ring and of the batch.
THEOREM EvidenceIsOrdered == Spec => []EvidenceInOrder
<1>1. EvidenceInv => EvidenceInOrder
  BY DEF EvidenceInv
<1> QED BY <1>1, InitEvidence, StepEvidence, PTL DEF Spec
=============================================================================
