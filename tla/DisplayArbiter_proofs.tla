------------------------ MODULE DisplayArbiter_proofs ------------------------
(***************************************************************************)
(* Machine-checked proofs about DisplayArbiter, for every number of DOS    *)
(* boxes.                                                                  *)
(***************************************************************************)
EXTENDS DisplayArbiter, TLAPS

USE VMAssumption DEF VMs

-----------------------------------------------------------------------------
(* The arbiter's functions keep its type.                                  *)

Arbiters ==
    [life : Lifecycles, auth : Authorities, trans : Transitions,
     windowsVm : {NoVM, Windows}, authVm : VMs \cup {NoVM},
     transVm : VMs \cup {NoVM}]

ArbiterOK(x) ==
    /\ x \in Arbiters
    /\ x.trans = "none" <=> x.transVm = NoVM
    /\ x.auth = "firmware" <=> x.authVm = NoVM
    /\ x.life \in {"registered", "disabling"} <=> x.windowsVm = Windows

\* A transition set for a VM, or taken away.
LEMMA SetTransitionOK ==
    ASSUME NEW x, ArbiterOK(x),
           NEW t \in Transitions, NEW vm \in VMs \cup {NoVM}, t = "none" <=> vm = NoVM
    PROVE  ArbiterOK(SetTransition(x, t, vm))
BY DEF ArbiterOK, Arbiters, SetTransition

\* An authority committed.
LEMMA CommitAuthorityOK ==
    ASSUME NEW x, ArbiterOK(x),
           NEW a \in Authorities, NEW vm \in VMs \cup {NoVM}, a = "firmware" <=> vm = NoVM
    PROVE  ArbiterOK(CommitAuthority(x, a, vm))
BY DEF ArbiterOK, Arbiters, CommitAuthority, SetTransition, Transitions

\* The events that come without a virtual machine of their own.
LEMMA DriverEventsOK ==
    ASSUME NEW x, ArbiterOK(x)
    PROVE  /\ ArbiterOK(DeviceReady(x))
           /\ ArbiterOK(DeviceRegistered(x))
           /\ ArbiterOK(DriverDisabling(x))
           /\ ArbiterOK(Exit(x))
           /\ ArbiterOK(ExclusiveBegin(x))
           /\ ArbiterOK(ExclusiveEnd(x))
           /\ ArbiterOK(DesktopProgramFailed(x))
           /\ Registered(x) => ArbiterOK(DesktopProgrammed(x))
<1> USE DEF ArbiterOK, Arbiters, Lifecycles, Authorities, Transitions,
            SetTransition, CommitAuthority, Registered
<1>1. ArbiterOK(DeviceReady(x))
  BY DEF DeviceReady
<1>2. ArbiterOK(DeviceRegistered(x))
  BY DEF DeviceRegistered
<1>3. ArbiterOK(DriverDisabling(x))
  BY DEF DriverDisabling
<1>4. ArbiterOK(Exit(x))
  BY DEF Exit
<1>5. ArbiterOK(ExclusiveBegin(x))
  BY DEF ExclusiveBegin
<1>6. ArbiterOK(ExclusiveEnd(x))
  BY DEF ExclusiveEnd
<1>7. ArbiterOK(DesktopProgramFailed(x))
  BY DEF DesktopProgramFailed
<1>8. Registered(x) => ArbiterOK(DesktopProgrammed(x))
  BY DEF DesktopProgrammed
<1> QED BY ONLY <1>1, <1>2, <1>3, <1>4, <1>5, <1>6, <1>7, <1>8

\* The events about a virtual machine.
LEMMA VddEventsOK ==
    ASSUME NEW x, ArbiterOK(x), NEW vm \in VMs, NEW owner \in VMs
    PROVE  /\ \A t \in {"to vga", "to desktop"} : ArbiterOK(Pre(x, t, vm))
           /\ \A a \in {"desktop", "vga"} : ArbiterOK(CommitPost(x, a, vm, owner))
           /\ ArbiterOK(PhysicalOwner(x, vm))
<1>1. \A t \in {"to vga", "to desktop"} : ArbiterOK(Pre(x, t, vm))
  BY SetTransitionOK DEF Pre, Transitions
<1>2. \A a \in {"desktop", "vga"} : ArbiterOK(CommitPost(x, a, vm, owner))
  BY CommitAuthorityOK DEF CommitPost, Authorities
<1>3. ArbiterOK(PhysicalOwner(x, vm))
  BY CommitAuthorityOK DEF PhysicalOwner, Authorities
<1> QED BY <1>1, <1>2, <1>3

-----------------------------------------------------------------------------
(* What the invariants rest on.  A move of the screen has happened when    *)
(* its switch says so, and only the system VM shows the desktop.           *)
ScreenFollowsSwitch ==
    /\ screen.desktop => screen.vm = Windows
    /\ switch.to.desktop => switch.to.vm = Windows
    /\ switch.stage = "moved" => screen = switch.to
    /\ switch.stage = "announced" => screen.desktop # switch.to.desktop

(* The arbiter has seen the switch that is under way: a DOS box has a      *)
(* transition of its own only in a switch towards it, and the return to    *)
(* the desktop is open from its announcement on.                           *)
TransitionIsSwitch ==
    /\ s.trans \in {"reconfigure", "to desktop"} => s.transVm = Windows
    /\ (odd = {} /\ s.transVm \in DosVMs)
          => switch.stage # "none" /\ switch.to.vm = s.transVm
    /\ (odd = {} /\ switch.stage # "none") => s.life \in {"registered", "exited"}
    /\ (odd = {} /\ switch.stage = "announced" /\ switch.to.desktop /\ Registered(s))
          => s.trans = "to desktop"

(* The authority for the VGA and the place of the screen, between switches *)
(* and inside one.                                                         *)
VgaBetweenSwitches ==
    (odd = {} /\ switch.stage = "none" /\ s.auth = "vga")
        => ~screen.desktop /\ (s.authVm = Windows <=> screen.vm = Windows)

VgaInSwitch ==
    (odd = {} /\ s.auth = "vga" /\ s.trans = "none")
        => /\ switch.stage # "announced"
           /\ s.authVm \in DosVMs => screen.vm \in DosVMs

TypeInv == ArbiterOK(s) /\ TypeOK

IInv == /\ TypeInv
        /\ ScreenFollowsSwitch
        /\ TransitionIsSwitch
        /\ VgaBetweenSwitches
        /\ VgaInSwitch
        /\ TransitionsEnd
        /\ BackgroundIsShutOut
        /\ OwnerIsServed

LEMMA InitIInv == Init => IInv
<1> SUFFICES ASSUME Init PROVE IInv
  OBVIOUS
<1> USE DEF Init, NoSwitch, NoAnswer
<1>1. ArbiterOK(s)
  BY DEF ArbiterOK, Arbiters, Lifecycles, Authorities, Transitions
<1>2. TypeOK
  BY DEF TypeOK, Lifecycles, Authorities, Transitions, Screens
<1>3. ScreenFollowsSwitch /\ TransitionIsSwitch /\ VgaBetweenSwitches /\ VgaInSwitch
  BY DEF ScreenFollowsSwitch, TransitionIsSwitch, VgaBetweenSwitches, VgaInSwitch, Registered
<1>4. TransitionsEnd /\ BackgroundIsShutOut /\ OwnerIsServed
  BY DEF TransitionsEnd, BackgroundIsShutOut, OwnerIsServed, Registered
<1> QED BY <1>1, <1>2, <1>3, <1>4 DEF IInv, TypeInv

\* TypeOK from its part about the arbiter.
LEMMA Assemble ==
    ASSUME ArbiterOK(s'), trap' \in BOOLEAN, screen' \in Screens,
           switch' \in [stage : {"none", "announced", "moved"}, to : Screens],
           answer' \in [vm : VMs \cup {NoVM}, forwarded : BOOLEAN],
           odd' \subseteq {"unseen", "contradicted", "failed"}
    PROVE  TypeInv'
BY DEF TypeInv, TypeOK, ArbiterOK, Arbiters

LEMMA TypeStep == TypeInv /\ [Next]_vars => TypeInv'
<1> SUFFICES ASSUME TypeInv, [Next]_vars PROVE TypeInv'
  OBVIOUS
<1> USE Assemble
<1>0. /\ ArbiterOK(s) /\ trap \in BOOLEAN /\ screen \in Screens /\ screen.vm \in VMs
      /\ switch \in [stage : {"none", "announced", "moved"}, to : Screens]
      /\ switch.to \in Screens /\ switch.to.vm \in VMs
      /\ NoSwitch \in [stage : {"none", "announced", "moved"}, to : Screens]
      /\ answer \in [vm : VMs \cup {NoVM}, forwarded : BOOLEAN]
      /\ NoAnswer \in [vm : VMs \cup {NoVM}, forwarded : BOOLEAN]
      /\ odd \subseteq {"unseen", "contradicted", "failed"}
  BY DEF TypeInv, TypeOK, Screens, NoAnswer, NoSwitch
<1>T. \A x : TrapFor(x) \in BOOLEAN
  BY DEF TrapFor, Registered
<1>D. ASSUME NEW x, ArbiterOK(x), DriverEvent(x) PROVE TypeInv'
  BY <1>0, <1>T, <1>D DEF DriverEvent, Emit
<1>1. CASE Ready \/ Register \/ ExitDevice \/ SyncTraps \/ DDrawExclusive
  BY <1>0, <1>1, <1>D, DriverEventsOK DEF Ready, Register, ExitDevice, SyncTraps, DDrawExclusive
<1>2. CASE SetModeSucceeds
  BY <1>0, <1>2, <1>D, DriverEventsOK DEF SetModeSucceeds
<1>3. CASE Disable \/ SetModeFails
  <2>1. ArbiterOK(s')
    BY <1>0, <1>3, DriverEventsOK DEF Disable, SetModeFails, Emit
  <2> QED BY <2>1, <1>0, <1>T, <1>3 DEF Disable, SetModeFails, Emit
<1>4. ASSUME NEW to \in Screens, SwitchBegins(to) PROVE TypeInv'
  <2>1. ArbiterOK(s')
    <3>1. to.vm \in VMs /\ screen.vm \in VMs
      BY <1>0 DEF Screens
    <3>2. ArbiterOK(Pre(s, IF to.desktop THEN "to desktop" ELSE "to vga", to.vm))
      BY <1>0, <3>1, VddEventsOK
    <3> QED BY <1>0, <1>4, <3>2 DEF SwitchBegins, Callback, Emit
  <2> QED BY <2>1, <1>0, <1>T, <1>4 DEF SwitchBegins, Callback, Emit
<1>5. CASE SwitchMoves
  BY <1>0, <1>5 DEF SwitchMoves
<1>6. CASE SwitchEnds
  <2>1. ArbiterOK(s')
    <3>1. ArbiterOK(CommitPost(s, IF switch.to.desktop THEN "desktop" ELSE "vga",
                               switch.to.vm, screen.vm))
      BY <1>0, VddEventsOK
    <3> QED BY <1>0, <1>6, <3>1 DEF SwitchEnds, Callback, Emit
  <2> QED BY <2>1, <1>0, <1>T, <1>6 DEF SwitchEnds, Callback, Emit
<1>7. ASSUME NEW vm \in DosVMs, HandOver(vm) PROVE TypeInv'
  BY <1>0, <1>7 DEF HandOver, Screens
<1>8. ASSUME NEW vm \in VMs, NEW kind \in {"bios restore", "bios", "vbe", "dispi"},
             Request(vm, kind)
      PROVE  TypeInv'
  <2>1. \A x, k : Forwards(x, vm, k) \in BOOLEAN
    BY DEF Forwards, IsAuthorized
  <2>2. ArbiterOK(s')
    BY <1>0, <1>8, VddEventsOK DEF Request, Emit
  <2> QED BY <2>1, <2>2, <1>0, <1>T, <1>8 DEF Request, Emit
<1>9. CASE UNCHANGED vars
  BY <1>0, <1>9 DEF vars
<1> QED BY <1>1, <1>2, <1>3, <1>4, <1>5, <1>6, <1>7, <1>8, <1>9
        DEF Next, Driver, Vdd, Requests

-----------------------------------------------------------------------------
(* The events of the driver and of DirectDraw.  They leave the screen and  *)
(* the switch alone, so what matters is what they do to the transition.    *)

Control == ScreenFollowsSwitch /\ TransitionIsSwitch /\ VgaBetweenSwitches
               /\ VgaInSwitch /\ TransitionsEnd

\* What an event of the driver may do to the arbiter: give the authority to
\* the desktop or to the firmware, open or close a transition of its own.
DriverStep(x, y) ==
    \/ y.trans = x.trans /\ y.transVm = x.transVm /\ y.auth = x.auth /\ y.authVm = x.authVm
         /\ (y.life = x.life \/ (x.life = "cold" /\ y.life = "ready"))
    \/ y.trans = "reconfigure" /\ y.transVm = Windows /\ y.auth = x.auth /\ y.authVm = x.authVm
         /\ y.life = "registered"
         /\ (x.life \in {"ready", "disabling"} \/ (x.life = "registered" /\ x.trans = "none"))
    \/ y.trans = "none" /\ y.transVm = NoVM /\ y.auth # "vga"
         /\ (y.life = "exited" \/ (y.life = x.life /\ x.trans = "reconfigure"))

LEMMA DriverStepOf ==
    ASSUME NEW x, ArbiterOK(x)
    PROVE  /\ x.life = "cold" => DriverStep(x, DeviceReady(x))
           /\ DriverStep(x, DeviceRegistered(x))
           /\ DriverStep(x, Exit(x))
           /\ DriverStep(x, ExclusiveBegin(x))
           /\ DriverStep(x, ExclusiveEnd(x))
           /\ Registered(x) => DriverStep(x, DesktopProgrammed(x))
           /\ DriverStep(x, x)
<1> USE DEF ArbiterOK, Arbiters, DriverStep, SetTransition, CommitAuthority, Registered
<1>1. x.life = "cold" => DriverStep(x, DeviceReady(x))
  BY DEF DeviceReady
<1>2. DriverStep(x, DeviceRegistered(x))
  BY DEF DeviceRegistered
<1>3. DriverStep(x, Exit(x))
  BY DEF Exit
<1>4. DriverStep(x, ExclusiveBegin(x))
  BY DEF ExclusiveBegin
<1>5. DriverStep(x, ExclusiveEnd(x))
  BY DEF ExclusiveEnd
<1>6. Registered(x) => DriverStep(x, DesktopProgrammed(x))
  BY DEF DesktopProgrammed
<1>7. DriverStep(x, x)
  OBVIOUS
<1> QED BY ONLY <1>1, <1>2, <1>3, <1>4, <1>5, <1>6, <1>7

LEMMA DriverKeepsControl ==
    ASSUME IInv, DriverStep(s, s'), UNCHANGED <<screen, switch, odd>>
    PROVE  Control'
<1> USE DEF IInv, TypeInv, DriverStep, Registered
<1>1. ScreenFollowsSwitch'
  BY DEF ScreenFollowsSwitch
<1>2. TransitionIsSwitch'
  BY DEF TransitionIsSwitch
<1>3. VgaBetweenSwitches'
  BY DEF VgaBetweenSwitches
<1>4. VgaInSwitch'
  BY DEF VgaInSwitch
<1>5. TransitionsEnd'
  BY DEF TransitionsEnd
<1> QED BY ONLY <1>1, <1>2, <1>3, <1>4, <1>5 DEF Control

\* A driver that is disabled, or whose mode set fails, keeps the authority:
\* harmless between switches, and inside one the arbiter no longer follows.
LEMMA LosesTransition ==
    ASSUME IInv, s'.trans = "none", s'.transVm = NoVM,
           s'.auth = s.auth, s'.authVm = s.authVm,
           s'.life \in {s.life, "disabling"}, UNCHANGED <<screen, switch>>,
           IF switch.stage # "none" THEN odd' # {} ELSE odd' = odd
    PROVE  Control'
<1> USE DEF IInv, TypeInv, Registered
<1>1. ScreenFollowsSwitch'
  BY DEF ScreenFollowsSwitch
<1>2. TransitionIsSwitch'
  BY DEF TransitionIsSwitch
<1>3. VgaBetweenSwitches'
  BY DEF VgaBetweenSwitches
<1>4. VgaInSwitch'
  BY DEF VgaInSwitch, VgaBetweenSwitches, ArbiterOK, Arbiters, TypeOK, Screens
<1>5. TransitionsEnd'
  BY DEF TransitionsEnd
<1> QED BY ONLY <1>1, <1>2, <1>3, <1>4, <1>5 DEF Control

-----------------------------------------------------------------------------
(* The steps of the VDD.                                                   *)

LEMMA SwitchBeginsKeepsControl ==
    ASSUME IInv, NEW to \in Screens, SwitchBegins(to)
    PROVE  Control'
<1> USE DEF IInv, TypeInv
<1>0. /\ switch.stage = "none" /\ switch'.stage = "announced" /\ switch'.to = to
      /\ screen' = screen /\ to.desktop # screen.desktop
      /\ to.desktop => to.vm = Windows
      /\ to.desktop \in BOOLEAN /\ to.vm \in VMs /\ screen.desktop \in BOOLEAN
  BY DEF SwitchBegins, TypeOK, Screens
<1>1. CASE Registered(s)
  <2>1. /\ odd' = odd
        /\ s' = Pre(s, IF to.desktop THEN "to desktop" ELSE "to vga", to.vm)
    BY <1>1 DEF SwitchBegins, Callback, Emit
  <2>2. odd = {} => s.trans \in {"none", "reconfigure"}
    BY <1>0 DEF TransitionsEnd
  <2>3. /\ s.trans = "reconfigure" => s.transVm = Windows
        /\ s'.auth = s.auth /\ s'.authVm = s.authVm /\ s'.life = s.life
        /\ \/ s'.trans = s.trans /\ s'.transVm = s.transVm
              /\ s.trans # "none" /\ (s.trans = "reconfigure" => s.transVm # to.vm)
           \/ s'.trans = "to desktop" /\ s'.transVm = to.vm /\ to.desktop
           \/ s'.trans = "to vga" /\ s'.transVm = to.vm /\ ~to.desktop
    BY <2>1, <1>0 DEF Pre, SetTransition, TransitionIsSwitch, ArbiterOK, Arbiters
  <2>4. ScreenFollowsSwitch'
    BY <1>0 DEF ScreenFollowsSwitch
  <2>5. TransitionIsSwitch'
    BY <1>0, <1>1, <2>1, <2>2, <2>3 DEF TransitionIsSwitch, Registered, ArbiterOK
  <2>6. VgaBetweenSwitches' /\ TransitionsEnd'
    BY <1>0 DEF VgaBetweenSwitches, TransitionsEnd
  <2>7. VgaInSwitch'
    BY <2>3 DEF VgaInSwitch
  <2> QED BY <2>4, <2>5, <2>6, <2>7 DEF Control
<1>2. CASE ~Registered(s)
  <2>1. s' = s /\ odd' # {}
    BY <1>2 DEF SwitchBegins, Callback
  <2> QED BY <2>1, <1>0 DEF Control, ScreenFollowsSwitch, TransitionIsSwitch,
                            VgaBetweenSwitches, VgaInSwitch, TransitionsEnd
<1> QED BY <1>1, <1>2

LEMMA SwitchMovesKeepsControl ==
    ASSUME IInv, SwitchMoves
    PROVE  Control'
<1> USE DEF IInv, TypeInv, SwitchMoves
<1>0. /\ switch.stage = "announced" /\ switch'.stage = "moved" /\ switch'.to = switch.to
      /\ screen' = switch.to /\ s' = s /\ odd' = odd
  BY DEF TypeOK
<1>1. ScreenFollowsSwitch'
  BY <1>0 DEF ScreenFollowsSwitch
<1>2. TransitionIsSwitch'
  BY <1>0 DEF TransitionIsSwitch
<1>3. VgaBetweenSwitches' /\ TransitionsEnd'
  BY <1>0 DEF VgaBetweenSwitches, TransitionsEnd
<1>4. VgaInSwitch'
  BY <1>0 DEF VgaInSwitch
<1> QED BY <1>1, <1>2, <1>3, <1>4 DEF Control

LEMMA SwitchEndsKeepsControl ==
    ASSUME IInv, SwitchEnds
    PROVE  Control'
<1> USE DEF IInv, TypeInv
<1>0. /\ switch.stage # "none" /\ switch'.stage = "none" /\ screen' = screen
      /\ switch'.to.vm = Windows
      /\ switch.to.desktop \in BOOLEAN /\ switch.to.vm \in VMs
  BY DEF SwitchEnds, NoSwitch, TypeOK, Screens
<1>1. ScreenFollowsSwitch'
  BY <1>0 DEF ScreenFollowsSwitch
<1>2. CASE Registered(s) /\ switch.stage = "moved"
  <2>1. screen = switch.to
    BY <1>2 DEF ScreenFollowsSwitch
  <2>2. s' = CommitAuthority(s, IF switch.to.desktop THEN "desktop" ELSE "vga", switch.to.vm)
    BY <1>2, <2>1 DEF SwitchEnds, Callback, Emit, CommitPost
  <2>3. /\ s'.trans = "none" /\ s'.transVm = NoVM /\ s'.authVm = screen.vm
        /\ s'.auth = IF screen.desktop THEN "desktop" ELSE "vga"
    BY <2>1, <2>2 DEF CommitAuthority, SetTransition, ArbiterOK, Arbiters
  <2> QED BY <1>0, <1>1, <2>1, <2>3 DEF Control, TransitionIsSwitch, VgaBetweenSwitches,
                                        VgaInSwitch, TransitionsEnd
<1>3. CASE ~(Registered(s) /\ switch.stage = "moved")
  <2>1. odd' # {}
    BY <1>3 DEF SwitchEnds
  <2>2. s'.trans \in {"reconfigure", "to desktop"} => s'.transVm = Windows
    BY DEF SwitchEnds, Callback, Emit, CommitPost, CommitAuthority, SetTransition,
           ArbiterOK, Arbiters, TransitionIsSwitch
  <2> QED BY <2>1, <2>2, <1>1 DEF Control, TransitionIsSwitch, VgaBetweenSwitches,
                                  VgaInSwitch, TransitionsEnd
<1> QED BY <1>2, <1>3

LEMMA HandOverKeepsControl ==
    ASSUME IInv, NEW vm \in DosVMs, HandOver(vm)
    PROVE  Control'
<1> USE DEF IInv, TypeInv
<1>0. /\ switch.stage = "none" /\ switch' = switch /\ s' = s /\ odd' = odd
      /\ screen.vm \in DosVMs /\ screen'.vm = vm /\ screen'.desktop = screen.desktop
  BY DEF HandOver, TypeOK, Screens
<1>1. ScreenFollowsSwitch'
  BY <1>0 DEF ScreenFollowsSwitch
<1>2. TransitionIsSwitch' /\ TransitionsEnd'
  BY <1>0 DEF TransitionIsSwitch, TransitionsEnd, Registered
<1>3. VgaBetweenSwitches' /\ VgaInSwitch'
  BY <1>0 DEF VgaBetweenSwitches, VgaInSwitch
<1> QED BY <1>1, <1>2, <1>3 DEF Control

-----------------------------------------------------------------------------
(* A request.  It takes the authority only for a DOS box that owns the     *)
(* CRTC and has no switch away from it announced.                          *)

\* The arbiter after the question who owns the CRTC.
Asked(vm) == IF Registered(s) /\ screen.vm = vm THEN PhysicalOwner(s, vm) ELSE s

LEMMA AskedOwner ==
    ASSUME IInv, NEW vm \in VMs
    PROVE  \/ Asked(vm) = s
              /\ (Registered(s) /\ screen.vm = vm /\ vm \in DosVMs
                    => s.trans # "none" /\ s.transVm # vm)
           \/ /\ Registered(s) /\ vm \in DosVMs /\ screen.vm = vm
              /\ s.trans = "none" \/ s.transVm = vm
              /\ Asked(vm).trans = "none" /\ Asked(vm).transVm = NoVM
              /\ Asked(vm).auth = "vga" /\ Asked(vm).authVm = vm
              /\ Asked(vm).life = s.life
BY DEF IInv, TypeInv, Asked, PhysicalOwner, CommitAuthority, SetTransition, Registered,
       ArbiterOK, Arbiters

LEMMA RequestKeepsControl ==
    ASSUME IInv, NEW vm \in VMs, s' = Asked(vm), UNCHANGED <<screen, switch, odd>>
    PROVE  Control'
<1> USE DEF IInv, TypeInv
<1>1. CASE s' = s
  BY <1>1 DEF Control, ScreenFollowsSwitch, TransitionIsSwitch, VgaBetweenSwitches,
              VgaInSwitch, TransitionsEnd, Registered
<1>2. CASE s' # s
  <2>1. /\ Registered(s) /\ vm \in DosVMs /\ screen.vm = vm
        /\ s.trans = "none" \/ s.transVm = vm
        /\ s'.trans = "none" /\ s'.transVm = NoVM /\ s'.auth = "vga" /\ s'.authVm = vm
        /\ s'.life = s.life
    BY <1>2, AskedOwner
  <2>2. ~screen.desktop
    BY <2>1 DEF ScreenFollowsSwitch
  <2>3. odd = {} => switch.stage # "announced"
    <3> SUFFICES ASSUME odd = {}, switch.stage = "announced" PROVE FALSE
      OBVIOUS
    <3>1. switch.to.desktop
      BY <2>2 DEF ScreenFollowsSwitch, TypeOK, Screens
    <3>2. s.trans = "to desktop" /\ s.transVm = Windows
      BY <2>1, <3>1 DEF TransitionIsSwitch
    <3> QED BY <2>1, <3>2
  <2>4. ScreenFollowsSwitch'
    BY DEF ScreenFollowsSwitch
  <2>5. TransitionIsSwitch' /\ TransitionsEnd'
    BY <2>1, <2>3 DEF TransitionIsSwitch, TransitionsEnd, Registered
  <2>6. VgaBetweenSwitches' /\ VgaInSwitch'
    BY <2>1, <2>2, <2>3 DEF VgaBetweenSwitches, VgaInSwitch
  <2> QED BY <2>4, <2>5, <2>6 DEF Control
<1> QED BY <1>1, <1>2

\* What the requester is told.
LEMMA RequestIsAnswered ==
    ASSUME IInv, TypeInv', Control', NEW vm \in VMs, NEW kind, s' = Asked(vm),
           answer' = [vm |-> vm, forwarded |-> Forwards(s', vm, kind)],
           UNCHANGED <<screen, switch, odd>>
    PROVE  BackgroundIsShutOut' /\ OwnerIsServed'
<1> USE DEF IInv
<1>0. answer'.vm = vm /\ (Registered(s)' => answer'.forwarded = IsAuthorized(s', vm))
  BY DEF Forwards, Registered
<1>1. BackgroundIsShutOut'
  <2> SUFFICES ASSUME Registered(s)', odd = {}, IsAuthorized(s', vm), vm \in DosVMs
               PROVE  screen.vm \in DosVMs \/ (switch.stage # "none" /\ switch.to.vm = vm)
    BY <1>0 DEF BackgroundIsShutOut
  <2>1. CASE s'.trans # "none"
    <3>1. s'.transVm = vm
      BY <2>1 DEF IsAuthorized
    <3> QED BY <3>1 DEF Control, TransitionIsSwitch
  <2>2. CASE s'.trans = "none"
    <3>1. s'.auth = "vga" /\ s'.authVm = vm
      BY <2>2 DEF IsAuthorized
    <3> QED BY <2>2, <3>1 DEF Control, VgaInSwitch
  <2> QED BY <2>1, <2>2
<1>2. OwnerIsServed'
  <2> SUFFICES ASSUME Registered(s)', odd = {}, switch.stage = "none", screen.vm = vm,
                      vm \in DosVMs, s'.trans # "reconfigure"
               PROVE  IsAuthorized(s', vm)
    BY <1>0 DEF OwnerIsServed
  <2>1. s'.trans = "none"
    BY DEF Control, TransitionsEnd
  <2>2. s'.auth = "vga" /\ s'.authVm = vm
    BY <2>1, AskedOwner DEF Registered
  <2> QED BY <2>1, <2>2 DEF IsAuthorized
<1> QED BY <1>1, <1>2

\* Every other step answers nobody.
LEMMA NobodyIsAnswered ==
    ASSUME answer' = NoAnswer PROVE BackgroundIsShutOut' /\ OwnerIsServed'
BY DEF BackgroundIsShutOut, OwnerIsServed, NoAnswer

LEMMA StepIInv == IInv /\ [Next]_vars => IInv'
<1> SUFFICES ASSUME IInv, [Next]_vars PROVE IInv'
  OBVIOUS
<1>T. TypeInv' /\ ArbiterOK(s)
  BY TypeStep DEF IInv, TypeInv
<1>D. ASSUME NEW x, DriverStep(s, x), DriverEvent(x) PROVE IInv'
  <2>1. s' = x /\ UNCHANGED <<screen, switch, odd>> /\ answer' = NoAnswer
    BY <1>D DEF DriverEvent, Emit
  <2>2. Control'
    BY <1>D, <2>1, DriverKeepsControl
  <2> QED BY <1>T, <2>1, <2>2, NobodyIsAnswered DEF IInv, Control
<1>1. CASE Ready \/ Register \/ ExitDevice \/ SyncTraps \/ DDrawExclusive \/ SetModeSucceeds
  BY <1>1, <1>T, <1>D, DriverStepOf
     DEF Ready, Register, ExitDevice, SyncTraps, DDrawExclusive, SetModeSucceeds
<1>2. CASE Disable \/ SetModeFails
  <2>1. /\ UNCHANGED <<screen, switch>> /\ answer' = NoAnswer
        /\ IF switch.stage # "none" THEN odd' # {} ELSE odd' = odd
    BY <1>2 DEF Disable, SetModeFails
  <2>2. s' = s \/ ( /\ s'.trans = "none" /\ s'.transVm = NoVM
                    /\ s'.auth = s.auth /\ s'.authVm = s.authVm
                    /\ s'.life \in {s.life, "disabling"})
    BY <1>2, <1>T DEF Disable, SetModeFails, Emit, DriverDisabling, DesktopProgramFailed,
                      SetTransition, ArbiterOK, Arbiters
  <2>3. CASE s' = s
    <3>1. ScreenFollowsSwitch' /\ TransitionsEnd'
      BY <2>1, <2>3 DEF IInv, ScreenFollowsSwitch, TransitionsEnd
    <3>2. TransitionIsSwitch'
      BY <2>1, <2>3 DEF IInv, TransitionIsSwitch, Registered
    <3>3. VgaBetweenSwitches' /\ VgaInSwitch'
      BY <2>1, <2>3 DEF IInv, VgaBetweenSwitches, VgaInSwitch
    <3> QED BY <2>1, <3>1, <3>2, <3>3, <1>T, NobodyIsAnswered DEF IInv
  <2>4. CASE s' # s
    BY <2>1, <2>2, <2>4, <1>T, LosesTransition, NobodyIsAnswered DEF IInv, Control
  <2> QED BY <2>3, <2>4
<1>3. ASSUME NEW to \in Screens, SwitchBegins(to) PROVE IInv'
  BY <1>3, <1>T, SwitchBeginsKeepsControl, NobodyIsAnswered DEF IInv, Control, SwitchBegins
<1>4. CASE SwitchMoves
  BY <1>4, <1>T, SwitchMovesKeepsControl, NobodyIsAnswered DEF IInv, Control, SwitchMoves
<1>5. CASE SwitchEnds
  BY <1>5, <1>T, SwitchEndsKeepsControl, NobodyIsAnswered DEF IInv, Control, SwitchEnds
<1>6. ASSUME NEW vm \in DosVMs, HandOver(vm) PROVE IInv'
  BY <1>6, <1>T, HandOverKeepsControl, NobodyIsAnswered DEF IInv, Control, HandOver
<1>7. ASSUME NEW vm \in VMs, NEW kind \in {"bios restore", "bios", "vbe", "dispi"},
             Request(vm, kind)
      PROVE  IInv'
  <2>1. /\ s' = Asked(vm) /\ UNCHANGED <<screen, switch, odd>>
        /\ answer' = [vm |-> vm, forwarded |-> Forwards(s', vm, kind)]
    BY <1>7 DEF Request, Asked, Emit
  <2>2. Control'
    BY <2>1, RequestKeepsControl
  <2>3. BackgroundIsShutOut' /\ OwnerIsServed'
    BY <1>T, <2>1, <2>2, RequestIsAnswered
  <2> QED BY <1>T, <2>2, <2>3 DEF IInv, Control
<1>8. CASE UNCHANGED vars
  <2>0. s' = s /\ screen' = screen /\ switch' = switch /\ answer' = answer /\ odd' = odd
    BY <1>8 DEF vars
  <2>1. ScreenFollowsSwitch' /\ TransitionIsSwitch' /\ TransitionsEnd'
    BY <2>0 DEF IInv, ScreenFollowsSwitch, TransitionIsSwitch, TransitionsEnd, Registered
  <2>2. VgaBetweenSwitches' /\ VgaInSwitch'
    BY <2>0 DEF IInv, VgaBetweenSwitches, VgaInSwitch
  <2>3. BackgroundIsShutOut'
    BY <2>0, Zenon DEF IInv, BackgroundIsShutOut, Registered
  <2>4. OwnerIsServed'
    BY <2>0, Zenon DEF IInv, OwnerIsServed, Registered
  <2> QED BY <1>T, <2>1, <2>2, <2>3, <2>4 DEF IInv
<1> QED BY <1>1, <1>2, <1>3, <1>4, <1>5, <1>6, <1>7, <1>8
        DEF Next, Driver, Vdd, Requests

-----------------------------------------------------------------------------
(* The arbiter's fields stay consistent: a transition, an authority and    *)
(* the system VM each have a virtual machine exactly when there is one.    *)
THEOREM TypeCorrect == Spec => []TypeOK
<1>1. IInv => TypeOK
  BY DEF IInv, TypeInv
<1> QED BY <1>1, InitIInv, StepIInv, PTL DEF Spec

(* However many DOS boxes there are: the authority for the VGA that        *)
(* gsw_display_step keeps never outlives the VGA.                          *)
THEOREM VgaAuthorityIsSafe == Spec => []VgaAuthorityNeedsVga
<1>1. IInv => VgaAuthorityNeedsVga
  BY DEF IInv, VgaBetweenSwitches, VgaAuthorityNeedsVga
<1> QED BY <1>1, InitIInv, StepIInv, PTL DEF Spec

(* A DOS box in the background is never let through by                     *)
(* gsw_display_handle_request, whatever the order of the driver's and the  *)
(* VDD's events.                                                           *)
THEOREM BackgroundIsSafe == Spec => []BackgroundIsShutOut
<1>1. IInv => BackgroundIsShutOut
  BY DEF IInv
<1> QED BY <1>1, InitIInv, StepIInv, PTL DEF Spec

(* The DOS box on the screen is let through, also when it came there       *)
(* without a callback: GSW_display_bios_mode_set asks the VDD first.       *)
THEOREM OwnerIsLetThrough == Spec => []OwnerIsServed
<1>1. IInv => OwnerIsServed
  BY DEF IInv
<1> QED BY <1>1, InitIInv, StepIInv, PTL DEF Spec

(* No switch the arbiter has followed leaves its transition behind in      *)
(* gsw_display_commit_post.                                                *)
THEOREM TransitionsAreClosed == Spec => []TransitionsEnd
<1>1. IInv => TransitionsEnd
  BY DEF IInv
<1> QED BY <1>1, InitIInv, StepIInv, PTL DEF Spec
=============================================================================
