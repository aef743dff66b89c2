--------------------------- MODULE DisplayArbiter ---------------------------
(***************************************************************************)
(* Who may program the display while Windows 98 runs: the arbiter of       *)
(* GSWMINI.VXD (drivers/win98/derived/vmdisp9x-gsw/overlay,                *)
(* gsw_display_arbiter.c) and the adapter that feeds it                    *)
(* (gsw_display_adapter.c).                                                *)
(*                                                                         *)
(* The Windows desktop and full-screen DOS boxes share one adapter.  The   *)
(* VxD hooks INT 10h and traps the DISPI ports, and the arbiter answers    *)
(* for each request whether the hardware sees it.  It learns of the screen *)
(* from callbacks of the Virtual Display Device (VDD), from the owner of   *)
(* the CRTC the VDD names when asked, and from the display driver.         *)
(*                                                                         *)
(* The VDD is external.  It moves the screen in a switch of three steps, a *)
(* PRE callback, the move itself and a POST callback; it moves it from one *)
(* DOS box to another without a callback; and a switch may end where it    *)
(* began.  The callbacks come at any moment between the other events.      *)
(* "generation" is written and never read, and is left out.                *)
(***************************************************************************)
EXTENDS Naturals

CONSTANTS DosVMs,   \* the DOS virtual machines
          Windows,  \* the system VM, ThisVM of the driver
          NoVM      \* the null handle

ASSUME VMAssumption == Windows \notin DosVMs /\ NoVM \notin DosVMs \cup {Windows}

VMs == DosVMs \cup {Windows}

VARIABLES
    s,       \* gsw_display_state
    trap,    \* gsw_display_applied_trap: the DISPI ports are trapped
    screen,  \* the VDD: who owns the CRTC, and whether it shows the desktop
    switch,  \* the VDD: the switch in progress
    answer,  \* of the step before: the request, and whether it was forwarded
    odd      \* history: since the last POST, was the arbiter not told of a
             \* switch, told what was not so, or did a mode fail in one

vars == <<s, trap, screen, switch, answer, odd>>

Lifecycles  == {"cold", "ready", "registered", "disabling", "exited"}
Authorities == {"firmware", "desktop", "vga"}
Transitions == {"none", "to vga", "to desktop", "reconfigure"}
Screens     == [vm : VMs, desktop : BOOLEAN]
NoSwitch    == [stage |-> "none", to |-> [vm |-> Windows, desktop |-> TRUE]]
NoAnswer    == [vm |-> NoVM, forwarded |-> FALSE]

TypeOK ==
    /\ s \in [life : Lifecycles, auth : Authorities, trans : Transitions,
              windowsVm : {NoVM, Windows}, authVm : VMs \cup {NoVM},
              transVm : VMs \cup {NoVM}]
    /\ s.trans = "none" <=> s.transVm = NoVM
    /\ s.auth = "firmware" <=> s.authVm = NoVM
    /\ s.life \in {"registered", "disabling"} <=> s.windowsVm = Windows
    /\ trap \in BOOLEAN
    /\ screen \in Screens
    /\ switch \in [stage : {"none", "announced", "moved"}, to : Screens]
    /\ answer \in [vm : VMs \cup {NoVM}, forwarded : BOOLEAN]
    /\ odd \subseteq {"unseen", "contradicted", "failed"}

-----------------------------------------------------------------------------
(* The arbiter.  An event the state has no place for is a protocol fault:  *)
(* it leaves a marker for diagnosis and the state as it was.               *)

Registered(x) == x.life = "registered"

(* gsw_display_trap_for. *)
TrapFor(x) == Registered(x)

(* gsw_display_set_transition. *)
SetTransition(x, t, vm) == [x EXCEPT !.trans = t, !.transVm = vm]

(* gsw_display_commit_authority. *)
CommitAuthority(x, a, vm) ==
    [SetTransition(x, "none", NoVM) EXCEPT !.auth = a, !.authVm = vm]

DeviceReady(x) == IF x.life = "cold" THEN [x EXCEPT !.life = "ready"] ELSE x

(* DEVICE_REGISTERED, by the display driver of the system VM: the first    *)
(* time, or after it was disabled.                                         *)
DeviceRegistered(x) ==
    IF x.life = "ready" \/ (x.life = "disabling" /\ x.windowsVm = Windows)
    THEN SetTransition([x EXCEPT !.life = "registered",
                                 !.windowsVm = Windows],
                       "reconfigure", Windows)
    ELSE x

(* VDD_PRE_FOREGROUND and VDD_PRE_DESKTOP: a switch towards t begins, if   *)
(* none is under way but the driver's own for the same VM.                 *)
Pre(x, t, vm) ==
    IF x.trans = "none" \/ (x.trans = "reconfigure" /\ x.transVm = vm)
    THEN SetTransition(x, t, vm)
    ELSE x

(* gsw_display_commit_post.  The adapter always brings a fresh observation *)
(* of the owner, and that alone decides.                                   *)
\* Mutant: a POST without its PRE is not believed.
CommitPostAfterPre(x, a, vm, owner) ==
    IF owner = vm /\ x.trans # "none" THEN CommitAuthority(x, a, vm) ELSE x

CommitPost(x, a, vm, owner) ==
    IF owner = vm THEN CommitAuthority(x, a, vm) ELSE x

(* DESKTOP_PROGRAMMED: the driver has set its mode. *)
DesktopProgrammed(x) ==
    IF x.trans = "reconfigure" /\ x.transVm = x.windowsVm
    THEN CommitAuthority(x, "desktop", x.windowsVm)
    ELSE x

(* DESKTOP_PROGRAM_FAILED: back to the authority there was. *)
DesktopProgramFailed(x) ==
    IF x.trans \in {"reconfigure", "to desktop"} /\ x.transVm = x.windowsVm
    THEN SetTransition(x, "none", NoVM)
    ELSE x

(* DDRAW_EXCLUSIVE_BEGIN opens the desktop for a mode of DirectDraw ...    *)
ExclusiveBegin(x) ==
    IF /\ Registered(x) /\ x.trans = "none"
       /\ x.auth = "desktop" /\ x.authVm = x.windowsVm
    THEN SetTransition(x, "reconfigure", x.windowsVm)
    ELSE x

(* ... and DDRAW_EXCLUSIVE_END closes it, or opens the way back when the   *)
(* VDD has meanwhile given the system VM the VGA.                          *)
ExclusiveEnd(x) ==
    IF ~Registered(x) THEN x
    ELSE IF x.trans = "none" /\ x.auth = "vga" /\ x.authVm = x.windowsVm
    THEN SetTransition(x, "reconfigure", x.windowsVm)
    ELSE IF /\ x.trans = "reconfigure" /\ x.transVm = x.windowsVm
            /\ x.auth = "desktop" /\ x.authVm = x.windowsVm
    THEN SetTransition(x, "none", NoVM)
    ELSE x

DriverDisabling(x) ==
    IF Registered(x)
    THEN SetTransition([x EXCEPT !.life = "disabling"], "none", NoVM)
    ELSE x

(* DEVICE_EXIT and SYSTEM_EXIT. *)
Exit(x) == [CommitAuthority(x, "firmware", NoVM)
              EXCEPT !.life = "exited", !.windowsVm = NoVM]

\* Mutant: any owner the VDD names takes the authority.
PhysicalOwnerAny(x, vm) ==
    IF vm # x.windowsVm THEN CommitAuthority(x, "vga", vm) ELSE x

\* Mutant: a DOS box that has the VGA is not replaced.
PhysicalOwnerFirst(x, vm) ==
    IF /\ (x.trans = "none" \/ x.transVm = vm) /\ vm # x.windowsVm
       /\ x.auth # "vga"
    THEN CommitAuthority(x, "vga", vm)
    ELSE x

(* PHYSICAL_OWNER: a DOS box that is seen to own the CRTC, unless a switch *)
(* to another VM is under way.                                             *)
PhysicalOwner(x, vm) ==
    IF (x.trans = "none" \/ x.transVm = vm) /\ vm # x.windowsVm
    THEN CommitAuthority(x, "vga", vm)
    ELSE x

(* gsw_display_request_is_authorized. *)
IsAuthorized(x, vm) ==
    IF x.trans # "none" THEN vm = x.transVm
    ELSE x.auth = "vga" /\ vm = x.authVm

(* gsw_display_handle_request for a request of the kind "bios restore"     *)
(* (modes 3 and 83h), "bios", "vbe" or "dispi".                            *)
Forwards(x, vm, kind) ==
    CASE x.life \in {"cold", "ready", "exited"} -> TRUE
      [] x.life = "disabling" ->
            kind = "dispi" \/ (kind = "bios restore" /\ vm = x.windowsVm)
      [] OTHER -> IsAuthorized(x, vm)

-----------------------------------------------------------------------------
(* The adapter.                                                            *)

(* GSW_display_emit: a new state, and the traps that go with it. *)
Emit(x) == s' = x /\ trap' = TrapFor(x)

(* A callback of the VDD is dropped while the driver is not registered. *)
Callback(x) == IF Registered(s) THEN Emit(x) ELSE UNCHANGED <<s, trap>>

DriverEvent(x) ==
    Emit(x) /\ answer' = NoAnswer /\ UNCHANGED <<screen, switch, odd>>

Ready      == s.life = "cold" /\ DriverEvent(DeviceReady(s))
Register   == DriverEvent(DeviceRegistered(s)) /\ s.life # "cold"
ExitDevice == DriverEvent(Exit(s))

(* A switch that is under way is forgotten. *)
Disable ==
    /\ Emit(DriverDisabling(s))
    /\ odd' = IF switch.stage # "none" THEN odd \cup {"unseen"} ELSE odd
    /\ answer' = NoAnswer
    /\ UNCHANGED <<screen, switch>>

SetModeSucceeds ==
    Registered(s) /\ DriverEvent(DesktopProgrammed(s))
SetModeFails ==
    /\ Registered(s)
    /\ Emit(DesktopProgramFailed(s))
    /\ odd' = IF switch.stage # "none" THEN odd \cup {"failed"} ELSE odd
    /\ answer' = NoAnswer
    /\ UNCHANGED <<screen, switch>>

(* ENABLE_TRAPS of the VDD. *)
SyncTraps == DriverEvent(s)

DDrawExclusive == DriverEvent(ExclusiveBegin(s)) \/ DriverEvent(ExclusiveEnd(s))

(* GSW_display_bios_mode_set, GSW_display_vbe_mode_set and, when the ports *)
(* are trapped, GSW_display_dispi_access: the VDD is asked who owns the    *)
(* CRTC, and then the request is judged.                                   *)
Request(vm, kind) ==
    LET x == IF Registered(s) /\ screen.vm = vm THEN PhysicalOwner(s, vm) ELSE s
    IN  /\ kind = "dispi" => trap
        /\ Emit(x)
        /\ answer' = [vm |-> vm, forwarded |-> Forwards(x, vm, kind)]
        /\ UNCHANGED <<screen, switch, odd>>

-----------------------------------------------------------------------------
(* The VDD.                                                                *)

(* The screen is to go to another place: PRE_HIRES_TO_VGA for a VM, or     *)
(* PRE_VGA_TO_HIRES for the desktop.                                       *)
SwitchBegins(to) ==
    /\ switch.stage = "none"
    /\ to.desktop => to.vm = Windows
    /\ to.desktop # screen.desktop
    /\ switch' = [stage |-> "announced", to |-> to]
    /\ Callback(Pre(s, IF to.desktop THEN "to desktop" ELSE "to vga", to.vm))
    /\ odd' = IF Registered(s) THEN odd ELSE odd \cup {"unseen"}
    /\ answer' = NoAnswer
    /\ UNCHANGED screen

SwitchMoves ==
    /\ switch.stage = "announced"
    /\ switch' = [switch EXCEPT !.stage = "moved"]
    /\ screen' = switch.to
    /\ answer' = NoAnswer
    /\ UNCHANGED <<s, trap, odd>>

(* POST_HIRES_TO_VGA or POST_VGA_TO_HIRES.  A switch that moved nothing    *)
(* has one too.                                                            *)
SwitchEnds ==
    /\ switch.stage # "none"
    /\ switch' = NoSwitch
    /\ Callback(CommitPost(s, IF switch.to.desktop THEN "desktop" ELSE "vga",
                           switch.to.vm, screen.vm))
    /\ odd' = IF ~Registered(s) THEN odd \cup {"unseen"}
              ELSE IF switch.stage = "moved" THEN {}
              ELSE odd \cup {"contradicted"}
    /\ answer' = NoAnswer
    /\ UNCHANGED screen

(* From one DOS box to another, without a callback. *)
HandOver(vm) ==
    /\ switch.stage = "none"
    /\ screen.vm \in DosVMs
    /\ screen' = [screen EXCEPT !.vm = vm]
    /\ answer' = NoAnswer
    /\ UNCHANGED <<s, trap, switch, odd>>

-----------------------------------------------------------------------------
Init ==
    /\ s = [life |-> "cold", auth |-> "firmware", trans |-> "none",
            windowsVm |-> NoVM, authVm |-> NoVM, transVm |-> NoVM]
    /\ trap = FALSE
    /\ screen = [vm |-> Windows, desktop |-> FALSE]
    /\ switch = NoSwitch
    /\ answer = NoAnswer
    /\ odd = {}

Driver == \/ Ready \/ Register \/ Disable \/ ExitDevice
          \/ SetModeSucceeds \/ SetModeFails \/ DDrawExclusive
          \/ SyncTraps

Vdd == \/ \E to \in Screens : SwitchBegins(to)
       \/ SwitchMoves \/ SwitchEnds
       \/ \E vm \in DosVMs : HandOver(vm)

Requests == \E vm \in VMs, kind \in {"bios restore", "bios", "vbe", "dispi"} :
                Request(vm, kind)

Next == Driver \/ Vdd \/ Requests

Spec == Init /\ [][Next]_vars

-----------------------------------------------------------------------------
(* The authority for the VGA never outlives the VGA: when no switch is     *)
(* under way and the arbiter has seen what the VDD did, a VM that holds it *)
(* is on the screen, or is a DOS box that handed the screen to another.    *)
(* So a DOS box in the background never programs the desktop               *)
(* (gsw_display_arbiter.c:75-91, 397-409).                                 *)
VgaAuthorityNeedsVga ==
    (Registered(s) /\ switch.stage = "none" /\ odd = {} /\ s.auth = "vga")
        => /\ ~screen.desktop
           /\ s.authVm = Windows <=> screen.vm = Windows

(* A request that reaches the hardware comes from the VM on the screen or  *)
(* from the one the screen goes to, whatever the driver and DirectDraw do  *)
(* meanwhile; of the DOS boxes, one that handed the screen to another may  *)
(* still pass (gsw_display_arbiter.c:20-32, 97-139).                       *)
BackgroundIsShutOut ==
    (Registered(s) /\ odd = {} /\ answer.forwarded /\ answer.vm \in DosVMs) =>
        \/ screen.vm \in DosVMs
        \/ switch.stage # "none" /\ switch.to.vm = answer.vm

(* A DOS box that owns the screen is never refused, also when no callback  *)
(* announced it, but while the driver sets the mode of the desktop         *)
(* (gsw_display_adapter.c:213-224, gsw_display_arbiter.c:392-410).         *)
OwnerIsServed ==
    (/\ Registered(s) /\ odd = {} /\ switch.stage = "none"
     /\ answer.vm = screen.vm /\ screen.vm \in DosVMs
     /\ s.trans # "reconfigure") => answer.forwarded

(* A switch the VDD has ended leaves no transition behind, so that no      *)
(* later request is judged by it (gsw_display_arbiter.c:57-58, 81-92).     *)
TransitionsEnd ==
    (switch.stage = "none" /\ odd = {}) => s.trans \in {"none", "reconfigure"}
=============================================================================
