----------------------------- MODULE PcmStream -----------------------------
(***************************************************************************)
(* One playback stream: the transport of GSWSOUND.VXD                      *)
(* (drivers/win98/gsw-sound/vxd) and the PCM device it programs            *)
(* (src/src/audio/gsw_pcm.odin), joined by a cyclic ring in guest memory.  *)
(*                                                                         *)
(* The VxD serves protected-mode requests, one step each: it runs in ring  *)
(* 0 and nothing in a request waits.  A device that moves on between two   *)
(* register accesses of one request leaves what a device that moves on     *)
(* after the request leaves, so the pulls of the device fall between the   *)
(* requests.  The device pulls one frame at a time, raises level-triggered *)
(* interrupts, and Plug and Play starts and stops it at any moment.        *)
(*                                                                         *)
(* The unit is the frame (frame_bytes), so every length is aligned; a      *)
(* position is the 64-bit byte count, which no run wraps.  What a frame    *)
(* holds is the name of the buffer it came from.  The build is the shipped *)
(* one: no diagnostic polling, a start without an interrupt line fails.    *)
(* Of the interrupts only INVALID is modelled; PERIOD and UNDERRUN are     *)
(* acknowledged and counted, and change nothing else.                      *)
(***************************************************************************)
EXTENDS Integers, Sequences, FiniteSets, FiniteSetsExt

CONSTANTS Sources,            \* the buffers that frames come from
          Silence,            \* a zeroed frame
          RingFrames,         \* ring_bytes / frame_bytes
          CompletionCapacity, \* GSW_SOUND_COMPLETION_CAPACITY
          Gains,              \* values of the gain register
          Unity               \* GSW_PCM_MASTER_GAIN_UNITY

ASSUME SourcesAssumption == Silence \notin Sources
ASSUME RingAssumption    == RingFrames \in Nat /\ RingFrames >= 2
ASSUME CapacityAssumption == CompletionCapacity \in Nat \ {0}
ASSUME GainsAssumption   == Unity \in Gains

VARIABLES
    tr,       \* gsw_transport
    dev,      \* Gsw_Pcm
    ring,     \* the frames in the ring
    devnode,  \* gsw_devnode: the device node is registered
    sent      \* history: frames committed to the device and not yet pulled

pcmVars == <<tr, dev, ring, devnode, sent>>

Completion == [token : Nat, target : Nat]
Cells == 0 .. RingFrames - 1

PcmTypeOK ==
    /\ tr \in [bound : BOOLEAN, opened : BOOLEAN, paused : BOOLEAN,
               stream : Nat, tail : Cells, submitted : Nat,
               completions : Seq(Completion), invalid : BOOLEAN,
               gain : Gains]
    /\ Len(tr.completions) <= CompletionCapacity
    /\ dev \in [running : BOOLEAN, configured : BOOLEAN, bad : BOOLEAN,
                underrun : BOOLEAN, head : Cells, tail : Cells,
                position : Nat, enabled : BOOLEAN, irq : BOOLEAN,
                master : BOOLEAN, gain : Gains]
    /\ ring \in [Cells -> Sources \cup {Silence}]
    /\ devnode \in BOOLEAN
    /\ sent \in Seq(Sources)

-----------------------------------------------------------------------------
(* The device.                                                             *)

(* gsw_pcm_reset: everything but the PCI decode and the interrupt line. *)
DeviceReset(d) ==
    [running |-> FALSE, configured |-> FALSE, bad |-> FALSE,
     underrun |-> FALSE, head |-> 0, tail |-> 0, position |-> 0,
     enabled |-> FALSE, irq |-> FALSE, master |-> d.master, gain |-> Unity]

(* gsw_pcm_note_invalid. *)
NoteInvalid(d) == [d EXCEPT !.bad = TRUE, !.irq = TRUE]

(* gsw_pcm_available_bytes. *)
Available(d) == (d.tail - d.head) % RingFrames

(* gsw_pcm_start, refused when the configuration is not valid. *)
DeviceStart(d) ==
    IF d.master /\ d.configured
    THEN [d EXCEPT !.running = TRUE, !.bad = FALSE, !.underrun = FALSE]
    ELSE NoteInvalid(d)

DeviceStop(d) == [d EXCEPT !.running = FALSE]

(* A write of RING_TAIL commits frames, but never over frames not played. *)
CommitTail(d, t) ==
    IF d.configured /\ (t - d.tail) % RingFrames
                        <= RingFrames - Available(d) - 1
    THEN [d EXCEPT !.tail = t]
    ELSE NoteInvalid(d)

(* gsw_pcm_pull of the next frame.  An empty ring latches the underrun. *)
PcmPull ==
    /\ dev.running
    /\ IF Available(dev) > 0
       THEN /\ dev' = [dev EXCEPT !.head = (@ + 1) % RingFrames,
                                  !.position = @ + 1]
            /\ sent' = Tail(sent)
       ELSE /\ ~dev.underrun
            /\ dev' = [dev EXCEPT !.underrun = TRUE]
            /\ UNCHANGED sent
    /\ UNCHANGED <<tr, ring, devnode>>

(* gsw_pcm_set_pci_decode takes bus mastering away from a running device,  *)
(* or gives it back.                                                       *)
PcmBusMaster ==
    /\ dev' = IF dev.master /\ dev.running
              THEN [NoteInvalid(DeviceStop(dev)) EXCEPT !.master = FALSE]
              ELSE [dev EXCEPT !.master = ~@]
    /\ UNCHANGED <<tr, ring, devnode, sent>>

(* gsw_hardware_interrupt: the line is level-triggered, so the handler     *)
(* acknowledges in the device what it keeps for the next poll.             *)
PcmInterrupt ==
    /\ tr.bound
    /\ dev.irq /\ dev.enabled
    /\ tr' = [tr EXCEPT !.invalid = TRUE]
    /\ dev' = [dev EXCEPT !.irq = FALSE]
    /\ UNCHANGED <<ring, devnode, sent>>

-----------------------------------------------------------------------------
(* Plug and Play.                                                          *)

Unbound == [bound |-> FALSE, opened |-> FALSE, paused |-> FALSE, stream |-> 0,
            tail |-> 0, submitted |-> 0, completions |-> <<>>,
            invalid |-> FALSE, gain |-> Unity]

SilentRing == [c \in Cells |-> Silence]

(* gsw_register_devnode, for the one node the machine has. *)
PnpRegister ==
    /\ ~devnode
    /\ devnode' = TRUE
    /\ UNCHANGED <<tr, dev, ring, sent>>

(* gsw_device_start: registers mapped, ring allocated, transport bound,    *)
(* interrupt installed.  A start that fails at one of these undoes the     *)
(* others and leaves the device unbound and reset, as it was.              *)
PnpStart ==
    /\ devnode
    /\ ~tr.bound
    /\ tr' = [Unbound EXCEPT !.bound = TRUE]
    /\ dev' = DeviceReset(dev)
    /\ ring' = SilentRing
    /\ sent' = <<>>
    /\ UNCHANGED devnode

(* gsw_device_stop, for STOP, and for REMOVE and the driver's exit, which  *)
(* forget the node as well.  Streams are not asked.                        *)
PnpStop(forget) ==
    /\ devnode
    /\ tr' = Unbound
    /\ dev' = IF tr.bound THEN DeviceReset(dev) ELSE dev
    /\ sent' = IF tr.bound THEN <<>> ELSE sent
    /\ devnode' = ~forget
    /\ UNCHANGED ring

-----------------------------------------------------------------------------
(* Requests of the protected-mode interface: what each answers, and what   *)
(* it does when the answer is "ok".                                        *)

(* gsw_sound_stream_validate. *)
Validate(s) ==
    IF ~tr.bound THEN "unavailable"
    ELSE IF ~tr.opened \/ s = 0 \/ s # tr.stream THEN "invalid"
    ELSE "ok"

(* gsw_sound_program_stream: the device is reset and programmed, whatever  *)
(* the ring and the completion list hold is dropped.                       *)
ProgramStream(t) ==
    /\ tr' = [t EXCEPT !.tail = 0, !.submitted = 0, !.completions = <<>>,
                       !.invalid = FALSE, !.paused = FALSE]
    /\ dev' = [DeviceReset(dev) EXCEPT !.configured = TRUE,
                                       !.enabled = TRUE, !.gain = t.gain]
    /\ ring' = SilentRing
    /\ sent' = <<>>
    /\ UNCHANGED devnode

OpenResult == IF ~tr.bound THEN "unavailable"
              ELSE IF tr.opened THEN "busy" ELSE "ok"

NextStream == tr.stream + 1

PmOpen ==
    /\ OpenResult = "ok"
    /\ ProgramStream([tr EXCEPT !.opened = TRUE, !.stream = NextStream])

PmClose(s) ==
    /\ Validate(s) = "ok"
    /\ tr' = [tr EXCEPT !.opened = FALSE, !.paused = FALSE,
                        !.completions = <<>>]
    /\ dev' = DeviceReset(dev)
    /\ sent' = <<>>
    /\ UNCHANGED <<ring, devnode>>

PmReset(s) ==
    /\ Validate(s) = "ok"
    /\ ProgramStream(tr)

PmPause(s) ==
    /\ Validate(s) = "ok"
    /\ tr' = [tr EXCEPT !.paused = TRUE]
    /\ dev' = IF tr.paused THEN dev ELSE DeviceStop(dev)
    /\ UNCHANGED <<ring, devnode, sent>>

PmRestart(s) ==
    /\ Validate(s) = "ok"
    /\ tr' = [tr EXCEPT !.paused = FALSE]
    /\ dev' = IF tr.paused THEN DeviceStart(dev) ELSE dev
    /\ UNCHANGED <<ring, devnode, sent>>

PmSetGain(g) ==
    /\ tr.bound
    /\ tr' = [tr EXCEPT !.gain = g]
    /\ dev' = [dev EXCEPT !.gain = g]
    /\ UNCHANGED <<ring, devnode, sent>>

(* Frames between the device's head and the transport's tail, and the room *)
(* that is left: one frame of the ring stays empty.                        *)
RingUsed == (tr.tail - dev.head) % RingFrames

\* Mutant: no frame is left empty.
RingFreeAll == RingFrames - RingUsed

RingFree == RingFrames - RingUsed - 1

Accepted(n) == Min({n, RingFree})

(* gsw_sound_transport_submit of n frames; end marks the last of a buffer. *)
SubmitResult(s, n, end) ==
    IF Validate(s) # "ok" THEN Validate(s)
    ELSE IF tr.paused THEN "invalid"
    ELSE IF end /\ Len(tr.completions) = CompletionCapacity THEN "would_block"
    ELSE IF Accepted(n) = 0 THEN "would_block"
    ELSE "ok"

(* The device after the new tail: the underrun is cleared, and a device    *)
(* that does not run is started.                                           *)
\* Mutant: the device is not started.
CommittedOnly(t) == [CommitTail(dev, t) EXCEPT !.underrun = FALSE]

Committed(t) ==
    LET d == [CommitTail(dev, t) EXCEPT !.underrun = FALSE]
    IN  IF d.running THEN d ELSE DeviceStart(d)

(* A completion is recorded when the end of the buffer is in the ring. *)
Recorded(n, end, token) ==
    IF end /\ Accepted(n) = n
    THEN Append(tr.completions, [token |-> token, target |-> tr.submitted + n])
    ELSE tr.completions

PmSubmit(s, source, n, end, token) ==
    /\ SubmitResult(s, n, end) = "ok"
    /\ LET a == Accepted(n)
           t == (tr.tail + a) % RingFrames
       IN  /\ ring' = [c \in Cells |-> IF (c - tr.tail) % RingFrames < a
                                       THEN source ELSE ring[c]]
           /\ tr' = [tr EXCEPT !.tail = t, !.submitted = @ + a,
                                !.completions = Recorded(n, end, token)]
           /\ dev' = Committed(t)
           /\ sent' = sent \o [i \in 1 .. a |-> source]
    /\ UNCHANGED devnode

\* Mutant: the position is not compared.
PollResultEarly(s) ==
    IF Validate(s) # "ok" THEN Validate(s)
    ELSE IF dev.bad \/ tr.invalid THEN "io_error"
    ELSE IF tr.completions = <<>> THEN "no_completion"
    ELSE "ok"

(* gsw_sound_transport_poll, for the oldest completion. *)
PollResult(s) ==
    IF Validate(s) # "ok" THEN Validate(s)
    ELSE IF dev.bad \/ tr.invalid THEN "io_error"
    ELSE IF tr.completions = <<>> THEN "no_completion"
    ELSE IF dev.position < Head(tr.completions).target THEN "no_completion"
    ELSE "ok"

PmPoll(s) ==
    /\ PollResult(s) = "ok"
    /\ tr' = [tr EXCEPT !.completions = Tail(@)]
    /\ UNCHANGED <<dev, ring, devnode, sent>>

-----------------------------------------------------------------------------
PcmInit ==
    /\ tr = Unbound
    /\ dev = DeviceReset([master |-> TRUE])
    /\ ring = SilentRing
    /\ devnode = FALSE
    /\ sent = <<>>

(* Any client of the protected-mode interface. *)
PcmNext ==
    \/ PcmPull \/ PcmBusMaster \/ PcmInterrupt
    \/ PnpRegister \/ PnpStart
    \/ \E forget \in BOOLEAN : PnpStop(forget)
    \/ PmOpen
    \/ \E s \in {tr.stream} :
        \/ PmClose(s) \/ PmReset(s) \/ PmPause(s) \/ PmRestart(s) \/ PmPoll(s)
        \/ \E source \in Sources, n \in Nat \ {0}, end \in BOOLEAN,
              token \in Nat \ {0} : PmSubmit(s, source, n, end, token)
    \/ \E g \in Gains : PmSetGain(g)

PcmSpec == PcmInit /\ [][PcmNext]_pcmVars

-----------------------------------------------------------------------------
(* What the device will play next is what was submitted, in order: the     *)
(* transport's tail, computed from a head it read, never lets a submission *)
(* overwrite a frame the device has still to pull                          *)
(* (gswsound_transport.c:270-278, gsw_pcm.odin:428-435).                   *)
RingHoldsSent ==
    tr.opened =>
        /\ Len(sent) = Available(dev)
        /\ tr.tail = dev.tail
        /\ \A i \in 1 .. Len(sent) :
              ring[(dev.head + i - 1) % RingFrames] = sent[i]
=============================================================================
