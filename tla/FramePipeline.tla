--------------------------- MODULE FramePipeline ---------------------------
(***************************************************************************)
(* The road of a guest picture to the screen, for the legacy VGA display:  *)
(* damage tracking in the VGA (src/src/vga), the two-slot frame mailbox    *)
(* and its consumer (src/src/videopresentation), and the host's texture    *)
(* (src/src/host/presentation.odin).                                       *)
(*                                                                         *)
(* Two threads meet at the mailbox.  The VM thread runs the guest and, at  *)
(* most once per SNAP_PERIOD, captures what changed since the last frame   *)
(* the screen acknowledged.  The UI thread takes the newest frame, expands *)
(* it into its own copy of the picture and uploads the dirty part to the   *)
(* texture.  Machines are stopped and booted by the VM thread; the UI      *)
(* thread notices through shared.machine_running, and both threads reset   *)
(* the mailbox, which starts a new lifecycle generation.                   *)
(*                                                                         *)
(* Every critical section of mailbox.mu or shared.mu is one step; what a   *)
(* thread does on its own between two of them belongs to the step before   *)
(* or after it.  The screen is a set of regions, a pixel is the Machine    *)
(* and the sequence number of the write that drew it.  The display mode is *)
(* fixed, so one lifecycle has one surface; GSW presents are left out, and *)
(* with them the sequence numbers that only GSW presents use up.           *)
(***************************************************************************)
EXTENDS Integers, Sequences, FiniteSets, SequencesExt

CONSTANTS Regions,     \* parts of the visible picture
          Hidden,      \* video memory that the display does not show
          MaxBatches,  \* VGA_DAMAGE_MAX_BATCHES
          MaxSeq,      \* bound: guest changes; the n-th Machine makes an n-th of them
          MaxLife,     \* bound: the VM thread starts no reset in a later lifecycle
          MaxBoots,    \* bound: Machines
          MaxFails     \* bound: captures, uploads and boots that fail

ASSUME RegionsAssumption == Regions # {} /\ Hidden \notin Regions
ASSUME BatchesAssumption == MaxBatches \in Nat /\ MaxBatches >= 2
ASSUME BoundsAssumption ==
    MaxSeq \in Nat /\ MaxLife \in Nat /\ MaxBoots \in Nat /\ MaxFails \in Nat

VARIABLES
    ppc,       \* where the VM thread is
    pslot,     \* the slot it writes
    live,      \* it has a Machine
    running,   \* shared.machine_running
    boot,      \* number of the current Machine
    seq,       \* vga.legacy_presentation_sequence
    vram,      \* what the guest has drawn
    pend,      \* vga.legacy_damage
    batches,   \* vga.legacy_damage_batches
    slot,      \* the mailbox's frame slots
    life,      \* mailbox.lifecycle_generation
    published, \* mailbox.published, 0 when has_frame is false
    latest,    \* the slot that holds the epoch mailbox.published_epoch
    ack,       \* mailbox.legacy_ack
    want,      \* mailbox.legacy_baseline: a full frame is asked for
    upc,       \* where the UI thread is
    cslot,     \* the slot it reads
    was,       \* st.machine_running: running as of the previous round
    snap,      \* running as of this round
    base,      \* the UI thread's copy of the picture and its baseline header
    host,      \* Host_Presentation_State and the window's texture
    staged,    \* the upload that waits for its commit
    fails,     \* failures so far
    shot,      \* history: the whole picture at the capture in each slot
    shown      \* history: the whole picture of the last committed frame

vm      == <<ppc, pslot, live, running>>
guest   == <<boot, seq, vram, pend, batches>>
mailbox == <<slot, life, published, latest, ack, want>>
ui      == <<upc, cslot, was, snap>>
screen  == <<base, host, staged>>
vars    == <<ppc, pslot, live, running, boot, seq, vram, pend, batches, slot,
             life, published, latest, ack, want, upc, cslot, was, snap, base,
             host, staged, fails, shot, shown>>

Slots   == {1, 2}
NoSlot  == 0
Pixel   == Nat \X Nat
Picture == [Regions -> Pixel]
Blank   == [r \in Regions |-> <<boot, 0>>]
NoTexture == <<>>
NoStage == [kind |-> "none", px |-> NoTexture]

(***************************************************************************)
(* Damage.  A palette change and every other reason for a full update are  *)
(* one flag: the capture treats them alike.                                *)
(***************************************************************************)
Damage    == [full : BOOLEAN, parts : SUBSET (Regions \cup {Hidden})]
NoDamage  == [full |-> FALSE, parts |-> {}]
FullDamage == [full |-> TRUE, parts |-> {}]
HasDamage(d) == d.full \/ d.parts # {}

Merge(d, e) ==
    [full  |-> d.full \/ e.full,
     parts |-> IF d.full \/ e.full THEN {} ELSE d.parts \cup e.parts]

\* The part of the picture the damage stands for.
Visible(d) == IF d.full THEN Regions ELSE d.parts \cap Regions

\* Mutant: a full list is not merged first.
OldestKept(bs) == bs

\* Mutant: a full list drops its oldest batch.
OldestDropped(bs) == IF Len(bs) < MaxBatches THEN bs ELSE Tail(bs)

\* vga_damage_seal_pending: pending damage becomes a batch of its own; a full
\* list first merges its two oldest batches under the younger sequence.
Oldest(bs) ==
    IF Len(bs) < MaxBatches THEN bs
    ELSE <<[seq |-> bs[2].seq, dmg |-> Merge(bs[1].dmg, bs[2].dmg)]>>
         \o SubSeq(bs, 3, Len(bs))

Seal(bs, d, s) ==
    IF ~HasDamage(d) THEN bs
    ELSE IF bs # <<>> /\ Last(bs).seq = s
         THEN [bs EXCEPT ![Len(bs)].dmg = Merge(@, d)]
         ELSE Append(Oldest(bs), [seq |-> s, dmg |-> d])

Accumulated(bs, d) ==
    LET all == {bs[i].dmg : i \in DOMAIN bs} \cup {d}
    IN  [full  |-> \E e \in all : e.full,
         parts |-> IF \E e \in all : e.full THEN {}
                   ELSE UNION {e.parts : e \in all}]

HasBatch(bs, s) == \E i \in DOMAIN bs : bs[i].seq = s

\* vga_damage_acknowledge: the batches up to the acknowledged one are gone.
Unacknowledged(bs, s) ==
    SubSeq(bs, 1 + CHOOSE i \in DOMAIN bs : bs[i].seq = s, Len(bs))

\* A sequence without a batch is the current one, with damage still pending,
\* or its batch was merged into a younger one and stays.
Acknowledge(s) ==
    LET sealed == Seal(batches, pend, seq)
    IN  \/ /\ HasBatch(batches, s)
           /\ batches' = Seal(Unacknowledged(batches, s), pend, seq)
           /\ pend' = NoDamage
        \/ /\ ~HasBatch(batches, s)
           /\ s = seq /\ HasDamage(pend)
           /\ batches' = Unacknowledged(sealed, s)
           /\ pend' = NoDamage
        \/ /\ ~HasBatch(batches, s)
           /\ s # seq \/ ~HasDamage(pend)
           /\ UNCHANGED <<batches, pend>>

(***************************************************************************)
(* The mailbox.                                                            *)
(***************************************************************************)
States == {"Free", "Writing", "Ready", "Reading"}
Covers == {"None", "Partial", "Full"}

\* A slot: its state, the lifecycle it was reserved in, the sequence and the
\* coverage of the capture it holds, the captured pixels, and the lifecycle
\* of the plan of its last capture (0: never captured).
EmptySlot == [state |-> "Free", life |-> 0, gen |-> 0, cover |-> "None",
              data |-> <<>>, plan |-> 0]

\* A free slot keeps its plan; the rest of its contents is dead.
Freed(s) == [EmptySlot EXCEPT !.plan = s.plan]

NoAck == [life |-> 0, seq |-> 0]
NoWant == [life |-> 0, issued |-> FALSE]

\* Mutant: a reset also frees the slots that the threads hold.
ResetAllSlots ==
    /\ life' = life + 1
    /\ slot' = [s \in Slots |-> Freed(slot[s])]
    /\ published' = 0
    /\ latest' = NoSlot
    /\ ack' = NoAck
    /\ want' = NoWant

\* frame_mailbox_reset: only Ready slots are freed.  The slots the two
\* threads hold stay theirs; their lifecycle no longer matches.
Reset ==
    /\ life' = life + 1
    /\ slot' = [s \in Slots |-> IF slot[s].state = "Ready"
                                THEN Freed(slot[s]) ELSE slot[s]]
    /\ published' = 0
    /\ latest' = NoSlot
    /\ ack' = NoAck
    /\ want' = NoWant

(***************************************************************************)
(* The host.                                                               *)
(***************************************************************************)
NoBase == [life |-> 0, px |-> Blank]

StoppedHost(h) ==
    [h EXCEPT !.accepting = FALSE, !.last = 0, !.owner = 0,
              !.shadow.life = 0, !.visible = FALSE]

\* Mutant: the window goes on showing the texture of the last lifecycle.
StartedHostVisible(h, l) ==
    [h EXCEPT !.accepting = TRUE, !.life = l, !.last = 0, !.owner = 0,
              !.shadow.life = 0]

\* host_presentation_start: a no-op for the lifecycle that is already shown.
StartedHost(h, l) ==
    IF h.accepting /\ h.life = l THEN h
    ELSE [h EXCEPT !.accepting = TRUE, !.life = l, !.last = 0, !.owner = 0,
                   !.shadow.life = 0, !.visible = FALSE]

Init ==
    /\ ppc = "run" /\ pslot = NoSlot
    /\ live = FALSE /\ running = FALSE
    /\ boot = 0 /\ seq = 0
    /\ vram = Blank
    /\ pend = NoDamage /\ batches = <<>>
    /\ slot = [s \in Slots |-> EmptySlot]
    /\ life = 1
    /\ published = 0 /\ latest = NoSlot /\ ack = NoAck /\ want = NoWant
    /\ upc = "snapshot" /\ cslot = NoSlot
    /\ was = FALSE /\ snap = FALSE
    /\ base = NoBase
    /\ host = [accepting |-> FALSE, life |-> 0, last |-> 0, owner |-> 0,
               shadow |-> NoBase, tex |-> NoTexture, visible |-> FALSE]
    /\ staged = NoStage
    /\ fails = 0
    /\ shot = [s \in Slots |-> NoTexture]
    /\ shown = Blank

----------------------------------------------------------------------------
(***************************************************************************)
(* The VM thread: Machines.                                                *)
(***************************************************************************)
\* A Reset or Start command, or a reset of the guest.  The Machine is
\* reported as not running before the old one is torn down.
Reinitialize ==
    /\ ppc = "run"
    /\ life < MaxLife
    /\ live \/ boot < MaxBoots
    /\ running' = FALSE
    /\ ppc' = "boot"
    /\ UNCHANGED <<pslot, live, guest, mailbox, ui, screen, fails, shot, shown>>

\* vga_reset_state of the new Machine and the mailbox reset of its configure.
NewMachine ==
    /\ live' = TRUE
    /\ boot' = boot + 1
    /\ seq' = 1
    /\ vram' = [r \in Regions |-> <<boot + 1, 0>>]
    /\ pend' = FullDamage
    /\ batches' = <<>>
    /\ Reset

Boot ==
    /\ ppc = "boot"
    /\ boot < MaxBoots
    /\ NewMachine
    /\ ppc' = "announce"
    /\ UNCHANGED <<pslot, running, ui, screen, fails, shot, shown>>

\* A warm CPU reset, or a reset that the durability barrier refuses: the
\* Machine goes on, with its picture and its damage.
KeepMachine ==
    /\ ppc = "boot"
    /\ live
    /\ ppc' = "announce"
    /\ UNCHANGED <<pslot, live, running, guest, mailbox, ui, screen, fails, shot, shown>>

\* The boot fails before or after the mailbox reset of its configure.
BootFails ==
    /\ ppc = "boot"
    /\ fails < MaxFails
    /\ fails' = fails + 1
    /\ live' = FALSE
    /\ Reset \/ UNCHANGED mailbox
    /\ ppc' = "announce"
    /\ UNCHANGED <<pslot, running, guest, ui, screen, shot, shown>>

\* A Stop command, or a power-off of the guest.
Shutdown ==
    /\ ppc = "run"
    /\ live
    /\ live' = FALSE
    /\ ppc' = "announce"
    /\ UNCHANGED <<pslot, running, guest, mailbox, ui, screen, fails, shot, shown>>

\* publish_machine_running(s, machine_live)
Announce ==
    /\ ppc = "announce"
    /\ running' = live
    /\ ppc' = "run"
    /\ UNCHANGED <<pslot, live, guest, mailbox, ui, screen, fails, shot, shown>>

\* The guest draws: damage and sequence number change together.
Draw(part) ==
    /\ ppc = "run"
    /\ live
    /\ boot * seq < MaxSeq
    /\ seq' = seq + 1
    /\ vram' = [r \in Regions |-> IF r = part THEN <<boot, seq + 1>> ELSE vram[r]]
    /\ pend' = Merge(pend, [full |-> FALSE, parts |-> {part}])
    /\ UNCHANGED <<vm, boot, batches, mailbox, ui, screen, fails, shot, shown>>

\* A change of the palette or of the display registers, or one that cannot
\* be traced to parts of the picture.
DrawAll ==
    /\ ppc = "run"
    /\ live
    /\ boot * seq < MaxSeq
    /\ seq' = seq + 1
    /\ vram' = [r \in Regions |-> <<boot, seq + 1>>]
    /\ pend' = FullDamage
    /\ UNCHANGED <<vm, boot, batches, mailbox, ui, screen, fails, shot, shown>>

----------------------------------------------------------------------------
(***************************************************************************)
(* The VM thread: frame_mailbox_publish_observed.                          *)
(***************************************************************************)
TakeAck ==
    /\ ppc = "run"
    /\ live
    /\ ack' = NoAck
    /\ IF ack # NoAck /\ ack.life = life
       THEN Acknowledge(ack.seq)
       ELSE UNCHANGED <<batches, pend>>
    /\ ppc' = "baseline"
    /\ UNCHANGED <<pslot, live, running, boot, seq, vram, slot, life, published,
                   latest, want, ui, screen, fails, shot, shown>>

\* frame_mailbox_apply_legacy_full_baseline: the Machine records full damage,
\* once per request.
ApplyBaseline ==
    /\ ppc = "baseline"
    /\ \/ /\ want.life # life
          /\ want' = NoWant
          /\ UNCHANGED <<seq, pend>>
       \/ /\ want.life = life /\ want.issued
          /\ UNCHANGED <<want, seq, pend>>
       \/ /\ want.life = life /\ ~want.issued
          /\ want' = [want EXCEPT !.issued = TRUE]
          /\ seq' = seq + 1
          /\ pend' = FullDamage
    /\ ppc' = "begin"
    /\ UNCHANGED <<pslot, live, running, boot, vram, batches, slot, life, published,
                   latest, ack, ui, screen, fails, shot, shown>>

Unchanged ==
    /\ ppc = "begin"
    /\ published = seq
    /\ ppc' = "run"
    /\ UNCHANGED <<pslot, live, running, guest, mailbox, ui, screen, fails, shot, shown>>

\* A free slot is taken before the oldest one that is ready, and every ready
\* frame is coalesced into the new one.
ChosenSlot ==
    LET free  == {s \in Slots : slot[s].state = "Free"}
        ready == {s \in Slots : slot[s].state = "Ready"}
    IN  IF free # {} THEN CHOOSE s \in free : \A t \in free : s <= t
        ELSE CHOOSE s \in ready : \A t \in ready : slot[s].gen <= slot[t].gen

Begin ==
    /\ ppc = "begin"
    /\ published # seq
    /\ \E s \in Slots : slot[s].state \in {"Free", "Ready"}
    /\ pslot' = ChosenSlot
    /\ slot' = [s \in Slots |->
                  IF s = ChosenSlot
                  THEN [Freed(slot[s]) EXCEPT !.state = "Writing", !.life = life]
                  ELSE IF slot[s].state = "Ready" THEN Freed(slot[s]) ELSE slot[s]]
    /\ ppc' = "capture"
    /\ UNCHANGED <<live, running, guest, life, published, latest, ack, want, ui, screen,
                   fails, shot, shown>>

\* frame_mailbox_commit with a complete capture f: dropped when the mailbox
\* was reset since the slot was reserved.
CommitSlot(f) ==
    IF f.life = life
    THEN /\ slot' = [slot EXCEPT ![pslot] = [f EXCEPT !.state = "Ready"]]
         /\ published' = f.gen
         /\ latest' = pslot
    ELSE /\ slot' = [slot EXCEPT ![pslot] = Freed(f)]
         /\ UNCHANGED <<published, latest>>

\* The pixels of the picture that a capture of these parts copies.
Copied(parts) == [r \in parts |-> vram[r]]

\* The slot's last plan belongs to another lifecycle: its capture must be full.
NewIdentity == slot[pslot].plan # slot[pslot].life

Captured(cover, gen, parts) ==
    [slot[pslot] EXCEPT !.gen = gen, !.cover = cover, !.data = Copied(parts),
                        !.plan = slot[pslot].life]

\* scanout_descriptor_capture: seal, then copy what the batches name.  A full
\* copy is forced by a new identity or a running raster journal; with no
\* damage at all it first makes the Machine record full damage.
Capture(journal) ==
    LET sealed == Seal(batches, pend, seq)
        seen   == Visible(Accumulated(sealed, NoDamage))
        forced == NewIdentity \/ journal
    IN  \/ /\ seen = {} /\ ~forced
           /\ batches' = sealed
           /\ UNCHANGED seq
           /\ CommitSlot(Captured("None", seq, {}))
        \/ /\ seen = {} /\ forced
           /\ seq' = seq + 1
           /\ batches' = Seal(sealed, FullDamage, seq + 1)
           /\ CommitSlot(Captured("Full", seq + 1, Regions))
        \/ /\ seen # {} /\ (forced \/ seen = Regions)
           /\ batches' = sealed
           /\ UNCHANGED seq
           /\ CommitSlot(Captured("Full", seq, Regions))
        \/ /\ seen # {} /\ seen # Regions /\ ~forced
           /\ batches' = sealed
           /\ UNCHANGED seq
           /\ CommitSlot(Captured("Partial", seq, seen))

CaptureFrame ==
    /\ ppc = "capture"
    /\ \E journal \in BOOLEAN : Capture(journal)
    /\ pend' = NoDamage
    /\ shot' = [s \in Slots |-> IF slot'[s].state # "Free" THEN
                                  IF s = pslot THEN vram ELSE shot[s]
                                ELSE NoTexture]
    /\ ppc' = "run"
    /\ pslot' = NoSlot
    /\ UNCHANGED <<live, running, boot, vram, life, ack, want, ui, screen, fails, shown>>

\* The capture fails: before it, when the dirty pages cannot be read, or
\* after it, when the GSW half of the descriptor cannot be taken.
CaptureFails ==
    /\ ppc = "capture"
    /\ fails < MaxFails
    /\ fails' = fails + 1
    /\ \/ /\ slot' = [slot EXCEPT ![pslot] = Freed(@)]
          /\ UNCHANGED <<pend, batches>>
       \/ /\ Visible(Accumulated(batches, pend)) # {}
          /\ slot' = [slot EXCEPT ![pslot] = [Freed(@) EXCEPT !.plan = slot[pslot].life]]
          /\ batches' = Seal(batches, pend, seq)
          /\ pend' = NoDamage
    /\ ppc' = "run"
    /\ pslot' = NoSlot
    /\ UNCHANGED <<live, running, boot, seq, vram, life, published, latest, ack, want, ui,
                   screen, shot, shown>>

----------------------------------------------------------------------------
(***************************************************************************)
(* The UI thread: one round of the main loop.                              *)
(***************************************************************************)
Snapshot ==
    /\ upc = "snapshot"
    /\ was' = snap
    /\ snap' = running
    /\ upc' = "sync"
    /\ UNCHANGED <<vm, guest, mailbox, cslot, screen, fails, shot, shown>>

\* graphics_presentation_sync_lifecycle
SyncRunning ==
    /\ upc = "sync"
    /\ snap
    /\ host' = StartedHost(host, life)
    /\ upc' = "acquire"
    /\ UNCHANGED <<vm, guest, mailbox, cslot, was, snap, base, staged, fails, shot, shown>>

\* video_presentation_stop, in the round that sees the Machine stop.
SyncStopped ==
    /\ upc = "sync"
    /\ ~snap
    /\ IF was THEN Reset /\ host' = StoppedHost(host)
       ELSE UNCHANGED <<mailbox, host>>
    /\ upc' = "acquire"
    /\ UNCHANGED <<vm, guest, cslot, was, snap, base, staged, fails, shot, shown>>

\* frame_mailbox_acquire: the newest ready frame.
Acquire ==
    /\ upc = "acquire"
    /\ LET ready == {s \in Slots : slot[s].state = "Ready"}
       IN  \/ /\ ready = {}
              /\ upc' = "resync"
              /\ UNCHANGED <<slot, cslot>>
           \/ /\ ready # {}
              /\ cslot' = CHOOSE s \in ready : \A t \in ready : slot[s].gen >= slot[t].gen
              /\ slot' = [slot EXCEPT ![cslot'].state = "Reading"]
              /\ upc' = "check"
    /\ UNCHANGED <<vm, guest, life, published, latest, ack, want, was, snap, screen, fails,
                   shot, shown>>

Frame == slot[cslot]

\* host_presentation_admit_legacy
Admitted ==
    /\ host.accepting
    /\ Frame.life = host.life
    /\ host.last = 0 \/ Frame.gen > host.last

\* The frame is of an earlier lifecycle, has no legacy update, or the host
\* does not admit it: it is dropped, and not asked for again.  (A frame that
\* was shown before is acknowledged once more by the code; without GSW
\* presents no frame is published twice under a number that was shown.)
Drop ==
    /\ upc = "check"
    /\ \/ Frame.life # life
       \/ Frame.cover = "None"
       \/ ~Admitted
    /\ upc' = "release"
    /\ UNCHANGED <<vm, guest, mailbox, cslot, was, snap, screen, fails, shot, shown>>

\* The picture p with the captured pixels of frame f over it.
Over(f, p) == [r \in Regions |-> IF r \in DOMAIN f.data THEN f.data[r] ELSE p[r]]

\* expansion_baseline_matches, host_presentation_shadow_matches: a partial
\* frame may only be laid over a picture of its own lifecycle.
BaseMatches(b) == b.life = Frame.life

ToRender ==
    /\ upc = "check"
    /\ Frame.life = life
    /\ Frame.cover # "None"
    /\ Admitted

Expandable == Frame.cover = "Full" \/ BaseMatches(base)
Stageable  == Frame.cover = "Full" \/ BaseMatches(host.shadow)

Expanded == [life |-> Frame.life, px |-> Over(Frame, base.px)]

\* host_presentation_shadow_apply: the frame's dirty parts of the expanded
\* picture go to the host's copy.
ShadowOf(e) ==
    [life |-> Frame.life,
     px   |-> [r \in Regions |-> IF r \in DOMAIN Frame.data THEN e.px[r]
                                 ELSE host.shadow.px[r]]]

\* The frame is partial and one of the two pictures is missing; the UI
\* thread's own copy is brought up to date if it can be.
LacksBaseline ==
    /\ ToRender
    /\ ~(Expandable /\ Stageable)
    /\ base' = IF Expandable THEN Expanded ELSE base
    /\ upc' = "request"
    /\ UNCHANGED <<vm, guest, mailbox, cslot, was, snap, host, staged, fails, shot, shown>>

\* frame_mailbox_request_legacy_full_baseline
RequestBaseline ==
    /\ upc = "request"
    /\ want' = IF Frame.life = life /\ want.life # life
               THEN [life |-> life, issued |-> FALSE] ELSE want
    /\ upc' = "release"
    /\ UNCHANGED <<vm, guest, slot, life, published, latest, ack, cslot, was, snap,
                   screen, fails, shot, shown>>

InPlace == host.tex # NoTexture /\ host.owner = Frame.life

\* The texture the last frame used is overwritten where the frame is dirty.
StageInPlace ==
    /\ ToRender /\ Expandable /\ Stageable
    /\ InPlace
    /\ base' = Expanded
    /\ host' = [host EXCEPT
         !.tex = [r \in Regions |-> IF r \in DOMAIN Frame.data THEN Expanded.px[r] ELSE @[r]],
         !.shadow = ShadowOf(Expanded)]
    /\ staged' = [kind |-> "in_place", px |-> NoTexture]
    /\ upc' = "commit"
    /\ UNCHANGED <<vm, guest, mailbox, cslot, was, snap, fails, shot, shown>>

\* A new texture is filled from the host's copy of the whole picture.
StageNew ==
    /\ ToRender /\ Expandable /\ Stageable
    /\ ~InPlace
    /\ base' = Expanded
    /\ host' = [host EXCEPT !.shadow = ShadowOf(Expanded)]
    /\ staged' = [kind |-> "new", px |-> host'.shadow.px]
    /\ upc' = "commit"
    /\ UNCHANGED <<vm, guest, mailbox, cslot, was, snap, fails, shot, shown>>

\* Mutant: the texture is kept.
RetiredNot(h) == h

\* host_presentation_retire_mutated: a half-written texture is never shown.
Retired(h) == [h EXCEPT !.tex = NoTexture, !.visible = FALSE]

\* The frame cannot be expanded; or the upload fails: before it wrote
\* anything, after it wrote a part of the texture, or after the host's copy
\* was brought up to date for a new texture.
StageFails ==
    /\ ToRender /\ Expandable
    /\ fails < MaxFails
    /\ fails' = fails + 1
    /\ \/ UNCHANGED <<base, host>>
       \/ Stageable /\ base' = Expanded /\ UNCHANGED host
       \/ Stageable /\ base' = Expanded /\ InPlace /\ host' = Retired(host)
       \/ /\ Stageable /\ ~InPlace
          /\ base' = Expanded
          /\ host' = [host EXCEPT !.shadow = ShadowOf(Expanded)]
    /\ upc' = "retry"
    /\ UNCHANGED <<vm, guest, mailbox, cslot, was, snap, staged, shot, shown>>

\* frame_mailbox_graphics_epoch_commit_current with
\* host_presentation_commit_legacy_staged
Commit ==
    /\ upc = "commit"
    /\ Frame.life = life
    /\ host' = [host EXCEPT !.tex = IF staged.kind = "in_place" THEN @ ELSE staged.px,
                            !.owner = Frame.life, !.last = Frame.gen,
                            !.visible = TRUE]
    /\ shown' = shot[cslot]
    /\ staged' = NoStage
    /\ upc' = "note"
    /\ UNCHANGED <<vm, guest, mailbox, cslot, was, snap, base, fails, shot>>

\* The mailbox was reset while the frame was staged.
CommitStale ==
    /\ upc = "commit"
    /\ Frame.life # life
    /\ host' = IF staged.kind = "in_place" THEN Retired(host) ELSE host
    /\ staged' = NoStage
    /\ upc' = "release"
    /\ UNCHANGED <<vm, guest, mailbox, cslot, was, snap, base, fails, shot, shown>>

NoteApplied ==
    /\ upc = "note"
    /\ ack' = IF Frame.life = life THEN [life |-> Frame.life, seq |-> Frame.gen] ELSE ack
    /\ upc' = "complete"
    /\ UNCHANGED <<vm, guest, slot, life, published, latest, want, cslot, was, snap, screen,
                   fails, shot, shown>>

\* frame_mailbox_complete_legacy_full_baseline
CompleteBaseline ==
    /\ upc = "complete"
    /\ want' = IF Frame.cover = "Full" /\ Frame.life = life /\ want.life = life
               THEN NoWant ELSE want
    /\ upc' = "release"
    /\ UNCHANGED <<vm, guest, slot, life, published, latest, ack, cslot, was, snap,
                   screen, fails, shot, shown>>

\* Mutant: the failed frame stays published.
RetryLatestNever ==
    /\ upc = "retry"
    /\ upc' = "release"
    /\ UNCHANGED <<vm, guest, mailbox, cslot, was, snap, screen, fails, shot, shown>>

\* frame_mailbox_retry_latest: the same picture is to be captured again,
\* unless a newer one was published or the mailbox was reset.
RetryLatest ==
    /\ upc = "retry"
    /\ IF Frame.life = life /\ latest = cslot /\ published = Frame.gen
       THEN published' = 0 /\ latest' = NoSlot
       ELSE UNCHANGED <<published, latest>>
    /\ upc' = "release"
    /\ UNCHANGED <<vm, guest, slot, life, ack, want, cslot, was, snap, screen, fails, shot, shown>>

Release ==
    /\ upc = "release"
    /\ slot' = [slot EXCEPT ![cslot] = IF @.state = "Reading" THEN Freed(@) ELSE @]
    /\ shot' = [shot EXCEPT ![cslot] = NoTexture]
    /\ cslot' = NoSlot
    /\ upc' = "resync"
    /\ UNCHANGED <<vm, guest, life, published, latest, ack, want, was, snap, screen, fails,
                   shown>>

\* The lifecycle is adopted once more before the window is drawn.
Resync ==
    /\ upc = "resync"
    /\ host' = IF snap THEN StartedHost(host, life) ELSE host
    /\ upc' = "snapshot"
    /\ UNCHANGED <<vm, guest, mailbox, cslot, was, snap, base, staged, fails, shot, shown>>

----------------------------------------------------------------------------
Publish == TakeAck \/ ApplyBaseline \/ Unchanged \/ Begin \/ CaptureFrame

Consume ==
    \/ Snapshot \/ SyncRunning \/ SyncStopped \/ Acquire \/ Drop \/ LacksBaseline
    \/ RequestBaseline \/ StageInPlace \/ StageNew \/ Commit \/ CommitStale \/ NoteApplied
    \/ CompleteBaseline \/ RetryLatest \/ Release \/ Resync

Next ==
    \/ Reinitialize \/ Boot \/ KeepMachine \/ BootFails \/ Shutdown \/ Announce
    \/ \E part \in Regions \cup {Hidden} : Draw(part)
    \/ DrawAll
    \/ Publish \/ CaptureFails
    \/ Consume \/ StageFails

Spec == Init /\ [][Next]_vars

(***************************************************************************)
(* Fairness.  The VM thread goes round its loop and publishes once per     *)
(* SNAP_PERIOD while it has a Machine, also when it resets it again and    *)
(* again: a reset goes on to the test of the period (vm_thread.odin:860).  *)
(* A boot ends.  The UI thread goes round the main loop.  Nothing makes    *)
(* the guest draw or the user stop it.                                     *)
(***************************************************************************)
Fairness ==
    /\ SF_vars(Publish)
    /\ WF_vars(Boot \/ KeepMachine \/ BootFails \/ Announce)
    /\ WF_vars(Consume)

FairSpec == Spec /\ Fairness

----------------------------------------------------------------------------
RegionSymmetry == Permutations(Regions)

\* Type invariant.  In particular the damage list never outgrows its array.
TypeOK ==
    /\ ppc \in {"run", "boot", "announce", "baseline", "begin", "capture"}
    /\ pslot \in Slots \cup {NoSlot}
    /\ live \in BOOLEAN /\ running \in BOOLEAN
    /\ boot \in Nat /\ seq \in Nat
    /\ vram \in Picture
    /\ pend \in Damage
    /\ Len(batches) <= MaxBatches
    /\ \A i \in DOMAIN batches : batches[i].seq \in Nat /\ batches[i].dmg \in Damage
    /\ \A s \in Slots :
         /\ slot[s].state \in States /\ slot[s].cover \in Covers
         /\ slot[s].life \in Nat /\ slot[s].gen \in Nat /\ slot[s].plan \in Nat
         /\ DOMAIN slot[s].data \subseteq Regions
         /\ \A r \in DOMAIN slot[s].data : slot[s].data[r] \in Pixel
    /\ life \in Nat \ {0} /\ published \in Nat
    /\ latest \in Slots \cup {NoSlot}
    /\ ack.life \in Nat /\ ack.seq \in Nat
    /\ want.life \in Nat /\ want.issued \in BOOLEAN
    /\ upc \in {"snapshot", "sync", "acquire", "check", "request", "commit", "note",
                "complete", "retry", "release", "resync"}
    /\ cslot \in Slots \cup {NoSlot}
    /\ was \in BOOLEAN /\ snap \in BOOLEAN
    /\ base.life \in Nat /\ base.px \in Picture
    /\ host.tex \in {NoTexture} \cup Picture
    /\ host.shadow.life \in Nat /\ host.shadow.px \in Picture
    /\ host.accepting \in BOOLEAN /\ host.visible \in BOOLEAN
    /\ host.life \in Nat /\ host.last \in Nat /\ host.owner \in Nat
    /\ fails \in 0 .. MaxFails
    /\ shot \in [Slots -> {NoTexture} \cup Picture] /\ shown \in Picture

\* A slot in use belongs to one thread, also across a mailbox reset by the
\* other one, so no frame is overwritten while it is read; and the publisher
\* always finds a slot (frame_mailbox_begin_at is never blocked).
SlotsHaveOneOwner ==
    /\ \A s \in Slots : slot[s].state = "Writing" <=> (ppc = "capture" /\ pslot = s)
    /\ \A s \in Slots : slot[s].state = "Reading" <=> cslot = s
    /\ Cardinality({s \in Slots : slot[s].state = "Ready"}) <= 1
    /\ ppc = "begin" => \E s \in Slots : slot[s].state \in {"Free", "Ready"}

\* What a partial frame leaves out is already on the screen side: wherever the
\* UI thread's copies of the current lifecycle differ from video memory, the
\* VGA still holds unacknowledged damage.  Damage that is forgotten too early
\* (vga_damage_acknowledge, vga_damage_seal_pending) leaves stale pixels on
\* the screen for good.
DamageCoversDifference ==
    live => \A copy \in {base, host.shadow} :
              copy.life = life =>
                \A r \in Regions : copy.px[r] # vram[r]
                                     => r \in Visible(Accumulated(batches, pend))

\* The window never shows a mixture: what is visible is exactly the picture
\* the guest had when the last committed frame was captured, although the
\* texture is overwritten in place and in part.
ScreenIsAPicture ==
    (host.visible /\ upc # "commit") => host.tex = shown

\* The window shows nothing of an earlier Machine once the host has adopted
\* the lifecycle of the current one.
ScreenShowsThisMachine ==
    (host.visible /\ live /\ host.life = life)
      => \A r \in Regions : host.tex[r][1] = boot

\* A failed upload took the texture away and no visible damage is left that
\* would make a later capture bring it back: the window stays empty until the
\* guest draws again.
TextureLost == host.tex = NoTexture /\ Visible(Accumulated(batches, pend)) = {}

\* A change that the guest made after the host adopted the Machine reaches the
\* screen, whatever frames fail, are coalesced or lack a baseline on the way,
\* unless the Machine is stopped or replaced, or the texture is lost.
ChangesReachTheScreen ==
    \A n \in 1 .. MaxSeq :
      (live /\ host.accepting /\ host.life = life /\ seq = n /\ published # n)
        ~> \/ host.visible /\ (host.last >= n \/ host.tex = vram)
           \/ ~live \/ ~host.accepting \/ host.life # life
           \/ TextureLost

=============================================================================
