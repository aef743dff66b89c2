------------------------------ MODULE GswWave ------------------------------
(***************************************************************************)
(* GSWSOUND.DRV, the Win16 waveOut driver                                  *)
(* (drivers/win98/gsw-sound/drv/gswsound_drv.c), over the stream of        *)
(* PcmStream.                                                              *)
(*                                                                         *)
(* The driver keeps the headers an application wrote in a cyclic queue,    *)
(* submits them to the VxD as the ring has room, and returns a header when *)
(* the VxD reports its last frame as played.  That work, the pump, runs at *)
(* the end of a write and in a 1 ms timer callback.  The callback comes at *)
(* interrupt time: it preempts the application between any two statements  *)
(* and ends before the application goes on, and nothing masks it.  So an   *)
(* application call is split into steps wherever a pump in between sees    *)
(* another state than before or after the call.                            *)
(*                                                                         *)
(* An application does not call the driver from inside a WOM_DONE          *)
(* callback (WinMM forbids it), and prepares the headers it writes.  The   *)
(* pump's limit of 64 turns is left out: 32 plays end every loop earlier.  *)
(***************************************************************************)
EXTENDS PcmStream, TLC

CONSTANTS QueueCapacity,  \* GSW_WAVE_QUEUE_CAPACITY
          MaxSubmit,      \* GSW_SOUND_MAX_SUBMIT_BYTES / frame_bytes
          TokenLimit,     \* 2^32: next_token wraps here
          MaxFrames,      \* bound: frames of a buffer
          MaxLoops,       \* bound: dwLoops
          MaxWrites,      \* bound: waveOutWrite calls
          MaxPlayed,      \* bound: frames submitted to one stream
          MaxOpens,       \* bound: waveOutOpen calls
          MaxPauses,      \* bound: waveOutPause and waveOutReset calls, break-loops
          MaxFaults,      \* bound: preemptions, stops, losses of bus mastering
          NoHeader

ASSUME QueueAssumption == QueueCapacity \in Nat /\ QueueCapacity >= 2
ASSUME BufferAssumption == /\ NoHeader \notin Sources
                           /\ MaxSubmit \in Nat \ {0}
                           /\ MaxFrames \in Nat /\ MaxLoops \in Nat
ASSUME TokenAssumption == TokenLimit \in Nat /\ TokenLimit > QueueCapacity + 1

Headers == Sources
Index   == 0 .. QueueCapacity - 1
NextIndex(i) == (i + 1) % QueueCapacity

VARIABLES
    w,       \* gsw_wave but for its arrays
    queue,   \* gsw_wave.queue
    plays,   \* gsw_wave.plays, oldest first
    inqueue, \* headers with WHDR_INQUEUE
    app,     \* the application's call in progress
    pump,    \* where the pump is
    budget,  \* calls and faults so far
    heard,   \* history: frames of a header's last write, asked for and pulled
    outcome, \* history: how a header's last write ended
    hurt     \* history: what happened that the guarantees do not cover

waveVars == <<w, queue, plays, inqueue, app, pump, budget, heard, outcome, hurt>>
vars == <<tr, dev, ring, devnode, sent, w, queue, plays, inqueue, app, pump,
          budget, heard, outcome, hurt>>

Closed == [open |-> FALSE, paused |-> FALSE, stream |-> 0, nextToken |-> 0,
           read |-> 0, write |-> 0, count |-> 0, sched |-> 0,
           loopOpen |-> FALSE, active |-> FALSE, breakNow |-> FALSE,
           breakNext |-> FALSE, start |-> 0, pending |-> 0, remaining |-> 0]
NoBuffer == [header |-> NoHeader, size |-> 0, begins |-> FALSE,
             ends |-> FALSE, loops |-> 0, submitted |-> 0, token |-> 0]
NoQueue  == [i \in Index |-> NoBuffer]
Idle     == [pc |-> "idle", loopOpen |-> FALSE, held |-> <<>>]

TypeOK ==
    /\ PcmTypeOK
    /\ w \in [open : BOOLEAN, paused : BOOLEAN, stream : Nat,
              nextToken : 0 .. TokenLimit - 1, read : Index, write : Index,
              count : 0 .. QueueCapacity, sched : Index, loopOpen : BOOLEAN,
              active : BOOLEAN, breakNow : BOOLEAN, breakNext : BOOLEAN,
              start : Index, pending : 0 .. QueueCapacity, remaining : Nat]
    /\ queue \in [Index -> [header : Headers \cup {NoHeader},
                            size : 0 .. MaxFrames, begins : BOOLEAN,
                            ends : BOOLEAN, loops : 0 .. MaxLoops,
                            submitted : 0 .. MaxFrames,
                            token : 0 .. TokenLimit - 1]]
    /\ \A i \in 1 .. Len(plays) : plays[i].token \in 1 .. TokenLimit - 1
    /\ Len(plays) <= QueueCapacity
    /\ inqueue \subseteq Headers
    /\ app.pc \in {"idle", "linked", "advanced", "pausing", "resetting",
                   "flushing"}
    /\ pump \in {"off", "poll", "submit"}

-----------------------------------------------------------------------------
(* Headers go back to the application.                                     *)

Return(hs, how) ==
    /\ inqueue' = inqueue \ hs
    /\ outcome' = [h \in Headers |-> IF h \in hs THEN how ELSE outcome[h]]

(* The n buffers from queue_read on. *)
Oldest(n) == [i \in 1 .. n |-> (w.read + i - 1) % QueueCapacity]
HeadersAt(s) == {queue[s[i]].header : i \in DOMAIN s} \ {NoHeader}

(* The queue without its n oldest buffers: gsw_complete_head and           *)
(* gsw_complete_loop.                                                      *)
\* Mutant: a loop counts as one buffer.
PopOne(v, n) ==
    LET u == [v EXCEPT !.read = (@ + n) % QueueCapacity, !.count = @ - 1]
    IN  IF u.count = 0 THEN [u EXCEPT !.sched = u.write] ELSE u

Pop(v, n) ==
    LET u == [v EXCEPT !.read = (@ + n) % QueueCapacity, !.count = @ - n]
    IN  IF u.count = 0 THEN [u EXCEPT !.sched = u.write] ELSE u
Without(n) ==
    [i \in Index |-> IF (i - w.read) % QueueCapacity < n
                     THEN NoBuffer ELSE queue[i]]

(* gsw_complete_all, after it has collected the headers. *)
Emptied(v) == [v EXCEPT !.read = 0, !.write = 0, !.count = 0, !.sched = 0,
                        !.loopOpen = FALSE, !.active = FALSE,
                        !.breakNow = FALSE, !.breakNext = FALSE,
                        !.start = 0, !.pending = 0, !.remaining = 0]

(* gsw_abort_queue: the stream is reset, if it can be, and every header    *)
(* goes back unplayed, but for that of a write that the pump has preempted *)
(* before it was counted.                                                  *)
Abort(v, causes) ==
    /\ IF Validate(w.stream) = "ok" THEN PmReset(w.stream)
       ELSE UNCHANGED pcmVars
    /\ w' = Emptied(v)
    /\ queue' = NoQueue
    /\ plays' = <<>>
    /\ Return(HeadersAt(Oldest(w.count)), "aborted")
    /\ hurt' = hurt \cup causes
                    \cup (IF app.pc \in {"linked", "advanced"} THEN {"torn"} ELSE {})

-----------------------------------------------------------------------------
(* The pump.                                                               *)

Spend(what) == budget' = [budget EXCEPT ![what] = @ + 1]

Fault(what) ==
    /\ budget.faults < MaxFaults
    /\ Spend("faults")
    /\ hurt' = hurt \cup {what}

MayPump == w.open /\ ~w.paused /\ pump = "off"

(* gsw_timer_callback.  In the middle of an application call it is a       *)
(* preemption.                                                             *)
Timer ==
    /\ MayPump
    /\ pump' = "poll"
    /\ IF app.pc = "idle" THEN UNCHANGED <<budget, hurt>>
       ELSE Fault("preempted")
    /\ UNCHANGED <<tr, dev, ring, devnode, sent, w, queue, plays, inqueue,
                   app, heard, outcome>>

(* What the play at the head returns: one buffer, a whole loop or nothing; *)
(* -1 when the queue does not start with it.                               *)
Completes(p) ==
    LET n == ((p.to - p.from) % QueueCapacity) + 1
    IN  IF p.complete
        THEN IF w.count > 0 /\ w.read = p.index
                /\ queue[w.read].header # NoHeader THEN 1 ELSE -1
        ELSE IF p.release
        THEN IF /\ w.pending > 0 /\ w.count > 0 /\ w.read = p.from
                /\ n <= w.count
                /\ \A i \in 1 .. n : queue[Oldest(n)[i]].header # NoHeader
             THEN n ELSE -1
        ELSE 0

(* One turn of gsw_poll_completions. *)
PollNothing ==
    /\ pump = "poll"
    /\ plays = <<>> \/ PollResult(w.stream) = "no_completion"
    /\ pump' = "submit"
    /\ UNCHANGED <<tr, dev, ring, devnode, sent, w, queue, plays, inqueue,
                   app, budget, heard, outcome, hurt>>

PollCompletes ==
    /\ pump = "poll"
    /\ plays # <<>>
    /\ PollResult(w.stream) = "ok"
    /\ Head(tr.completions).token = Head(plays).token
    /\ LET p == Head(plays)
           n == Completes(p)
       IN  /\ n >= 0
           /\ PmPoll(w.stream)
           /\ w' = IF n = 0 THEN w
                   ELSE Pop([w EXCEPT !.pending = IF p.release THEN @ - 1
                                                  ELSE @], n)
           /\ queue' = Without(n)
           /\ Return(HeadersAt(Oldest(n)), "played")
    /\ plays' = Tail(plays)
    /\ UNCHANGED <<app, pump, budget, heard, hurt>>

(* An error of the device, a completion of another buffer, or a queue that *)
(* does not start with what completed.                                     *)
PollAborts ==
    /\ pump = "poll"
    /\ plays # <<>>
    /\ PollResult(w.stream) # "no_completion"
    /\ PollResult(w.stream) = "ok" =>
          \/ Head(tr.completions).token # Head(plays).token
          \/ Completes(Head(plays)) = -1
    /\ Abort(w, {})
    /\ pump' = "submit"
    /\ UNCHANGED <<app, budget, heard>>

(* gsw_allocate_token: never 0, wrapping. *)
Allocate(t) == IF t = 0 THEN 1 ELSE t

\* Mutant: no wrap.
AfterAny(t) == t + 1

After(t) == IF t = TokenLimit - 1 THEN 1 ELSE t + 1

NextBuffer == queue[w.sched]
Token      == IF NextBuffer.token = 0 THEN Allocate(w.nextToken)
              ELSE NextBuffer.token
Numbered   == IF NextBuffer.token = 0
              THEN [w EXCEPT !.nextToken = After(Allocate(@))] ELSE w
Remaining  == NextBuffer.size - NextBuffer.submitted
Chunk      == Min({Remaining, MaxSubmit})
AtEnd      == Chunk = Remaining
Submits    == SubmitResult(w.stream, Chunk, AtEnd)

MaySubmit == /\ pump = "submit"
             /\ w.count > 0
             /\ tr.submitted < MaxPlayed
             /\ Len(plays) < QueueCapacity
             /\ NextBuffer.header # NoHeader

\* Mutant: the start of the loop is not remembered.
EnteredAnywhere(b, i) ==
    IF b.begins /\ ~w.active
    THEN [w EXCEPT !.active = TRUE, !.remaining = b.loops,
                   !.breakNow = w.breakNext, !.breakNext = FALSE]
    ELSE w

(* gsw_finish_occurrence for the buffer b at schedule_index i.  It may     *)
(* enter a loop; ...                                                       *)
Entered(b, i) ==
    IF b.begins /\ ~w.active
    THEN [w EXCEPT !.active = TRUE, !.start = i, !.remaining = b.loops,
                   !.breakNow = w.breakNext, !.breakNext = FALSE]
    ELSE w

LastRound(v) == v.breakNow \/ v.remaining <= 1

(* ... then come the loop state, where scheduling goes on, and what the    *)
(* end of this play returns.                                               *)
Finish(b, i) ==
    LET v == Entered(b, i)
        release == v.active /\ b.ends /\ LastRound(v)
    IN  [ok |-> ~(b.begins /\ w.active /\ i # w.start)
                /\ ~(b.ends /\ ~v.active),
         complete |-> ~v.active,
         release |-> release,
         from |-> v.start,
         w |-> IF release
               THEN [v EXCEPT !.active = FALSE, !.breakNow = FALSE,
                              !.remaining = 0, !.pending = @ + 1,
                              !.sched = NextIndex(i)]
               ELSE IF v.active /\ b.ends
               THEN [v EXCEPT !.remaining = @ - 1, !.sched = v.start]
               ELSE [v EXCEPT !.sched = NextIndex(i)]]

(* The queue is full, every buffer is scheduled, and the next index is the *)
(* oldest buffer again, not because its loop starts another round.         *)
Lapped == /\ w.count = QueueCapacity
          /\ w.sched = w.write
          /\ IF w.active THEN w.start # w.read \/ \A i \in Index : ~queue[i].ends
             ELSE plays # <<>>
Laps   == IF Lapped THEN {"lapped"} ELSE {}

(* One turn of gsw_submit_buffers: a chunk of the scheduled buffer. *)
SubmitChunk ==
    /\ MaySubmit
    /\ Submits = "ok"
    /\ PmSubmit(w.stream, NextBuffer.header, Chunk, AtEnd, Token)
    /\ LET i == w.sched
           a == Accepted(Chunk)
           f == Finish(NextBuffer, i)
           done == NextBuffer.submitted + a = NextBuffer.size
       IN  /\ done => f.ok
           /\ w' = IF done THEN [f.w EXCEPT !.nextToken = Numbered.nextToken]
                   ELSE Numbered
           /\ queue' = [queue EXCEPT
                ![i].submitted = IF done THEN 0 ELSE @ + a,
                ![i].token = IF done THEN 0 ELSE Token]
           /\ plays' = IF done
                       THEN Append(plays, [token |-> Token, index |-> i,
                               complete |-> f.complete, release |-> f.release,
                               from |-> f.from, to |-> i])
                       ELSE plays
           /\ pump' = IF a < Chunk THEN "off" ELSE "submit"
    /\ hurt' = hurt \cup Laps
    /\ UNCHANGED <<inqueue, app, budget, heard, outcome>>

(* Refused by the VxD, or a loop that does not nest. *)
SubmitAborts ==
    /\ MaySubmit
    /\ Submits # "would_block"
    /\ Submits = "ok" =>
          /\ NextBuffer.submitted + Accepted(Chunk) = NextBuffer.size
          /\ ~Finish(NextBuffer, w.sched).ok
    /\ Abort(Numbered, Laps)
    /\ pump' = "off"
    /\ UNCHANGED <<app, budget, heard>>

SubmitEnds ==
    /\ pump = "submit"
    /\ ~MaySubmit \/ Submits = "would_block"
    /\ w' = IF MaySubmit THEN Numbered ELSE w
    /\ queue' = IF MaySubmit THEN [queue EXCEPT ![w.sched].token = Token]
                ELSE queue
    /\ pump' = "off"
    /\ UNCHANGED <<tr, dev, ring, devnode, sent, plays, inqueue, app, budget,
                   heard, outcome, hurt>>

-----------------------------------------------------------------------------
(* Calls of the application.                                               *)

Calling == app.pc = "idle" /\ pump = "off"
Resuming(pc) == app.pc = pc /\ pump = "off"

(* gsw_open.  It may fail for want of a timer, and then closes the stream. *)
Open ==
    /\ Calling /\ ~w.open /\ budget.opens < MaxOpens
    /\ Spend("opens")
    /\ PmOpen
    /\ w' = [Closed EXCEPT !.open = TRUE, !.stream = NextStream,
                           !.nextToken = 1]
    /\ queue' = NoQueue
    /\ plays' = <<>>
    /\ UNCHANGED <<inqueue, app, pump, heard, outcome, hurt>>

OpenFails ==
    /\ Calling /\ ~w.open /\ budget.opens < MaxOpens
    /\ OpenResult = "ok"
    /\ Spend("opens")
    /\ tr' = [tr EXCEPT !.stream = NextStream, !.tail = 0, !.submitted = 0,
                        !.completions = <<>>, !.invalid = FALSE,
                        !.paused = FALSE]
    /\ dev' = DeviceReset(dev)
    /\ ring' = SilentRing
    /\ sent' = <<>>
    /\ w' = Closed
    /\ queue' = NoQueue
    /\ plays' = <<>>
    /\ UNCHANGED <<devnode, inqueue, app, pump, heard, outcome, hurt>>

(* gsw_close: refused while headers are queued; the driver forgets the     *)
(* stream even when the VxD no longer knows it.                            *)
Close ==
    /\ Calling /\ w.open /\ w.count = 0
    /\ IF Validate(w.stream) = "ok" THEN PmClose(w.stream)
       ELSE UNCHANGED pcmVars
    /\ w' = Closed
    /\ queue' = NoQueue
    /\ plays' = <<>>
    /\ UNCHANGED <<inqueue, app, pump, budget, heard, outcome, hurt>>

(* dwLoops of the loop that is open: of the latest buffer that begins one. *)
LoopCount ==
    LET back == {k \in 1 .. QueueCapacity :
                    queue[(w.write - k) % QueueCapacity].begins}
    IN  IF back = {} THEN 1
        ELSE queue[(w.write - Min(back)) % QueueCapacity].loops

(* gsw_write: the buffer is in its slot, and the indexes are set if the    *)
(* queue was empty ...                                                     *)
Write(h, n, begins, ends, loops) ==
    /\ Calling /\ w.open /\ budget.writes < MaxWrites
    /\ h \notin inqueue
    /\ w.count < QueueCapacity
    /\ begins => ~w.loopOpen /\ loops > 0
    /\ ends => w.loopOpen \/ begins
    /\ Spend("writes")
    /\ queue' = [queue EXCEPT ![w.write] =
                    [NoBuffer EXCEPT !.header = h, !.size = n,
                        !.begins = begins, !.ends = ends, !.loops = loops]]
    /\ inqueue' = inqueue \cup {h}
    /\ w' = IF w.count = 0
            THEN [w EXCEPT !.read = w.write, !.sched = w.write] ELSE w
    /\ app' = [Idle EXCEPT !.pc = "linked",
                           !.loopOpen = (w.loopOpen \/ begins) /\ ~ends]
    /\ heard' = [heard EXCEPT ![h] =
                    [frames |-> 0, size |-> n,
                     times |-> IF begins THEN loops
                               ELSE IF w.loopOpen THEN LoopCount ELSE 1]]
    /\ outcome' = [outcome EXCEPT ![h] = "queued"]
    /\ UNCHANGED <<tr, dev, ring, devnode, sent, plays, pump, hurt>>

(* ... queue_write moves on ... *)
WriteAdvances ==
    /\ Resuming("linked")
    /\ w' = [w EXCEPT !.loopOpen = app.loopOpen, !.write = NextIndex(@)]
    /\ app' = [app EXCEPT !.pc = "advanced"]
    /\ UNCHANGED <<tr, dev, ring, devnode, sent, queue, plays, inqueue, pump,
                   budget, heard, outcome, hurt>>

(* ... and only then does queue_count count the buffer, and the pump runs. *)
WriteCounts ==
    /\ Resuming("advanced")
    /\ w' = [w EXCEPT !.count = @ + 1]
    /\ app' = Idle
    /\ pump' = IF w.paused THEN "off" ELSE "poll"
    /\ UNCHANGED <<tr, dev, ring, devnode, sent, queue, plays, inqueue,
                   budget, heard, outcome, hurt>>

(* gsw_pause: the VxD pauses first, the driver knows it a moment later. *)
Pause ==
    /\ Calling /\ w.open /\ budget.pauses < MaxPauses
    /\ Spend("pauses")
    /\ PmPause(w.stream)
    /\ app' = [Idle EXCEPT !.pc = "pausing"]
    /\ UNCHANGED <<w, queue, plays, inqueue, pump, heard, outcome, hurt>>

Pauses ==
    /\ Resuming("pausing")
    /\ w' = [w EXCEPT !.paused = TRUE]
    /\ app' = Idle
    /\ UNCHANGED <<tr, dev, ring, devnode, sent, queue, plays, inqueue, pump,
                   budget, heard, outcome, hurt>>

(* gsw_restart. *)
Restart ==
    /\ Calling /\ w.open
    /\ PmRestart(w.stream)
    /\ w' = [w EXCEPT !.paused = FALSE]
    /\ UNCHANGED <<queue, plays, inqueue, app, pump, budget, heard, outcome,
                   hurt>>

(* gsw_reset: the stream is reset ... *)
Reset ==
    /\ Calling /\ w.open /\ budget.pauses < MaxPauses
    /\ Spend("pauses")
    /\ IF Validate(w.stream) = "ok"
       THEN PmReset(w.stream) /\ w' = [w EXCEPT !.paused = FALSE]
       ELSE UNCHANGED <<tr, dev, ring, devnode, sent, w>>
    /\ app' = [Idle EXCEPT !.pc = "resetting"]
    /\ UNCHANGED <<queue, plays, inqueue, pump, heard, outcome, hurt>>

(* ... gsw_complete_all collects the headers of the queue ... *)
ResetCollects ==
    /\ Resuming("resetting")
    /\ app' = [app EXCEPT !.pc = "flushing",
                 !.held = [i \in 1 .. w.count |-> queue[Oldest(w.count)[i]].header]]
    /\ UNCHANGED <<tr, dev, ring, devnode, sent, w, queue, plays, inqueue,
                   pump, budget, heard, outcome, hurt>>

(* ... empties it, and returns what it collected. *)
ResetFlushes ==
    /\ Resuming("flushing")
    /\ w' = Emptied(w)
    /\ queue' = NoQueue
    /\ plays' = <<>>
    /\ Return({app.held[i] : i \in DOMAIN app.held} \ {NoHeader}, "flushed")
    /\ app' = Idle
    /\ UNCHANGED <<tr, dev, ring, devnode, sent, pump, budget, heard, hurt>>

(* gsw_has_unscheduled_loop. *)
Unscheduled ==
    LET n == (w.write - w.sched) % QueueCapacity
        m == IF n = 0 THEN w.count ELSE n
    IN  {i \in Index : (i - w.sched) % QueueCapacity < m}
HasUnscheduledLoop ==
    /\ w.count > 0
    /\ w.sched # w.write \/ w.count = QueueCapacity
    /\ \E i \in Unscheduled : queue[i].header # NoHeader /\ queue[i].begins

(* gsw_break_loop. *)
BreakLoop ==
    /\ Calling /\ w.open /\ budget.breaks < MaxPauses
    /\ Spend("breaks")
    /\ w' = IF w.active THEN [w EXCEPT !.breakNow = TRUE]
            ELSE IF HasUnscheduledLoop THEN [w EXCEPT !.breakNext = TRUE]
            ELSE w
    /\ UNCHANGED <<tr, dev, ring, devnode, sent, queue, plays, inqueue, app,
                   pump, heard, outcome, hurt>>

-----------------------------------------------------------------------------
(* The device and Plug and Play, while the driver is at any point.         *)

Pull ==
    /\ PcmPull
    /\ heard' = IF sent' # sent THEN [heard EXCEPT ![Head(sent)].frames = @ + 1]
                ELSE heard
    /\ UNCHANGED <<w, queue, plays, inqueue, app, pump, budget, outcome, hurt>>

Interrupt == PcmInterrupt /\ UNCHANGED waveVars

LoseBusMaster ==
    /\ Fault("fault")
    /\ PcmBusMaster
    /\ dev.master
    /\ UNCHANGED <<w, queue, plays, inqueue, app, pump, heard, outcome>>

GetBusMaster ==
    /\ PcmBusMaster
    /\ ~dev.master
    /\ UNCHANGED waveVars

Plug == (PnpRegister \/ PnpStart) /\ UNCHANGED waveVars

Unplug(forget) ==
    /\ Fault("stopped")
    /\ PnpStop(forget)
    /\ UNCHANGED <<w, queue, plays, inqueue, app, pump, heard, outcome>>

-----------------------------------------------------------------------------
Init ==
    /\ PcmInit
    /\ w = Closed
    /\ queue = NoQueue
    /\ plays = <<>>
    /\ inqueue = {}
    /\ app = Idle
    /\ pump = "off"
    /\ budget = [opens |-> 0, writes |-> 0, pauses |-> 0, breaks |-> 0,
                 faults |-> 0]
    /\ heard = [h \in Headers |-> [frames |-> 0, size |-> 0, times |-> 0]]
    /\ outcome = [h \in Headers |-> "none"]
    /\ hurt = {}

Pumping == \/ PollNothing \/ PollCompletes \/ PollAborts
           \/ SubmitChunk \/ SubmitAborts \/ SubmitEnds

Calls ==
    \/ Open \/ OpenFails \/ Close
    \/ \E h \in Headers, n \in 1 .. MaxFrames, begins, ends \in BOOLEAN,
          loops \in 1 .. MaxLoops :
          /\ begins \/ loops = 1
          /\ Write(h, n, begins, ends, loops)
    \/ Pause \/ Restart \/ Reset \/ BreakLoop

Continues == WriteAdvances \/ WriteCounts \/ Pauses \/ ResetCollects
             \/ ResetFlushes

Next ==
    \/ Timer \/ Pumping \/ Calls \/ Continues
    \/ Pull \/ Interrupt \/ LoseBusMaster \/ GetBusMaster \/ Plug
    \/ \E forget \in BOOLEAN : Unplug(forget)

Spec == Init /\ [][Next]_vars

Symmetry == Permutations(Headers)

(* The timer ticks, what the processor has begun it ends, the device       *)
(* plays, and its interrupt line is served.                                *)
FairSpec == /\ Spec
            /\ WF_vars(Timer) /\ WF_vars(Pumping) /\ WF_vars(Continues)
            /\ WF_vars(Pull) /\ WF_vars(Interrupt)

-----------------------------------------------------------------------------
(* A header goes back unplayed only after a reset, a fault or a stop: in   *)
(* normal play every completion the VxD reports is the one the driver      *)
(* waits for, and every request it makes is accepted                       *)
(* (gswsound_drv.c:275, 283-300, 428).                                     *)
AbortMeansFault ==
    hurt = {} => \A h \in Headers : outcome[h] # "aborted"

(* A header that comes back played was heard to its last frame, as many    *)
(* times as its loop asks for; a broken loop ends at the end of a round.   *)
PlayedWasHeard ==
    hurt = {} =>
        \A h \in Headers :
            LET c == heard[h]
            IN  outcome[h] = "played" =>
                    \E k \in 1 .. c.times :
                        /\ c.frames = k * c.size
                        /\ budget.breaks = 0 => k = c.times

(* The header of a write in progress. *)
Written ==
    {queue[i].header : i \in {j \in Index :
        \/ app.pc = "linked" /\ j = w.write
        \/ app.pc = "advanced" /\ j = (w.write - 1) % QueueCapacity}}

(* The queue holds exactly the headers the application waits for, each     *)
(* once: none is lost, none is taken back while the driver still has it,   *)
(* also when the timer preempts a write, a reset or a pause, and when the  *)
(* device fails (gswsound_drv.c:176-186, 208-217, 682-697); unless an      *)
(* abort of the queue, by a failure or by a second preemption, meets a     *)
(* write that is not counted yet, whose header is then forgotten (:219).   *)
QueueIsWhatIsOwed ==
    "torn" \notin hurt =>
        /\ inqueue = HeadersAt(Oldest(w.count)) \cup Written
        /\ Cardinality(inqueue) = w.count + Cardinality(Written)

(* A queued header comes back, even when Plug and Play stops the device,   *)
(* unless the stream is paused or the header is in a loop whose end was    *)
(* not written (gswsound_drv.c:446-453).                                   *)
HeadersComeBack ==
    \A h \in Headers :
        h \in inqueue ~> \/ h \notin inqueue
                        \/ w.paused \/ w.loopOpen
                        \/ hurt \ {"stopped"} # {}
=============================================================================
