--------------------------- MODULE Gsw3dTransport ---------------------------
(***************************************************************************)
(* The 3D path from a Windows 98 process to the host's renderer: the guest *)
(* driver (drivers/win98/derived/vmdisp9x-gsw/overlay, gsw3d_transport.c   *)
(* and the binding of gsw_transport.c) and the GSW3D device                *)
(* (src/vga/gsw3d.odin) with its worker thread.                            *)
(*                                                                         *)
(* A call of the driver posts one command in the ring, rings the doorbell, *)
(* and looks whether the device took it.  The device checks the command on *)
(* the thread of the virtual processor, copies it into a queue and returns;*)
(* its worker hands the work to the backend, which may finish it later     *)
(* still.  Results wait in a FIFO until a poll of the device retires them  *)
(* in order and moves the fence register.                                  *)
(*                                                                         *)
(* Calls do not overlap: gsw3d_semaphore serialises them, and ring 0 of    *)
(* Windows 98 is preempted only where it blocks, which no call does once   *)
(* it holds the semaphore.  The worker and the backend run between any two *)
(* register accesses of a call.  The doorbell is one step: the queue is    *)
(* locked once in it, and a failure of the worker at any other moment of   *)
(* it is reported by the poll that follows.                                *)
(*                                                                         *)
(* Left out, because nothing in the driver or the device decides on them:  *)
(* the error code, BUSY, QUEUE_FULL and RESET of the status register, the  *)
(* interrupt (never enabled).  The bytes of a command are a flag: does the *)
(* device accept batch, resource and rectangles.  The limit on owned bytes *)
(* cannot be met by a driver whose payloads fit its 64 KiB staging region. *)
(***************************************************************************)
EXTENDS Naturals, Sequences, FiniteSets, FiniteSetsExt

CONSTANTS
    Contexts,         \* context ids of the guest's processes
    Processes,
    None,             \* no process, no context
    QueueCapacity,    \* GSW3D_MAX_QUEUED_WORK
    FifoCapacity,     \* GSW3D_COMPLETION_FIFO_CAPACITY
    PresentLimit,     \* GSW3D_MAX_QUEUED_PRESENTS
    ContextCapacity,  \* GSW3D_CONTEXT_CAPACITY, GSW3D_MAX_CONTEXTS
    MaxFence,         \* bound: the sum of a fence and the generation it is posted in
    MaxGeneration,    \* bound: resets of the device
    MaxFailures,      \* bound: failures of the backend
    MaxMoves          \* bound: times ConfigMgr moves the device

ASSUME CapacityAssumption ==
    /\ QueueCapacity \in Nat \ {0} /\ FifoCapacity \in Nat \ {0}
    /\ PresentLimit \in Nat \ {0} /\ ContextCapacity \in Nat \ {0}

ASSUME ProcessAssumption ==
    IsFiniteSet(Contexts) /\ None \notin Contexts /\ None \notin Processes

ASSUME BoundsAssumption ==
    /\ MaxFence \in Nat \ {0} /\ MaxGeneration \in Nat \ {0}
    /\ MaxFailures \in Nat /\ MaxMoves \in Nat

VARIABLES
    async,     \* the backend completes its work asynchronously
    dev,       \* the device
    worker,    \* its worker thread
    work,      \* the work it executes
    drv,       \* the driver
    current,   \* the device is where the driver has mapped it
    call,      \* the driver's call in progress
    accepted,  \* history: fences the device accepted since its reset
    done,      \* history: fences whose work is done since the reset
    cause,     \* history: what has gone wrong since the reset
    failures, moves

vars == <<async, dev, worker, work, drv, current, call, accepted, done, cause,
          failures, moves>>

\* A cleanup or a shutdown that was begun goes past the bound.
Fences == 0..MaxFence + Cardinality(Contexts) + 1
Kinds  == {"barrier", "reset", "present", "other"}
Works  == [kind : Kinds, gen : 1..MaxGeneration, fence : Fences]

\* status is what the device knows of the result, gpu what the backend knows.
Results == [kind : Kinds, fence : Fences,
            status : {"pending", "complete", "failed"},
            gpu : {"pending", "complete", "failed"}]

Submissions == {"create", "destroy", "submit", "upload", "present", "cleanup"}
Calls == [op : Submissions \cup {"register", "unregister"},
          step : {"post", "doorbell", "verify"},
          cid : Contexts \cup {None}, pid : Processes \cup {None}, valid : BOOLEAN]
Idle == [op |-> "idle"]

TypeOK ==
    /\ async \in BOOLEAN
    /\ dev \in [ready : BOOLEAN, error : BOOLEAN, poisoned : BOOLEAN,
                gen : 1..MaxGeneration, resetPending : BOOLEAN,
                resetCompleted : BOOLEAN, pendingFence : Fences,
                completed : Fences, region : BOOLEAN,
                contexts : SUBSET Contexts, queue : Seq(Works),
                fifo : Seq(Results), presents : 0..PresentLimit,
                posted : BOOLEAN]
    /\ Len(dev.queue) <= QueueCapacity
    /\ Len(dev.fifo) <= (IF async THEN FifoCapacity ELSE 0)
    /\ Cardinality(dev.contexts) <= ContextCapacity
    /\ worker \in {"asleep", "awake", "busy"} /\ work \in Works
    /\ drv \in [up : BOOLEAN, ready : BOOLEAN, fence : Fences \ {0},
                owner : [Contexts -> Processes \cup {None}]]
    /\ call \in Calls \cup {Idle}
    /\ {current} \subseteq BOOLEAN
    /\ accepted \subseteq Fences /\ done \subseteq Fences
    /\ cause \subseteq {"backend", "invalid", "orphan", "moved"}
    /\ failures \in 0..MaxFailures /\ moves \in 0..MaxMoves

NoWork    == [kind |-> "barrier", gen |-> 1, fence |-> 0]
NoOwner   == [c \in Contexts |-> None]
Owned     == {c \in Contexts : drv.owner[c] # None}

----------------------------------------------------------------------------
(* The device: polls *)

\* gsw3d_poll_backend_completions asks the backend without holding the lock;
\* an answer that comes after the question is an answer to the next one.
Settled(fifo) ==
    [i \in DOMAIN fifo |->
        IF fifo[i].status = "pending" THEN [fifo[i] EXCEPT !.status = fifo[i].gpu]
                                      ELSE fifo[i]]

\* The results at the head of the FIFO that can be retired.
Retired(fifo) ==
    Max({k \in 0..Len(fifo) : \A i \in 1..k : fifo[i].status = "complete"})

\* Mutant: the presents among the cancelled work stay counted.
CancelQueuedUncounted(d) == [d EXCEPT !.queue = <<>>]
\* gsw3d_cancel_queued.
CancelQueued(d) ==
    [d EXCEPT !.queue = <<>>,
              !.presents = @ - Cardinality({i \in DOMAIN d.queue :
                                                d.queue[i].kind = "present"})]

Poison(d) == [CancelQueued(d) EXCEPT !.poisoned = TRUE, !.resetCompleted = FALSE]

RetireCompletions(d) ==
    LET fifo   == Settled(d.fifo)
        n      == Retired(fifo)
        fenced == {i \in 1..n : fifo[i].fence # 0}
        e      == [d EXCEPT
                     !.fifo = SubSeq(fifo, n + 1, Len(fifo)),
                     !.resetCompleted = @ \/ \E i \in 1..n : fifo[i].kind = "reset",
                     !.pendingFence = IF fenced = {} THEN @ ELSE fifo[Max(fenced)].fence]
    IN  IF n < Len(fifo) /\ fifo[n + 1].status = "failed"
        THEN [Poison(e) EXCEPT !.fifo = <<>>] ELSE e

\* gsw3d_poll: what the register accesses and the loop of the machine see.
Publish(d) ==
    LET poisoned == d.poisoned /\ ~d.resetCompleted
    IN  [d EXCEPT !.completed = IF d.pendingFence # 0 THEN d.pendingFence ELSE @,
                  !.pendingFence = 0,
                  !.resetCompleted = FALSE,
                  !.resetPending = @ /\ ~d.resetCompleted,
                  !.poisoned = poisoned,
                  !.ready = (@ \/ d.resetCompleted) /\ ~poisoned,
                  !.error = @ \/ poisoned]

Poll(d) == Publish(RetireCompletions(d))

\* The worker waits on work_ready; a poll that settled or retired a result
\* broadcasts it.
\* Mutant: the poll does not wake the worker it makes room for.
WokenByPollNot(d) == worker
WokenByPoll(d) == IF worker = "asleep" /\ d.fifo # dev.fifo THEN "awake" ELSE worker
\* Mutant: new work does not wake the worker.
SignalledNot == worker
Signalled == IF worker = "asleep" THEN "awake" ELSE worker

----------------------------------------------------------------------------
(* The device: reset and doorbell *)

ResetWork(d) == [kind |-> "reset", gen |-> d.gen + 1, fence |-> 0]

\* gsw3d_reset.  The work the worker executes goes on; the backend is told to
\* cancel it.
DeviceReset(d) ==
    [CancelQueued(d) EXCEPT
        !.gen = @ + 1, !.queue = <<ResetWork(d)>>, !.fifo = <<>>,
        !.poisoned = FALSE, !.pendingFence = 0, !.completed = 0,
        !.resetCompleted = FALSE, !.resetPending = TRUE,
        !.region = FALSE, !.contexts = {}, !.posted = FALSE,
        !.ready = FALSE, !.error = FALSE]

\* What gsw3d_execute_descriptor demands of a command before it queues work.
Executable(d, c) ==
    /\ c.valid
    /\ c.op = "register" => ~d.region
    /\ c.op \in {"unregister", "submit", "upload"} => d.region
    /\ c.op = "create" => /\ c.cid \notin d.contexts
                          /\ Cardinality(d.contexts) < ContextCapacity
    /\ c.op \in {"destroy", "cleanup", "submit", "present"} => c.cid \in d.contexts

KindOf(op) == CASE op \in {"register", "unregister"} -> "barrier"
                [] op = "present" -> "present"
                [] OTHER -> "other"

\* gsw3d_queue_owned.
\* Mutant: the presents in flight are not limited.
AdmittedUnlimited(d, c) == ~d.poisoned /\ Len(d.queue) < QueueCapacity
Admitted(d, c) ==
    /\ ~d.poisoned
    /\ Len(d.queue) < QueueCapacity
    /\ c.op = "present" => d.presents < PresentLimit

\* gsw3d_process takes the command in the ring.
Takes(d, c) == ~d.resetPending /\ Executable(d, c) /\ Admitted(d, c)

Taken(d, c, fence) ==
    [d EXCEPT !.posted = FALSE,
              !.queue = Append(@, [kind |-> KindOf(c.op), gen |-> d.gen, fence |-> fence]),
              !.presents = IF c.op = "present" THEN @ + 1 ELSE @,
              !.region = (@ \/ c.op = "register") /\ c.op # "unregister",
              !.contexts = CASE c.op = "create" -> @ \cup {c.cid}
                             [] c.op \in {"destroy", "cleanup"} -> @ \ {c.cid}
                             [] OTHER -> @]

\* A command that is refused stays in the ring; a full queue is no error.
Refused(d, c) ==
    [d EXCEPT !.error = @ \/ d.poisoned \/ (~d.resetPending /\ ~Executable(d, c))]

----------------------------------------------------------------------------
(* The driver *)

\* gsw3d_begin.
Ready == call = Idle /\ drv.ready /\ drv.up

Start(op, cid, pid, valid) ==
    /\ Ready
    /\ drv.fence + dev.gen <= MaxFence
    /\ call' = [op |-> op, step |-> "post", cid |-> cid, pid |-> pid, valid |-> valid]
    /\ UNCHANGED <<async, dev, worker, work, drv, current, accepted, done, cause,
                   failures, moves>>

\* GSW3D_transport_context.
\* Mutant: the driver does not look for a free slot in its table.
CreateBeyond(cid, pid) ==
    /\ drv.owner[cid] = None
    /\ Start("create", cid, pid, TRUE)
Create(cid, pid) ==
    /\ drv.owner[cid] = None
    /\ Cardinality(Owned) < ContextCapacity
    /\ Start("create", cid, pid, TRUE)
Destroy(cid, pid) ==
    /\ drv.owner[cid] = pid
    /\ Start("destroy", cid, pid, TRUE)

\* GSW3D_transport_submit and GSW3D_transport_present, by any process.
Submit(cid, valid) ==
    /\ drv.owner[cid] # None
    /\ Start("submit", cid, None, valid)
Present(cid, valid) ==
    /\ drv.owner[cid] # None
    /\ Start("present", cid, None, valid)
Upload(valid) == Start("upload", None, None, valid)

\* GSW3D_transport_process_cleanup, when a process ends.
Cleanup(cid, pid) ==
    /\ drv.owner[cid] = pid
    /\ Start("cleanup", cid, pid, TRUE)

\* How a call goes on when gsw3d_submit_locked has returned.
\* Mutant: a context is recorded though the device did not create it.
OwnerAfterAlways(c, ok) ==
    CASE c.op = "create" -> [drv.owner EXCEPT ![c.cid] = c.pid]
      [] c.op = "cleanup" \/ (c.op = "destroy" /\ ok) ->
            [drv.owner EXCEPT ![c.cid] = None]
      [] OTHER -> drv.owner
OwnerAfter(c, ok) ==
    CASE c.op = "create" /\ ok -> [drv.owner EXCEPT ![c.cid] = c.pid]
      [] c.op = "cleanup" \/ (c.op = "destroy" /\ ok) ->
            [drv.owner EXCEPT ![c.cid] = None]
      [] OTHER -> drv.owner

\* The loop of the cleanup goes to the next context of the process; a failed
\* registration of the staging region shuts the transport down.
CallAfter(c, ok, owner) ==
    CASE c.op = "cleanup" /\ (\E x \in Contexts : owner[x] = c.pid) ->
            {[c EXCEPT !.step = "post", !.cid = x] :
                x \in {y \in Contexts : owner[y] = c.pid}}
      [] c.op = "register" /\ ~ok -> {[c EXCEPT !.op = "unregister", !.step = "post"]}
      [] OTHER -> {Idle}

\* GSW3D_transport_shutdown after its last command: it resets the device.
ShutdownEnds(d) ==
    /\ dev' = DeviceReset(d)
    /\ worker' = Signalled
    /\ drv' = [drv EXCEPT !.ready = FALSE, !.fence = 1, !.owner = NoOwner]
    /\ call' = Idle
    /\ accepted' = {} /\ done' = {} /\ cause' = {}

Finish(ok, d) ==
    IF call.op = "unregister" THEN ShutdownEnds(d) ELSE
    LET owner == OwnerAfter(call, ok)
    IN  /\ dev' = d
        /\ worker' = WokenByPoll(d)
        /\ drv' = [drv EXCEPT !.owner = owner,
                              !.fence = IF ok THEN @ + 1 ELSE @]
        /\ call' \in CallAfter(call, ok, owner)
        /\ cause' = cause \cup (IF call.op = "cleanup" /\ ~ok THEN {"orphan"} ELSE {})
        /\ UNCHANGED <<accepted, done>>

\* gsw3d_submit_locked reads the status.  A device that was moved answers no
\* read, and all ones are an error.
Post ==
    /\ call # Idle /\ call.step = "post"
    /\ LET d == IF current THEN Poll(dev) ELSE dev
       IN  IF current /\ d.ready /\ ~d.error
           THEN /\ dev' = [d EXCEPT !.posted = TRUE]
                /\ worker' = WokenByPoll(d)
                /\ call' = [call EXCEPT !.step = "doorbell"]
                /\ UNCHANGED <<drv, accepted, done, cause>>
           ELSE Finish(FALSE, d)
    /\ UNCHANGED <<async, work, current, failures, moves>>

\* It writes the tail and the doorbell.
Doorbell ==
    /\ call # Idle /\ call.step = "doorbell"
    /\ IF Takes(dev, call)
       THEN /\ dev' = Taken(dev, call, drv.fence)
            /\ worker' = Signalled
            /\ accepted' = accepted \cup {drv.fence}
       ELSE /\ dev' = Refused(dev, call)
            /\ UNCHANGED <<worker, accepted>>
    /\ call' = [call EXCEPT !.step = "verify"]
    /\ cause' = cause \cup (IF call.valid THEN {} ELSE {"invalid"})
    /\ UNCHANGED <<async, work, drv, current, done, failures, moves>>

\* It reads status and head, and takes a command back that was not consumed.
Verify ==
    /\ call # Idle /\ call.step = "verify"
    /\ LET d == Poll(dev)
       IN  Finish(~d.posted /\ ~d.error, [d EXCEPT !.posted = FALSE])
    /\ UNCHANGED <<async, work, current, failures, moves>>

----------------------------------------------------------------------------
(* The binding of the driver to the device *)

\* GSW3D_transport_init, at the end of gsw_transport_initialize.  A device that
\* is not ready is given up; nothing tries again while the binding lasts.
Initialize3d ==
    LET d == Poll(dev)
    IN  /\ worker' = WokenByPoll(d)
        /\ dev' = IF d.ready THEN [d EXCEPT !.error = FALSE, !.posted = FALSE] ELSE d
        /\ drv' = [up |-> TRUE, ready |-> d.ready, fence |-> 1, owner |-> NoOwner]
        /\ call' = IF d.ready
                   THEN [op |-> "register", step |-> "post", cid |-> None,
                         pid |-> None, valid |-> TRUE]
                   ELSE Idle

\* GSW_transport_init when Windows starts the display, and GSW_transport_rebind
\* at a mode set: it replaces the binding only when the device was moved.  The
\* registers are out of reach then, and the device keeps what it holds.
Bind ==
    /\ call = Idle
    /\ ~drv.up \/ ~current
    /\ dev.gen < MaxGeneration
    /\ Initialize3d
    /\ current' = TRUE
    /\ UNCHANGED <<async, work, accepted, done, cause, failures, moves>>

\* GSW_transport_shutdown.
Shutdown ==
    /\ call = Idle
    /\ drv.up
    /\ dev.gen < MaxGeneration
    /\ IF drv.ready /\ current
       THEN /\ drv' = [drv EXCEPT !.up = FALSE]
            /\ call' = [op |-> "unregister", step |-> "post", cid |-> None,
                        pid |-> None, valid |-> TRUE]
       ELSE /\ drv' = [up |-> FALSE, ready |-> FALSE, fence |-> 1, owner |-> NoOwner]
            /\ call' = Idle
    /\ UNCHANGED <<async, dev, worker, work, current, accepted, done, cause, failures, moves>>

\* ConfigMgr gives the device other addresses.
Move ==
    /\ call = Idle
    /\ drv.up /\ current
    /\ moves < MaxMoves
    /\ moves' = moves + 1
    /\ current' = FALSE
    /\ cause' = cause \cup {"moved"}
    /\ UNCHANGED <<async, dev, worker, work, drv, call, accepted, done, failures>>

----------------------------------------------------------------------------
(* The worker, the backend and the loop of the machine *)

FailurePending(d) == \E i \in DOMAIN d.fifo : d.fifo[i].status = "failed"

MayTake ==
    /\ dev.queue # <<>>
    /\ async => Len(dev.fifo) < FifoCapacity /\ ~FailurePending(dev)

WorkerSleeps ==
    /\ worker = "awake" /\ ~MayTake
    /\ worker' = "asleep"
    /\ UNCHANGED <<async, dev, work, drv, current, call, accepted, done, cause,
                   failures, moves>>

WorkerTakes ==
    /\ worker = "awake" /\ MayTake
    /\ worker' = "busy" /\ work' = Head(dev.queue)
    /\ dev' = [dev EXCEPT !.queue = Tail(@)]
    /\ UNCHANGED <<async, drv, current, call, accepted, done, cause, failures, moves>>

\* Only work of this generation may leave a result.
\* Mutant: the generation is not compared.
CountsAny(w) == ~dev.poisoned
Counts(w) == w.gen = dev.gen /\ ~dev.poisoned

\* gsw3d_completion_push_locked: work that was executed on the processor, and
\* every failure, is settled at once.
Pushed(d, w, state) ==
    [d EXCEPT !.fifo = Append(@, [kind |-> w.kind, fence |-> w.fence,
                                  status |-> state, gpu |-> state])]

\* The end of a round of gsw3d_worker_proc.
Ended(d, w, state) ==
    IF ~Counts(w) THEN d
    ELSE IF async THEN Pushed(d, w, state)
    ELSE IF state = "failed" THEN Poison(d)
    ELSE [d EXCEPT !.resetCompleted = @ \/ w.kind = "reset",
                   !.pendingFence = IF w.fence # 0 THEN w.fence ELSE @]

States(w) == IF w.kind = "barrier" THEN {"complete"}
             ELSE IF async /\ w.kind # "reset" THEN {"complete", "pending", "failed"}
             ELSE {"complete", "failed"}

WorkerEnds(state) ==
    /\ worker = "busy"
    /\ state \in States(work)
    /\ state = "failed" => failures < MaxFailures
    /\ LET d == IF work.kind = "present" THEN [dev EXCEPT !.presents = @ - 1] ELSE dev
       IN  dev' = Ended(d, work, state)
    /\ worker' = "awake" /\ work' = NoWork
    /\ failures' = IF state = "failed" THEN failures + 1 ELSE failures
    /\ done' = IF state = "complete" /\ work.gen = dev.gen
               THEN done \cup {work.fence} ELSE done
    /\ cause' = IF state = "failed" /\ work.gen = dev.gen
                THEN cause \cup {"backend"} ELSE cause
    /\ UNCHANGED <<async, drv, current, call, accepted, moves>>

\* The host's renderer is done with work it had accepted.
BackendSettles(i, state) ==
    /\ dev.fifo[i].gpu = "pending"
    /\ state = "failed" => failures < MaxFailures
    /\ dev' = [dev EXCEPT !.fifo[i].gpu = state]
    /\ failures' = IF state = "failed" THEN failures + 1 ELSE failures
    /\ done' = IF state = "complete" THEN done \cup {dev.fifo[i].fence} ELSE done
    /\ cause' = IF state = "failed" THEN cause \cup {"backend"} ELSE cause
    /\ UNCHANGED <<async, worker, work, drv, current, call, accepted, moves>>

\* gsw_vga_poll in every round of the machine, and in the fence polls of the
\* guest.
MachinePolls ==
    /\ dev' = Poll(dev)
    /\ worker' = WokenByPoll(dev')
    /\ UNCHANGED <<async, work, drv, current, call, accepted, done, cause, failures, moves>>

----------------------------------------------------------------------------
Init ==
    /\ async \in BOOLEAN
    /\ dev = [ready |-> TRUE, error |-> FALSE, poisoned |-> FALSE, gen |-> 1,
              resetPending |-> FALSE, resetCompleted |-> FALSE, pendingFence |-> 0,
              completed |-> 0, region |-> FALSE, contexts |-> {}, queue |-> <<>>,
              fifo |-> <<>>, presents |-> 0, posted |-> FALSE]
    /\ worker = "awake" /\ work = NoWork
    /\ drv = [up |-> FALSE, ready |-> FALSE, fence |-> 1, owner |-> NoOwner]
    /\ current = TRUE
    /\ call = Idle
    /\ accepted = {} /\ done = {} /\ cause = {}
    /\ failures = 0 /\ moves = 0

ContextCall == \E cid \in Contexts, pid \in Processes :
    Create(cid, pid) \/ Destroy(cid, pid) \/ Cleanup(cid, pid)
WorkCall == \E valid \in BOOLEAN :
    Upload(valid) \/ \E cid \in Contexts : Submit(cid, valid) \/ Present(cid, valid)
Worker  == WorkerSleeps \/ WorkerTakes \/ \E state \in {"complete", "pending", "failed"} :
                                              WorkerEnds(state)
Backend == \E i \in DOMAIN dev.fifo, state \in {"complete", "failed"} :
               BackendSettles(i, state)

Next == ContextCall \/ WorkCall \/ Post \/ Doorbell \/ Verify
        \/ Bind \/ Shutdown \/ Move \/ Worker \/ Backend \/ MachinePolls

Spec == Init /\ [][Next]_vars

\* The worker and the backend work on, and the machine polls in every round.
FairSpec == Spec /\ WF_vars(Worker) /\ WF_vars(Backend) /\ WF_vars(MachinePolls)

----------------------------------------------------------------------------
(* What the transport promises *)

\* A fence the device reports is reached only when its work and all the work
\* submitted before it is done: no result overtakes another, none of an
\* earlier generation counts, and none after a failure.
FencesTellTheTruth ==
    Ready /\ current /\ "moved" \notin cause =>
        /\ 1..dev.completed \subseteq done
        /\ dev.completed < drv.fence

\* Between calls the driver's table holds the contexts the device holds,
\* unless the device is in error, was moved, or had no room in its queue for
\* the end of a process.
ContextsAgree ==
    Ready /\ current /\ ~dev.error /\ cause \cap {"moved", "orphan"} = {} =>
        dev.contexts = Owned

\* No sequence of calls puts the device in error by itself: the backend failed,
\* a process sent a command that is not valid, the device was moved, or a
\* context was left behind when the queue was full.
ErrorHasACause == dev.error => cause # {}

\* The presents the device counts are those that are queued or executed,
\* through cancellations, failures and resets.
PresentsAreCounted ==
    dev.presents = Cardinality({i \in DOMAIN dev.queue : dev.queue[i].kind = "present"})
                   + (IF worker = "busy" /\ work.kind = "present" THEN 1 ELSE 0)

\* What the device has accepted is done in the end, or it reports an error or
\* was reset: the worker never sleeps on work it could take.
Outstanding == \E f \in accepted : f > dev.completed
AcceptedWorkEnds == Outstanding ~> (~Outstanding \/ dev.error)

\* A reset ends, or its failure is reported.
ResetEnds == dev.resetPending ~> (~dev.resetPending \/ dev.error)
=============================================================================
