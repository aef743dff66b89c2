--------------------------- MODULE MachineSession ---------------------------
(***************************************************************************)
(* A FAT32 Machine session: the redo log (wal.odin), the in-process        *)
(* adapter (in_process_adapter.odin) and the parts of fat32image that      *)
(* touch the image (image.odin, marker.odin, validate.odin), with crashes  *)
(* at every point and I/O errors at every storage operation.               *)
(*                                                                         *)
(* Stable storage is the image (one cell per sector, plus its marker       *)
(* sector) and the companion directory.  For each of them the model keeps  *)
(* the value a reader sees now and the set of values that a crash may      *)
(* leave: a write adds to the set, a sync reduces it to the visible value. *)
(***************************************************************************)
EXTENDS Naturals, Sequences

CONSTANTS
    FatA, FatB,          \* header sectors of the two FAT mirrors
    Fsi, FsiBackup,      \* primary and backup FSInfo sectors
    Data,                \* the other sectors of the partition
    Bodies,              \* contents of a sector, FAT status bits left aside
    InitialBody,         \* contents of every sector of the new image
    Ids,                 \* enrollment identities
    NoId,                \* the identity of an image that is not enrolled
    InitialId,           \* identity the image carries at first
    GuestSectors,        \* bound: the sectors the guest writes
    WalRecords,          \* WAL_CHECKPOINT_MAX_BYTES, in records
    WalLag,              \* WAL_CHECKPOINT_MAX_SEQUENCES
    MaxSequence,         \* bound: guest writes between two clean closes
    MaxEpoch,            \* bound: saved states between two clean closes
    MaxFaults            \* bound: crashes and I/O errors

Mirrors == {FatA, FatB}
Sectors == {FatA, FatB, Fsi, FsiBackup} \cup Data

\* A sector is its bytes; "ok" is the clean-shutdown/no-error pair of status
\* bits that FAT entry 1 carries in the first sector of each FAT.
Value == [body : Bodies, ok : BOOLEAN]

\* The sectors whose contents the guest can rely on: the backup FSInfo sector
\* is derived, every barrier and every recovery overwrites it.
Promised == Sectors \ {FsiBackup}

ASSUME SectorsDistinct ==
    /\ FatA # FatB /\ FatA # Fsi /\ FatA # FsiBackup
    /\ FatB # Fsi /\ FatB # FsiBackup /\ Fsi # FsiBackup
    /\ {FatA, FatB, Fsi, FsiBackup} \cap Data = {}
ASSUME ConstantTypes ==
    /\ InitialBody \in Bodies
    /\ NoId \notin Ids
    /\ InitialId \in Ids \cup {NoId}
    /\ GuestSectors \subseteq Sectors
    /\ WalRecords \in Nat \ {0} /\ WalLag \in Nat \ {0}
    /\ MaxSequence \in Nat /\ MaxEpoch \in Nat /\ MaxFaults \in Nat

VARIABLES
    img, imgMay,     \* the image's sectors
    mark, markMay,   \* the enrollment/dirty marker
    comp, compMay,   \* the companion directory
    pc,              \* where the session's thread is
    io,              \* between the write and the sync of a storage operation
    op,              \* the interface operation being served
    id,              \* image.info.image_id
    st,              \* wal.state
    seq, dseq,       \* impl.sequence, impl.durable_sequence
    ri,              \* wal_recover: index of the next record
    w,               \* the block write being served
    allowed,         \* history: what each promised sector may hold
    refusal,         \* history: why the last open was refused
    faults           \* bound: crashes and I/O errors so far

storage == <<img, imgMay, mark, markMay, comp, compMay>>
vars == <<img, imgMay, mark, markMay, comp, compMay, pc, io, op, id, st,
          seq, dseq, ri, w, allowed, refusal, faults>>

-----------------------------------------------------------------------------
(* Companion directory: two state slots and the redo log.                  *)

Phases == {"Open", "Clean", "Clean_Pending", "Prepared"}
State == [valid : BOOLEAN, epoch : Nat, phase : Phases, ckpt : Nat,
          id : Ids \cup {NoId}]
NoState == [valid |-> FALSE, epoch |-> 0, phase |-> "Prepared", ckpt |-> 0,
            id |-> NoId]
Record == [seq : Nat, lba : Sectors, val : Value]
Companion == [exists : BOOLEAN,             \* the directory
              slot   : [{0, 1} -> State],   \* state.a, state.b
              file   : BOOLEAN,             \* active.wal
              recs   : Seq(Record),         \* its complete records
              torn   : BOOLEAN]             \* a torn record after them
EmptyDir == [exists |-> TRUE, slot |-> [n \in {0, 1} |-> NoState],
             file |-> FALSE, recs |-> <<>>, torn |-> FALSE]
NoDir == [EmptyDir EXCEPT !.exists = FALSE]

\* state_load_boundary: the newest slot that decodes.
Load(c) == LET a == c.slot[0]
               b == c.slot[1]
           IN  IF ~a.valid THEN b
               ELSE IF ~b.valid THEN a
               ELSE IF a.epoch >= b.epoch THEN a ELSE b

\* What each side of the marker needs to find in the companion directory.
DirtyPhases == {"Prepared", "Open", "Clean_Pending"}
CleanPhases == {"Prepared", "Clean", "Clean_Pending"}

\* companion_state_validate, for a directory without an Edit owner.
CompanionValid(c, m) ==
    \/ ~c.exists /\ ~m.dirty
    \/ /\ c.exists
       /\ Load(c).valid
       /\ m.id # NoId
       /\ Load(c).id = m.id
       /\ IF m.dirty THEN c.file /\ Load(c).phase \in DirtyPhases
                     ELSE Load(c).phase \in CleanPhases

\* wal_record_sequence_valid, for the n-th record of the log.
RecordInOrder(c, n) ==
    /\ c.recs[n].seq > 0
    /\ IF n = 1 THEN c.recs[n].seq <= Load(c).ckpt + 1
                ELSE c.recs[n].seq = c.recs[n - 1].seq + 1

-----------------------------------------------------------------------------
(* FAT32 coherence of the image.                                           *)

\* validate_fat_headers with allow_status_divergence, and without.
FatBodiesAgree(i) == i[FatA].body = i[FatB].body
FatAgree(i) == i[FatA] = i[FatB]

\* recover_fat_status_mirror: each mirror gets the conjunction of the bits.
MergedStatus(i, s) == [i[s] EXCEPT !.ok = i[FatA].ok /\ i[FatB].ok]

-----------------------------------------------------------------------------
(* Storage operations.                                                     *)

ImageWrite(s, v) ==
    /\ img' = [img EXCEPT ![s] = v]
    /\ imgMay' = [imgMay EXCEPT ![s] = @ \cup {v}]

\* os.sync(image.file): the marker is a sector of the same file.
ImageSync ==
    /\ imgMay' = [s \in Sectors |-> {img[s]}]
    /\ markMay' = {mark}
    /\ UNCHANGED <<img, mark>>

MarkerWrite(dirty) ==
    /\ mark' = [id |-> id, dirty |-> dirty]
    /\ markMay' = markMay \cup {mark'}

\* A change of the companion directory that a crash may leave as any of mid.
CompanionWrite(c, mid) ==
    /\ comp' = c
    /\ compMay' = compMay \cup mid \cup {c}
    /\ io' = TRUE

CompanionSync ==
    /\ io
    /\ io' = FALSE
    /\ compMay' = {comp}
    /\ comp' = comp

-----------------------------------------------------------------------------
Init ==
    /\ img = [s \in Sectors |-> [body |-> InitialBody, ok |-> TRUE]]
    /\ imgMay = [s \in Sectors |-> {[body |-> InitialBody, ok |-> TRUE]}]
    /\ mark = [id |-> InitialId, dirty |-> FALSE]
    /\ markMay = {[id |-> InitialId, dirty |-> FALSE]}
    /\ comp = NoDir
    /\ compMay = {NoDir}
    /\ pc = "closed" /\ io = FALSE /\ op = "none"
    /\ id = NoId /\ st = NoState /\ seq = 0 /\ dseq = 0 /\ ri = 1
    /\ w = [on |-> FALSE, lba |-> FsiBackup, val |-> [body |-> InitialBody, ok |-> TRUE]]
    /\ allowed = [s \in Promised |-> {InitialBody}]
    /\ refusal = "none" /\ faults = 0

NoWrite == [w EXCEPT !.on = FALSE]

\* The session is gone: nothing of its memory survives.
Forget ==
    /\ pc' = "closed" /\ io' = FALSE /\ op' = "none" /\ id' = NoId
    /\ st' = NoState /\ seq' = 0 /\ dseq' = 0 /\ ri' = 1 /\ w' = NoWrite

-----------------------------------------------------------------------------
(* open_in_process.                                                        *)

\* validate_image_for_session and wal_preflight: a dirty image need not have
\* coherent mirrors yet, a clean one must.
OpenAllowed ==
    /\ mark.dirty \/ FatAgree(img)
    /\ CompanionValid(comp, mark)

\* open_staged locks the image; an image without a marker gets an identity.
OpenStaged ==
    /\ pc = "closed"
    /\ OpenAllowed
    /\ id' \in IF mark.id = NoId THEN Ids ELSE {mark.id}
    /\ pc' = "prepare" /\ op' = "open" /\ refusal' = "none"
    /\ UNCHANGED <<storage, io, st, seq, dseq, ri, w, allowed, faults>>

OpenRefused ==
    /\ pc = "closed"
    /\ ~OpenAllowed
    /\ refusal' = IF CompanionValid(comp, mark) THEN "Invalid_FAT32"
                  ELSE "State_Mismatch"
    /\ UNCHANGED <<storage, pc, io, op, id, st, seq, dseq, ri, w, allowed,
                   faults>>

\* wal_prepare on a dirty image: the owner that preflight found is adopted.
PrepareDirty ==
    /\ pc = "prepare" /\ mark.dirty
    /\ st' = Load(comp)
    /\ pc' = "activate"
    /\ UNCHANGED <<storage, io, op, id, seq, dseq, ri, w, allowed, refusal,
                   faults>>

\* wal_prepare on a clean image: companion_directory_remove renames what is
\* left of a completed session away; nothing syncs the parent directory yet.
PrepareClean ==
    /\ pc = "prepare" /\ ~mark.dirty
    /\ comp' = NoDir
    /\ compMay' = compMay \cup {NoDir}
    /\ pc' = "mkdir"
    /\ UNCHANGED <<img, imgMay, mark, markMay, io, op, id, st, seq, dseq, ri,
                   w, allowed, refusal, faults>>

\* companion_directory_prepare(root, true) and its two directory syncs.
MakeDirectory ==
    /\ pc = "mkdir" /\ ~io
    /\ CompanionWrite(EmptyDir, {})
    /\ UNCHANGED <<img, imgMay, mark, markMay, pc, op, id, st, seq, dseq, ri,
                   w, allowed, refusal, faults>>

MakeDirectorySynced ==
    /\ pc = "mkdir"
    /\ CompanionSync
    /\ st' = [NoState EXCEPT !.valid = TRUE, !.id = id]
    /\ pc' = "prepared_save"
    /\ UNCHANGED <<img, imgMay, mark, markMay, op, id, seq, dseq, ri, w,
                   allowed, refusal, faults>>

WalCreate ==
    /\ pc = "wal_create" /\ ~io
    /\ CompanionWrite([comp EXCEPT !.file = TRUE], {})
    /\ UNCHANGED <<img, imgMay, mark, markMay, pc, op, id, st, seq, dseq, ri,
                   w, allowed, refusal, faults>>

WalCreated ==
    /\ pc = "wal_create"
    /\ CompanionSync
    /\ pc' = "activate"
    /\ UNCHANGED <<img, imgMay, mark, markMay, op, id, st, seq, dseq, ri, w,
                   allowed, refusal, faults>>

\* fat32image.activate: the dirty marker is durable before any write.
Activate ==
    /\ pc = "activate" /\ ~io /\ ~mark.dirty
    /\ MarkerWrite(TRUE)
    /\ io' = TRUE
    /\ UNCHANGED <<img, imgMay, comp, compMay, pc, op, id, st, seq, dseq, ri,
                   w, allowed, refusal, faults>>

\* Mutant: the sequence restarts one below the checkpoint.
ActivatedOffByOne ==
    /\ pc = "activate" /\ mark.dirty
    /\ IF io THEN ImageSync ELSE UNCHANGED <<img, imgMay, mark, markMay>>
    /\ io' = FALSE
    /\ pc' = "recover" /\ ri' = 1 /\ seq' = st.ckpt - 1
    /\ UNCHANGED <<comp, compMay, op, id, st, dseq, w, allowed, refusal,
                   faults>>

Activated ==
    /\ pc = "activate" /\ mark.dirty
    /\ IF io THEN ImageSync ELSE UNCHANGED <<img, imgMay, mark, markMay>>
    /\ io' = FALSE
    /\ pc' = "recover" /\ ri' = 1 /\ seq' = st.ckpt
    /\ UNCHANGED <<comp, compMay, op, id, st, dseq, w, allowed, refusal,
                   faults>>

-----------------------------------------------------------------------------
(* wal_recover, complete_recovery and wal_resume_open.                     *)

\* Mutant: the first record after the checkpoint is taken for applied.
RecoverRecordSkipsOne ==
    /\ pc = "recover" /\ ~io /\ ri <= Len(comp.recs)
    /\ RecordInOrder(comp, ri)
    /\ LET r == comp.recs[ri]
       IN  /\ IF r.seq > st.ckpt + 1 THEN ImageWrite(r.lba, r.val)
                                     ELSE UNCHANGED <<img, imgMay>>
           /\ seq' = IF r.seq > seq THEN r.seq ELSE seq
    /\ ri' = ri + 1
    /\ UNCHANGED <<mark, markMay, comp, compMay, pc, io, op, id, st, dseq, w,
                   allowed, refusal, faults>>

RecoverRecord ==
    /\ pc = "recover" /\ ~io /\ ri <= Len(comp.recs)
    /\ RecordInOrder(comp, ri)
    /\ LET r == comp.recs[ri]
       IN  /\ IF r.seq > st.ckpt THEN ImageWrite(r.lba, r.val)
                                 ELSE UNCHANGED <<img, imgMay>>
           /\ seq' = IF r.seq > seq THEN r.seq ELSE seq
    /\ ri' = ri + 1
    /\ UNCHANGED <<mark, markMay, comp, compMay, pc, io, op, id, st, dseq, w,
                   allowed, refusal, faults>>

\* Mutant: the torn tail is not cut off.
RecoverTornKept ==
    /\ pc = "recover" /\ ~io /\ ri > Len(comp.recs) /\ comp.torn
    /\ CompanionWrite(comp, {})
    /\ UNCHANGED <<img, imgMay, mark, markMay, pc, op, id, st, seq, dseq, ri,
                   w, allowed, refusal, faults>>

RecoverTorn ==
    /\ pc = "recover" /\ ~io /\ ri > Len(comp.recs) /\ comp.torn
    /\ CompanionWrite([comp EXCEPT !.torn = FALSE], {})
    /\ UNCHANGED <<img, imgMay, mark, markMay, pc, op, id, st, seq, dseq, ri,
                   w, allowed, refusal, faults>>

RecoverTornSynced ==
    /\ pc = "recover"
    /\ CompanionSync
    /\ UNCHANGED <<img, imgMay, mark, markMay, pc, op, id, st, seq, dseq, ri,
                   w, allowed, refusal, faults>>

RecoverDone ==
    /\ pc = "recover" /\ ~io /\ ri > Len(comp.recs) /\ ~comp.torn
    /\ IF seq > st.ckpt THEN ImageSync
                        ELSE UNCHANGED <<img, imgMay, mark, markMay>>
    /\ pc' = "mat_fat"
    /\ UNCHANGED <<comp, compMay, io, op, id, st, seq, dseq, ri, w, allowed,
                   refusal, faults>>

\* Mutant: status divergence is tolerated and left in place.
MatFatKeepsStatus ==
    /\ pc = "mat_fat" /\ FatBodiesAgree(img)
    /\ pc' = "mat_fat_sync"
    /\ UNCHANGED <<storage, io, op, id, st, seq, dseq, ri, w, allowed,
                   refusal, faults>>

\* materialize_filesystem: the writes it makes are not logged.
MatFat ==
    /\ pc = "mat_fat" /\ FatBodiesAgree(img)
    /\ img' = [s \in Sectors |->
                 IF s \in Mirrors THEN MergedStatus(img, s) ELSE img[s]]
    /\ imgMay' = [s \in Sectors |->
                 IF s \in Mirrors THEN imgMay[s] \cup {MergedStatus(img, s)}
                                  ELSE imgMay[s]]
    /\ pc' = "mat_fat_sync"
    /\ UNCHANGED <<mark, markMay, comp, compMay, io, op, id, st, seq, dseq,
                   ri, w, allowed, refusal, faults>>

MatFatSynced ==
    /\ pc = "mat_fat_sync"
    /\ ImageSync
    /\ pc' = "mat_fsinfo"
    /\ UNCHANGED <<comp, compMay, io, op, id, st, seq, dseq, ri, w, allowed,
                   refusal, faults>>

\* recover_fsinfo_mirror
MatFsinfo ==
    /\ pc = "mat_fsinfo"
    /\ IF img[Fsi] # img[FsiBackup]
       THEN ImageWrite(FsiBackup, img[Fsi]) /\ pc' = "mat_fsinfo_sync"
       ELSE UNCHANGED <<img, imgMay>> /\ pc' = "mat_done"
    /\ UNCHANGED <<mark, markMay, comp, compMay, io, op, id, st, seq, dseq,
                   ri, w, allowed, refusal, faults>>

MatFsinfoSynced ==
    /\ pc = "mat_fsinfo_sync"
    /\ ImageSync
    /\ pc' = "mat_done"
    /\ UNCHANGED <<comp, compMay, io, op, id, st, seq, dseq, ri, w, allowed,
                   refusal, faults>>

\* The session is handed to the machine: what the guest reads from now on is
\* what the image holds.
BecomeReady(checkpoint) ==
    /\ pc' = "ready" /\ op' = "none"
    /\ dseq' = checkpoint
    /\ allowed' = [s \in Promised |-> {img[s].body}]

MatReopened ==
    /\ pc = "mat_done" /\ op = "open"
    /\ IF st.phase \in {"Prepared", "Clean_Pending"}
       THEN pc' = "resume_save" /\ UNCHANGED <<op, dseq, allowed>>
       ELSE BecomeReady(st.ckpt)
    /\ UNCHANGED <<storage, io, id, st, seq, ri, w, refusal, faults>>

\* fat32image.close(image, .Retain): the sync may fail, the close goes on.
RetainImage ==
    /\ img' = img
    /\ imgMay' \in {imgMay, [s \in Sectors |-> {img[s]}]}

\* complete_recovery fails: the replayed mirrors differ.
RecoveredIncoherent ==
    /\ pc = "mat_fat" /\ op = "open" /\ ~FatBodiesAgree(img)
    /\ refusal' = "FAT_Invalid"
    /\ RetainImage
    /\ Forget
    /\ UNCHANGED <<mark, markMay, comp, compMay, allowed, faults>>

-----------------------------------------------------------------------------
(* state_save, called from five places.                                    *)

SaveSites == {"prepared_save", "resume_save", "ckpt_save", "pending_save",
              "clean_save"}
SavedPhase == CASE pc = "prepared_save" -> "Prepared"
                [] pc = "pending_save"  -> "Clean_Pending"
                [] pc = "clean_save"    -> "Clean"
                [] OTHER                -> "Open"
NewState == [valid |-> TRUE, epoch |-> st.epoch + 1, phase |-> SavedPhase,
             ckpt |-> seq, id |-> st.id]

\* Mutant: every save goes to state.a.
StateSaveOneSlot ==
    /\ pc \in SaveSites /\ ~io
    /\ CompanionWrite([comp EXCEPT !.slot[0] = NewState],
                      {[comp EXCEPT !.slot[0] = NoState]})
    /\ UNCHANGED <<img, imgMay, mark, markMay, pc, op, id, st, seq, dseq, ri,
                   w, allowed, refusal, faults>>

\* The slot that state.epoch selects is truncated, written and synced.
StateSave ==
    /\ pc \in SaveSites /\ ~io
    /\ LET n == NewState.epoch % 2
       IN  CompanionWrite([comp EXCEPT !.slot[n] = NewState],
                          {[comp EXCEPT !.slot[n] = NoState]})
    /\ UNCHANGED <<img, imgMay, mark, markMay, pc, op, id, st, seq, dseq, ri,
                   w, allowed, refusal, faults>>

StateSaved ==
    /\ pc \in SaveSites
    /\ CompanionSync
    /\ st' = NewState
    /\ IF pc = "resume_save"
       THEN BecomeReady(seq)
       ELSE /\ pc' = CASE pc = "prepared_save" -> "wal_create"
                       [] pc = "ckpt_save"     -> "ckpt_truncate"
                       [] pc = "pending_save"  -> "close_sync"
                       [] pc = "clean_save"    -> "retire"
            /\ UNCHANGED <<op, dseq, allowed>>
    /\ UNCHANGED <<img, imgMay, mark, markMay, id, seq, ri, w, refusal,
                   faults>>

-----------------------------------------------------------------------------
(* in_process_block_write.                                                 *)

Room == seq < MaxSequence /\ st.epoch < MaxEpoch

\* The guest may set the FAT status bits only in the mirrors.
GuestValue(s) == {v \in Value : s \in Mirrors \/ v.ok}

\* validate_write accepts the block; the answer is outstanding from here on.
GuestWrite(s, v) ==
    /\ pc = "ready" /\ Room
    /\ w' = [on |-> TRUE, lba |-> s, val |-> v]
    /\ op' = "write" /\ pc' = "append"
    /\ allowed' = IF s \in Promised THEN [allowed EXCEPT ![s] = @ \cup {v.body}]
                                    ELSE allowed
    /\ UNCHANGED <<storage, io, id, st, seq, dseq, ri, refusal, faults>>

\* A protected write, a failed read or a changed backing file freezes the
\* session.  (An ignored write is acknowledged and changes nothing.)
RequestFreezes ==
    /\ pc = "ready" /\ faults < MaxFaults
    /\ pc' = "frozen" /\ faults' = faults + 1
    /\ UNCHANGED <<storage, io, op, id, st, seq, dseq, ri, w, allowed,
                   refusal>>

\* wal_append: a crash leaves no record, a torn one, or the whole of it.
WalAppend ==
    /\ pc = "append" /\ ~io
    /\ LET r == [seq |-> seq + 1, lba |-> w.lba, val |-> w.val]
       IN  CompanionWrite([comp EXCEPT !.recs = Append(@, r)],
                          {[comp EXCEPT !.torn = TRUE]})
    /\ UNCHANGED <<img, imgMay, mark, markMay, pc, op, id, st, seq, dseq, ri,
                   w, allowed, refusal, faults>>

WalAppended ==
    /\ pc = "append"
    /\ CompanionSync
    /\ pc' = "apply"
    /\ UNCHANGED <<img, imgMay, mark, markMay, op, id, st, seq, dseq, ri, w,
                   allowed, refusal, faults>>

\* in_process_block_write returns true: to the guest, or to the barrier that
\* logs the backup FSInfo sector.
WriteReturns ==
    /\ w' = NoWrite
    /\ IF op = "write"
       THEN /\ pc' = "ready" /\ op' = "none"
            /\ allowed' = IF w.lba \in Promised
                          THEN [allowed EXCEPT ![w.lba] = {w.val.body}]
                          ELSE allowed
       ELSE pc' = "ckpt_sync" /\ UNCHANGED <<op, allowed>>

\* wal_checkpoint_due, for the sequence just applied
CheckpointDue == Len(comp.recs) >= WalRecords \/ seq + 1 >= st.ckpt + WalLag

ImageApply ==
    /\ pc = "apply"
    /\ ImageWrite(w.lba, w.val)
    /\ seq' = seq + 1
    /\ IF CheckpointDue THEN pc' = "ckpt_sync" /\ UNCHANGED <<w, op, allowed>>
                        ELSE WriteReturns
    /\ UNCHANGED <<mark, markMay, comp, compMay, io, id, st, dseq, ri,
                   refusal, faults>>

-----------------------------------------------------------------------------
(* in_process_barrier and wal_checkpoint.                                  *)

\* flush: Block_Flush; observe: Observation; stop: Reset or Stop; commit:
\* Clean_Close, from in_process_close.
Barriers == {"flush", "observe", "stop", "commit"}

StartBarrier(kind) ==
    /\ pc = "ready" /\ Room
    /\ op' = kind
    /\ pc' = IF kind = "flush" THEN "ckpt_sync" ELSE "mirror"
    /\ UNCHANGED <<storage, io, id, st, seq, dseq, ri, w, allowed, refusal,
                   faults>>

\* prepare_fsinfo_mirror
MirrorFsinfo ==
    /\ pc = "mirror"
    /\ IF img[Fsi] # img[FsiBackup]
       THEN w' = [on |-> TRUE, lba |-> FsiBackup, val |-> img[Fsi]] /\ pc' = "append"
       ELSE w' = w /\ pc' = "ckpt_sync"
    /\ UNCHANGED <<storage, io, op, id, st, seq, dseq, ri, allowed, refusal,
                   faults>>

\* Mutant: the checkpoint is saved without syncing the image first.
CheckpointUnsynced ==
    /\ pc = "ckpt_sync"
    /\ pc' = "ckpt_save"
    /\ UNCHANGED <<storage, io, op, id, st, seq, dseq, ri, w, allowed,
                   refusal, faults>>

CheckpointSync ==
    /\ pc = "ckpt_sync"
    /\ ImageSync
    /\ pc' = "ckpt_save"
    /\ UNCHANGED <<comp, compMay, io, op, id, st, seq, dseq, ri, w, allowed,
                   refusal, faults>>

WalTruncate ==
    /\ pc = "ckpt_truncate" /\ ~io
    /\ CompanionWrite([comp EXCEPT !.recs = <<>>, !.torn = FALSE], {})
    /\ UNCHANGED <<img, imgMay, mark, markMay, pc, op, id, st, seq, dseq, ri,
                   w, allowed, refusal, faults>>

WalTruncated ==
    /\ pc = "ckpt_truncate"
    /\ CompanionSync
    /\ dseq' = seq
    /\ IF w.on THEN WriteReturns
       ELSE /\ pc' = IF op = "flush" THEN "ready" ELSE "mat_fat"
            /\ op' = IF op = "flush" THEN "none" ELSE op
            /\ UNCHANGED <<w, allowed>>
    /\ UNCHANGED <<img, imgMay, mark, markMay, id, st, seq, ri, refusal,
                   faults>>

\* materialize_filesystem succeeds, or finds the mirrors in the middle of a
\* guest update: then the barrier answers Pending and the session goes on.
BarrierReturns ==
    /\ op \in Barriers
    /\ \/ pc = "mat_done"
       \/ pc = "mat_fat" /\ ~FatBodiesAgree(img)
    /\ IF pc = "mat_done" /\ op = "commit"
       THEN pc' = "pending_save" /\ op' = op
       ELSE pc' = "ready" /\ op' = "none"
    /\ UNCHANGED <<storage, io, id, st, seq, dseq, ri, w, allowed, refusal,
                   faults>>

-----------------------------------------------------------------------------
(* in_process_close.                                                       *)

\* fat32image.close(image, .Clean), up to the marker
CloseSync ==
    /\ pc = "close_sync"
    /\ ImageSync
    /\ pc' = "close_mark"
    /\ UNCHANGED <<comp, compMay, io, op, id, st, seq, dseq, ri, w, allowed,
                   refusal, faults>>

CloseMark ==
    /\ pc = "close_mark" /\ ~io
    /\ MarkerWrite(FALSE)
    /\ io' = TRUE
    /\ UNCHANGED <<img, imgMay, comp, compMay, pc, op, id, st, seq, dseq, ri,
                   w, allowed, refusal, faults>>

CloseMarked ==
    /\ pc = "close_mark" /\ io
    /\ ImageSync
    /\ io' = FALSE
    /\ pc' = "clean_save"
    /\ UNCHANGED <<comp, compMay, op, id, st, seq, dseq, ri, w, allowed,
                   refusal, faults>>

\* companion_directory_remove; the session is closed even if it fails.
Retire ==
    /\ pc = "retire"
    /\ \/ comp' = NoDir /\ compMay' = compMay \cup {NoDir}
       \/ UNCHANGED <<comp, compMay>>
    /\ Forget
    /\ UNCHANGED <<img, imgMay, mark, markMay, allowed, refusal, faults>>

CloseRetain ==
    /\ pc \in {"ready", "frozen"}
    /\ RetainImage
    /\ Forget
    /\ UNCHANGED <<mark, markMay, comp, compMay, allowed, refusal, faults>>

-----------------------------------------------------------------------------
(* I/O errors and crashes.                                                 *)

PreparePcs == {"prepare", "mkdir", "prepared_save", "wal_create"}
RecoverPcs == {"activate", "recover", "mat_fat", "mat_fat_sync", "mat_fsinfo",
               "mat_fsinfo_sync", "mat_done", "resume_save"}

\* An operation on the marker or on the companion directory that reports an
\* error has had one of its possible outcomes.
MarkerPcs == {"activate", "close_mark"}
Settles ==
    /\ IF io /\ pc \in MarkerPcs
       THEN mark' \in markMay /\ markMay' = {mark'}
       ELSE UNCHANGED <<mark, markMay>>
    /\ IF io /\ pc \notin MarkerPcs
       THEN /\ comp' \in IF pc = "mkdir" THEN {comp, NoDir} ELSE compMay
            /\ compMay' = {comp'}
       ELSE UNCHANGED <<comp, compMay>>

Faulty == faults < MaxFaults /\ faults' = faults + 1

\* in_process_wal_open_failure: on a clean image the new directory is removed
\* again, if that works.
PrepareFails ==
    /\ pc \in PreparePcs /\ Faulty
    /\ \/ Settles
       \/ /\ ~mark.dirty /\ comp' = NoDir /\ compMay' = compMay \cup {NoDir}
          /\ UNCHANGED <<mark, markMay>>
    /\ refusal' = "IO"
    /\ Forget
    /\ UNCHANGED <<img, imgMay, allowed>>

\* Any later failure of open_in_process retains the image.
RecoverFails ==
    /\ pc \in RecoverPcs /\ op = "open"
    /\ IF /\ pc = "recover" /\ ri <= Len(comp.recs)
          /\ ~RecordInOrder(comp, ri)
       THEN refusal' = "Recovery_Failed" /\ faults' = faults
       ELSE refusal' = "IO" /\ Faulty
    /\ Settles
    /\ RetainImage
    /\ Forget
    /\ UNCHANGED allowed

\* in_process_freeze
SessionFreezes ==
    /\ pc \notin PreparePcs \cup {"closed", "ready", "frozen", "retire"}
    /\ op # "open" /\ Faulty
    /\ Settles
    /\ \/ UNCHANGED <<img, imgMay>>
       \/ pc = "apply" /\ ImageWrite(w.lba, w.val)
    /\ pc' = "frozen" /\ io' = FALSE /\ op' = "none" /\ w' = NoWrite
    /\ UNCHANGED <<id, st, seq, dseq, ri, allowed, refusal>>

\* Every file is left with one of its possible contents.
Crash ==
    /\ Faulty
    /\ img' \in [Sectors -> UNION {imgMay[s] : s \in Sectors}]
    /\ \A s \in Sectors : img'[s] \in imgMay[s]
    /\ imgMay' = [s \in Sectors |-> {img'[s]}]
    /\ mark' \in markMay /\ markMay' = {mark'}
    /\ comp' \in compMay /\ compMay' = {comp'}
    /\ Forget
    /\ UNCHANGED <<allowed, refusal>>

-----------------------------------------------------------------------------
Open == OpenStaged \/ OpenRefused
Prepare == \/ PrepareDirty \/ PrepareClean \/ MakeDirectory
           \/ MakeDirectorySynced \/ WalCreate \/ WalCreated
           \/ Activate \/ Activated
Recover == \/ RecoverRecord \/ RecoverTorn \/ RecoverTornSynced
           \/ RecoverDone \/ RecoveredIncoherent \/ MatReopened
Materialize == MatFat \/ MatFatSynced \/ MatFsinfo \/ MatFsinfoSynced
Save == StateSave \/ StateSaved
Write == WalAppend \/ WalAppended \/ ImageApply
Barrier == \/ MirrorFsinfo \/ CheckpointSync \/ WalTruncate \/ WalTruncated
           \/ BarrierReturns
Close == CloseSync \/ CloseMark \/ CloseMarked \/ Retire
Guest == \/ \E s \in GuestSectors : \E v \in GuestValue(s) : GuestWrite(s, v)
         \/ \E kind \in Barriers : StartBarrier(kind)
         \/ RequestFreezes
         \/ CloseRetain
Fault == PrepareFails \/ RecoverFails \/ SessionFreezes \/ Crash

\* The session's own thread: an operation once started runs to its end.
Progress == Prepare \/ Recover \/ Materialize \/ Save \/ Write \/ Barrier
            \/ Close

Next == Open \/ Progress \/ Guest \/ Fault

Spec == Init /\ [][Next]_vars /\ WF_vars(Progress)

-----------------------------------------------------------------------------
(* Properties.                                                             *)

Refusals == {"none", "State_Mismatch", "Invalid_FAT32", "FAT_Invalid",
             "Recovery_Failed", "IO"}
Pcs == PreparePcs \cup RecoverPcs \cup SaveSites \cup
       {"closed", "ready", "frozen", "append", "apply", "mirror", "ckpt_sync",
        "ckpt_truncate", "close_sync", "close_mark", "retire"}

Marker == [id : Ids \cup {NoId}, dirty : BOOLEAN]
BlockWrite == [on : BOOLEAN, lba : Sectors, val : Value]
Operations == Barriers \cup {"none", "open", "write"}

ImageTyped == img \in [Sectors -> Value] /\ imgMay \in [Sectors -> SUBSET Value]
MarkerTyped == mark \in Marker /\ markMay \in SUBSET Marker
CompanionTyped == comp \in Companion /\ compMay \in SUBSET Companion
ControlTyped == pc \in Pcs /\ io \in BOOLEAN /\ op \in Operations
SessionTyped ==
    /\ id \in Ids \cup {NoId} /\ st \in State
    /\ seq \in Nat /\ dseq \in Nat /\ ri \in Nat \ {0}
    /\ w \in BlockWrite
HistoryTyped ==
    /\ allowed \in [Promised -> SUBSET Bodies]
    /\ refusal \in Refusals /\ faults \in Nat

\* Every variable of the storage and of the session has its type.
TypeOK == /\ ImageTyped /\ MarkerTyped /\ CompanionTyped
          /\ ControlTyped /\ SessionTyped /\ HistoryTyped

\* The records of the log that recovery applies to sector s, and the value
\* that recovery leaves there when the image holds v.
Redo(c, s) == {n \in 1 .. Len(c.recs) :
                 c.recs[n].seq > Load(c).ckpt /\ c.recs[n].lba = s}
Recovered(c, s, v) ==
    IF Redo(c, s) = {} THEN v
    ELSE c.recs[CHOOSE n \in Redo(c, s) : \A m \in Redo(c, s) : m <= n].val

\* Whatever a crash leaves of the image, the marker and the companion
\* directory, the next open finds in every promised sector the last value
\* acknowledged to the guest, or that of a write that was still unanswered:
\* in the image itself if the marker is clean, after wal_recover otherwise.
NoAckedWriteLost ==
    \A m \in markMay, c \in compMay : \A s \in Promised : \A v \in imgMay[s] :
        (IF m.dirty THEN Recovered(c, s, v) ELSE v).body \in allowed[s]

\* The session is the block device of a machine.
Up == op # "open" /\ pc \notin {"closed", "frozen"}

\* A marker that a crash may leave clean is only ever beside an image whose
\* FAT mirrors and FSInfo sectors agree on stable storage, whatever the
\* companion directory holds: validate would refuse any other clean image.
CleanImageIsCoherent ==
    \A m \in markMay : ~m.dirty =>
        /\ \A a \in imgMay[FatA], b \in imgMay[FatB] : a = b
        /\ \A a \in imgMay[Fsi], b \in imgMay[FsiBackup] : a = b

\* A marker that a crash may leave dirty always has its recovery owner: a
\* loadable state of the same identity in a phase wal_prepare accepts, and
\* the redo log.  A clean enrolled marker never meets an owner it rejects.
OwnerMatchesMarker ==
    \A m \in markMay, c \in compMay :
        m.dirty \/ (m.id # NoId /\ c.exists /\ Load(c).valid)
            => CompanionValid(c, m)

\* When a barrier answers, every sector of the image is on stable storage
\* and no record of the log is needed any more.
BarrierMakesImageStable ==
    [][(op \in Barriers /\ op' = "none" /\ pc' = "ready") =>
         /\ \A s \in Sectors : imgMay'[s] = {img'[s]}
         /\ \A c \in compMay' : c.recs = <<>> /\ Load(c).ckpt = dseq'
      ]_vars

\* The session implements the disk of DurableDisk: reads are those of the
\* image while the session is up, and the promised contents are kept over
\* crashes, failures, recoveries and closes.
Disk == INSTANCE DurableDisk WITH
    Blocks <- Promised, Contents <- Bodies, Initial <- InitialBody,
    up <- Up,
    disk <- [s \in Promised |-> IF Up THEN img[s].body ELSE InitialBody],
    possible <- allowed
ImplementsDurableDisk == Disk!DSpec

\* Every operation that the session has started comes to an end: the thread
\* reaches a point where it waits for a request, or the session is closed.
OperationsEnd == pc \notin {"closed", "ready", "frozen"} ~> pc \in {"closed", "ready", "frozen"}

\* An owner that keeps reopening the image; crashes and I/O errors are
\* finitely many (MaxFaults).
SpecReopens == Spec /\ WF_vars(OpenStaged)

\* The guest has written the two FATs differently, or may have.
FatsMayDiffer == \E a \in allowed[FatA], b \in allowed[FatB] : a # b

\* A dirty image is never abandoned: if its owner keeps opening it, a session
\* becomes ready again (wal_recover, complete_recovery), or the open is refused
\* because the FATs that the guest itself wrote differ.
DirtyImageReopens ==
    (pc = "closed" /\ mark.dirty)
        ~> (pc = "ready" \/ (refusal = "FAT_Invalid" /\ FatsMayDiffer))

\* An image that no session holds can be opened again, wherever a crash
\* ended the last session, if no I/O error did.
ClosedImageOpens == pc = "closed" /\ refusal # "IO" => OpenAllowed

=============================================================================
