---------------------- MODULE MachineDurability_proofs ----------------------
(***************************************************************************)
(* Machine-checked proofs that a FAT32 Machine session loses nothing it    *)
(* acknowledged: the safety invariants of MachineSession, the barrier, and *)
(* the refinement of DurableDisk, for every set of data sectors, contents  *)
(* and identities, any length of the log and any number of faults.         *)
(***************************************************************************)
EXTENDS MachineSession_proofs, WellFoundedInduction

USE SectorsDistinct, ConstantTypes

-----------------------------------------------------------------------------
(* The inductive invariant.                                                *)

MayBeClean == \E m \in markMay : ~m.dirty
MayBeDirty == \E m \in markMay : m.dirty

\* A crash cannot change the image.
AllStable == \A s \in Sectors : imgMay[s] = {img[s]}

\* What a clean marker promises of the image.
Coherent == FatAgree(img) /\ img[Fsi] = img[FsiBackup]

MatPcs == {"mat_fat", "mat_fat_sync", "mat_fsinfo", "mat_fsinfo_sync", "mat_done"}
CheckpointPcs == {"ckpt_sync", "ckpt_save", "ckpt_truncate"}
WritePcs == {"append", "apply"}
ClosingPcs == {"pending_save", "close_sync", "close_mark", "clean_save", "retire"}

\* The marker is dirty, on stable storage.
DirtyPcs == MatPcs \cup CheckpointPcs \cup WritePcs \cup
            {"recover", "resume_save", "ready", "mirror", "pending_save", "close_sync"}

\* It is clean.
CleanPcs == {"mkdir", "prepared_save", "wal_create", "clean_save", "retire"}

\* The session has a state in the companion directory.
OwnedPcs == DirtyPcs \cup {"wal_create", "activate", "close_mark", "clean_save", "retire"}

\* Places between two storage operations.
SettledPcs == MatPcs \cup {"closed", "ready", "frozen", "prepare", "apply", "mirror",
                           "ckpt_sync", "close_sync", "retire"}

\* Which operation is served at each place, and which block write.
Control ==
    /\ pc \in PreparePcs \cup {"activate", "recover", "resume_save"} => op = "open"
    /\ pc \in MatPcs => op \in {"open"} \cup (Barriers \ {"flush"})
    /\ pc \in {"ready", "frozen", "closed"} => op = "none"
    /\ pc \in WritePcs \cup CheckpointPcs => op \in Barriers \cup {"write"}
    /\ pc = "mirror" => op \in Barriers \ {"flush"}
    /\ pc \in ClosingPcs => op = "commit"
    /\ pc \in WritePcs \/ (pc \in CheckpointPcs /\ op = "write") => w.on
    /\ w.on => pc \in WritePcs \cup CheckpointPcs
    /\ w.on /\ op \in Barriers => w.lba = FsiBackup
    /\ pc \in SettledPcs => ~io

\* What a reader sees is one of the values that a crash may leave.
Seen == /\ \A s \in Sectors : img[s] \in imgMay[s]
        /\ mark \in markMay
        /\ comp \in compMay

Marks ==
    /\ ~(io /\ pc \in MarkerPcs) => markMay = {mark}
    /\ pc # "closed" =>
         id \in Ids /\ \A m \in markMay : m.id = id \/ (~m.dirty /\ m.id = NoId)
    /\ pc \in DirtyPcs => ~MayBeClean
    /\ pc \in CleanPcs => ~MayBeDirty
    /\ pc = "activate" /\ io => mark.dirty
    /\ pc = "close_mark" => (mark.dirty <=> ~io)

\* Each state is in the slot that its epoch selects.
InPlace(c) == \A n \in {0, 1} : c.slot[n].valid => c.slot[n].epoch % 2 = n
SlotsInPlace == \A c \in compMay : InPlace(c)

\* The companion directory is stable between two operations on it; what was
\* removed from a clean image may come back until the new one is synced.
Settled ==
    /\ ~io /\ pc \notin {"closed", "prepare", "mkdir"} => compMay = {comp}
    /\ io /\ pc \in MarkerPcs => compMay = {comp}
    /\ MayBeDirty /\ pc \in {"closed", "prepare"} => compMay = {comp}

\* The session's copy of the state is the one that the next open will load.
Owned ==
    /\ pc \in OwnedPcs => /\ st.valid /\ st.id = id
                          /\ ~(io /\ pc \in SaveSites) => Load(comp) = st
    /\ pc \in SaveSites /\ io => Load(comp) = NewState
    /\ pc \in {"closed", "prepare", "mkdir"} => seq = 0
    /\ pc = "mkdir" /\ io => comp = EmptyDir
    /\ pc = "prepared_save" =>
         /\ st = [NoState EXCEPT !.valid = TRUE, !.id = id]
         /\ seq = 0
         /\ comp = IF io THEN [EmptyDir EXCEPT !.slot[1] = NewState] ELSE EmptyDir
    /\ pc = "wal_create" => /\ comp.exists /\ comp.recs = <<>> /\ st.phase = "Prepared"
                            /\ io => comp.file
    /\ pc = "activate" /\ MayBeClean =>
         comp.exists /\ comp.file /\ comp.recs = <<>> /\ st.phase = "Prepared"
    /\ pc \in DirtyPcs => st.phase \in DirtyPhases /\ comp.exists /\ comp.file
    /\ pc \in {"close_sync", "close_mark", "clean_save"} =>
         st.phase = "Clean_Pending" /\ comp.exists /\ comp.file
    /\ pc \in OwnedPcs \ {"wal_create", "activate"} => st.ckpt <= seq
    /\ pc = "ckpt_truncate" => st.ckpt = seq /\ (io => comp.recs = <<>>)
    /\ pc \in MatPcs /\ op # "open" => comp.recs = <<>> /\ st.ckpt = seq /\ dseq = seq

LogBelow(k) == \A n \in 1 .. k : comp.recs[n].seq <= seq
LastIsWrite ==
    /\ Len(comp.recs) > 0
    /\ comp.recs[Len(comp.recs)] = [seq |-> seq + 1, lba |-> w.lba, val |-> w.val]

\* No record is ahead of the session, except that of the write being applied.
Log ==
    /\ pc = "recover" => /\ ri <= Len(comp.recs) + 1 /\ LogBelow(ri - 1)
                         /\ io => ri = Len(comp.recs) + 1
    /\ pc \in DirtyPcs \ {"recover", "append", "apply"} => LogBelow(Len(comp.recs))
    /\ pc = "append" /\ ~io => LogBelow(Len(comp.recs))
    /\ pc = "apply" \/ (pc = "append" /\ io) => LastIsWrite /\ LogBelow(Len(comp.recs) - 1)

StablePcs == {"ckpt_save", "ckpt_truncate", "mat_fsinfo", "mat_done", "resume_save",
              "pending_save", "close_sync", "close_mark"}

Stability ==
    /\ MayBeClean => AllStable /\ Coherent
    /\ pc \in StablePcs \/ (pc = "mat_fat" /\ op # "open") => AllStable
    /\ pc \in {"mat_fat_sync", "mat_fsinfo"} => FatAgree(img)
    /\ pc \in {"mat_fsinfo_sync", "mat_done", "resume_save", "pending_save", "close_sync",
               "close_mark"} => Coherent

\* Record n is the last one that recovery applies to sector s.
LastRedo(c, s, n) == n \in Redo(c, s) /\ \A m \in Redo(c, s) : m <= n

\* A write that a crash may take back is in the log.
Covered ==
    \A c \in compMay : \A s \in Promised :
        Redo(c, s) = {} => \A v \in imgMay[s] : v.body = img[s].body

\* What the next recovery will find is allowed.
Safe ==
    MayBeDirty => \A c \in compMay : \A s \in Promised :
        /\ Redo(c, s) = {} => img[s].body \in allowed[s]
        /\ \A n \in Redo(c, s) : LastRedo(c, s, n) => c.recs[n].val.body \in allowed[s]

\* What the image holds is allowed, once recovery has been over it.
ImageAllowed ==
    (MayBeClean \/ pc \in (DirtyPcs \ {"recover"}) \cup {"close_mark"})
      => \A s \in Promised : img[s].body \in allowed[s]

\* Recovery has applied the records below ri, the last of each sector last.
Replayed ==
    /\ pc = "recover" => \A s \in Promised : \A n \in Redo(comp, s) :
         n < ri /\ (\A m \in Redo(comp, s) : m < ri => m <= n)
           => img[s].body = comp.recs[n].val.body
    /\ pc \in MatPcs => \A s \in Promised : \A n \in Redo(comp, s) :
         LastRedo(comp, s, n) => img[s].body = comp.recs[n].val.body

\* The block write being served.
Writing ==
    /\ w.on /\ w.lba \in Promised => w.val.body \in allowed[w.lba]
    /\ w.on /\ pc \in CheckpointPcs => img[w.lba] = w.val

Durable == /\ Control /\ Seen /\ Marks /\ SlotsInPlace /\ Settled /\ Owned /\ Log
           /\ Stability /\ Covered /\ Safe /\ ImageAllowed /\ Replayed /\ Writing
           /\ OwnerMatchesMarker

-----------------------------------------------------------------------------
(* Facts about the operators.                                              *)

\* What is loaded depends on the slots alone, what is redone on the log too.
LEMMA SameSlots == ASSUME NEW c, NEW d, c.slot = d.slot PROVE Load(c) = Load(d)
BY DEF Load

LEMMA SameLog ==
    ASSUME NEW c, NEW d, c.slot = d.slot, c.recs = d.recs, NEW s
    PROVE  Redo(c, s) = Redo(d, s)
BY SameSlots DEF Redo

\* A set of records that is not empty has a last one.
LEMMA LastRedoExists ==
    ASSUME NEW c \in Companion, NEW s, Redo(c, s) # {}
    PROVE  \E n \in Redo(c, s) : LastRedo(c, s, n)
<1> DEFINE L == Len(c.recs)
           T == {L - n : n \in Redo(c, s)}
<1>1. L \in Nat /\ \A n \in Redo(c, s) : n \in 1 .. L
  BY DEF Companion, Redo
<1>2. T \subseteq Nat /\ T # {}
  BY <1>1
<1>3. PICK x \in T : \A y \in T : ~ (<<y, x>> \in OpToRel(<, Nat))
  BY <1>2, NatLessThanWellFounded, WFMin
<1>4. \A y \in T : x <= y
  <2> HIDE DEF T
  <2> SUFFICES ASSUME NEW y \in T, ~(x <= y) PROVE FALSE
    OBVIOUS
  <2>1. x \in Nat /\ y \in Nat /\ y < x
    BY <1>2
  <2>2. <<y, x>> \in OpToRel(<, Nat)
    BY <2>1 DEF OpToRel
  <2> QED BY <1>3, <2>2
<1>5. PICK n \in Redo(c, s) : x = L - n
  OBVIOUS
<1>6. \A m \in Redo(c, s) : m <= n
  <2> SUFFICES ASSUME NEW m \in Redo(c, s) PROVE m <= n
    OBVIOUS
  <2>1. x <= L - m
    BY <1>4
  <2> HIDE DEF L
  <2> QED BY <1>1, <1>5, <2>1
<1> QED BY <1>6 DEF LastRedo

\* state_save: the new state is loaded once it is complete; until then the
\* old one is, although its neighbour is gone.
LEMMA SavedIsLoaded ==
    ASSUME NEW c \in Companion, InPlace(c), NEW x \in State, NEW y \in State,
           Load(c) = x \/ (~Load(c).valid /\ x.epoch = 0), x.valid, y.valid, y.epoch = x.epoch + 1
    PROVE  LET n == y.epoch % 2
               new == [c EXCEPT !.slot[n] = y]
               gone == [c EXCEPT !.slot[n] = NoState]
           IN  /\ n \in {0, 1}
               /\ InPlace(new) /\ InPlace(gone)
               /\ Load(new) = y
               /\ Load(gone) = Load(c) \/ (~Load(gone).valid /\ ~Load(c).valid)
<1> DEFINE n == y.epoch % 2
           new == [c EXCEPT !.slot[n] = y]
           gone == [c EXCEPT !.slot[n] = NoState]
<1>1. x.epoch \in Nat /\ y.epoch \in Nat
  BY DEF State
<1>2. n \in {0, 1} /\ x.epoch % 2 \in {0, 1} /\ n # x.epoch % 2
  BY <1>1
<1>3. c.slot \in [{0, 1} -> State] /\ NoState \in State /\ ~NoState.valid
  BY ConstantsTyped DEF Companion, NoState
<1>4. new.slot[n] = y /\ gone.slot[n] = NoState
  BY <1>2, <1>3 DEF Companion
<1>5. \A k \in {0, 1} : k # n => new.slot[k] = c.slot[k] /\ gone.slot[k] = c.slot[k]
  BY <1>2, <1>3 DEF Companion
<1>6. InPlace(new) /\ InPlace(gone)
  BY <1>2, <1>3, <1>4, <1>5 DEF InPlace
<1>7. CASE ~Load(c).valid
  <2>1. ~c.slot[0].valid /\ ~c.slot[1].valid
    BY <1>3, <1>7 DEF Load, State
  <2> QED BY <1>2, <1>3, <1>4, <1>5, <1>6, <1>7, <2>1 DEF Load
<1>8. CASE Load(c) = x
  <2>1. \A k \in {0, 1} : c.slot[k].epoch \in Nat /\ c.slot[k].valid \in BOOLEAN
    BY <1>3 DEF State
  <2>2. PICK k \in {0, 1} : c.slot[k] = x
    BY <1>8 DEF Load
  <2>3. k = x.epoch % 2
    BY <2>2 DEF InPlace
  <2>4. c.slot[n].valid => c.slot[n].epoch <= x.epoch
    BY <1>1, <1>2, <1>8, <2>1, <2>2, <2>3 DEF Load
  <2>5. Load(gone) = c.slot[k]
    BY <1>2, <1>3, <1>4, <1>5, <2>2, <2>3 DEF Load
  <2>6. Load(new) = y
    <3>1. new.slot[k] = x
      BY <1>2, <1>5, <2>2, <2>3
    <3>2. y.epoch > x.epoch
      BY <1>1
    <3> HIDE DEF new, n
    <3> QED BY <1>1, <1>2, <1>4, <2>3, <3>1, <3>2 DEF Load
  <2> QED BY <1>2, <1>6, <1>8, <2>2, <2>5, <2>6
<1> QED BY <1>7, <1>8

\* The fields that the changes of a companion directory leave alone.
LEMMA ChangedFields ==
    ASSUME NEW c \in Companion
    PROVE  /\ \A b \in BOOLEAN : LET d == [c EXCEPT !.torn = b] IN
                d.slot = c.slot /\ d.recs = c.recs /\ d.exists = c.exists /\ d.file = c.file
           /\ LET d == [c EXCEPT !.file = TRUE] IN
                d.slot = c.slot /\ d.recs = c.recs /\ d.exists = c.exists /\ d.file
           /\ LET d == [c EXCEPT !.recs = <<>>, !.torn = FALSE] IN
                d.slot = c.slot /\ d.recs = <<>> /\ d.exists = c.exists /\ d.file = c.file
           /\ \A r : LET d == [c EXCEPT !.recs = Append(@, r)] IN
                /\ d.slot = c.slot /\ d.recs = Append(c.recs, r)
                /\ d.exists = c.exists /\ d.file = c.file
           /\ \A n, x : LET d == [c EXCEPT !.slot[n] = x] IN
                /\ d.slot = [c.slot EXCEPT ![n] = x] /\ d.recs = c.recs
                /\ d.exists = c.exists /\ d.file = c.file
BY DEF Companion

\* The log of a directory, and what is redone of an empty one.
LEMMA LogTyped ==
    ASSUME NEW c \in Companion
    PROVE  /\ c.recs \in Seq(Record) /\ Len(c.recs) \in Nat
           /\ \A n \in 1 .. Len(c.recs) :
                /\ c.recs[n].seq \in Nat /\ c.recs[n].lba \in Sectors
                /\ c.recs[n].val \in Value
           /\ \A s : Redo(c, s) \subseteq 1 .. Len(c.recs)
<1>1. c.recs \in Seq(Record) /\ Len(c.recs) \in Nat
  BY DEF Companion
<1>2. ASSUME NEW n \in 1 .. Len(c.recs)
      PROVE  c.recs[n].seq \in Nat /\ c.recs[n].lba \in Sectors /\ c.recs[n].val \in Value
  <2>1. c.recs[n] \in Record
    BY <1>1
  <2> QED BY <2>1 DEF Record
<1>3. \A s : Redo(c, s) \subseteq 1 .. Len(c.recs)
  BY DEF Redo
<1> QED BY <1>1, <1>2, <1>3

LEMMA EmptyLog == ASSUME NEW c, c.recs = <<>>, NEW s PROVE Redo(c, s) = {}
BY DEF Redo

\* A log whose records are all at or below the checkpoint is not redone.
LEMMA CheckpointedLog ==
    ASSUME NEW c \in Companion, NEW s, NEW k \in Nat, Load(c).ckpt = k,
           \A n \in 1 .. Len(c.recs) : c.recs[n].seq <= k
    PROVE  Redo(c, s) = {}
BY LogTyped DEF Redo

\* The record that wal_append adds is the last one for its sector, and the
\* only one that is new.
LEMMA AppendedRedo ==
    ASSUME NEW c \in Companion, NEW r \in Record, r.seq > Load(c).ckpt,
           NEW d \in Companion, d.slot = c.slot, d.recs = Append(c.recs, r), NEW s
    PROVE  /\ s = r.lba => LastRedo(d, s, Len(c.recs) + 1)
           /\ s # r.lba => Redo(d, s) = Redo(c, s)
           /\ \A n \in Redo(c, s) : d.recs[n] = c.recs[n]
<1>1. Load(d) = Load(c)
  BY SameSlots
<1>2. c.recs \in Seq(Record) /\ Len(c.recs) \in Nat
  BY LogTyped
<1>3. /\ Len(d.recs) = Len(c.recs) + 1
      /\ d.recs[Len(c.recs) + 1] = r
      /\ \A n \in 1 .. Len(c.recs) : d.recs[n] = c.recs[n]
  BY <1>2
<1>4. \A n \in Redo(c, s) : d.recs[n] = c.recs[n]
  BY <1>2, <1>3, LogTyped
<1>5. ASSUME s = r.lba PROVE LastRedo(d, s, Len(c.recs) + 1)
  <2>1. Len(c.recs) + 1 \in Redo(d, s)
    BY <1>1, <1>2, <1>3, <1>5 DEF Redo
  <2> QED BY <1>2, <1>3, <2>1, LogTyped DEF LastRedo
<1>6. ASSUME s # r.lba PROVE Redo(d, s) = Redo(c, s)
  BY <1>1, <1>2, <1>3, <1>6 DEF Redo
<1> QED BY <1>4, <1>5, <1>6

\* A new directory holds no state.
LEMMA EmptyLoads == ~Load(EmptyDir).valid /\ ~EmptyDir.file /\ InPlace(EmptyDir)
                    /\ InPlace(NoDir) /\ EmptyDir.recs = <<>> /\ EmptyDir.exists /\ ~NoDir.exists
BY DEF EmptyDir, NoDir, NoState, Load, InPlace

\* The records LastRedo speaks of are unique.
LEMMA LastRedoUnique ==
    ASSUME NEW c \in Companion, NEW s, NEW n, NEW m, LastRedo(c, s, n), LastRedo(c, s, m)
    PROVE  n = m
<1>1. n \in Nat /\ m \in Nat
  BY LogTyped DEF LastRedo
<1> QED BY <1>1 DEF LastRedo

-----------------------------------------------------------------------------
(* The steps that the log, the states and the image depend on.             *)

USE DEF MatPcs, CheckpointPcs, WritePcs, ClosingPcs, DirtyPcs, CleanPcs, OwnedPcs,
        SettledPcs, StablePcs, SaveSites, PreparePcs, MarkerPcs, Barriers

LEMMA TypeFacts ==
    ASSUME TypeOK
    PROVE  /\ comp \in Companion /\ \A c \in compMay : c \in Companion
           /\ seq \in Nat /\ ri \in Nat \ {0} /\ st \in State /\ st.ckpt \in Nat
           /\ st.epoch \in Nat
           /\ w.lba \in Sectors /\ w.val \in Value /\ w.on \in BOOLEAN
           /\ \A s \in Sectors : img[s] \in Value /\ imgMay[s] \subseteq Value
           /\ img \in [Sectors -> Value] /\ imgMay \in [Sectors -> SUBSET Value]
           /\ allowed \in [Promised -> SUBSET Bodies]
BY DEF TypeOK, CompanionTyped, SessionTyped, State, BlockWrite, ImageTyped, HistoryTyped

\* Every recovery owner of a dirty marker.
LEMMA ActivateOwner ==
    ASSUME TypeOK, Durable, Activate PROVE OwnerMatchesMarker' /\ Safe'
<1>1. ~mark.dirty /\ mark \in markMay /\ MayBeClean
  BY DEF Activate, Durable, Seen, MayBeClean
<1>2. /\ compMay' = {comp} /\ comp.exists /\ comp.file /\ comp.recs = <<>>
      /\ Load(comp) = st /\ st.valid /\ st.id = id /\ st.phase = "Prepared"
      /\ id \in Ids
  BY <1>1 DEF Activate, Durable, Settled, Owned, Marks
<1>3. OwnerMatchesMarker'
  BY <1>2 DEF Activate, Durable, OwnerMatchesMarker, CompanionValid, MarkerWrite, DirtyPhases
<1>4. Safe'
  BY <1>1, <1>2, EmptyLog DEF Activate, Durable, Safe, ImageAllowed
<1> QED BY <1>3, <1>4

LEMMA CloseMarkOwner == ASSUME TypeOK, Durable, CloseMark PROVE OwnerMatchesMarker'
<1>1. /\ compMay' = {comp} /\ comp.exists /\ comp.file
      /\ Load(comp) = st /\ st.valid /\ st.id = id /\ st.phase = "Clean_Pending"
      /\ id \in Ids
  BY DEF CloseMark, Durable, Settled, Owned, Marks
<1> QED BY <1>1 DEF CloseMark, Durable, OwnerMatchesMarker, CompanionValid, MarkerWrite,
        CleanPhases

LEMMA MakeDirectoryOwner ==
    ASSUME TypeOK, Durable, MakeDirectory PROVE OwnerMatchesMarker'
<1>1. \A m \in markMay : ~m.dirty
  BY DEF MakeDirectory, Durable, Marks, MayBeDirty
<1> QED BY <1>1, EmptyLoads DEF MakeDirectory, CompanionWrite, Durable, OwnerMatchesMarker

LEMMA WalCreateOwner ==
    ASSUME TypeOK, Durable, WalCreate
    PROVE  OwnerMatchesMarker' /\ Owned' /\ SlotsInPlace'
<1> DEFINE d == [comp EXCEPT !.file = TRUE]
<1>1. d.slot = comp.slot /\ d.recs = comp.recs /\ d.exists = comp.exists /\ d.file
  BY TypeFacts, ChangedFields
<1>2. comp' = d /\ compMay' = compMay \cup {d} /\ io' /\ ~io /\ pc = "wal_create"
  BY DEF WalCreate, CompanionWrite
<1>3. Load(d) = Load(comp)
  BY <1>1, SameSlots
<1> HIDE DEF d
<1>4. comp \in compMay /\ \A m \in markMay : ~m.dirty
  BY <1>2 DEF Durable, Marks, MayBeDirty, Seen
<1>5. OwnerMatchesMarker'
  BY <1>1, <1>2, <1>3, <1>4 DEF WalCreate, Durable, OwnerMatchesMarker, CompanionValid
<1>6. Owned'
  BY <1>1, <1>2, <1>3, <1>4 DEF WalCreate, Durable, Owned, MayBeClean
<1>7. SlotsInPlace'
  BY <1>1, <1>2, <1>4 DEF Durable, SlotsInPlace, InPlace
<1> QED BY <1>5, <1>6, <1>7

LEMMA RecoverTornKeeps ==
    ASSUME TypeOK, Durable, RecoverTorn
    PROVE  /\ OwnerMatchesMarker' /\ Owned' /\ SlotsInPlace' /\ Replayed' /\ Safe'
           /\ Covered' /\ Log'
<1> DEFINE d == [comp EXCEPT !.torn = FALSE]
<1>1. d.slot = comp.slot /\ d.recs = comp.recs /\ d.exists = comp.exists /\ d.file = comp.file
  BY TypeFacts, ChangedFields
<1>2. /\ comp' = d /\ compMay' = compMay \cup {d} /\ io' /\ ~io /\ pc = "recover"
      /\ UNCHANGED <<img, imgMay, mark, markMay, pc, op, id, st, seq, dseq, ri, w, allowed>>
  BY DEF RecoverTorn, CompanionWrite
<1>3. Load(d) = Load(comp) /\ \A s : Redo(d, s) = Redo(comp, s)
  BY <1>1, SameSlots, SameLog
<1>4. ri > Len(comp.recs)
  BY DEF RecoverTorn
<1> HIDE DEF d
<1>5. comp \in compMay
  BY DEF Durable, Seen
<1>6. OwnerMatchesMarker'
  BY <1>1, <1>2, <1>3, <1>5 DEF Durable, OwnerMatchesMarker, CompanionValid
<1>7. Owned'
  BY <1>1, <1>2, <1>3, <1>5 DEF Durable, Owned
<1>8. SlotsInPlace'
  BY <1>1, <1>2, <1>5 DEF Durable, SlotsInPlace, InPlace
<1>9. Replayed'
  BY <1>1, <1>2, <1>3 DEF Durable, Replayed, LastRedo
<1>10. Safe'
  BY <1>1, <1>2, <1>3, <1>5 DEF Durable, Safe, LastRedo, MayBeDirty
<1>11. Covered'
  BY <1>1, <1>2, <1>3, <1>5 DEF Durable, Covered
<1>12. Log'
  BY <1>1, <1>2, <1>4, TypeFacts, LogTyped DEF Durable, Log, LogBelow
<1> QED BY <1>6, <1>7, <1>8, <1>9, <1>10, <1>11, <1>12

LEMMA ActivatedReplayed == ASSUME TypeOK, Durable, Activated PROVE Replayed'
<1>1. comp \in Companion /\ comp' = comp /\ pc' = "recover" /\ ri' = 1
  BY TypeFacts DEF Activated
<1>2. \A s : \A n \in Redo(comp, s) : n \in Nat /\ ~(n < 1)
  BY <1>1, LogTyped
<1> QED BY <1>1, <1>2 DEF Replayed

\* wal_recover: the record that is applied is the last one for its sector
\* among those seen so far.
LEMMA RecoverRecordKeeps ==
    ASSUME TypeOK, Durable, RecoverRecord
    PROVE  Replayed' /\ Safe' /\ Covered' /\ Log' /\ Owned'
<1> DEFINE r == comp.recs[ri]
<1>1. /\ pc = "recover" /\ ~io /\ ri <= Len(comp.recs) /\ ri' = ri + 1
      /\ IF r.seq > st.ckpt THEN ImageWrite(r.lba, r.val) ELSE UNCHANGED <<img, imgMay>>
      /\ seq' = IF r.seq > seq THEN r.seq ELSE seq
      /\ UNCHANGED <<mark, markMay, comp, compMay, pc, io, op, id, st, dseq, w, allowed>>
  BY DEF RecoverRecord
<1>2. /\ comp \in Companion /\ seq \in Nat /\ ri \in Nat \ {0} /\ st.ckpt \in Nat
      /\ Len(comp.recs) \in Nat /\ r.seq \in Nat /\ r.lba \in Sectors /\ r.val \in Value
      /\ \A s : Redo(comp, s) \subseteq 1 .. Len(comp.recs)
      /\ \A n \in 1 .. Len(comp.recs) : comp.recs[n].seq \in Nat
  BY <1>1, TypeFacts, LogTyped
<1>3. compMay = {comp} /\ Load(comp) = st /\ st.ckpt <= seq
  BY <1>1 DEF Durable, Settled, Owned
<1>4. ri \in Redo(comp, r.lba) <=> r.seq > st.ckpt
  BY <1>1, <1>2, <1>3 DEF Redo
<1>5. \A s : ri \in Redo(comp, s) => s = r.lba
  BY DEF Redo
<1>6. \A s \in Sectors : IF ri \in Redo(comp, s) THEN img'[s] = r.val ELSE img'[s] = img[s]
  BY <1>1, <1>2, <1>4, <1>5, TypeFacts DEF ImageWrite
<1>7. \A s \in Sectors : ri \notin Redo(comp, s) => imgMay'[s] = imgMay[s]
  BY <1>1, <1>2, <1>4, <1>5, TypeFacts DEF ImageWrite
<1>8. Promised \subseteq Sectors
  BY DEF Promised
<1>9. Replayed'
  <2> SUFFICES ASSUME NEW s \in Promised, NEW n \in Redo(comp, s), n < ri + 1,
                      \A m \in Redo(comp, s) : m < ri + 1 => m <= n
               PROVE  img'[s].body = comp.recs[n].val.body
    BY <1>1 DEF Replayed
  <2>1. n \in Nat
    BY <1>2
  <2>2. CASE n = ri
    BY <1>6, <1>8, <2>2
  <2>3. CASE n < ri
    <3>1. ri \notin Redo(comp, s)
      BY <1>2, <2>1, <2>3
    <3>2. \A m \in Redo(comp, s) : m < ri => m <= n
      BY <1>2
    <3>3. img[s].body = comp.recs[n].val.body
      BY <1>1, <2>3, <3>2 DEF Durable, Replayed
    <3> QED BY <1>6, <1>8, <3>1, <3>3
  <2> QED BY <1>2, <2>1, <2>2, <2>3
<1>10. Safe'
  BY <1>1, <1>3, <1>6, <1>8 DEF Durable, Safe, MayBeDirty
<1>11. Covered'
  BY <1>1, <1>3, <1>6, <1>7, <1>8 DEF Durable, Covered
<1>12. Log'
  <2>1. LogBelow(ri - 1)
    BY <1>1 DEF Durable, Log
  <2>2. \A n \in 1 .. ri : n = ri \/ n \in 1 .. (ri - 1)
    BY <1>2
  <2>3. seq' \in Nat /\ seq <= seq' /\ r.seq <= seq'
    BY <1>1, <1>2
  <2>4. ASSUME NEW n \in 1 .. ri PROVE comp.recs[n].seq <= seq'
    <3>1. comp.recs[n].seq \in Nat
      BY <1>1, <1>2
    <3>2. CASE n \in 1 .. (ri - 1)
      <4>1. comp.recs[n].seq <= seq
        BY <2>1, <3>2 DEF LogBelow
      <4> QED BY <1>2, <2>3, <3>1, <4>1
    <3> QED BY <2>2, <2>3, <3>2
  <2> QED BY <1>1, <1>2, <2>4 DEF Log, LogBelow
<1>13. Owned'
  BY <1>1, <1>2, <1>3 DEF Durable, Owned
<1> QED BY <1>9, <1>10, <1>11, <1>12, <1>13

\* When the log is at its end the image holds what recovery promises.
LEMMA RecoverDoneKeeps ==
    ASSUME TypeOK, Durable, RecoverDone PROVE Replayed' /\ ImageAllowed'
<1>1. /\ pc = "recover" /\ ~io /\ ri > Len(comp.recs) /\ pc' = "mat_fat"
      /\ UNCHANGED <<comp, compMay, io, op, id, st, seq, dseq, ri, w, allowed>> /\ img' = img
  BY DEF RecoverDone, ImageSync
<1>2. /\ comp \in Companion /\ ri \in Nat /\ Len(comp.recs) \in Nat
      /\ \A s : Redo(comp, s) \subseteq 1 .. Len(comp.recs)
  BY TypeFacts, LogTyped
<1>3. \A s \in Promised : \A n \in Redo(comp, s) :
         LastRedo(comp, s, n) => img[s].body = comp.recs[n].val.body
  <2> SUFFICES ASSUME NEW s \in Promised, NEW n \in Redo(comp, s), LastRedo(comp, s, n)
               PROVE  img[s].body = comp.recs[n].val.body
    OBVIOUS
  <2>1. n < ri /\ \A m \in Redo(comp, s) : m <= n
    BY <1>1, <1>2 DEF LastRedo
  <2> QED BY <1>1, <2>1 DEF Durable, Replayed
<1>4. Replayed'
  BY <1>1, <1>3 DEF Replayed
<1>5. MayBeDirty /\ compMay = {comp}
  BY <1>1 DEF Durable, Marks, Seen, MayBeDirty, MayBeClean, Settled
<1>6. \A s \in Promised : img[s].body \in allowed[s]
  <2> SUFFICES ASSUME NEW s \in Promised PROVE img[s].body \in allowed[s]
    OBVIOUS
  <2>1. CASE Redo(comp, s) = {}
    BY <1>5, <2>1 DEF Durable, Safe
  <2>2. CASE Redo(comp, s) # {}
    <3>1. PICK n \in Redo(comp, s) : LastRedo(comp, s, n)
      BY <1>2, <2>2, LastRedoExists
    <3> QED BY <1>3, <1>5, <3>1 DEF Durable, Safe
  <2> QED BY <2>1, <2>2
<1> QED BY <1>1, <1>4, <1>6 DEF ImageAllowed

\* materialize_filesystem merges the status bits: no contents change, and
\* the mirrors agree.
LEMMA MatFatKeeps ==
    ASSUME TypeOK, Durable, MatFat
    PROVE  Replayed' /\ Safe' /\ Covered' /\ Stability'
<1>1. /\ pc = "mat_fat" /\ pc' = "mat_fat_sync"
      /\ UNCHANGED <<mark, markMay, comp, compMay, io, op, id, st, seq, dseq, ri, w, allowed>>
  BY DEF MatFat
<1>2. \A s \in Sectors : img[s] \in Value /\ imgMay[s] \subseteq Value
  BY TypeFacts
<1>3. \A s \in Sectors : MergedStatus(img, s).body = img[s].body
  BY <1>2 DEF MergedStatus, Value
<1>4. \A s \in Sectors : img'[s].body = img[s].body
  BY <1>3 DEF MatFat
<1>5. \A s \in Sectors : \A v \in imgMay'[s] : v \in imgMay[s] \/ v.body = img[s].body
  BY <1>3 DEF MatFat
<1>6. Promised \subseteq Sectors
  BY DEF Promised
<1>7. Replayed'
  BY <1>1, <1>4, <1>6 DEF Durable, Replayed
<1>8. Safe'
  BY <1>1, <1>4, <1>6 DEF Durable, Safe, MayBeDirty
<1>9. Covered'
  BY <1>1, <1>4, <1>5, <1>6 DEF Durable, Covered
<1>10. FatAgree(img')
  <2>1. FatA \in Sectors /\ FatB \in Sectors
    BY DEF Sectors
  <2>2. img[FatA].body = img[FatB].body
    BY DEF MatFat, FatBodiesAgree
  <2>3. MergedStatus(img, FatA) = MergedStatus(img, FatB)
    BY <1>2, <2>1, <2>2 DEF MergedStatus, Value
  <2>4. img'[FatA] = MergedStatus(img, FatA) /\ img'[FatB] = MergedStatus(img, FatB)
    BY <2>1 DEF MatFat, Mirrors
  <2> QED BY <2>3, <2>4 DEF FatAgree
<1>11. ~MayBeClean /\ ~MayBeClean'
  BY <1>1 DEF Durable, Marks, MayBeClean
<1>12. Stability'
  BY <1>1, <1>10, <1>11 DEF Stability
<1> QED BY <1>7, <1>8, <1>9, <1>12

\* recover_fsinfo_mirror writes the one sector that is not promised.
LEMMA MatFsinfoKeeps ==
    ASSUME TypeOK, Durable, MatFsinfo PROVE Replayed' /\ Safe' /\ Stability'
<1>1. /\ pc = "mat_fsinfo"
      /\ UNCHANGED <<mark, markMay, comp, compMay, io, op, id, st, seq, dseq, ri, w, allowed>>
      /\ pc' \in {"mat_fsinfo_sync", "mat_done"}
  BY DEF MatFsinfo
<1>2. \A s \in Promised : img'[s] = img[s]
  BY TypeFacts DEF MatFsinfo, ImageWrite, Promised
<1>3. Replayed'
  BY <1>1, <1>2 DEF Durable, Replayed
<1>4. Safe'
  BY <1>1, <1>2 DEF Durable, Safe, MayBeDirty
<1>5. ~MayBeClean /\ ~MayBeClean' /\ AllStable /\ FatAgree(img)
  BY <1>1 DEF Durable, Marks, MayBeClean, Stability
<1>6. FatA \in Promised /\ FatB \in Promised /\ Fsi \in Promised /\ FsiBackup \in Sectors
  BY DEF Promised, Sectors
<1>7. CASE img[Fsi] # img[FsiBackup]
  <2>1. img'[FsiBackup] = img[Fsi] /\ pc' = "mat_fsinfo_sync"
    BY <1>6, <1>7, TypeFacts DEF MatFsinfo, ImageWrite
  <2>2. Coherent'
    BY <1>2, <1>5, <1>6, <2>1 DEF Coherent, FatAgree
  <2> QED BY <1>3, <1>4, <1>5, <2>1, <2>2 DEF Stability
<1>8. CASE img[Fsi] = img[FsiBackup]
  <2>1. img' = img /\ imgMay' = imgMay /\ pc' = "mat_done"
    BY <1>8 DEF MatFsinfo
  <2>2. Coherent' /\ AllStable'
    BY <1>5, <1>8, <2>1 DEF Coherent, AllStable
  <2> QED BY <1>3, <1>4, <1>5, <2>1, <2>2 DEF Stability
<1> QED BY <1>7, <1>8

LEMMA MatReopenedKeeps == ASSUME TypeOK, Durable, MatReopened PROVE Safe'
<1>1. pc = "mat_done" /\ ~io /\ UNCHANGED storage
  BY DEF MatReopened, Durable, Control
<1>2. compMay = {comp}
  BY <1>1 DEF Durable, Settled
<1>3. CASE allowed' = allowed
  BY <1>1, <1>3 DEF Durable, Safe, MayBeDirty, storage
<1>4. CASE allowed' = [s \in Promised |-> {img[s].body}]
  <2>1. \A s \in Promised : \A n \in Redo(comp, s) :
          LastRedo(comp, s, n) => img[s].body = comp.recs[n].val.body
    BY <1>1 DEF Durable, Replayed
  <2>2. \A s \in Promised : img[s].body \in allowed'[s]
    BY <1>4
  <2> QED BY <1>1, <1>2, <2>1, <2>2 DEF Safe, storage
<1> QED BY <1>3, <1>4 DEF MatReopened, BecomeReady

\* What the session has saved, or is about to.
LEMMA SavedState ==
    ASSUME TypeOK, Durable, pc \in SaveSites, ~io
    PROVE  /\ compMay = {comp} /\ InPlace(comp) /\ comp \in Companion
           /\ st \in State /\ NewState \in State /\ st.valid /\ NewState.valid
           /\ NewState.epoch = st.epoch + 1 /\ NewState.ckpt = seq
           /\ NewState.id = id /\ st.id = id /\ id \in Ids
           /\ Load(comp) = st \/ (~Load(comp).valid /\ st.epoch = 0)
<1>1. compMay = {comp} /\ InPlace(comp) /\ comp \in Companion /\ id \in Ids
  BY TypeFacts DEF Durable, Settled, SlotsInPlace, Marks
<1>2. st \in State /\ NewState \in State
  BY NewStateTyped, TypeFacts
<1>3. NewState.valid /\ NewState.epoch = st.epoch + 1 /\ NewState.ckpt = seq /\ NewState.id = st.id
  BY DEF NewState
<1>4. CASE pc = "prepared_save"
  <2>1. comp = EmptyDir /\ st = [NoState EXCEPT !.valid = TRUE, !.id = id]
    BY <1>4 DEF Durable, Owned
  <2>2. st.valid /\ st.id = id /\ st.epoch = 0
    BY <2>1 DEF NoState
  <2> QED BY <1>1, <1>2, <1>3, <2>1, <2>2, EmptyLoads
<1>5. CASE pc # "prepared_save"
  BY <1>1, <1>2, <1>3, <1>5 DEF Durable, Owned
<1> QED BY <1>4, <1>5

\* state_save: the state that a crash leaves loadable is the old one or the
\* new one, and both own the marker; the records that the new one no longer
\* redoes are in the image.
LEMMA StateSaveKeeps ==
    ASSUME TypeOK, Durable, StateSave
    PROVE  OwnerMatchesMarker' /\ Safe' /\ Owned' /\ SlotsInPlace'
<1> DEFINE n == NewState.epoch % 2
           new == [comp EXCEPT !.slot[n] = NewState]
           gone == [comp EXCEPT !.slot[n] = NoState]
<1>1. /\ pc \in SaveSites /\ ~io /\ io' /\ comp' = new /\ compMay' = compMay \cup {gone} \cup {new}
      /\ UNCHANGED <<img, imgMay, mark, markMay, pc, op, id, st, seq, dseq, ri, w, allowed>>
  BY DEF StateSave, CompanionWrite
<1>2. /\ compMay = {comp} /\ InPlace(comp) /\ comp \in Companion
      /\ st \in State /\ NewState \in State /\ st.valid /\ NewState.valid
      /\ NewState.epoch = st.epoch + 1 /\ NewState.ckpt = seq
      /\ NewState.id = id /\ st.id = id /\ id \in Ids
      /\ Load(comp) = st \/ (~Load(comp).valid /\ st.epoch = 0)
  BY <1>1, SavedState
<1>3. /\ n \in {0, 1} /\ InPlace(new) /\ InPlace(gone) /\ Load(new) = NewState
      /\ Load(gone) = Load(comp) \/ (~Load(gone).valid /\ ~Load(comp).valid)
  BY <1>2, SavedIsLoaded
<1>4. /\ new.recs = comp.recs /\ new.exists = comp.exists /\ new.file = comp.file
      /\ gone.recs = comp.recs /\ gone.exists = comp.exists /\ gone.file = comp.file
  BY <1>2, ChangedFields
<1>5. new \in Companion
  BY <1>2, <1>3, CompanionUpdates
<1>6. NewState' = NewState
  BY <1>1 DEF NewState, SavedPhase
<1>7. pc = "prepared_save" => new = [EmptyDir EXCEPT !.slot[1] = NewState]
  <2> SUFFICES ASSUME pc = "prepared_save" PROVE new = [EmptyDir EXCEPT !.slot[1] = NewState]
    OBVIOUS
  <2>1. comp = EmptyDir /\ st.epoch = 0
    BY <1>1 DEF Durable, Owned, NoState
  <2>2. n = 1
    BY <1>2, <2>1
  <2> QED BY <2>1, <2>2
<1> HIDE DEF new, gone, n
<1>8. SlotsInPlace'
  BY <1>1, <1>2, <1>3 DEF SlotsInPlace
<1>9. Owned'
  BY <1>1, <1>2, <1>3, <1>4, <1>6, <1>7 DEF Durable, Owned
<1>10. OwnerMatchesMarker'
  <2> SUFFICES ASSUME NEW m \in markMay, NEW c \in compMay',
                      m.dirty \/ (m.id # NoId /\ c.exists /\ Load(c).valid)
               PROVE  CompanionValid(c, m)
    BY <1>1 DEF OwnerMatchesMarker
  <2>1. CASE c = comp
    BY <1>1, <1>2, <2>1 DEF Durable, OwnerMatchesMarker
  <2>2. CASE c = gone
    <3>1. CompanionValid(comp, m)
      BY <1>2, <1>3, <1>4, <2>2 DEF Durable, OwnerMatchesMarker, CompanionValid
    <3>2. Load(comp).valid => Load(gone) = Load(comp)
      BY <1>3
    <3> QED BY <1>3, <1>4, <2>2, <3>1, <3>2 DEF CompanionValid
  <2>3. CASE c = new
    <3>1. m.id = id \/ (~m.dirty /\ m.id = NoId)
      BY <1>1 DEF Durable, Marks
    <3>2. m.id = id /\ m.id # NoId
      BY <1>2, <2>3, <3>1
    <3>3. CASE m.dirty
      <4>1. pc \in {"resume_save", "ckpt_save", "pending_save"}
        BY <1>1, <3>3 DEF Durable, Marks, MayBeDirty
      <4>2. comp.exists /\ comp.file /\ NewState.phase \in DirtyPhases
        BY <1>1, <4>1 DEF Durable, Owned, NewState, SavedPhase, DirtyPhases
      <4> QED BY <1>2, <1>3, <1>4, <2>3, <3>2, <3>3, <4>2 DEF CompanionValid
    <3>4. CASE ~m.dirty
      <4>1. pc \in {"prepared_save", "clean_save"}
        BY <1>1, <3>4 DEF Durable, Marks, MayBeClean
      <4>2. NewState.phase \in CleanPhases
        BY <4>1 DEF NewState, SavedPhase, CleanPhases
      <4> QED BY <1>2, <1>3, <1>4, <2>3, <3>2, <3>4, <4>2 DEF CompanionValid
    <3> QED BY <3>3, <3>4
  <2> QED BY <1>1, <1>2, <2>1, <2>2, <2>3
<1>11. Safe'
  <2> SUFFICES ASSUME MayBeDirty PROVE Safe'
    BY <1>1 DEF Safe, MayBeDirty
  <2>1. pc \in {"resume_save", "ckpt_save", "pending_save"}
    BY <1>1 DEF Durable, Marks
  <2>2. Load(comp) = st
    BY <1>1, <2>1 DEF Durable, Owned
  <2>3. Load(gone) = Load(comp)
    BY <1>2, <1>3, <2>2
  <2>4. \A s : Redo(gone, s) = Redo(comp, s)
    BY <1>4, <2>3 DEF Redo
  <2>5. \A s : Redo(new, s) = {}
    <3>1. \A k \in 1 .. Len(new.recs) : new.recs[k].seq <= seq
      BY <1>4, <2>1 DEF Durable, Log, LogBelow
    <3> QED BY <1>2, <1>3, <1>5, <3>1, CheckpointedLog, TypeFacts
  <2>6. \A s \in Promised : img[s].body \in allowed[s]
    BY <2>1 DEF Durable, ImageAllowed
  <2> QED BY <1>1, <1>2, <1>4, <2>4, <2>5, <2>6 DEF Durable, Safe, LastRedo
<1> QED BY <1>8, <1>9, <1>10, <1>11

LEMMA StateSavedKeeps == ASSUME TypeOK, Durable, StateSaved PROVE Owned' /\ Safe'
<1>1. /\ pc \in SaveSites /\ io /\ ~io' /\ comp' = comp /\ compMay' = {comp} /\ st' = NewState
      /\ UNCHANGED <<img, imgMay, mark, markMay, id, seq, ri, w>>
  BY DEF StateSaved, CompanionSync
<1>2. Load(comp) = NewState /\ comp \in Companion /\ seq \in Nat
  BY <1>1, TypeFacts DEF Durable, Owned
<1>3. NewState.valid /\ NewState.ckpt = seq /\ NewState.id = st.id
  BY DEF NewState
<1>4. st.id = id
  <2>1. CASE pc = "prepared_save"
    BY <2>1 DEF Durable, Owned, NoState
  <2> QED BY <1>1, <2>1 DEF Durable, Owned
<1>5. pc = "prepared_save" => comp.exists /\ comp.recs = <<>> /\ NewState.phase = "Prepared"
  <2>1. pc = "prepared_save" => comp = [EmptyDir EXCEPT !.slot[1] = NewState]
    BY <1>1 DEF Durable, Owned
  <2>2. ASSUME NEW x, NEW c, c = [EmptyDir EXCEPT !.slot[1] = x] PROVE c.exists /\ c.recs = <<>>
    BY <2>2 DEF EmptyDir
  <2>3. pc = "prepared_save" => comp.exists /\ comp.recs = <<>>
    BY <2>1, <2>2
  <2> QED BY <2>3 DEF NewState, SavedPhase
<1>6. Owned'
  <2>1. CASE pc = "prepared_save"
    BY <1>1, <1>2, <1>3, <1>4, <1>5, <2>1 DEF StateSaved, Owned
  <2>2. CASE pc = "resume_save"
    <3>1. pc' = "ready" /\ NewState.phase = "Open"
      BY <2>2 DEF StateSaved, BecomeReady, NewState, SavedPhase
    <3> QED BY <1>1, <1>2, <1>3, <1>4, <2>2, <3>1 DEF Durable, Owned, DirtyPhases
  <2>3. CASE pc = "ckpt_save"
    <3>1. pc' = "ckpt_truncate" /\ NewState.phase = "Open"
      BY <2>3 DEF StateSaved, NewState, SavedPhase
    <3> QED BY <1>1, <1>2, <1>3, <1>4, <2>3, <3>1 DEF Durable, Owned, DirtyPhases
  <2>4. CASE pc = "pending_save"
    <3>1. pc' = "close_sync" /\ NewState.phase = "Clean_Pending"
      BY <2>4 DEF StateSaved, NewState, SavedPhase
    <3> QED BY <1>1, <1>2, <1>3, <1>4, <2>4, <3>1 DEF Durable, Owned, DirtyPhases
  <2>5. CASE pc = "clean_save"
    <3>1. pc' = "retire"
      BY <2>5 DEF StateSaved
    <3> QED BY <1>1, <1>2, <1>3, <1>4, <2>5, <3>1 DEF Durable, Owned
  <2> QED BY <1>1, <2>1, <2>2, <2>3, <2>4, <2>5
<1>7. Safe'
  <2> SUFFICES ASSUME MayBeDirty PROVE Safe'
    BY <1>1 DEF Safe, MayBeDirty
  <2>1. pc \in {"resume_save", "ckpt_save", "pending_save"}
    BY <1>1 DEF Durable, Marks
  <2>2. \A s : Redo(comp, s) = {}
    <3>1. \A k \in 1 .. Len(comp.recs) : comp.recs[k].seq <= seq
      BY <2>1 DEF Durable, Log, LogBelow
    <3> QED BY <1>2, <1>3, <3>1, CheckpointedLog
  <2>3. \A s \in Promised : img[s].body \in allowed[s]
    BY <2>1 DEF Durable, ImageAllowed
  <2>4. \A s \in Promised : img[s].body \in allowed'[s]
    BY <2>3 DEF StateSaved, BecomeReady
  <2> QED BY <1>1, <2>2, <2>4 DEF Safe
<1> QED BY <1>6, <1>7

\* wal_append: the new record is the last one for its sector, and its value
\* is one that the guest must be ready to find.
LEMMA WalAppendKeeps ==
    ASSUME TypeOK, Durable, WalAppend
    PROVE  OwnerMatchesMarker' /\ Safe' /\ Covered' /\ Owned' /\ SlotsInPlace'
<1> DEFINE r == [seq |-> seq + 1, lba |-> w.lba, val |-> w.val]
           d == [comp EXCEPT !.recs = Append(@, r)]
           t == [comp EXCEPT !.torn = TRUE]
<1>1. /\ pc = "append" /\ ~io /\ io' /\ comp' = d /\ compMay' = compMay \cup {t} \cup {d}
      /\ UNCHANGED <<img, imgMay, mark, markMay, pc, op, id, st, seq, dseq, ri, w, allowed>>
  BY DEF WalAppend, CompanionWrite
<1>2. comp \in Companion /\ r \in Record /\ seq \in Nat /\ st.ckpt \in Nat
  BY TypeFacts DEF Record
<1>3. d \in Companion
  BY <1>2, CompanionUpdates
<1>4. /\ d.slot = comp.slot /\ d.recs = Append(comp.recs, r)
      /\ d.exists = comp.exists /\ d.file = comp.file
      /\ t.slot = comp.slot /\ t.recs = comp.recs /\ t.exists = comp.exists /\ t.file = comp.file
  BY <1>2, ChangedFields
<1>5. Load(d) = Load(comp) /\ Load(t) = Load(comp) /\ \A s : Redo(t, s) = Redo(comp, s)
  BY <1>4, SameSlots, SameLog
<1>6. compMay = {comp} /\ Load(comp) = st /\ st.ckpt <= seq
  BY <1>1 DEF Durable, Settled, Owned
<1>7. \A s : /\ s = w.lba => LastRedo(d, s, Len(comp.recs) + 1)
             /\ s # w.lba => Redo(d, s) = Redo(comp, s)
             /\ \A n \in Redo(comp, s) : d.recs[n] = comp.recs[n]
  <2>1. r.seq > Load(comp).ckpt /\ r.lba = w.lba
    BY <1>2, <1>6
  <2>2. d.slot = comp.slot /\ d.recs = Append(comp.recs, r)
    BY <1>4
  <2> HIDE DEF r, d
  <2> TAKE s
  <2>3. /\ s = r.lba => LastRedo(d, s, Len(comp.recs) + 1)
        /\ s # r.lba => Redo(d, s) = Redo(comp, s)
        /\ \A n \in Redo(comp, s) : d.recs[n] = comp.recs[n]
    BY <1>2, <1>3, <2>1, <2>2, AppendedRedo, Zenon
  <2> QED BY <2>1, <2>3
<1>8. d.recs[Len(comp.recs) + 1].val = w.val
  <2>1. comp.recs \in Seq(Record)
    BY <1>2, LogTyped
  <2> QED BY <1>2, <1>4, <2>1
<1> HIDE DEF d, t, r
<1>9. OwnerMatchesMarker'
  BY <1>1, <1>4, <1>5, <1>6 DEF Durable, OwnerMatchesMarker, CompanionValid
<1>10. Safe'
  <2> SUFFICES ASSUME MayBeDirty PROVE Safe'
    BY <1>1 DEF Safe, MayBeDirty
  <2>1. ASSUME NEW s \in Promised
        PROVE  /\ Redo(comp, s) = {} => img[s].body \in allowed[s]
               /\ \A n \in Redo(comp, s) :
                    LastRedo(comp, s, n) => comp.recs[n].val.body \in allowed[s]
    BY <1>6 DEF Durable, Safe
  <2>2. ASSUME NEW s \in Promised
        PROVE  /\ Redo(d, s) = {} => img[s].body \in allowed[s]
               /\ \A n \in Redo(d, s) : LastRedo(d, s, n) => d.recs[n].val.body \in allowed[s]
    <3>1. CASE s # w.lba
      BY <1>7, <2>1, <3>1 DEF LastRedo
    <3>2. CASE s = w.lba
      <4>1. LastRedo(d, s, Len(comp.recs) + 1) /\ Redo(d, s) # {}
        BY <1>7, <3>2 DEF LastRedo
      <4>2. w.val.body \in allowed[s]
        BY <1>1, <3>2 DEF Durable, Writing, Control
      <4> QED BY <1>3, <1>8, <4>1, <4>2, LastRedoUnique
    <3> QED BY <3>1, <3>2
  <2> QED BY <1>1, <1>4, <1>5, <1>6, <2>1, <2>2 DEF Safe, LastRedo
<1>11. Covered'
  <2>1. \A s : Redo(d, s) = {} => Redo(comp, s) = {}
    BY <1>7 DEF LastRedo
  <2> QED BY <1>1, <1>5, <1>6, <2>1 DEF Durable, Covered
<1>12. Owned'
  BY <1>1, <1>4, <1>5, <1>6 DEF Durable, Owned
<1>13. SlotsInPlace'
  BY <1>1, <1>4, <1>6 DEF Durable, SlotsInPlace, InPlace
<1> QED BY <1>9, <1>10, <1>11, <1>12, <1>13

\* The record of the write that is applied is in the log, and is the last
\* one for its sector.
LEMMA AppliedRecord ==
    ASSUME TypeOK, Durable, pc = "apply"
    PROVE  /\ compMay = {comp} /\ comp \in Companion
           /\ LastRedo(comp, w.lba, Len(comp.recs))
           /\ comp.recs[Len(comp.recs)].val = w.val
           /\ comp.recs[Len(comp.recs)].seq = seq + 1
<1>1. ~io /\ comp \in Companion
  BY TypeFacts DEF Durable, Control
<1>2. compMay = {comp} /\ Load(comp) = st /\ st.ckpt <= seq /\ LastIsWrite
  BY <1>1 DEF Durable, Settled, Owned, Log
<1>3. /\ Len(comp.recs) \in Nat \ {0} /\ comp.recs[Len(comp.recs)].lba = w.lba
      /\ comp.recs[Len(comp.recs)].val = w.val /\ comp.recs[Len(comp.recs)].seq = seq + 1
  BY <1>1, <1>2, LogTyped DEF LastIsWrite
<1>4. Len(comp.recs) \in Redo(comp, w.lba)
  BY <1>2, <1>3, TypeFacts DEF Redo
<1> QED BY <1>1, <1>2, <1>3, <1>4, LogTyped DEF LastRedo

\* What the next recovery finds when the write has reached the image.
LEMMA AppliedSafe ==
    ASSUME TypeOK, Durable, pc = "apply", ImageWrite(w.lba, w.val), compMay' = compMay,
           markMay' = markMay,
           \A s \in Promised : allowed'[s] = allowed[s]
                               \/ (s = w.lba /\ allowed'[s] = {w.val.body})
    PROVE  Safe' /\ Covered'
<1>1. /\ compMay = {comp} /\ comp \in Companion /\ LastRedo(comp, w.lba, Len(comp.recs))
      /\ comp.recs[Len(comp.recs)].val = w.val
  BY AppliedRecord
<1>2. \A s \in Promised : s # w.lba =>
         img'[s] = img[s] /\ imgMay'[s] = imgMay[s] /\ allowed'[s] = allowed[s]
  BY TypeFacts DEF ImageWrite, Promised
<1>3. Redo(comp, w.lba) # {}
  BY <1>1 DEF LastRedo
<1>4. MayBeDirty
  BY DEF Durable, Marks, Seen, MayBeDirty, MayBeClean
<1>5. w.lba \in Promised => w.val.body \in allowed'[w.lba]
  BY DEF Durable, Writing, Control
<1>6. Safe'
  <2>1. ASSUME NEW s \in Promised
        PROVE  /\ Redo(comp, s) = {} => img'[s].body \in allowed'[s]
               /\ \A n \in Redo(comp, s) :
                    LastRedo(comp, s, n) => comp.recs[n].val.body \in allowed'[s]
    <3>1. CASE s # w.lba
      BY <1>1, <1>2, <1>4, <3>1 DEF Durable, Safe
    <3>2. CASE s = w.lba
      BY <1>1, <1>3, <1>5, <3>2, LastRedoUnique
    <3> QED BY <3>1, <3>2
  <2> QED BY <1>1, <2>1 DEF Safe
<1>7. Covered'
  BY <1>1, <1>2, <1>3 DEF Durable, Covered
<1> QED BY <1>6, <1>7

LEMMA ImageApplyKeeps ==
    ASSUME TypeOK, Durable, ImageApply
    PROVE  Writing' /\ ImageAllowed' /\ Safe' /\ Covered' /\ Log'
<1>1. /\ pc = "apply" /\ ImageWrite(w.lba, w.val) /\ seq' = seq + 1
      /\ UNCHANGED <<mark, markMay, comp, compMay, io, id, st, dseq, ri>>
  BY DEF ImageApply
<1>2. w.lba \in Sectors /\ w \in BlockWrite
  BY TypeFacts DEF TypeOK, SessionTyped
<1>3. \/ pc' = "ckpt_sync" /\ w' = w /\ allowed' = allowed
      \/ /\ ~w'.on /\ pc' \in {"ready", "ckpt_sync"}
         /\ allowed' \in {allowed, [allowed EXCEPT ![w.lba] = {w.val.body}]}
  BY <1>2 DEF ImageApply, WriteReturns, NoWrite, BlockWrite
<1>4. \A s \in Promised : allowed'[s] = allowed[s]
                          \/ (s = w.lba /\ allowed'[s] = {w.val.body})
  BY <1>3, TypeFacts
<1>5. Safe' /\ Covered'
  BY <1>1, <1>4, AppliedSafe
<1>6. img'[w.lba] = w.val /\ \A s \in Promised : s # w.lba => img'[s] = img[s]
  BY <1>1, <1>2, TypeFacts DEF ImageWrite, Promised
<1>7. w.lba \in Promised => w.val.body \in allowed[w.lba]
  BY <1>1 DEF Durable, Writing, Control
<1>8. Writing'
  BY <1>3, <1>6, <1>7 DEF Writing
<1>9. ImageAllowed'
  <2>1. \A s \in Promised : img[s].body \in allowed[s]
    BY <1>1 DEF Durable, ImageAllowed
  <2> QED BY <1>4, <1>6, <1>7, <2>1 DEF ImageAllowed
<1>10. Log'
  <2>1. LogBelow(Len(comp.recs) - 1) /\ comp.recs[Len(comp.recs)].seq = seq + 1
    BY <1>1, AppliedRecord DEF Durable, Log
  <2>2. /\ Len(comp.recs) \in Nat /\ seq \in Nat
        /\ \A n \in 1 .. Len(comp.recs) : comp.recs[n].seq \in Nat
    BY TypeFacts, LogTyped
  <2>3. ASSUME NEW n \in 1 .. Len(comp.recs) PROVE comp.recs[n].seq <= seq + 1
    <3>1. CASE n = Len(comp.recs)
      BY <2>1, <2>2, <3>1
    <3>2. CASE n \in 1 .. (Len(comp.recs) - 1)
      <4>1. comp.recs[n].seq <= seq
        BY <2>1, <3>2 DEF LogBelow
      <4> QED BY <2>2, <4>1
    <3> QED BY <2>2, <3>1, <3>2
  <2> QED BY <1>1, <1>3, <2>3 DEF Log, LogBelow
<1> QED BY <1>5, <1>8, <1>9, <1>10

\* wal_truncate: the image holds all that the log did.
LEMMA WalTruncateKeeps ==
    ASSUME TypeOK, Durable, WalTruncate
    PROVE  OwnerMatchesMarker' /\ Safe' /\ Owned' /\ SlotsInPlace'
<1> DEFINE d == [comp EXCEPT !.recs = <<>>, !.torn = FALSE]
<1>1. /\ pc = "ckpt_truncate" /\ ~io /\ io' /\ comp' = d /\ compMay' = compMay \cup {d}
      /\ UNCHANGED <<img, imgMay, mark, markMay, pc, op, id, st, seq, dseq, ri, w, allowed>>
  BY DEF WalTruncate, CompanionWrite
<1>2. d.slot = comp.slot /\ d.recs = <<>> /\ d.exists = comp.exists /\ d.file = comp.file
  BY TypeFacts, ChangedFields
<1>3. Load(d) = Load(comp) /\ \A s : Redo(d, s) = {}
  BY <1>2, SameSlots, EmptyLog
<1>4. compMay = {comp}
  BY <1>1 DEF Durable, Settled
<1> HIDE DEF d
<1>5. OwnerMatchesMarker'
  BY <1>1, <1>2, <1>3, <1>4 DEF Durable, OwnerMatchesMarker, CompanionValid
<1>6. Safe'
  BY <1>1, <1>3, <1>4 DEF Durable, Safe, ImageAllowed, MayBeDirty
<1>7. Owned'
  BY <1>1, <1>2, <1>3, <1>4 DEF Durable, Owned
<1>8. SlotsInPlace'
  BY <1>1, <1>2, <1>4 DEF Durable, SlotsInPlace, InPlace
<1> QED BY <1>5, <1>6, <1>7, <1>8

LEMMA WalTruncatedKeeps ==
    ASSUME TypeOK, Durable, WalTruncated PROVE Replayed' /\ ImageAllowed' /\ Safe'
<1>1. /\ pc = "ckpt_truncate" /\ io /\ comp' = comp /\ compMay' = {comp}
      /\ UNCHANGED <<img, imgMay, mark, markMay, id, st, seq, ri>>
  BY DEF WalTruncated, CompanionSync
<1>2. \A s : Redo(comp, s) = {}
  BY <1>1, EmptyLog DEF Durable, Owned
<1>3. Replayed'
  BY <1>1, <1>2 DEF Replayed
<1>4. \A s \in Promised : img[s].body \in allowed'[s]
  <2>1. \A s \in Promised : img[s].body \in allowed[s]
    BY <1>1 DEF Durable, ImageAllowed
  <2>2. CASE allowed' = allowed
    BY <2>1, <2>2
  <2>3. CASE allowed' = [allowed EXCEPT ![w.lba] = {w.val.body}] /\ w.on
    <3>1. img[w.lba] = w.val
      BY <1>1, <2>3 DEF Durable, Writing
    <3> QED BY <2>1, <2>3, <3>1, TypeFacts
  <2> QED BY <2>2, <2>3 DEF WalTruncated, WriteReturns
<1>5. ImageAllowed'
  BY <1>1, <1>4 DEF ImageAllowed
<1>6. Safe'
  BY <1>1, <1>2, <1>4 DEF Safe
<1> QED BY <1>3, <1>5, <1>6

\* in_process_freeze: what the failed operation left behind was possible.
LEMMA SessionFreezesKeeps ==
    ASSUME TypeOK, Durable, SessionFreezes PROVE Safe' /\ Covered'
<1>1. pc \notin {"prepare", "mkdir", "prepared_save", "wal_create", "closed"} /\ allowed' = allowed
  BY DEF SessionFreezes
<1>2. /\ \A m \in markMay' : m \in markMay
      /\ \A c \in compMay' : c \in compMay
  BY <1>1 DEF SessionFreezes, Settles, Durable, Seen
<1>3. CASE img' = img /\ imgMay' = imgMay
  <2>1. Safe'
    BY <1>1, <1>2, <1>3 DEF Durable, Safe, MayBeDirty
  <2>2. Covered'
    BY <1>2, <1>3 DEF Durable, Covered
  <2> QED BY <2>1, <2>2
<1>4. CASE pc = "apply" /\ ImageWrite(w.lba, w.val)
  <2>1. ~io
    BY <1>4 DEF Durable, Control
  <2>2. compMay' = compMay /\ markMay' = markMay
    BY <2>1 DEF SessionFreezes, Settles
  <2> QED BY <1>1, <1>4, <2>2, AppliedSafe
<1> QED BY <1>3, <1>4 DEF SessionFreezes

\* A crash: a sector that is not redone keeps its contents.
LEMMA CrashKeeps == ASSUME TypeOK, Durable, Crash PROVE Safe'
<1>1. /\ allowed' = allowed
      /\ \A m \in markMay' : m \in markMay
      /\ \A c \in compMay' : c \in compMay
      /\ \A s \in Sectors : img'[s] \in imgMay[s]
  BY DEF Crash
<1>2. \A c \in compMay : \A s \in Promised : Redo(c, s) = {} => img'[s].body = img[s].body
  BY <1>1 DEF Durable, Covered, Promised
<1> QED BY <1>1, <1>2 DEF Durable, Safe, MayBeDirty

-----------------------------------------------------------------------------
(* The session opens and prepares its companion. *)

LEMMA OpenStagedDurable == ASSUME TypeOK, Durable, OpenStaged PROVE Durable'
<1>1. Control' /\ Seen' /\ Marks' /\ Settled' /\ SlotsInPlace' /\ Owned' /\
       OwnerMatchesMarker'
  BY SMTT(20) DEF OpenStaged, TypeOK, Durable, MayBeDirty, Marker,
         CompanionValid, storage, MarkerTyped, Control, Seen, Marks, Settled,
         SlotsInPlace, Owned, OwnerMatchesMarker
<1>2. Log' /\ Replayed' /\ Writing' /\ Stability' /\ Covered' /\ Safe' /\
       ImageAllowed'
  BY SMTT(20) DEF OpenStaged, Durable, MayBeClean, MayBeDirty, AllStable,
         Coherent, storage, Log, Replayed, Writing, Stability, Covered, Safe,
         ImageAllowed
<1> QED BY <1>1, <1>2 DEF Durable

LEMMA OpenRefusedDurable == ASSUME TypeOK, Durable, OpenRefused PROVE Durable'
<1>1. Control' /\ Seen' /\ Marks' /\ Settled' /\ SlotsInPlace' /\ Owned' /\
       OwnerMatchesMarker'
  BY SMTT(20) DEF OpenRefused, Durable, storage, MayBeDirty, Control, Seen,
         Marks, Settled, SlotsInPlace, Owned, OwnerMatchesMarker
<1>2. Log' /\ Replayed' /\ Writing' /\ Stability' /\ Covered' /\ Safe' /\
       ImageAllowed'
  BY SMTT(20) DEF OpenRefused, Durable, Coherent, storage, MayBeClean,
         MayBeDirty, AllStable, Log, Replayed, Writing, Stability, Covered,
         Safe, ImageAllowed
<1> QED BY <1>1, <1>2 DEF Durable

LEMMA PrepareDirtyDurable == ASSUME TypeOK, Durable, PrepareDirty PROVE Durable'
<1>1. Control' /\ Seen' /\ Marks' /\ Settled' /\ SlotsInPlace' /\ Owned' /\
       OwnerMatchesMarker'
  BY SMTT(20) DEF PrepareDirty, Durable, MayBeClean, MayBeDirty,
         CompanionValid, storage, Control, Seen, Marks, Settled, SlotsInPlace,
         Owned, OwnerMatchesMarker
<1>2. Log' /\ Replayed' /\ Writing' /\ Stability' /\ Covered' /\ Safe' /\
       ImageAllowed'
  BY SMTT(20) DEF PrepareDirty, Durable, storage, MayBeClean, MayBeDirty,
         Marks, Log, Replayed, Writing, Stability, Covered, Safe, ImageAllowed
<1> QED BY <1>1, <1>2 DEF Durable

LEMMA PrepareCleanDurable == ASSUME TypeOK, Durable, PrepareClean PROVE Durable'
<1>1. Control' /\ Seen' /\ Marks' /\ Settled' /\ SlotsInPlace' /\ Owned' /\
       OwnerMatchesMarker'
  BY SMTT(20) DEF PrepareClean, Durable, MayBeDirty, EmptyDir, NoDir, NoState,
         InPlace, Control, Seen, Marks, Settled, SlotsInPlace, Owned,
         OwnerMatchesMarker
<1>2. Log' /\ Replayed' /\ Writing' /\ Stability' /\ Covered' /\ Safe' /\
       ImageAllowed'
  BY SMTT(20) DEF PrepareClean, Durable, MayBeDirty, Marks, AllStable,
         Coherent, Promised, MayBeClean, Log, Replayed, Writing, Stability,
         Covered, Safe, ImageAllowed
<1> QED BY <1>1, <1>2 DEF Durable

LEMMA MakeDirectoryDurable == ASSUME TypeOK, Durable, MakeDirectory PROVE Durable'
<1>1. Control' /\ Seen' /\ Marks' /\ Settled' /\ SlotsInPlace' /\ Owned'
  BY SMTT(20) DEF MakeDirectory, Durable, EmptyDir, NoState, InPlace,
         CompanionWrite, MayBeDirty, Control, Seen, Marks, Settled,
         SlotsInPlace, Owned
<1>2. Log' /\ Replayed' /\ Writing' /\ Stability' /\ Covered' /\ Safe' /\
       ImageAllowed'
  BY SMTT(20) DEF MakeDirectory, Durable, Marks, AllStable, Coherent,
         Promised, MayBeClean, MayBeDirty, Log, Replayed, Writing, Stability,
         Covered, Safe, ImageAllowed
<1> QED BY <1>1, <1>2, MakeDirectoryOwner DEF Durable

LEMMA MakeDirectorySyncedDurable == ASSUME TypeOK, Durable, MakeDirectorySynced PROVE Durable'
<1>1. Control' /\ Seen' /\ Marks' /\ Settled' /\ SlotsInPlace' /\ Owned' /\
       OwnerMatchesMarker'
  BY SMTT(20) DEF MakeDirectorySynced, Durable, CompanionSync, MayBeDirty,
         Control, Seen, Marks, Settled, SlotsInPlace, Owned,
         OwnerMatchesMarker
<1>2. Log' /\ Replayed' /\ Writing' /\ Stability' /\ Covered' /\ Safe' /\
       ImageAllowed'
  BY SMTT(20) DEF MakeDirectorySynced, Durable, Marks, AllStable, Coherent,
         Promised, MayBeClean, MayBeDirty, Log, Replayed, Writing, Stability,
         Covered, Safe, ImageAllowed
<1> QED BY <1>1, <1>2 DEF Durable

LEMMA WalCreateDurable == ASSUME TypeOK, Durable, WalCreate PROVE Durable'
<1>1. Control' /\ Seen' /\ Marks' /\ Settled'
  BY SMTT(20) DEF WalCreate, Durable, CompanionWrite, MayBeDirty, Control,
         Seen, Marks, Settled
<1>2. Log' /\ Replayed' /\ Writing' /\ Stability' /\ Covered' /\ Safe' /\
       ImageAllowed'
  BY SMTT(20) DEF WalCreate, Durable, Marks, AllStable, Coherent, Promised,
         MayBeClean, MayBeDirty, Log, Replayed, Writing, Stability, Covered,
         Safe, ImageAllowed
<1> QED BY <1>1, <1>2, WalCreateOwner DEF Durable

LEMMA WalCreatedDurable == ASSUME TypeOK, Durable, WalCreated PROVE Durable'
<1>1. Control' /\ Seen' /\ Marks' /\ Settled' /\ SlotsInPlace' /\ Owned' /\
       OwnerMatchesMarker'
  BY SMTT(20) DEF WalCreated, Durable, CompanionSync, Control, Seen, Marks,
         Settled, SlotsInPlace, Owned, OwnerMatchesMarker
<1>2. Log' /\ Replayed' /\ Writing' /\ Stability' /\ Covered' /\ Safe' /\
       ImageAllowed'
  BY SMTT(20) DEF WalCreated, Durable, AllStable, Coherent, Promised,
         MayBeClean, MayBeDirty, Marks, Log, Replayed, Writing, Stability,
         Covered, Safe, ImageAllowed
<1> QED BY <1>1, <1>2 DEF Durable

LEMMA ActivateDurable == ASSUME TypeOK, Durable, Activate PROVE Durable'
<1>1. Control' /\ Seen' /\ Marks' /\ Settled' /\ SlotsInPlace' /\ Owned'
  BY SMTT(20) DEF Activate, Durable, MarkerWrite, MayBeClean, Control, Seen,
         Marks, Settled, SlotsInPlace, Owned
<1>2. Log' /\ Replayed' /\ Writing' /\ Stability' /\ Covered' /\ ImageAllowed'
  BY SMTT(20) DEF Activate, Durable, AllStable, Coherent, MarkerWrite,
         MayBeClean, Log, Replayed, Writing, Stability, Covered, ImageAllowed
<1> QED BY <1>1, <1>2, ActivateOwner DEF Durable

LEMMA ActivatedDurable == ASSUME TypeOK, Durable, Activated PROVE Durable'
<1>1. Control' /\ Seen' /\ Marks' /\ Settled' /\ SlotsInPlace' /\ Owned' /\
       OwnerMatchesMarker'
  BY SMTT(20) DEF Activated, TypeOK, Durable, MayBeClean, CompanionValid,
         State, ImageSync, SessionTyped, Control, Seen, Marks, Settled,
         SlotsInPlace, Owned, OwnerMatchesMarker
<1>2. Log' /\ Writing' /\ Stability' /\ Covered' /\ Safe' /\ ImageAllowed'
  BY SMTT(20) DEF Activated, Durable, MayBeClean, MayBeDirty, Marks, Seen,
         Settled, ImageSync, LogBelow, Promised, Log, Writing, Stability,
         Covered, Safe, ImageAllowed
<1> QED BY <1>1, <1>2, ActivatedReplayed DEF Durable

-----------------------------------------------------------------------------
(* Recovery and materialization. *)

LEMMA RecoverRecordDurable == ASSUME TypeOK, Durable, RecoverRecord PROVE Durable'
<1>1. Control' /\ Seen' /\ Marks' /\ Settled' /\ SlotsInPlace' /\
       OwnerMatchesMarker'
  BY SMTT(20) DEF RecoverRecord, TypeOK, Durable, MayBeClean, ImageWrite,
         ImageTyped, Control, Seen, Marks, Settled, SlotsInPlace,
         OwnerMatchesMarker
<1>2. Writing' /\ Stability' /\ ImageAllowed'
  BY SMTT(20) DEF RecoverRecord, Durable, Marks, MayBeClean, Writing,
         Stability, ImageAllowed
<1> QED BY <1>1, <1>2, RecoverRecordKeeps DEF Durable

LEMMA RecoverTornDurable == ASSUME TypeOK, Durable, RecoverTorn PROVE Durable'
<1>1. Control' /\ Seen' /\ Marks' /\ Settled'
  BY SMTT(20) DEF RecoverTorn, Durable, MayBeClean, CompanionWrite, Control,
         Seen, Marks, Settled
<1>2. Writing' /\ Stability' /\ ImageAllowed'
  BY SMTT(20) DEF RecoverTorn, Durable, Marks, MayBeClean, Writing, Stability,
         ImageAllowed
<1> QED BY <1>1, <1>2, RecoverTornKeeps DEF Durable

LEMMA RecoverTornSyncedDurable == ASSUME TypeOK, Durable, RecoverTornSynced PROVE Durable'
<1>1. Control' /\ Seen' /\ Marks' /\ Settled' /\ SlotsInPlace' /\ Owned' /\
       OwnerMatchesMarker'
  BY SMTT(20) DEF RecoverTornSynced, Durable, MayBeClean, CompanionSync,
         Control, Seen, Marks, Settled, SlotsInPlace, Owned,
         OwnerMatchesMarker
<1>2. Log' /\ Replayed' /\ Writing' /\ Stability' /\ Covered' /\ Safe' /\
       ImageAllowed'
  BY SMTT(20) DEF RecoverTornSynced, Durable, MayBeClean, MayBeDirty, Marks,
         Seen, CompanionSync, LogBelow, Log, Replayed, Writing, Stability,
         Covered, Safe, ImageAllowed
<1> QED BY <1>1, <1>2 DEF Durable

LEMMA RecoverDoneDurable == ASSUME TypeOK, Durable, RecoverDone PROVE Durable'
<1>1. Control' /\ Seen' /\ Marks' /\ Settled' /\ SlotsInPlace' /\ Owned' /\
       OwnerMatchesMarker'
  BY SMTT(20) DEF RecoverDone, Durable, MayBeClean, ImageSync, Control, Seen,
         Marks, Settled, SlotsInPlace, Owned, OwnerMatchesMarker
<1>2. Log' /\ Writing' /\ Stability' /\ Covered' /\ Safe'
  BY SMTT(20) DEF RecoverDone, TypeOK, Durable, MayBeClean, MayBeDirty, Marks,
         ImageSync, Control, LogBelow, LastIsWrite, SessionTyped, BlockWrite,
         Promised, Log, Writing, Stability, Covered, Safe
<1> QED BY <1>1, <1>2, RecoverDoneKeeps DEF Durable

LEMMA RecoveredIncoherentDurable == ASSUME TypeOK, Durable, RecoveredIncoherent PROVE Durable'
<1>1. Control' /\ Seen' /\ Marks' /\ Settled' /\ SlotsInPlace' /\ Owned' /\
       OwnerMatchesMarker'
  BY SMTT(20) DEF RecoveredIncoherent, Durable, RetainImage, Forget, NoWrite,
         Control, Seen, Marks, Settled, SlotsInPlace, Owned,
         OwnerMatchesMarker
<1>2. Log' /\ Replayed' /\ Writing' /\ Stability' /\ Covered' /\ Safe' /\
       ImageAllowed'
  BY SMTT(20) DEF RecoveredIncoherent, Durable, MayBeDirty, Marks,
         RetainImage, Forget, NoWrite, Promised, MayBeClean, Log, Replayed,
         Writing, Stability, Covered, Safe, ImageAllowed
<1> QED BY <1>1, <1>2 DEF Durable

LEMMA MatReopenedDurable == ASSUME TypeOK, Durable, MatReopened PROVE Durable'
<1>1. Control' /\ Seen' /\ Marks' /\ Settled' /\ SlotsInPlace' /\ Owned' /\
       OwnerMatchesMarker'
  BY SMTT(20) DEF MatReopened, Durable, BecomeReady, storage, MayBeClean,
         Control, Seen, Marks, Settled, SlotsInPlace, Owned,
         OwnerMatchesMarker
<1>2. Log' /\ Replayed' /\ Writing' /\ Stability' /\ Covered' /\ ImageAllowed'
  BY SMTT(20) DEF MatReopened, Durable, BecomeReady, storage, Control,
         LogBelow, AllStable, Coherent, Log, Replayed, Writing, Stability,
         Covered, ImageAllowed
<1> QED BY <1>1, <1>2, MatReopenedKeeps DEF Durable

LEMMA MatFatDurable == ASSUME TypeOK, Durable, MatFat PROVE Durable'
<1>1. Control' /\ Seen' /\ Marks' /\ Settled' /\ SlotsInPlace' /\ Owned' /\
       OwnerMatchesMarker'
  BY SMTT(20) DEF MatFat, Durable, MayBeClean, Control, Seen, Marks, Settled,
         SlotsInPlace, Owned, OwnerMatchesMarker
<1>2. Log' /\ Writing' /\ ImageAllowed'
  BY SMTT(20) DEF MatFat, Durable, MergedStatus, LogBelow, Promised, Log,
         Writing, ImageAllowed
<1> QED BY <1>1, <1>2, MatFatKeeps DEF Durable

LEMMA MatFatSyncedDurable == ASSUME TypeOK, Durable, MatFatSynced PROVE Durable'
<1>1. Control' /\ Seen' /\ Marks' /\ Settled' /\ SlotsInPlace' /\ Owned' /\
       OwnerMatchesMarker'
  BY SMTT(20) DEF MatFatSynced, Durable, MayBeClean, ImageSync, Control, Seen,
         Marks, Settled, SlotsInPlace, Owned, OwnerMatchesMarker
<1>2. Log' /\ Replayed' /\ Writing' /\ Stability' /\ Covered' /\ Safe' /\
       ImageAllowed'
  BY SMTT(20) DEF MatFatSynced, Durable, Marks, AllStable, ImageSync,
         LogBelow, Promised, MayBeClean, MayBeDirty, Log, Replayed, Writing,
         Stability, Covered, Safe, ImageAllowed
<1> QED BY <1>1, <1>2 DEF Durable

LEMMA MatFsinfoDurable == ASSUME TypeOK, Durable, MatFsinfo PROVE Durable'
<1>1. Control' /\ Seen' /\ Marks' /\ Settled' /\ SlotsInPlace' /\ Owned' /\
       OwnerMatchesMarker'
  BY SMTT(20) DEF MatFsinfo, TypeOK, Durable, MayBeClean, ImageWrite,
         ImageTyped, Control, Seen, Marks, Settled, SlotsInPlace, Owned,
         OwnerMatchesMarker
<1>2. Log' /\ Writing' /\ Covered' /\ ImageAllowed'
  BY SMTT(20) DEF MatFsinfo, TypeOK, Durable, ImageTyped, ImageWrite,
         LogBelow, Promised, Log, Writing, Covered, ImageAllowed
<1> QED BY <1>1, <1>2, MatFsinfoKeeps DEF Durable

LEMMA MatFsinfoSyncedDurable == ASSUME TypeOK, Durable, MatFsinfoSynced PROVE Durable'
<1>1. Control' /\ Seen' /\ Marks' /\ Settled' /\ SlotsInPlace' /\ Owned' /\
       OwnerMatchesMarker'
  BY SMTT(20) DEF MatFsinfoSynced, Durable, MayBeClean, ImageSync, Control,
         Seen, Marks, Settled, SlotsInPlace, Owned, OwnerMatchesMarker
<1>2. Log' /\ Replayed' /\ Writing' /\ Stability' /\ Covered' /\ Safe' /\
       ImageAllowed'
  BY SMTT(20) DEF MatFsinfoSynced, Durable, Marks, AllStable, Coherent,
         ImageSync, LogBelow, Promised, MayBeDirty, Log, Replayed, Writing,
         Stability, Covered, Safe, ImageAllowed
<1> QED BY <1>1, <1>2 DEF Durable

-----------------------------------------------------------------------------
(* The state file, the redo log and the checkpoint. *)

LEMMA StateSaveDurable == ASSUME TypeOK, Durable, StateSave PROVE Durable'
<1>1. Control' /\ Seen' /\ Marks' /\ Settled'
  BY SMTT(20) DEF StateSave, Durable, MayBeClean, MayBeDirty, CompanionWrite,
         Control, Seen, Marks, Settled
<1>2. Log' /\ Replayed' /\ Writing' /\ Stability' /\ Covered' /\ ImageAllowed'
  BY SMTT(20) DEF StateSave, Durable, MayBeClean, MayBeDirty, Marks,
         AllStable, Coherent, Seen, CompanionWrite, LogBelow, Promised, Log,
         Replayed, Writing, Stability, Covered, ImageAllowed
<1> QED BY <1>1, <1>2, StateSaveKeeps DEF Durable

LEMMA StateSavedDurable == ASSUME TypeOK, Durable, StateSaved PROVE Durable'
<1>1. Control' /\ Seen' /\ Marks' /\ Settled' /\ SlotsInPlace' /\
       OwnerMatchesMarker'
  BY SMTT(20) DEF StateSaved, Durable, CompanionSync, BecomeReady, MayBeClean,
         MayBeDirty, Control, Seen, Marks, Settled, SlotsInPlace,
         OwnerMatchesMarker
<1>2. Log' /\ Replayed' /\ Writing' /\ Stability' /\ Covered' /\ ImageAllowed'
  BY SMTT(20) DEF StateSaved, Durable, Marks, AllStable, Coherent,
         CompanionSync, BecomeReady, Control, Owned, LogBelow, SessionTyped,
         BlockWrite, Promised, HistoryTyped, MayBeClean, MayBeDirty, Log,
         Replayed, Writing, Stability, Covered, ImageAllowed
<1> QED BY <1>1, <1>2, StateSavedKeeps DEF Durable

LEMMA WalAppendDurable == ASSUME TypeOK, Durable, WalAppend PROVE Durable'
<1>1. Control' /\ Seen' /\ Marks' /\ Settled'
  BY SMTT(20) DEF WalAppend, Durable, MayBeClean, CompanionWrite, Control,
         Seen, Marks, Settled
<1>2. Log' /\ Replayed' /\ Writing' /\ Stability' /\ ImageAllowed'
  BY SMTT(20) DEF WalAppend, Durable, MayBeClean, Marks, CompanionWrite,
         LogBelow, LastIsWrite, Log, Replayed, Writing, Stability,
         ImageAllowed
<1> QED BY <1>1, <1>2, WalAppendKeeps DEF Durable

LEMMA WalAppendedDurable == ASSUME TypeOK, Durable, WalAppended PROVE Durable'
<1>1. Control' /\ Seen' /\ Marks' /\ Settled' /\ SlotsInPlace' /\ Owned' /\
       OwnerMatchesMarker'
  BY SMTT(20) DEF WalAppended, Durable, MayBeClean, CompanionSync, Control,
         Seen, Marks, Settled, SlotsInPlace, Owned, OwnerMatchesMarker
<1>2. Log' /\ Replayed' /\ Writing' /\ Stability' /\ Covered' /\ Safe' /\
       ImageAllowed'
  BY SMTT(20) DEF WalAppended, Durable, MayBeClean, MayBeDirty, Marks, Seen,
         CompanionSync, LogBelow, LastIsWrite, SessionTyped, BlockWrite,
         Promised, HistoryTyped, Log, Replayed, Writing, Stability, Covered,
         Safe, ImageAllowed
<1> QED BY <1>1, <1>2 DEF Durable

LEMMA ImageApplyDurable == ASSUME TypeOK, Durable, ImageApply PROVE Durable'
<1>1. Control' /\ Seen' /\ Marks' /\ Settled' /\ SlotsInPlace' /\ Owned' /\
       OwnerMatchesMarker'
  BY SMTT(20) DEF ImageApply, TypeOK, Durable, State, ImageWrite,
         WriteReturns, NoWrite, SessionTyped, BlockWrite, ImageTyped,
         MayBeClean, Control, Seen, Marks, Settled, SlotsInPlace, Owned,
         OwnerMatchesMarker
<1>2. Replayed' /\ Stability'
  BY SMTT(20) DEF ImageApply, Durable, WriteReturns, MayBeClean, Marks,
         Replayed, Stability
<1> QED BY <1>1, <1>2, ImageApplyKeeps DEF Durable

LEMMA MirrorFsinfoDurable == ASSUME TypeOK, Durable, MirrorFsinfo PROVE Durable'
<1>1. Control' /\ Seen' /\ Marks' /\ Settled' /\ SlotsInPlace' /\ Owned' /\
       OwnerMatchesMarker'
  BY SMTT(20) DEF MirrorFsinfo, Durable, MayBeClean, storage, Control, Seen,
         Marks, Settled, SlotsInPlace, Owned, OwnerMatchesMarker
<1>2. Log' /\ Replayed' /\ Writing' /\ Stability' /\ Covered' /\ Safe' /\
       ImageAllowed'
  BY SMTT(20) DEF MirrorFsinfo, Durable, Marks, storage, Control, LogBelow,
         Promised, MayBeClean, MayBeDirty, Log, Replayed, Writing, Stability,
         Covered, Safe, ImageAllowed
<1> QED BY <1>1, <1>2 DEF Durable

LEMMA CheckpointSyncDurable == ASSUME TypeOK, Durable, CheckpointSync PROVE Durable'
<1>1. Control' /\ Seen' /\ Marks' /\ Settled' /\ SlotsInPlace' /\ Owned' /\
       OwnerMatchesMarker'
  BY SMTT(20) DEF CheckpointSync, Durable, MayBeClean, ImageSync, Control,
         Seen, Marks, Settled, SlotsInPlace, Owned, OwnerMatchesMarker
<1>2. Log' /\ Replayed' /\ Writing' /\ Stability' /\ Covered' /\ Safe' /\
       ImageAllowed'
  BY SMTT(20) DEF CheckpointSync, Durable, Marks, AllStable, ImageSync,
         LogBelow, Promised, MayBeClean, MayBeDirty, Log, Replayed, Writing,
         Stability, Covered, Safe, ImageAllowed
<1> QED BY <1>1, <1>2 DEF Durable

LEMMA WalTruncateDurable == ASSUME TypeOK, Durable, WalTruncate PROVE Durable'
<1>1. Control' /\ Seen' /\ Marks' /\ Settled'
  BY SMTT(20) DEF WalTruncate, Durable, MayBeClean, CompanionWrite, Control,
         Seen, Marks, Settled
<1>2. Log' /\ Replayed' /\ Writing' /\ Stability' /\ Covered' /\ ImageAllowed'
  BY SMTT(20) DEF WalTruncate, TypeOK, Durable, AllStable, Coherent,
         CompanionWrite, LogBelow, Promised, MayBeClean, Log, Replayed,
         Writing, Stability, Covered, ImageAllowed
<1> QED BY <1>1, <1>2, WalTruncateKeeps DEF Durable

LEMMA WalTruncatedDurable == ASSUME TypeOK, Durable, WalTruncated PROVE Durable'
<1>1. Control' /\ Seen' /\ Marks' /\ Settled' /\ SlotsInPlace' /\ Owned' /\
       OwnerMatchesMarker'
  BY SMTT(20) DEF WalTruncated, TypeOK, Durable, CompanionSync, WriteReturns,
         NoWrite, SessionTyped, BlockWrite, MayBeClean, Control, Seen, Marks,
         Settled, SlotsInPlace, Owned, OwnerMatchesMarker
<1>2. Log' /\ Writing' /\ Stability' /\ Covered'
  BY SMTT(20) DEF WalTruncated, TypeOK, Durable, AllStable, Coherent,
         CompanionSync, WriteReturns, NoWrite, LogBelow, SessionTyped,
         BlockWrite, Promised, MayBeClean, Log, Writing, Stability, Covered
<1> QED BY <1>1, <1>2, WalTruncatedKeeps DEF Durable

LEMMA BarrierReturnsDurable == ASSUME TypeOK, Durable, BarrierReturns PROVE Durable'
<1>1. Control' /\ Seen' /\ Marks' /\ Settled' /\ SlotsInPlace' /\ Owned' /\
       OwnerMatchesMarker'
  BY SMTT(20) DEF BarrierReturns, Durable, MayBeClean, storage, Control, Seen,
         Marks, Settled, SlotsInPlace, Owned, OwnerMatchesMarker
<1>2. Log' /\ Replayed' /\ Writing' /\ Stability' /\ Covered' /\ Safe' /\
       ImageAllowed'
  BY SMTT(20) DEF BarrierReturns, Durable, AllStable, Coherent, storage,
         LogBelow, MayBeClean, MayBeDirty, Log, Replayed, Writing, Stability,
         Covered, Safe, ImageAllowed
<1> QED BY <1>1, <1>2 DEF Durable

-----------------------------------------------------------------------------
(* Closing, the guest and the faults. *)

LEMMA CloseSyncDurable == ASSUME TypeOK, Durable, CloseSync PROVE Durable'
<1>1. Control' /\ Seen' /\ Marks' /\ Settled' /\ SlotsInPlace' /\ Owned' /\
       OwnerMatchesMarker'
  BY SMTT(20) DEF CloseSync, Durable, MayBeClean, ImageSync, Control, Seen,
         Marks, Settled, SlotsInPlace, Owned, OwnerMatchesMarker
<1>2. Log' /\ Replayed' /\ Writing' /\ Stability' /\ Covered' /\ Safe' /\
       ImageAllowed'
  BY SMTT(20) DEF CloseSync, Durable, Marks, AllStable, Coherent, ImageSync,
         Promised, MayBeDirty, Log, Replayed, Writing, Stability, Covered,
         Safe, ImageAllowed
<1> QED BY <1>1, <1>2 DEF Durable

LEMMA CloseMarkDurable == ASSUME TypeOK, Durable, CloseMark PROVE Durable'
<1>1. Control' /\ Seen' /\ Marks' /\ Settled' /\ SlotsInPlace' /\ Owned'
  BY SMTT(20) DEF CloseMark, Durable, MarkerWrite, Control, Seen, Marks,
         Settled, SlotsInPlace, Owned
<1>2. Log' /\ Replayed' /\ Writing' /\ Stability' /\ Covered' /\ Safe' /\
       ImageAllowed'
  BY SMTT(20) DEF CloseMark, Durable, Coherent, MarkerWrite, MayBeDirty,
         AllStable, Log, Replayed, Writing, Stability, Covered, Safe,
         ImageAllowed
<1> QED BY <1>1, <1>2, CloseMarkOwner DEF Durable

LEMMA CloseMarkedDurable == ASSUME TypeOK, Durable, CloseMarked PROVE Durable'
<1>1. Control' /\ Seen' /\ Marks' /\ Settled' /\ SlotsInPlace' /\ Owned' /\
       OwnerMatchesMarker'
  BY SMTT(20) DEF CloseMarked, Durable, ImageSync, MayBeDirty, Control, Seen,
         Marks, Settled, SlotsInPlace, Owned, OwnerMatchesMarker
<1>2. Log' /\ Replayed' /\ Writing' /\ Stability' /\ Covered' /\ Safe' /\
       ImageAllowed'
  BY SMTT(20) DEF CloseMarked, Durable, Marks, AllStable, Coherent, ImageSync,
         Promised, MayBeDirty, Log, Replayed, Writing, Stability, Covered,
         Safe, ImageAllowed
<1> QED BY <1>1, <1>2 DEF Durable

LEMMA RetireDurable == ASSUME TypeOK, Durable, Retire PROVE Durable'
<1>1. Control' /\ Seen' /\ Marks' /\ Settled'
  BY SMTT(20) DEF Retire, Durable, Forget, NoWrite, MayBeDirty, Control, Seen,
         Marks, Settled
<1>2. SlotsInPlace' /\ Owned' /\ OwnerMatchesMarker'
  BY SMTT(20) DEF Retire, Durable, MayBeDirty, Marks, Forget, EmptyDir, NoDir,
         NoState, InPlace, SlotsInPlace, Owned, OwnerMatchesMarker
<1>3. Log' /\ Replayed' /\ Writing'
  BY SMTT(20) DEF Retire, Durable, Forget, NoWrite, Log, Replayed, Writing
<1>4. Stability' /\ Covered' /\ Safe' /\ ImageAllowed'
  BY SMTT(20) DEF Retire, Durable, Coherent, Promised, MayBeClean, MayBeDirty,
         Marks, AllStable, Stability, Covered, Safe, ImageAllowed
<1> QED BY <1>1, <1>2, <1>3, <1>4 DEF Durable

LEMMA GuestWriteDurable ==
    ASSUME TypeOK, Durable, NEW s \in GuestSectors, NEW v \in GuestValue(s), GuestWrite(s, v)
    PROVE  Durable'
<1>1. Control' /\ Seen' /\ Marks' /\ Settled' /\ SlotsInPlace' /\ Owned' /\
       OwnerMatchesMarker'
  BY SMTT(20) DEF Durable, GuestWrite, storage, MayBeClean, Control, Seen,
         Marks, Settled, SlotsInPlace, Owned, OwnerMatchesMarker
<1>2. Log' /\ Replayed' /\ Writing' /\ Stability' /\ Covered' /\ Safe' /\
       ImageAllowed'
  BY SMTT(20) DEF TypeOK, Durable, HistoryTyped, MayBeClean, MayBeDirty,
         Marks, GuestWrite, storage, Control, LogBelow, Log, Replayed,
         Writing, Stability, Covered, Safe, ImageAllowed
<1> QED BY <1>1, <1>2 DEF Durable

LEMMA StartBarrierDurable ==
    ASSUME TypeOK, Durable, NEW kind \in Barriers, StartBarrier(kind)
    PROVE  Durable'
<1>1. Control' /\ Seen' /\ Marks' /\ Settled' /\ SlotsInPlace' /\ Owned' /\
       OwnerMatchesMarker'
  BY SMTT(20) DEF Durable, MayBeClean, StartBarrier, storage, Control, Seen,
         Marks, Settled, SlotsInPlace, Owned, OwnerMatchesMarker
<1>2. Log' /\ Replayed' /\ Writing' /\ Stability' /\ Covered' /\ Safe' /\
       ImageAllowed'
  BY SMTT(20) DEF Durable, Marks, StartBarrier, storage, Control, LogBelow,
         LastIsWrite, MayBeClean, MayBeDirty, Log, Replayed, Writing,
         Stability, Covered, Safe, ImageAllowed
<1> QED BY <1>1, <1>2 DEF Durable

LEMMA RequestFreezesDurable == ASSUME TypeOK, Durable, RequestFreezes PROVE Durable'
<1>1. Control' /\ Seen' /\ Marks' /\ Settled' /\ SlotsInPlace' /\ Owned' /\
       OwnerMatchesMarker'
  BY SMTT(20) DEF RequestFreezes, Durable, storage, Control, Seen, Marks,
         Settled, SlotsInPlace, Owned, OwnerMatchesMarker
<1>2. Log' /\ Replayed' /\ Writing' /\ Stability' /\ Covered' /\ Safe' /\
       ImageAllowed'
  BY SMTT(20) DEF RequestFreezes, Durable, storage, MayBeClean, MayBeDirty,
         Marks, Log, Replayed, Writing, Stability, Covered, Safe, ImageAllowed
<1> QED BY <1>1, <1>2 DEF Durable

LEMMA CloseRetainDurable == ASSUME TypeOK, Durable, CloseRetain PROVE Durable'
<1>1. Control' /\ Seen' /\ Marks' /\ Settled' /\ SlotsInPlace' /\ Owned' /\
       OwnerMatchesMarker'
  BY SMTT(20) DEF CloseRetain, Durable, RetainImage, Forget, NoWrite, Control,
         Seen, Marks, Settled, SlotsInPlace, Owned, OwnerMatchesMarker
<1>2. Log' /\ Replayed' /\ Writing' /\ Stability' /\ Covered' /\ Safe' /\
       ImageAllowed'
  BY SMTT(20) DEF CloseRetain, Durable, MayBeDirty, AllStable, Coherent,
         RetainImage, Forget, NoWrite, Promised, MayBeClean, Log, Replayed,
         Writing, Stability, Covered, Safe, ImageAllowed
<1> QED BY <1>1, <1>2 DEF Durable

LEMMA PrepareFailsDurable == ASSUME TypeOK, Durable, PrepareFails PROVE Durable'
<1>1. Control' /\ Seen' /\ Marks' /\ Settled'
  BY SMTT(20) DEF PrepareFails, Durable, Settles, Forget, NoWrite, MayBeDirty,
         Control, Seen, Marks, Settled
<1>2. SlotsInPlace' /\ Owned' /\ OwnerMatchesMarker'
  BY SMTT(20) DEF PrepareFails, Durable, InPlace, MayBeDirty, Marks, Settles,
         Forget, Seen, EmptyDir, NoDir, NoState, SlotsInPlace, Owned,
         OwnerMatchesMarker
<1>3. Log' /\ Replayed' /\ Writing'
  BY SMTT(20) DEF PrepareFails, Durable, Forget, NoWrite, Log, Replayed,
         Writing
<1>4. Stability' /\ Covered' /\ Safe' /\ ImageAllowed'
  BY SMTT(20) DEF PrepareFails, Durable, MayBeDirty, Marks, AllStable,
         Coherent, Promised, Settles, Forget, MayBeClean, Stability, Covered,
         Safe, ImageAllowed
<1> QED BY <1>1, <1>2, <1>3, <1>4 DEF Durable

LEMMA RecoverFailsDurable == ASSUME TypeOK, Durable, RecoverFails PROVE Durable'
<1>1. Control' /\ Seen' /\ Marks' /\ Settled' /\ SlotsInPlace' /\ Owned' /\
       OwnerMatchesMarker'
  BY SMTT(20) DEF RecoverFails, Durable, EmptyDir, NoDir, InPlace, Settles,
         RetainImage, Forget, NoWrite, BlockWrite, ImageTyped, MarkerTyped,
         MayBeClean, MayBeDirty, Marker, Control, Seen, Marks, Settled,
         SlotsInPlace, Owned, OwnerMatchesMarker
<1>2. Log' /\ Replayed' /\ Writing' /\ Stability' /\ Covered' /\ Safe' /\
       ImageAllowed'
  BY SMTT(20) DEF RecoverFails, TypeOK, Durable, Promised, MayBeClean,
         MayBeDirty, Marks, AllStable, Coherent, Seen, Settles, RetainImage,
         Forget, NoWrite, Log, Replayed, Writing, Stability, Covered, Safe,
         ImageAllowed
<1> QED BY <1>1, <1>2 DEF Durable

LEMMA SessionFreezesDurable == ASSUME TypeOK, Durable, SessionFreezes PROVE Durable'
<1>1. Control' /\ Seen' /\ Marks' /\ Settled' /\ SlotsInPlace' /\ Owned' /\
       OwnerMatchesMarker'
  BY SMTT(20) DEF SessionFreezes, TypeOK, Durable, Settles, ImageWrite,
         NoWrite, ImageTyped, Control, Seen, Marks, Settled, SlotsInPlace,
         Owned, OwnerMatchesMarker
<1>2. Log' /\ Replayed' /\ Writing' /\ Stability' /\ ImageAllowed'
  BY SMTT(20) DEF SessionFreezes, Durable, Marks, AllStable, Coherent,
         Settles, NoWrite, MayBeClean, Log, Replayed, Writing, Stability,
         ImageAllowed
<1> QED BY <1>1, <1>2, SessionFreezesKeeps DEF Durable

LEMMA CrashDurable == ASSUME TypeOK, Durable, Crash PROVE Durable'
<1>1. Control' /\ Seen' /\ Marks' /\ Settled' /\ SlotsInPlace' /\ Owned' /\
       OwnerMatchesMarker'
  BY SMTT(20) DEF Crash, Durable, Forget, NoWrite, Control, Seen, Marks,
         Settled, SlotsInPlace, Owned, OwnerMatchesMarker
<1>2. Log' /\ Replayed' /\ Writing' /\ Stability' /\ Covered' /\ ImageAllowed'
  BY SMTT(20) DEF Crash, TypeOK, Durable, AllStable, Coherent, ImageTyped,
         Forget, NoWrite, Promised, MayBeClean, Log, Replayed, Writing,
         Stability, Covered, ImageAllowed
<1> QED BY <1>1, <1>2, CrashKeeps DEF Durable

-----------------------------------------------------------------------------
(* The invariant is kept.                                                  *)

LEMMA InitDurable == Init => Durable
<1> SUFFICES ASSUME Init PROVE Durable
  OBVIOUS
<1>1. /\ ~mark.dirty /\ markMay = {mark} /\ compMay = {comp} /\ comp = NoDir
      /\ pc = "closed" /\ ~io /\ op = "none" /\ ~w.on /\ seq = 0 /\ ri = 1
  BY DEF Init
<1>2. \A s \in Sectors : img[s] = [body |-> InitialBody, ok |-> TRUE] /\ imgMay[s] = {img[s]}
  BY DEF Init
<1>3. Control /\ Seen /\ Marks /\ Settled /\ Owned /\ Log /\ Replayed /\ Writing
  BY <1>1, <1>2 DEF Control, Seen, Marks, Settled, Owned, Log, Replayed, Writing,
       MayBeClean, MayBeDirty
<1>4. Stability
  BY <1>1, <1>2 DEF Stability, AllStable, Coherent, FatAgree, Sectors
<1>5. Covered /\ Safe /\ ImageAllowed
  BY <1>1, <1>2 DEF Init, Covered, Safe, ImageAllowed, MayBeDirty, Promised
<1>6. SlotsInPlace /\ OwnerMatchesMarker
  BY <1>1, EmptyLoads DEF SlotsInPlace, OwnerMatchesMarker
<1> QED BY <1>3, <1>4, <1>5, <1>6 DEF Durable

LEMMA StutterDurable == ASSUME Durable, UNCHANGED vars PROVE Durable'
<1>1. Control' /\ Seen' /\ Marks' /\ Settled' /\ SlotsInPlace' /\ OwnerMatchesMarker'
  BY DEF vars, Durable, Control, Seen, Marks, Settled, SlotsInPlace, OwnerMatchesMarker,
         MayBeClean, MayBeDirty
<1>2. Owned' /\ Log' /\ Replayed' /\ Writing'
  BY DEF vars, Durable, Owned, Log, Replayed, Writing, NewState, SavedPhase, LogBelow,
         LastIsWrite, MayBeClean
<1>3. Stability' /\ Covered' /\ Safe' /\ ImageAllowed'
  BY DEF vars, Durable, Stability, Covered, Safe, ImageAllowed, AllStable, Coherent,
         MayBeClean, MayBeDirty
<1> QED BY <1>1, <1>2, <1>3 DEF Durable

LEMMA StepDurable == TypeOK /\ Durable /\ [Next]_vars => Durable'
<1> SUFFICES ASSUME TypeOK, Durable, [Next]_vars PROVE Durable'
  OBVIOUS
<1>1. CASE Open \/ Prepare
  BY <1>1, OpenStagedDurable, OpenRefusedDurable, PrepareDirtyDurable, PrepareCleanDurable,
     MakeDirectoryDurable, MakeDirectorySyncedDurable, WalCreateDurable, WalCreatedDurable,
     ActivateDurable, ActivatedDurable DEF Open, Prepare
<1>2. CASE Recover \/ Materialize
  BY <1>2, RecoverRecordDurable, RecoverTornDurable, RecoverTornSyncedDurable, RecoverDoneDurable,
     RecoveredIncoherentDurable, MatReopenedDurable, MatFatDurable, MatFatSyncedDurable,
     MatFsinfoDurable, MatFsinfoSyncedDurable DEF Recover, Materialize
<1>3. CASE Save \/ Write \/ Barrier
  BY <1>3, StateSaveDurable, StateSavedDurable, WalAppendDurable, WalAppendedDurable,
     ImageApplyDurable, MirrorFsinfoDurable, CheckpointSyncDurable, WalTruncateDurable,
     WalTruncatedDurable, BarrierReturnsDurable DEF Save, Write, Barrier
<1>4. CASE Close \/ Guest \/ Fault
  BY <1>4, CloseSyncDurable, CloseMarkDurable, CloseMarkedDurable, RetireDurable,
     GuestWriteDurable, StartBarrierDurable, RequestFreezesDurable, CloseRetainDurable,
     PrepareFailsDurable, RecoverFailsDurable, SessionFreezesDurable, CrashDurable DEF Close, Guest, Fault
<1>5. CASE UNCHANGED vars
  BY <1>5, StutterDurable
<1> QED BY <1>1, <1>2, <1>3, <1>4, <1>5 DEF Next, Progress

-----------------------------------------------------------------------------
(* The theorems.                                                           *)

\* What a crash may leave, recovery turns into what is allowed.
LEMMA DurableKeepsWrites == ASSUME TypeOK, Durable PROVE NoAckedWriteLost
<1> SUFFICES ASSUME NEW m \in markMay, NEW c \in compMay, NEW s \in Promised,
                    NEW v \in imgMay[s]
             PROVE  (IF m.dirty THEN Recovered(c, s, v) ELSE v).body \in allowed[s]
  BY DEF NoAckedWriteLost
<1>1. CASE ~m.dirty
  <2>1. MayBeClean
    BY <1>1 DEF MayBeClean
  <2>2. v = img[s]
    BY <2>1 DEF Durable, Stability, AllStable, Promised
  <2> QED BY <1>1, <2>1, <2>2 DEF Durable, ImageAllowed
<1>2. CASE m.dirty
  <2>1. MayBeDirty /\ c \in Companion
    BY <1>2, TypeFacts DEF MayBeDirty
  <2>2. CASE Redo(c, s) = {}
    <3>1. v.body = img[s].body /\ img[s].body \in allowed[s]
      BY <2>1, <2>2 DEF Durable, Covered, Safe
    <3> QED BY <1>2, <2>2, <3>1 DEF Recovered
  <2>3. CASE Redo(c, s) # {}
    <3> DEFINE last == CHOOSE n \in Redo(c, s) : \A k \in Redo(c, s) : k <= n
    <3>1. \E n \in Redo(c, s) : \A k \in Redo(c, s) : k <= n
      BY <2>1, <2>3, LastRedoExists DEF LastRedo
    <3>2. last \in Redo(c, s) /\ \A k \in Redo(c, s) : k <= last
      BY <3>1
    <3>3. Recovered(c, s, v) = c.recs[last].val
      BY <2>3 DEF Recovered
    <3> HIDE DEF last
    <3>4. c.recs[last].val.body \in allowed[s]
      BY <2>1, <3>2 DEF Durable, Safe, LastRedo
    <3> QED BY <1>2, <3>3, <3>4
  <2> QED BY <2>2, <2>3
<1> QED BY <1>1, <1>2

\* The invariant from which the theorems follow holds in every behaviour.
THEOREM AlwaysDurable == Spec => [](TypeOK /\ Durable)
<1>1. Init => TypeOK /\ Durable
  BY InitTyped, InitDurable
<1>2. (TypeOK /\ Durable) /\ [Next]_vars => (TypeOK /\ Durable)'
  BY StepTyped, StepDurable
<1> QED BY <1>1, <1>2, PTL DEF Spec

\* No crash and no I/O error, at any point of a session, a recovery or a
\* close, loses a write that in_process_block_write acknowledged: wal_append
\* before the image, the image before the checkpoint, the checkpoint before
\* wal_truncate, and all of them before the clean marker.
THEOREM AckedWritesSurvive == Spec => []NoAckedWriteLost
<1>1. TypeOK /\ Durable => NoAckedWriteLost
  BY DurableKeepsWrites
<1> QED BY <1>1, AlwaysDurable, PTL

\* Whichever of the two state slots and of the two markers a crash leaves,
\* companion_state_validate finds the owner that the marker asks for.
THEOREM OwnerAlwaysFound == Spec => []OwnerMatchesMarker
<1>1. TypeOK /\ Durable => OwnerMatchesMarker
  BY DEF Durable
<1> QED BY <1>1, AlwaysDurable, PTL

\* fat32image.close writes the clean marker only beside FAT mirrors and
\* FSInfo sectors that agree on stable storage.
THEOREM CleanMeansCoherent == Spec => []CleanImageIsCoherent
<1>1. TypeOK /\ Durable => CleanImageIsCoherent
  <2> SUFFICES ASSUME TypeOK, Durable, NEW m \in markMay, ~m.dirty
               PROVE  /\ \A a \in imgMay[FatA], b \in imgMay[FatB] : a = b
                      /\ \A a \in imgMay[Fsi], b \in imgMay[FsiBackup] : a = b
    BY DEF CleanImageIsCoherent
  <2>1. AllStable /\ Coherent
    BY DEF Durable, Stability, MayBeClean
  <2> QED BY <2>1 DEF AllStable, Coherent, FatAgree, Sectors
<1> QED BY <1>1, AlwaysDurable, PTL

-----------------------------------------------------------------------------
(* The barrier.                                                            *)

BarrierAnswers == op \in Barriers /\ op' = "none" /\ pc' = "ready"
StableAndTruncated ==
    /\ \A s \in Sectors : imgMay'[s] = {img'[s]}
    /\ \A c \in compMay' : c.recs = <<>> /\ Load(c).ckpt = dseq'

\* Only the end of wal_checkpoint and of materialize_filesystem answer one.
LEMMA BarrierEnds ==
    ASSUME TypeOK, Durable, [Next]_vars, BarrierAnswers PROVE WalTruncated \/ BarrierReturns
<1> USE DEF BarrierAnswers
<1>1. ~UNCHANGED vars
  BY DEF vars
<1>2. ~Open /\ ~Prepare
  BY DEF Open, OpenStaged, OpenRefused, Prepare, PrepareDirty, PrepareClean, MakeDirectory,
         MakeDirectorySynced, WalCreate, WalCreated, Activate, Activated
<1>3. ~Recover
  BY DEF Recover, RecoverRecord, RecoverTorn, RecoverTornSynced, RecoverDone,
         RecoveredIncoherent, Forget, MatReopened
<1>4. ~Materialize
  BY DEF Materialize, MatFat, MatFatSynced, MatFsinfo, MatFsinfoSynced
<1>5. ~Save
  BY DEF Save, StateSave, StateSaved, BecomeReady, Durable, Control
<1>6. ~Write
  BY DEF Write, WalAppend, WalAppended, ImageApply, WriteReturns
<1>7. ~Close /\ ~Fault
  BY DEF Close, CloseSync, CloseMark, CloseMarked, Retire, Fault, PrepareFails, RecoverFails,
         SessionFreezes, Crash, Forget
<1>8. ~Guest
  BY DEF Guest, GuestWrite, StartBarrier, RequestFreezes, CloseRetain, Forget, Durable, Control
<1> QED BY <1>1, <1>2, <1>3, <1>4, <1>5, <1>6, <1>7, <1>8
     DEF Next, Progress, Barrier, MirrorFsinfo, CheckpointSync, WalTruncate

\* When in_process_barrier answers, the image is on stable storage and no
\* record of the log is needed any more.
THEOREM BarrierIsDurable == Spec => BarrierMakesImageStable
<1>1. TypeOK /\ Durable /\ [Next]_vars => [BarrierAnswers => StableAndTruncated]_vars
  <2> SUFFICES ASSUME TypeOK, Durable, [Next]_vars, BarrierAnswers PROVE StableAndTruncated
    OBVIOUS
  <2>1. CASE WalTruncated
    <3>1. /\ pc = "ckpt_truncate" /\ io /\ comp' = comp /\ compMay' = {comp} /\ dseq' = seq
          /\ UNCHANGED <<img, imgMay>>
      BY <2>1 DEF WalTruncated, CompanionSync
    <3>2. AllStable /\ comp.recs = <<>> /\ Load(comp) = st /\ st.ckpt = seq
      BY <3>1 DEF Durable, Stability, Owned
    <3> QED BY <3>1, <3>2 DEF StableAndTruncated, AllStable
  <2>2. CASE BarrierReturns
    <3>1. pc \in {"mat_done", "mat_fat"} /\ op # "open" /\ UNCHANGED <<storage, dseq>>
      BY <2>2 DEF BarrierReturns
    <3>2. AllStable /\ ~io
      BY <3>1 DEF Durable, Stability, Control
    <3>3. compMay = {comp} /\ comp.recs = <<>> /\ Load(comp) = st /\ st.ckpt = dseq
      BY <3>1, <3>2 DEF Durable, Settled, Owned
    <3> QED BY <3>1, <3>2, <3>3 DEF StableAndTruncated, AllStable, storage
  <2> QED BY <2>1, <2>2, BarrierEnds
<1>2. Spec => [][BarrierAnswers => StableAndTruncated]_vars
  BY <1>1, AlwaysDurable, PTL DEF Spec
<1> QED BY <1>2, PTL DEF BarrierMakesImageStable, BarrierAnswers, StableAndTruncated

-----------------------------------------------------------------------------
(* The session implements DurableDisk.                                     *)

\* A step that a reader of the disk cannot see, and one that takes it away.
LEMMA DiskStutters ==
    ASSUME Up' <=> Up, Up => \A s \in Promised : img'[s].body = img[s].body, allowed' = allowed
    PROVE  UNCHANGED Disk!dvars
<1>1. [s \in Promised |-> IF Up' THEN img'[s].body ELSE InitialBody]
        = [s \in Promised |-> IF Up THEN img[s].body ELSE InitialBody]
  OBVIOUS
<1>2. Up' = Up
  BY DEF Up
<1> QED BY <1>1, <1>2 DEF Disk!dvars

LEMMA DiskGoesDown == ASSUME ~Up', allowed' = allowed PROVE [Disk!DNext]_(Disk!dvars)
<1>1. CASE ~Up
  BY <1>1, DiskStutters
<1>2. CASE Up
  <2>1. Disk!Down
    BY <1>2 DEF Disk!Down, Up
  <2> QED BY <2>1 DEF Disk!DNext
<1> QED BY <1>1, <1>2

\* The end of a recovery: what the image holds is allowed, and is promised
\* from then on.
LEMMA DiskReturns ==
    ASSUME TypeOK, ~Up, Up', \A s \in Promised : img[s].body \in allowed[s], img' = img,
           allowed' = [s \in Promised |-> {img[s].body}]
    PROVE  Disk!DNext
<1>1. \A s \in Promised : img[s].body \in Bodies
  BY TypeFacts DEF Promised, Value
<1>2. [s \in Promised |-> IF Up' THEN img'[s].body ELSE InitialBody]
        = [s \in Promised |-> img[s].body]
  OBVIOUS
<1>3. Disk!Return
  BY <1>1, <1>2 DEF Disk!Return, Up
<1> QED BY <1>3 DEF Disk!DNext

\* A block write that reaches the image.
LEMMA DiskTakesWrite ==
    ASSUME TypeOK, Durable, ImageApply PROVE [Disk!DNext]_(Disk!dvars)
<1> DEFINE D == [s \in Promised |-> IF Up THEN img[s].body ELSE InitialBody]
           E == [s \in Promised |-> IF Up' THEN img'[s].body ELSE InitialBody]
<1>1. pc = "apply" /\ op \in Barriers \cup {"write"} /\ w.on
  BY DEF ImageApply, Durable, Control
<1>2. Up /\ Up'
  BY <1>1 DEF ImageApply, WriteReturns, Up
<1>3. w.lba \in Sectors /\ w.val.body \in Bodies /\ allowed \in [Promised -> SUBSET Bodies]
  BY TypeFacts DEF Value
<1>4. img' = [img EXCEPT ![w.lba] = w.val] /\ img \in [Sectors -> Value]
  BY TypeFacts DEF ImageApply, ImageWrite
<1>5. CASE w.lba \notin Promised
  <2>1. \A s \in Promised : img'[s] = img[s]
    BY <1>4, <1>5 DEF Promised
  <2>2. allowed' = allowed
    BY <1>5 DEF ImageApply, WriteReturns
  <2> QED BY <1>2, <2>1, <2>2, DiskStutters
<1>6. CASE w.lba \in Promised
  <2> PICK b \in Promised, x \in Bodies : b = w.lba /\ x = w.val.body
    BY <1>3, <1>6
  <2>1. op = "write" /\ w.val.body \in allowed[w.lba]
    BY <1>1, <1>6 DEF Durable, Control, Writing, Promised
  <2>2. E = [D EXCEPT ![w.lba] = w.val.body]
    BY <1>2, <1>4, <1>6 DEF Promised
  <2>3. Up' = Up
    BY <1>2 DEF Up
  <2>4. CASE allowed' = allowed
    <3>1. Disk!Effect(b, x)
      BY <1>2, <2>1, <2>2, <2>3, <2>4 DEF Disk!Effect
    <3> QED BY <3>1 DEF Disk!DNext
  <2>5. CASE allowed' = [allowed EXCEPT ![w.lba] = {w.val.body}]
    <3>1. Disk!Complete(b, x)
      BY <1>2, <2>1, <2>2, <2>3, <2>5 DEF Disk!Complete
    <3> QED BY <3>1 DEF Disk!DNext
  <2> QED BY <1>6, <2>1, <2>4, <2>5 DEF ImageApply, WriteReturns
<1> QED BY <1>5, <1>6

\* A block write that is answered after a checkpoint.
LEMMA DiskAnswersWrite ==
    ASSUME TypeOK, Durable, WalTruncated PROVE [Disk!DNext]_(Disk!dvars)
<1>1. pc = "ckpt_truncate" /\ op \in Barriers \cup {"write"} /\ img' = img
  BY DEF WalTruncated, Durable, Control
<1>2. Up /\ Up'
  BY <1>1 DEF WalTruncated, WriteReturns, Up
<1>3. CASE allowed' = allowed
  BY <1>1, <1>2, <1>3, DiskStutters
<1>4. CASE w.on /\ w.lba \in Promised /\ allowed' = [allowed EXCEPT ![w.lba] = {w.val.body}]
  <2>1. img[w.lba] = w.val
    BY <1>1, <1>4 DEF Durable, Writing
  <2>2. [s \in Promised |-> IF Up THEN img[s].body ELSE InitialBody][w.lba] = w.val.body
    BY <1>2, <1>4, <2>1
  <2>3. [s \in Promised |-> IF Up' THEN img'[s].body ELSE InitialBody]
          = [s \in Promised |-> IF Up THEN img[s].body ELSE InitialBody]
    BY <1>1, <1>2
  <2>4. Up' = Up
    BY <1>2 DEF Up
  <2>5. Disk!Acknowledge(w.lba)
    BY <1>2, <1>4, <2>2, <2>3, <2>4 DEF Disk!Acknowledge
  <2> QED BY <1>4, <2>5 DEF Disk!DNext
<1> QED BY <1>3, <1>4 DEF WalTruncated, WriteReturns

\* A block write that is received.
LEMMA DiskReceives ==
    ASSUME TypeOK, Durable, NEW s \in GuestSectors, NEW v \in GuestValue(s), GuestWrite(s, v)
    PROVE  [Disk!DNext]_(Disk!dvars)
<1>1. pc = "ready" /\ op = "none" /\ op' = "write" /\ pc' = "append" /\ img' = img
  BY DEF GuestWrite, storage, Durable, Control
<1>2. Up /\ Up'
  BY <1>1 DEF Up
<1>3. CASE s \notin Promised
  BY <1>1, <1>2, <1>3, DiskStutters DEF GuestWrite
<1>4. CASE s \in Promised
  <2>1. v.body \in Bodies
    BY DEF GuestValue, Value
  <2>2. [x \in Promised |-> IF Up' THEN img'[x].body ELSE InitialBody]
          = [x \in Promised |-> IF Up THEN img[x].body ELSE InitialBody]
    BY <1>1, <1>2
  <2>3. Up' = Up
    BY <1>2 DEF Up
  <2>4. Disk!Receive(s, v.body)
    BY <1>2, <1>4, <2>2, <2>3 DEF Disk!Receive, GuestWrite
  <2> QED BY <1>4, <2>1, <2>4 DEF Disk!DNext
<1> QED BY <1>3, <1>4

\* Every step of the session is a step of the disk, or none.
LEMMA DiskStep == ASSUME TypeOK, Durable, [Next]_vars PROVE [Disk!DNext]_(Disk!dvars)
<1>0. CASE UNCHANGED vars
  BY <1>0, DiskStutters DEF vars, Up
<1>1. CASE Open \/ Prepare
  <2>1. ~Up'
    BY <1>1 DEF Durable, Control, Up, Open, OpenStaged, OpenRefused, Prepare, PrepareDirty,
         PrepareClean, MakeDirectory, MakeDirectorySynced, WalCreate, WalCreated, Activate,
         Activated
  <2>2. allowed' = allowed
    BY <1>1 DEF Open, OpenStaged, OpenRefused, Prepare, PrepareDirty,
         PrepareClean, MakeDirectory, MakeDirectorySynced, WalCreate, WalCreated, Activate,
         Activated
  <2> QED BY <2>1, <2>2, DiskGoesDown
<1>2. CASE RecoverRecord \/ RecoverTorn \/ RecoverTornSynced \/ RecoverDone \/ RecoveredIncoherent
  <2>1. ~Up' /\ allowed' = allowed
    BY <1>2 DEF Durable, Control, Up, RecoverRecord, RecoverTorn, RecoverTornSynced, RecoverDone,
         RecoveredIncoherent, Forget
  <2> QED BY <2>1, DiskGoesDown
<1>3. CASE MatReopened
  <2>1. pc = "mat_done" /\ op = "open" /\ img' = img
    BY <1>3 DEF MatReopened, storage
  <2>2. CASE pc' = "resume_save"
    <3>1. ~Up' /\ allowed' = allowed
      BY <1>3, <2>1, <2>2 DEF MatReopened, BecomeReady, Up
    <3> QED BY <3>1, DiskGoesDown
  <2>3. CASE BecomeReady(st.ckpt)
    <3>1. ~Up /\ Up' /\ allowed' = [s \in Promised |-> {img[s].body}]
      BY <2>1, <2>3 DEF BecomeReady, Up
    <3>2. \A s \in Promised : img[s].body \in allowed[s]
      BY <2>1 DEF Durable, ImageAllowed
    <3> QED BY <2>1, <3>1, <3>2, DiskReturns
  <2> QED BY <1>3, <2>2, <2>3 DEF MatReopened
<1>4. CASE Materialize
  <2>1. allowed' = allowed /\ (Up' <=> Up)
    BY <1>4 DEF Materialize, MatFat, MatFatSynced, MatFsinfo, MatFsinfoSynced, Up
  <2>2. \A s \in Promised : img'[s].body = img[s].body
    <3>1. CASE MatFat
      <4>1. \A s \in Sectors : MergedStatus(img, s).body = img[s].body
        BY TypeFacts DEF MergedStatus, Value
      <4> QED BY <3>1, <4>1 DEF MatFat, Promised
    <3>2. CASE MatFsinfo
      BY <3>2, TypeFacts DEF MatFsinfo, ImageWrite, Promised
    <3> QED BY <1>4, <3>1, <3>2 DEF Materialize, MatFatSynced, MatFsinfoSynced, ImageSync
  <2> QED BY <2>1, <2>2, DiskStutters
<1>5. CASE StateSave
  <2>1. allowed' = allowed /\ img' = img /\ (Up' <=> Up)
    BY <1>5 DEF StateSave, Up
  <2> QED BY <2>1, DiskStutters
<1>6. CASE StateSaved
  <2>1. CASE pc = "resume_save"
    <3>1. op = "open" /\ img' = img
      BY <1>6, <2>1 DEF StateSaved, Durable, Control
    <3>2. ~Up /\ Up' /\ allowed' = [s \in Promised |-> {img[s].body}]
      BY <1>6, <2>1, <3>1 DEF StateSaved, BecomeReady, Up
    <3>3. \A s \in Promised : img[s].body \in allowed[s]
      BY <2>1 DEF Durable, ImageAllowed
    <3> QED BY <3>1, <3>2, <3>3, DiskReturns
  <2>2. CASE pc # "resume_save"
    <3>1. allowed' = allowed /\ img' = img /\ (Up' <=> Up)
      BY <1>6, <2>2 DEF StateSaved, Up
    <3> QED BY <3>1, DiskStutters
  <2> QED BY <2>1, <2>2
<1>7. CASE WalAppend \/ WalAppended
  <2>1. allowed' = allowed /\ img' = img /\ (Up' <=> Up)
    BY <1>7 DEF WalAppend, WalAppended, Up
  <2> QED BY <2>1, DiskStutters
<1>8. CASE MirrorFsinfo \/ CheckpointSync \/ WalTruncate \/ BarrierReturns
  <2>1. allowed' = allowed /\ img' = img /\ (Up' <=> Up)
    BY <1>8 DEF MirrorFsinfo, CheckpointSync, ImageSync, WalTruncate, BarrierReturns, storage, Up
  <2> QED BY <2>1, DiskStutters
<1>9. CASE CloseSync \/ CloseMark \/ CloseMarked
  <2>1. allowed' = allowed /\ img' = img /\ (Up' <=> Up)
    BY <1>9 DEF CloseSync, CloseMark, CloseMarked, ImageSync, Up
  <2> QED BY <2>1, DiskStutters
<1>10. CASE Retire \/ RequestFreezes \/ CloseRetain \/ Fault
  <2>1. ~Up' /\ allowed' = allowed
    BY <1>10 DEF Retire, RequestFreezes, CloseRetain, Fault, PrepareFails, RecoverFails,
         SessionFreezes, Crash, Forget, Up
  <2> QED BY <2>1, DiskGoesDown
<1>11. CASE \E kind \in Barriers : StartBarrier(kind)
  <2>1. allowed' = allowed /\ img' = img /\ (Up' <=> Up)
    BY <1>11 DEF StartBarrier, storage, Up, Durable, Control
  <2> QED BY <2>1, DiskStutters
<1> QED BY <1>0, <1>1, <1>2, <1>3, <1>4, <1>5, <1>6, <1>7, <1>8, <1>9, <1>10, <1>11,
      DiskTakesWrite, DiskAnswersWrite, DiskReceives
    DEF Next, Progress, Recover, Save, Write, Barrier, Close, Guest

\* A Machine session is the disk of DurableDisk: reads while the session is
\* up, promised contents over crashes, failures, recoveries and closes.
THEOREM SessionImplementsDisk == Spec => ImplementsDurableDisk
<1>1. Init => Disk!DInit
  BY DEF Init, Disk!DInit, Up
<1>2. TypeOK /\ Durable /\ [Next]_vars => [Disk!DNext]_(Disk!dvars)
  BY DiskStep
<1> QED BY <1>1, <1>2, AlwaysDurable, PTL DEF Spec, ImplementsDurableDisk, Disk!DSpec

=============================================================================
