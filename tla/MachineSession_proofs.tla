----------------------- MODULE MachineSession_proofs -----------------------
(***************************************************************************)
(* Machine-checked proofs about MachineSession, for every set of data      *)
(* sectors, contents and identities and every value of the bounds.         *)
(***************************************************************************)
EXTENDS MachineSession, TLAPS

-----------------------------------------------------------------------------
(* Facts about the operators of the model.                                 *)

USE SectorsDistinct, ConstantTypes

\* The constant states and directories have their types.
LEMMA ConstantsTyped ==
    /\ NoState \in State
    /\ EmptyDir \in Companion
    /\ NoDir \in Companion
<1>1. NoState \in State
  BY DEF NoState, State, Phases
<1>2. <<>> \in Seq(Record)
  OBVIOUS
<1>3. EmptyDir \in Companion
  BY <1>1, <1>2 DEF EmptyDir, Companion
<1>4. NoDir \in Companion
  BY <1>3 DEF NoDir, Companion
<1> QED BY <1>1, <1>3, <1>4

\* Loading a state from a directory yields a state.
LEMMA LoadTyped == ASSUME NEW c \in Companion PROVE Load(c) \in State
<1>1. c.slot[0] \in State /\ c.slot[1] \in State
  BY DEF Companion
<1> QED BY <1>1 DEF Load

\* state_save builds a state.
LEMMA NewStateTyped == ASSUME TypeOK PROVE NewState \in State
<1>1. SavedPhase \in Phases
  BY DEF SavedPhase, Phases
<1>2. st \in State /\ seq \in Nat
  BY DEF TypeOK, SessionTyped
<1> QED BY <1>1, <1>2 DEF NewState, State

\* The changes that the operations make to a companion directory.
LEMMA CompanionUpdates ==
    ASSUME NEW c \in Companion
    PROVE  /\ [c EXCEPT !.file = TRUE] \in Companion
           /\ [c EXCEPT !.torn = TRUE] \in Companion
           /\ [c EXCEPT !.torn = FALSE] \in Companion
           /\ [c EXCEPT !.recs = <<>>, !.torn = FALSE] \in Companion
           /\ \A n \in {0, 1} : \A x \in State :
                 [c EXCEPT !.slot[n] = x] \in Companion
           /\ \A r \in Record : [c EXCEPT !.recs = Append(@, r)] \in Companion
<1>1. [c EXCEPT !.file = TRUE] \in Companion
  BY DEF Companion
<1>2. [c EXCEPT !.torn = TRUE] \in Companion
  BY DEF Companion
<1>3. [c EXCEPT !.torn = FALSE] \in Companion
  BY DEF Companion
<1>4. [c EXCEPT !.recs = <<>>, !.torn = FALSE] \in Companion
  <2>1. <<>> \in Seq(Record)
    OBVIOUS
  <2> QED BY <2>1 DEF Companion
<1>5. ASSUME NEW n \in {0, 1}, NEW x \in State
      PROVE  [c EXCEPT !.slot[n] = x] \in Companion
  BY DEF Companion
<1>6. ASSUME NEW r \in Record
      PROVE  [c EXCEPT !.recs = Append(@, r)] \in Companion
  <2>1. Append(c.recs, r) \in Seq(Record)
    BY DEF Companion
  <2> QED BY <2>1 DEF Companion
<1> QED BY <1>1, <1>2, <1>3, <1>4, <1>5, <1>6

-----------------------------------------------------------------------------
(* Type correctness: what each storage operation does to the part of the   *)
(* type invariant that it touches.                                         *)

LEMMA ImageWriteTyped ==
    ASSUME ImageTyped, NEW s \in Sectors, NEW v \in Value, ImageWrite(s, v)
    PROVE  ImageTyped'
BY DEF ImageTyped, ImageWrite

LEMMA ImageSyncTyped ==
    ASSUME ImageTyped, MarkerTyped, ImageSync
    PROVE  ImageTyped' /\ MarkerTyped'
<1>1. ImageTyped'
  BY DEF ImageTyped, ImageSync
<1>2. MarkerTyped'
  BY DEF MarkerTyped, ImageSync
<1> QED BY <1>1, <1>2

LEMMA MarkerWriteTyped ==
    ASSUME MarkerTyped, SessionTyped, NEW dirty \in BOOLEAN, MarkerWrite(dirty)
    PROVE  MarkerTyped'
<1>1. mark' \in Marker
  BY DEF SessionTyped, MarkerWrite, Marker
<1> QED BY <1>1 DEF MarkerTyped, MarkerWrite

LEMMA CompanionWriteTyped ==
    ASSUME CompanionTyped, NEW c \in Companion, NEW mid \in SUBSET Companion,
           CompanionWrite(c, mid)
    PROVE  CompanionTyped' /\ io' \in BOOLEAN
BY DEF CompanionTyped, CompanionWrite

LEMMA CompanionSyncTyped ==
    ASSUME CompanionTyped, CompanionSync
    PROVE  CompanionTyped' /\ io' \in BOOLEAN
BY DEF CompanionTyped, CompanionSync

LEMMA RetainImageTyped ==
    ASSUME ImageTyped, RetainImage PROVE ImageTyped'
BY DEF ImageTyped, RetainImage

LEMMA SettlesTyped ==
    ASSUME MarkerTyped, CompanionTyped, Settles
    PROVE  MarkerTyped' /\ CompanionTyped'
<1>1. MarkerTyped'
  BY DEF MarkerTyped, Settles
<1>2. CompanionTyped'
  BY ConstantsTyped DEF CompanionTyped, Settles
<1> QED BY <1>1, <1>2

LEMMA RemoveTyped ==
    ASSUME CompanionTyped, comp' = NoDir, compMay' = compMay \cup {NoDir}
    PROVE  CompanionTyped'
BY ConstantsTyped DEF CompanionTyped

LEMMA NoWriteTyped == ASSUME w \in BlockWrite PROVE NoWrite \in BlockWrite
BY DEF NoWrite, BlockWrite

LEMMA ForgetTyped ==
    ASSUME SessionTyped, Forget PROVE ControlTyped' /\ SessionTyped'
<1>1. ControlTyped'
  BY DEF Forget, ControlTyped, Pcs, Operations
<1>2. w' \in BlockWrite
  BY NoWriteTyped DEF SessionTyped, Forget
<1>3. SessionTyped'
  BY <1>2, ConstantsTyped DEF SessionTyped, Forget
<1> QED BY <1>1, <1>3

LEMMA BecomeReadyTyped ==
    ASSUME ImageTyped, NEW n \in Nat, BecomeReady(n)
    PROVE  /\ pc' \in Pcs /\ op' \in Operations /\ dseq' \in Nat
           /\ allowed' \in [Promised -> SUBSET Bodies]
<1>1. \A s \in Promised : img[s].body \in Bodies
  BY DEF ImageTyped, Promised, Value
<1> QED BY <1>1 DEF BecomeReady, Pcs, Operations

LEMMA WriteReturnsTyped ==
    ASSUME SessionTyped, ControlTyped, HistoryTyped, WriteReturns
    PROVE  /\ pc' \in Pcs /\ op' \in Operations /\ w' \in BlockWrite
           /\ allowed' \in [Promised -> SUBSET Bodies]
<1>1. w \in BlockWrite /\ w.val.body \in Bodies
  BY DEF SessionTyped, BlockWrite, Value
<1>2. w' \in BlockWrite
  BY <1>1, NoWriteTyped DEF WriteReturns
<1>3. pc' \in Pcs /\ op' \in Operations
  BY DEF WriteReturns, ControlTyped, Pcs, Operations
<1>4. allowed' \in [Promised -> SUBSET Bodies]
  BY <1>1 DEF WriteReturns, HistoryTyped
<1> QED BY <1>2, <1>3, <1>4

LEMMA InitTyped == Init => TypeOK
<1> SUFFICES ASSUME Init PROVE TypeOK
  OBVIOUS
<1>1. InitialBody \in Bodies /\ [body |-> InitialBody, ok |-> TRUE] \in Value
  BY DEF Value
<1>2. ImageTyped
  BY <1>1 DEF Init, ImageTyped
<1>3. MarkerTyped
  BY DEF Init, MarkerTyped, Marker
<1>4. CompanionTyped
  BY ConstantsTyped DEF Init, CompanionTyped
<1>5. ControlTyped
  BY DEF Init, ControlTyped, Pcs, Operations
<1>6. SessionTyped
  <2>1. w \in BlockWrite
    BY <1>1 DEF Init, BlockWrite, Sectors
  <2> QED BY <2>1, ConstantsTyped DEF Init, SessionTyped
<1>7. HistoryTyped
  BY <1>1 DEF Init, HistoryTyped, Refusals
<1> QED BY <1>2, <1>3, <1>4, <1>5, <1>6, <1>7 DEF TypeOK

\* Every action keeps the types.
LEMMA StepTyped == TypeOK /\ [Next]_vars => TypeOK'
<1> SUFFICES ASSUME TypeOK, [Next]_vars PROVE TypeOK'
  OBVIOUS
<1>0. ImageTyped /\ MarkerTyped /\ CompanionTyped /\ ControlTyped /\ SessionTyped /\ HistoryTyped
  BY DEF TypeOK
<1>1. ASSUME OpenStaged PROVE TypeOK'
  <2>1. ImageTyped' /\ MarkerTyped' /\ CompanionTyped'
    BY <1>0, <1>1 DEF OpenStaged, ImageTyped, MarkerTyped, CompanionTyped, storage
  <2>2. ControlTyped'
    BY <1>0, <1>1 DEF OpenStaged, ControlTyped, Pcs, PreparePcs, RecoverPcs, SaveSites, Operations
  <2>3. id' \in Ids \cup {NoId}
    BY <1>0, <1>1 DEF OpenStaged, MarkerTyped, Marker
  <2>4. SessionTyped'
    BY <1>0, <1>1, <2>3 DEF OpenStaged, SessionTyped
  <2>5. HistoryTyped'
    BY <1>0, <1>1 DEF OpenStaged, HistoryTyped, Refusals
  <2> QED BY <2>1, <2>2, <2>3, <2>4, <2>5 DEF TypeOK
<1>2. ASSUME OpenRefused PROVE TypeOK'
  <2>1. ImageTyped' /\ MarkerTyped' /\ CompanionTyped' /\ ControlTyped' /\ SessionTyped'
    BY <1>0, <1>2 DEF OpenRefused, ImageTyped, MarkerTyped, CompanionTyped, ControlTyped,
        SessionTyped, storage
  <2>2. HistoryTyped'
    BY <1>0, <1>2 DEF OpenRefused, HistoryTyped, Refusals
  <2> QED BY <2>1, <2>2 DEF TypeOK
<1>3. ASSUME PrepareDirty PROVE TypeOK'
  <2>1. ImageTyped' /\ MarkerTyped' /\ CompanionTyped' /\ HistoryTyped'
    BY <1>0, <1>3 DEF PrepareDirty, ImageTyped, MarkerTyped, CompanionTyped, HistoryTyped, storage
  <2>2. ControlTyped'
    BY <1>0, <1>3 DEF PrepareDirty, ControlTyped, Pcs, PreparePcs, RecoverPcs, SaveSites, Operations
  <2>3. SessionTyped'
    BY <1>0, <1>3, LoadTyped DEF PrepareDirty, SessionTyped, CompanionTyped
  <2> QED BY <2>1, <2>2, <2>3 DEF TypeOK
<1>4. ASSUME PrepareClean PROVE TypeOK'
  <2>1. ImageTyped' /\ MarkerTyped' /\ SessionTyped' /\ HistoryTyped'
    BY <1>0, <1>4 DEF PrepareClean, ImageTyped, MarkerTyped, SessionTyped, HistoryTyped, storage
  <2>2. CompanionTyped'
    BY <1>0, <1>4, RemoveTyped DEF PrepareClean
  <2>3. ControlTyped'
    BY <1>0, <1>4 DEF PrepareClean, ControlTyped, Pcs, PreparePcs, RecoverPcs, SaveSites, Operations
  <2> QED BY <2>1, <2>2, <2>3 DEF TypeOK
<1>5. ASSUME MakeDirectory PROVE TypeOK'
  <2>1. ImageTyped' /\ MarkerTyped' /\ SessionTyped' /\ HistoryTyped'
    BY <1>0, <1>5 DEF MakeDirectory, ImageTyped, MarkerTyped, SessionTyped, HistoryTyped, storage
  <2>2. CompanionTyped' /\ io' \in BOOLEAN
    BY <1>0, <1>5, ConstantsTyped, CompanionWriteTyped DEF MakeDirectory
  <2>3. ControlTyped'
    BY <1>0, <1>5, <2>2 DEF MakeDirectory, ControlTyped, Pcs, PreparePcs, RecoverPcs, SaveSites,
        Operations
  <2> QED BY <2>1, <2>2, <2>3 DEF TypeOK
<1>6. ASSUME MakeDirectorySynced PROVE TypeOK'
  <2>1. ImageTyped' /\ MarkerTyped' /\ HistoryTyped'
    BY <1>0, <1>6 DEF MakeDirectorySynced, ImageTyped, MarkerTyped, HistoryTyped, storage
  <2>2. CompanionTyped' /\ io' \in BOOLEAN
    BY <1>0, <1>6, CompanionSyncTyped DEF MakeDirectorySynced
  <2>3. ControlTyped'
    BY <1>0, <1>6, <2>2 DEF MakeDirectorySynced, ControlTyped, Pcs, PreparePcs, RecoverPcs,
        SaveSites, Operations
  <2>4. st' \in State
    BY <1>0, <1>6 DEF MakeDirectorySynced, SessionTyped, NoState, State, Phases
  <2>5. SessionTyped'
    BY <1>0, <1>6, <2>4 DEF MakeDirectorySynced, SessionTyped
  <2> QED BY <2>1, <2>2, <2>3, <2>4, <2>5 DEF TypeOK
<1>7. ASSUME WalCreate PROVE TypeOK'
  <2>1. ImageTyped' /\ MarkerTyped' /\ SessionTyped' /\ HistoryTyped'
    BY <1>0, <1>7 DEF WalCreate, ImageTyped, MarkerTyped, SessionTyped, HistoryTyped, storage
  <2>2. CompanionTyped' /\ io' \in BOOLEAN
    BY <1>0, <1>7, CompanionUpdates, CompanionWriteTyped DEF WalCreate, CompanionTyped
  <2>3. ControlTyped'
    BY <1>0, <1>7, <2>2 DEF WalCreate, ControlTyped, Pcs, PreparePcs, RecoverPcs, SaveSites,
        Operations
  <2> QED BY <2>1, <2>2, <2>3 DEF TypeOK
<1>8. ASSUME WalCreated PROVE TypeOK'
  <2>1. ImageTyped' /\ MarkerTyped' /\ SessionTyped' /\ HistoryTyped'
    BY <1>0, <1>8 DEF WalCreated, ImageTyped, MarkerTyped, SessionTyped, HistoryTyped, storage
  <2>2. CompanionTyped' /\ io' \in BOOLEAN
    BY <1>0, <1>8, CompanionSyncTyped DEF WalCreated
  <2>3. ControlTyped'
    BY <1>0, <1>8, <2>2 DEF WalCreated, ControlTyped, Pcs, PreparePcs, RecoverPcs, SaveSites,
        Operations
  <2> QED BY <2>1, <2>2, <2>3 DEF TypeOK
<1>9. ASSUME Activate PROVE TypeOK'
  <2>1. ImageTyped' /\ CompanionTyped' /\ SessionTyped' /\ HistoryTyped'
    BY <1>0, <1>9 DEF Activate, ImageTyped, CompanionTyped, SessionTyped, HistoryTyped, storage
  <2>2. MarkerTyped'
    BY <1>0, <1>9, MarkerWriteTyped DEF Activate
  <2>3. ControlTyped'
    BY <1>0, <1>9 DEF Activate, ControlTyped, Pcs, PreparePcs, RecoverPcs, SaveSites, Operations
  <2> QED BY <2>1, <2>2, <2>3 DEF TypeOK
<1>10. ASSUME Activated PROVE TypeOK'
  <2>1. CompanionTyped' /\ HistoryTyped'
    BY <1>0, <1>10 DEF Activated, CompanionTyped, HistoryTyped, storage
  <2>2. ImageTyped' /\ MarkerTyped'
    BY <1>0, <1>10, ImageSyncTyped DEF Activated, ImageTyped, MarkerTyped
  <2>3. ControlTyped'
    BY <1>0, <1>10 DEF Activated, ControlTyped, Pcs, PreparePcs, RecoverPcs, SaveSites, Operations
  <2>4. SessionTyped'
    BY <1>0, <1>10 DEF Activated, SessionTyped, State
  <2> QED BY <2>1, <2>2, <2>3, <2>4 DEF TypeOK
<1>11. ASSUME RecoverRecord PROVE TypeOK'
  <2>1. MarkerTyped' /\ CompanionTyped' /\ ControlTyped' /\ HistoryTyped'
    BY <1>0, <1>11 DEF RecoverRecord, MarkerTyped, CompanionTyped, ControlTyped, HistoryTyped,
        storage
  <2>2. comp.recs[ri] \in Record
    BY <1>0, <1>11 DEF RecoverRecord, CompanionTyped, Companion, SessionTyped
  <2>3. comp.recs[ri].lba \in Sectors /\ comp.recs[ri].val \in Value /\ comp.recs[ri].seq \in Nat
    BY <1>0, <1>11, <2>2 DEF RecoverRecord, Record
  <2>4. ImageTyped'
    BY <1>0, <1>11, <2>3, ImageWriteTyped DEF RecoverRecord, ImageTyped
  <2>5. SessionTyped'
    BY <1>0, <1>11, <2>3 DEF RecoverRecord, SessionTyped
  <2> QED BY <2>1, <2>2, <2>3, <2>4, <2>5 DEF TypeOK
<1>12. ASSUME RecoverTorn PROVE TypeOK'
  <2>1. ImageTyped' /\ MarkerTyped' /\ SessionTyped' /\ HistoryTyped'
    BY <1>0, <1>12 DEF RecoverTorn, ImageTyped, MarkerTyped, SessionTyped, HistoryTyped, storage
  <2>2. CompanionTyped' /\ io' \in BOOLEAN
    BY <1>0, <1>12, CompanionUpdates, CompanionWriteTyped DEF RecoverTorn, CompanionTyped
  <2>3. ControlTyped'
    BY <1>0, <1>12, <2>2 DEF RecoverTorn, ControlTyped, Pcs, PreparePcs, RecoverPcs, SaveSites,
        Operations
  <2> QED BY <2>1, <2>2, <2>3 DEF TypeOK
<1>13. ASSUME RecoverTornSynced PROVE TypeOK'
  <2>1. ImageTyped' /\ MarkerTyped' /\ SessionTyped' /\ HistoryTyped'
    BY <1>0, <1>13 DEF RecoverTornSynced, ImageTyped, MarkerTyped, SessionTyped, HistoryTyped,
        storage
  <2>2. CompanionTyped' /\ io' \in BOOLEAN
    BY <1>0, <1>13, CompanionSyncTyped DEF RecoverTornSynced
  <2>3. ControlTyped'
    BY <1>0, <1>13, <2>2 DEF RecoverTornSynced, ControlTyped, Pcs, PreparePcs, RecoverPcs,
        SaveSites, Operations
  <2> QED BY <2>1, <2>2, <2>3 DEF TypeOK
<1>14. ASSUME RecoverDone PROVE TypeOK'
  <2>1. CompanionTyped' /\ SessionTyped' /\ HistoryTyped'
    BY <1>0, <1>14 DEF RecoverDone, CompanionTyped, SessionTyped, HistoryTyped, storage
  <2>2. ImageTyped' /\ MarkerTyped'
    BY <1>0, <1>14, ImageSyncTyped DEF RecoverDone, ImageTyped, MarkerTyped
  <2>3. ControlTyped'
    BY <1>0, <1>14 DEF RecoverDone, ControlTyped, Pcs, PreparePcs, RecoverPcs, SaveSites, Operations
  <2> QED BY <2>1, <2>2, <2>3 DEF TypeOK
<1>15. ASSUME MatFat PROVE TypeOK'
  <2>1. MarkerTyped' /\ CompanionTyped' /\ SessionTyped' /\ HistoryTyped'
    BY <1>0, <1>15 DEF MatFat, MarkerTyped, CompanionTyped, SessionTyped, HistoryTyped, storage
  <2>2. \A s \in Mirrors : MergedStatus(img, s) \in Value
    BY <1>0, <1>15 DEF MatFat, ImageTyped, Mirrors, Sectors, MergedStatus, Value
  <2>3. ImageTyped'
    BY <1>0, <1>15, <2>2 DEF MatFat, ImageTyped
  <2>4. ControlTyped'
    BY <1>0, <1>15 DEF MatFat, ControlTyped, Pcs, PreparePcs, RecoverPcs, SaveSites, Operations
  <2> QED BY <2>1, <2>2, <2>3, <2>4 DEF TypeOK
<1>16. ASSUME MatFatSynced PROVE TypeOK'
  <2>1. CompanionTyped' /\ SessionTyped' /\ HistoryTyped'
    BY <1>0, <1>16 DEF MatFatSynced, CompanionTyped, SessionTyped, HistoryTyped, storage
  <2>2. ImageTyped' /\ MarkerTyped'
    BY <1>0, <1>16, ImageSyncTyped DEF MatFatSynced
  <2>3. ControlTyped'
    BY <1>0, <1>16 DEF MatFatSynced, ControlTyped, Pcs, PreparePcs, RecoverPcs, SaveSites,
        Operations
  <2> QED BY <2>1, <2>2, <2>3 DEF TypeOK
<1>17. ASSUME MatFsinfoSynced PROVE TypeOK'
  <2>1. CompanionTyped' /\ SessionTyped' /\ HistoryTyped'
    BY <1>0, <1>17 DEF MatFsinfoSynced, CompanionTyped, SessionTyped, HistoryTyped, storage
  <2>2. ImageTyped' /\ MarkerTyped'
    BY <1>0, <1>17, ImageSyncTyped DEF MatFsinfoSynced
  <2>3. ControlTyped'
    BY <1>0, <1>17 DEF MatFsinfoSynced, ControlTyped, Pcs, PreparePcs, RecoverPcs, SaveSites,
        Operations
  <2> QED BY <2>1, <2>2, <2>3 DEF TypeOK
<1>18. ASSUME MatFsinfo PROVE TypeOK'
  <2>1. MarkerTyped' /\ CompanionTyped' /\ SessionTyped' /\ HistoryTyped'
    BY <1>0, <1>18 DEF MatFsinfo, MarkerTyped, CompanionTyped, SessionTyped, HistoryTyped, storage
  <2>2. img[Fsi] \in Value /\ FsiBackup \in Sectors
    BY <1>0, <1>18 DEF MatFsinfo, ImageTyped, Sectors
  <2>3. ImageTyped'
    BY <1>0, <1>18, <2>2, ImageWriteTyped DEF MatFsinfo, ImageTyped
  <2>4. ControlTyped'
    BY <1>0, <1>18 DEF MatFsinfo, ControlTyped, Pcs, PreparePcs, RecoverPcs, SaveSites, Operations
  <2> QED BY <2>1, <2>2, <2>3, <2>4 DEF TypeOK
<1>19. ASSUME MatReopened PROVE TypeOK'
  <2>1. ImageTyped' /\ MarkerTyped' /\ CompanionTyped'
    BY <1>0, <1>19 DEF MatReopened, ImageTyped, MarkerTyped, CompanionTyped, storage
  <2>2. st.ckpt \in Nat
    BY <1>0, <1>19 DEF MatReopened, SessionTyped, State
  <2>3. pc' \in Pcs /\ op' \in Operations /\ dseq' \in Nat /\ allowed' \in [Promised -> SUBSET
      Bodies]
    BY <1>0, <1>19, <2>2, BecomeReadyTyped DEF MatReopened, ControlTyped, Pcs, PreparePcs,
        RecoverPcs, SaveSites, Operations, SessionTyped, HistoryTyped
  <2>4. ControlTyped'
    BY <1>0, <1>19, <2>3 DEF MatReopened, ControlTyped
  <2>5. SessionTyped'
    BY <1>0, <1>19, <2>3 DEF MatReopened, SessionTyped
  <2>6. HistoryTyped'
    BY <1>0, <1>19, <2>3 DEF MatReopened, HistoryTyped
  <2> QED BY <2>1, <2>2, <2>3, <2>4, <2>5, <2>6 DEF TypeOK
<1>20. ASSUME RecoveredIncoherent PROVE TypeOK'
  <2>1. MarkerTyped' /\ CompanionTyped'
    BY <1>0, <1>20 DEF RecoveredIncoherent, MarkerTyped, CompanionTyped, storage
  <2>2. ImageTyped'
    BY <1>0, <1>20, RetainImageTyped DEF RecoveredIncoherent
  <2>3. ControlTyped' /\ SessionTyped'
    BY <1>0, <1>20, ForgetTyped DEF RecoveredIncoherent
  <2>4. HistoryTyped'
    BY <1>0, <1>20 DEF RecoveredIncoherent, HistoryTyped, Refusals
  <2> QED BY <2>1, <2>2, <2>3, <2>4 DEF TypeOK
<1>21. ASSUME StateSave PROVE TypeOK'
  <2>1. ImageTyped' /\ MarkerTyped' /\ SessionTyped' /\ HistoryTyped'
    BY <1>0, <1>21 DEF StateSave, ImageTyped, MarkerTyped, SessionTyped, HistoryTyped, storage
  <2>2. NewState \in State /\ NewState.epoch % 2 \in {0, 1}
    BY <1>0, <1>21, NewStateTyped DEF StateSave, State
  <2>3. comp \in Companion /\ NoState \in State
    BY <1>0, <1>21, ConstantsTyped DEF StateSave, CompanionTyped
  <2>4. [comp EXCEPT !.slot[NewState.epoch % 2] = NewState] \in Companion
    BY <2>2, <2>3, CompanionUpdates
  <2>5. [comp EXCEPT !.slot[NewState.epoch % 2] = NoState] \in Companion
    BY <2>2, <2>3, CompanionUpdates
  <2>6. {[comp EXCEPT !.slot[NewState.epoch % 2] = NoState]} \in SUBSET Companion
    BY <2>5
  <2>7. CompanionTyped' /\ io' \in BOOLEAN
    BY <1>0, <1>21, <2>4, <2>6, CompanionWriteTyped DEF StateSave
  <2>8. ControlTyped'
    BY <1>0, <1>21, <2>7 DEF StateSave, ControlTyped, Pcs, PreparePcs, RecoverPcs, SaveSites,
        Operations
  <2> QED BY <2>1, <2>2, <2>3, <2>4, <2>5, <2>6, <2>7, <2>8 DEF TypeOK
<1>22. ASSUME StateSaved PROVE TypeOK'
  <2>1. ImageTyped' /\ MarkerTyped'
    BY <1>0, <1>22 DEF StateSaved, ImageTyped, MarkerTyped, storage
  <2>2. CompanionTyped' /\ io' \in BOOLEAN
    BY <1>0, <1>22, CompanionSyncTyped DEF StateSaved
  <2>3. seq \in Nat
    BY <1>0, <1>22 DEF StateSaved, SessionTyped
  <2>4. pc' \in Pcs /\ op' \in Operations /\ dseq' \in Nat /\ allowed' \in [Promised -> SUBSET
      Bodies]
    BY <1>0, <1>22, <2>3, BecomeReadyTyped DEF StateSaved, ControlTyped, Pcs, PreparePcs,
        RecoverPcs, SaveSites, Operations, SessionTyped, HistoryTyped
  <2>5. ControlTyped'
    BY <1>0, <1>22, <2>2, <2>4 DEF StateSaved, ControlTyped
  <2>6. SessionTyped'
    BY <1>0, <1>22, <2>4, NewStateTyped DEF StateSaved, SessionTyped
  <2>7. HistoryTyped'
    BY <1>0, <1>22, <2>4 DEF StateSaved, HistoryTyped
  <2> QED BY <2>1, <2>2, <2>3, <2>4, <2>5, <2>6, <2>7 DEF TypeOK
<1>23. ASSUME NEW s \in GuestSectors, NEW v \in GuestValue(s), GuestWrite(s, v) PROVE TypeOK'
  <2>1. ImageTyped' /\ MarkerTyped' /\ CompanionTyped'
    BY <1>0, <1>23 DEF GuestWrite, ImageTyped, MarkerTyped, CompanionTyped, storage
  <2>2. s \in Sectors /\ v \in Value /\ v.body \in Bodies
    BY <1>0, <1>23 DEF GuestWrite, GuestValue, Value
  <2>3. ControlTyped'
    BY <1>0, <1>23 DEF GuestWrite, ControlTyped, Pcs, PreparePcs, RecoverPcs, SaveSites, Operations
  <2>4. w' \in BlockWrite
    BY <1>0, <1>23, <2>2 DEF GuestWrite, BlockWrite
  <2>5. SessionTyped'
    BY <1>0, <1>23, <2>4 DEF GuestWrite, SessionTyped
  <2>6. HistoryTyped'
    BY <1>0, <1>23, <2>2 DEF GuestWrite, HistoryTyped
  <2> QED BY <2>1, <2>2, <2>3, <2>4, <2>5, <2>6 DEF TypeOK
<1>24. ASSUME NEW kind \in Barriers, StartBarrier(kind) PROVE TypeOK'
  <2>1. ImageTyped' /\ MarkerTyped' /\ CompanionTyped' /\ SessionTyped' /\ HistoryTyped'
    BY <1>0, <1>24 DEF StartBarrier, ImageTyped, MarkerTyped, CompanionTyped, SessionTyped,
        HistoryTyped, storage
  <2>2. ControlTyped'
    BY <1>0, <1>24 DEF StartBarrier, ControlTyped, Pcs, PreparePcs, RecoverPcs, SaveSites,
        Operations
  <2> QED BY <2>1, <2>2 DEF TypeOK
<1>25. ASSUME RequestFreezes PROVE TypeOK'
  <2>1. ImageTyped' /\ MarkerTyped' /\ CompanionTyped' /\ SessionTyped'
    BY <1>0, <1>25 DEF RequestFreezes, ImageTyped, MarkerTyped, CompanionTyped, SessionTyped,
        storage
  <2>2. ControlTyped'
    BY <1>0, <1>25 DEF RequestFreezes, ControlTyped, Pcs, PreparePcs, RecoverPcs, SaveSites,
        Operations
  <2>3. HistoryTyped'
    BY <1>0, <1>25 DEF RequestFreezes, HistoryTyped
  <2> QED BY <2>1, <2>2, <2>3 DEF TypeOK
<1>26. ASSUME CloseRetain PROVE TypeOK'
  <2>1. MarkerTyped' /\ CompanionTyped' /\ HistoryTyped'
    BY <1>0, <1>26 DEF CloseRetain, MarkerTyped, CompanionTyped, HistoryTyped, storage
  <2>2. ImageTyped'
    BY <1>0, <1>26, RetainImageTyped DEF CloseRetain
  <2>3. ControlTyped' /\ SessionTyped'
    BY <1>0, <1>26, ForgetTyped DEF CloseRetain
  <2> QED BY <2>1, <2>2, <2>3 DEF TypeOK
<1>27. ASSUME WalAppend PROVE TypeOK'
  <2>1. ImageTyped' /\ MarkerTyped' /\ SessionTyped' /\ HistoryTyped'
    BY <1>0, <1>27 DEF WalAppend, ImageTyped, MarkerTyped, SessionTyped, HistoryTyped, storage
  <2>2. [seq |-> seq + 1, lba |-> w.lba, val |-> w.val] \in Record
    BY <1>0, <1>27 DEF WalAppend, SessionTyped, BlockWrite, Record
  <2>3. comp \in Companion
    BY <1>0, <1>27 DEF WalAppend, CompanionTyped
  <2>4. [comp EXCEPT !.recs = Append(@, [seq |-> seq + 1, lba |-> w.lba, val |-> w.val])] \in
      Companion
    BY <2>2, <2>3, CompanionUpdates
  <2>5. {[comp EXCEPT !.torn = TRUE]} \in SUBSET Companion
    BY <2>3, CompanionUpdates
  <2>6. CompanionTyped' /\ io' \in BOOLEAN
    BY <1>0, <1>27, <2>4, <2>5, CompanionWriteTyped DEF WalAppend
  <2>7. ControlTyped'
    BY <1>0, <1>27, <2>6 DEF WalAppend, ControlTyped, Pcs, PreparePcs, RecoverPcs, SaveSites,
        Operations
  <2> QED BY <2>1, <2>2, <2>3, <2>4, <2>5, <2>6, <2>7 DEF TypeOK
<1>28. ASSUME WalAppended PROVE TypeOK'
  <2>1. ImageTyped' /\ MarkerTyped' /\ SessionTyped' /\ HistoryTyped'
    BY <1>0, <1>28 DEF WalAppended, ImageTyped, MarkerTyped, SessionTyped, HistoryTyped, storage
  <2>2. CompanionTyped' /\ io' \in BOOLEAN
    BY <1>0, <1>28, CompanionSyncTyped DEF WalAppended
  <2>3. ControlTyped'
    BY <1>0, <1>28, <2>2 DEF WalAppended, ControlTyped, Pcs, PreparePcs, RecoverPcs, SaveSites,
        Operations
  <2> QED BY <2>1, <2>2, <2>3 DEF TypeOK
<1>29. ASSUME ImageApply PROVE TypeOK'
  <2>1. MarkerTyped' /\ CompanionTyped'
    BY <1>0, <1>29 DEF ImageApply, MarkerTyped, CompanionTyped, storage
  <2>2. w \in BlockWrite /\ w.lba \in Sectors /\ w.val \in Value
    BY <1>0, <1>29 DEF ImageApply, SessionTyped, BlockWrite
  <2>3. ImageTyped'
    BY <1>0, <1>29, <2>2, ImageWriteTyped DEF ImageApply
  <2>4. pc' \in Pcs /\ op' \in Operations /\ w' \in BlockWrite /\ allowed' \in [Promised ->
      SUBSET Bodies]
    BY <1>0, <1>29, <2>2, WriteReturnsTyped DEF ImageApply, ControlTyped, Pcs, PreparePcs,
        RecoverPcs, SaveSites, Operations, HistoryTyped
  <2>5. ControlTyped'
    BY <1>0, <1>29, <2>4 DEF ImageApply, ControlTyped
  <2>6. SessionTyped'
    BY <1>0, <1>29, <2>4 DEF ImageApply, SessionTyped
  <2>7. HistoryTyped'
    BY <1>0, <1>29, <2>4 DEF ImageApply, HistoryTyped
  <2> QED BY <2>1, <2>2, <2>3, <2>4, <2>5, <2>6, <2>7 DEF TypeOK
<1>30. ASSUME MirrorFsinfo PROVE TypeOK'
  <2>1. ImageTyped' /\ MarkerTyped' /\ CompanionTyped' /\ HistoryTyped'
    BY <1>0, <1>30 DEF MirrorFsinfo, ImageTyped, MarkerTyped, CompanionTyped, HistoryTyped, storage
  <2>2. img[Fsi] \in Value /\ FsiBackup \in Sectors
    BY <1>0, <1>30 DEF MirrorFsinfo, ImageTyped, Sectors
  <2>3. ControlTyped'
    BY <1>0, <1>30 DEF MirrorFsinfo, ControlTyped, Pcs, PreparePcs, RecoverPcs, SaveSites,
        Operations
  <2>4. [on |-> TRUE, lba |-> FsiBackup, val |-> img[Fsi]] \in BlockWrite
    BY <1>0, <1>30, <2>2 DEF MirrorFsinfo, BlockWrite
  <2>5. w' \in BlockWrite
    BY <1>0, <1>30, <2>4 DEF MirrorFsinfo, SessionTyped
  <2>6. SessionTyped'
    BY <1>0, <1>30, <2>5 DEF MirrorFsinfo, SessionTyped
  <2> QED BY <2>1, <2>2, <2>3, <2>4, <2>5, <2>6 DEF TypeOK
<1>31. ASSUME CheckpointSync PROVE TypeOK'
  <2>1. CompanionTyped' /\ SessionTyped' /\ HistoryTyped'
    BY <1>0, <1>31 DEF CheckpointSync, CompanionTyped, SessionTyped, HistoryTyped, storage
  <2>2. ImageTyped' /\ MarkerTyped'
    BY <1>0, <1>31, ImageSyncTyped DEF CheckpointSync
  <2>3. ControlTyped'
    BY <1>0, <1>31 DEF CheckpointSync, ControlTyped, Pcs, PreparePcs, RecoverPcs, SaveSites,
        Operations
  <2> QED BY <2>1, <2>2, <2>3 DEF TypeOK
<1>32. ASSUME WalTruncate PROVE TypeOK'
  <2>1. ImageTyped' /\ MarkerTyped' /\ SessionTyped' /\ HistoryTyped'
    BY <1>0, <1>32 DEF WalTruncate, ImageTyped, MarkerTyped, SessionTyped, HistoryTyped, storage
  <2>2. CompanionTyped' /\ io' \in BOOLEAN
    BY <1>0, <1>32, CompanionUpdates, CompanionWriteTyped DEF WalTruncate, CompanionTyped
  <2>3. ControlTyped'
    BY <1>0, <1>32, <2>2 DEF WalTruncate, ControlTyped, Pcs, PreparePcs, RecoverPcs, SaveSites,
        Operations
  <2> QED BY <2>1, <2>2, <2>3 DEF TypeOK
<1>33. ASSUME WalTruncated PROVE TypeOK'
  <2>1. ImageTyped' /\ MarkerTyped'
    BY <1>0, <1>33 DEF WalTruncated, ImageTyped, MarkerTyped, storage
  <2>2. CompanionTyped' /\ io' \in BOOLEAN
    BY <1>0, <1>33, CompanionSyncTyped DEF WalTruncated
  <2>3. pc' \in Pcs /\ op' \in Operations /\ w' \in BlockWrite /\ allowed' \in [Promised ->
      SUBSET Bodies]
    BY <1>0, <1>33, WriteReturnsTyped DEF WalTruncated, ControlTyped, Pcs, PreparePcs,
        RecoverPcs, SaveSites, Operations, SessionTyped, HistoryTyped
  <2>4. ControlTyped'
    BY <1>0, <1>33, <2>2, <2>3 DEF WalTruncated, ControlTyped
  <2>5. SessionTyped'
    BY <1>0, <1>33, <2>3 DEF WalTruncated, SessionTyped
  <2>6. HistoryTyped'
    BY <1>0, <1>33, <2>3 DEF WalTruncated, HistoryTyped
  <2> QED BY <2>1, <2>2, <2>3, <2>4, <2>5, <2>6 DEF TypeOK
<1>34. ASSUME BarrierReturns PROVE TypeOK'
  <2>1. ImageTyped' /\ MarkerTyped' /\ CompanionTyped' /\ SessionTyped' /\ HistoryTyped'
    BY <1>0, <1>34 DEF BarrierReturns, ImageTyped, MarkerTyped, CompanionTyped, SessionTyped,
        HistoryTyped, storage
  <2>2. ControlTyped'
    BY <1>0, <1>34 DEF BarrierReturns, ControlTyped, Pcs, PreparePcs, RecoverPcs, SaveSites,
        Operations
  <2> QED BY <2>1, <2>2 DEF TypeOK
<1>35. ASSUME CloseSync PROVE TypeOK'
  <2>1. CompanionTyped' /\ SessionTyped' /\ HistoryTyped'
    BY <1>0, <1>35 DEF CloseSync, CompanionTyped, SessionTyped, HistoryTyped, storage
  <2>2. ImageTyped' /\ MarkerTyped'
    BY <1>0, <1>35, ImageSyncTyped DEF CloseSync
  <2>3. ControlTyped'
    BY <1>0, <1>35 DEF CloseSync, ControlTyped, Pcs, PreparePcs, RecoverPcs, SaveSites, Operations
  <2> QED BY <2>1, <2>2, <2>3 DEF TypeOK
<1>36. ASSUME CloseMark PROVE TypeOK'
  <2>1. ImageTyped' /\ CompanionTyped' /\ SessionTyped' /\ HistoryTyped'
    BY <1>0, <1>36 DEF CloseMark, ImageTyped, CompanionTyped, SessionTyped, HistoryTyped, storage
  <2>2. MarkerTyped'
    BY <1>0, <1>36, MarkerWriteTyped DEF CloseMark
  <2>3. ControlTyped'
    BY <1>0, <1>36 DEF CloseMark, ControlTyped, Pcs, PreparePcs, RecoverPcs, SaveSites, Operations
  <2> QED BY <2>1, <2>2, <2>3 DEF TypeOK
<1>37. ASSUME CloseMarked PROVE TypeOK'
  <2>1. CompanionTyped' /\ SessionTyped' /\ HistoryTyped'
    BY <1>0, <1>37 DEF CloseMarked, CompanionTyped, SessionTyped, HistoryTyped, storage
  <2>2. ImageTyped' /\ MarkerTyped'
    BY <1>0, <1>37, ImageSyncTyped DEF CloseMarked
  <2>3. ControlTyped'
    BY <1>0, <1>37 DEF CloseMarked, ControlTyped, Pcs, PreparePcs, RecoverPcs, SaveSites, Operations
  <2> QED BY <2>1, <2>2, <2>3 DEF TypeOK
<1>38. ASSUME Retire PROVE TypeOK'
  <2>1. ImageTyped' /\ MarkerTyped' /\ HistoryTyped'
    BY <1>0, <1>38 DEF Retire, ImageTyped, MarkerTyped, HistoryTyped, storage
  <2>2. CompanionTyped'
    BY <1>0, <1>38, RemoveTyped DEF Retire, CompanionTyped
  <2>3. ControlTyped' /\ SessionTyped'
    BY <1>0, <1>38, ForgetTyped DEF Retire
  <2> QED BY <2>1, <2>2, <2>3 DEF TypeOK
<1>39. ASSUME PrepareFails PROVE TypeOK'
  <2>1. ImageTyped'
    BY <1>0, <1>39 DEF PrepareFails, ImageTyped, storage
  <2>2. MarkerTyped'
    BY <1>0, <1>39, SettlesTyped DEF PrepareFails, MarkerTyped
  <2>3. CompanionTyped'
    BY <1>0, <1>39, SettlesTyped, RemoveTyped DEF PrepareFails
  <2>4. ControlTyped' /\ SessionTyped'
    BY <1>0, <1>39, ForgetTyped DEF PrepareFails
  <2>5. HistoryTyped'
    BY <1>0, <1>39 DEF PrepareFails, HistoryTyped, Refusals, Faulty
  <2> QED BY <2>1, <2>2, <2>3, <2>4, <2>5 DEF TypeOK
<1>40. ASSUME RecoverFails PROVE TypeOK'
  <2>1. ImageTyped'
    BY <1>0, <1>40, RetainImageTyped DEF RecoverFails
  <2>2. MarkerTyped' /\ CompanionTyped'
    BY <1>0, <1>40, SettlesTyped DEF RecoverFails
  <2>3. ControlTyped' /\ SessionTyped'
    BY <1>0, <1>40, ForgetTyped DEF RecoverFails
  <2>4. HistoryTyped'
    BY <1>0, <1>40 DEF RecoverFails, HistoryTyped, Refusals, Faulty
  <2> QED BY <2>1, <2>2, <2>3, <2>4 DEF TypeOK
<1>41. ASSUME SessionFreezes PROVE TypeOK'
  <2>1. w \in BlockWrite /\ w.lba \in Sectors /\ w.val \in Value
    BY <1>0, <1>41 DEF SessionFreezes, SessionTyped, BlockWrite
  <2>2. ImageTyped'
    BY <1>0, <1>41, <2>1, ImageWriteTyped DEF SessionFreezes, ImageTyped
  <2>3. MarkerTyped' /\ CompanionTyped'
    BY <1>0, <1>41, SettlesTyped DEF SessionFreezes
  <2>4. ControlTyped'
    BY <1>0, <1>41 DEF SessionFreezes, ControlTyped, Pcs, PreparePcs, RecoverPcs, SaveSites,
        Operations
  <2>5. w' \in BlockWrite
    BY <1>0, <1>41, <2>1, NoWriteTyped DEF SessionFreezes
  <2>6. SessionTyped'
    BY <1>0, <1>41, <2>5 DEF SessionFreezes, SessionTyped
  <2>7. HistoryTyped'
    BY <1>0, <1>41 DEF SessionFreezes, HistoryTyped, Faulty
  <2> QED BY <2>1, <2>2, <2>3, <2>4, <2>5, <2>6, <2>7 DEF TypeOK
<1>42. ASSUME Crash PROVE TypeOK'
  <2>1. img' \in [Sectors -> Value] /\ \A s \in Sectors : img'[s] \in Value
    BY <1>0, <1>42 DEF Crash, ImageTyped
  <2>2. ImageTyped'
    BY <1>0, <1>42, <2>1 DEF Crash, ImageTyped
  <2>3. MarkerTyped'
    BY <1>0, <1>42 DEF Crash, MarkerTyped
  <2>4. CompanionTyped'
    BY <1>0, <1>42 DEF Crash, CompanionTyped
  <2>5. ControlTyped' /\ SessionTyped'
    BY <1>0, <1>42, ForgetTyped DEF Crash
  <2>6. HistoryTyped'
    BY <1>0, <1>42 DEF Crash, HistoryTyped, Faulty
  <2> QED BY <2>1, <2>2, <2>3, <2>4, <2>5, <2>6 DEF TypeOK
<1>43. CASE UNCHANGED vars
  BY <1>0, <1>43 DEF vars, TypeOK, ImageTyped, MarkerTyped, CompanionTyped, ControlTyped,
     SessionTyped, HistoryTyped
<1> QED
  BY <1>1, <1>2, <1>3, <1>4, <1>5, <1>6, <1>7, <1>8, <1>9, <1>10, <1>11, <1>12, <1>13, <1>14,
      <1>15, <1>16, <1>17, <1>18, <1>19, <1>20, <1>21, <1>22, <1>23, <1>24, <1>25, <1>26, <1>27,
      <1>28, <1>29, <1>30, <1>31, <1>32, <1>33, <1>34, <1>35, <1>36, <1>37, <1>38, <1>39, <1>40,
      <1>41, <1>42, <1>43
  DEF Next, Open, Progress, Prepare, Recover, Materialize, Save, Write, Barrier, Close,
      Guest, Fault

\* The storage and the session of MachineSession always have their types.
THEOREM TypeCorrect == Spec => []TypeOK
<1>1. Init => TypeOK
  BY InitTyped
<1>2. TypeOK /\ [Next]_vars => TypeOK'
  BY StepTyped
<1> QED BY <1>1, <1>2, PTL DEF Spec
=============================================================================
