-------------------------- MODULE PersistGateProofs --------------------------
(***************************************************************************)
(* Proofs about PersistGate: no change is lost, a save that was            *)
(* acknowledged survives a power failure, and services.json implements     *)
(* StateFile, for any number of commands, syncs, edits and stops.          *)
(***************************************************************************)
EXTENDS PersistGate, TLAPS

Past      == {"merge", "commit"} \cup Writing   \* the snapshot has been taken
Holding   == {"commit"} \cup Writing            \* an edit there has the secrets lock

\* Who is inside has the gate.
OneInside == \A j \in Job : pc[j] \in Inside <=> gate = j

\* The secrets lock is an edit's from its merge to its end.
HeldByEdit == /\ \A j \in Edit : held = j <=> pc[j] \in Holding
              /\ \A j \in Job : pc[j] \in {"merge", "commit"} => j \in Edit

\* A daemon that is down has no map and no job.
DownIsEmpty == ~alive => /\ gate = None /\ held = None /\ mem = {}
                         /\ \A j \in Job : pc[j] \in {"idle", "saved", "dead"}

\* A value about to be written holds nothing that memory does not, but the edit.
ImageOfMemory == \A j \in Job : pc[j] \in Past => image[j] \subseteq mem \cup ({j} \cap Edit)

\* The value of a job contains the job's own change.
ImageOfSelf == \A j \in Job : pc[j] \in Holding => j \in image[j]

\* While an edit holds the secrets lock, its blocks are those of memory and its own.
ImageOfBlocks ==
  \A j \in Edit : pc[j] \in Holding => mem \ Command \subseteq image[j]

\* A value about to be written holds what the file does, but for refused edits.
ImageOfDisk ==
  /\ \A j \in Job : pc[j] \in {"write", "rename"} => disk \subseteq image[j] \cup Refused
  /\ \A j \in Job : pc[j] = "merge" => disk \cap Command \subseteq image[j]

\* After the rename the file is the job's value, and after the sync it stays.
DiskOfImage ==
  /\ disk \in risk
  /\ \A j \in Job : pc[j] \in {"sync", "commit"} => disk = image[j]
  /\ \A j \in Job : pc[j] = "commit" => risk = {disk}

\* The file holds nothing that memory does not, but an edit under way or refused.
DiskOfMemory ==
  alive => disk \subseteq mem \cup Refused \cup {j \in Edit : pc[j] \in {"sync", "commit"}}

\* The inductive invariant.
SafeInv == /\ TypeOK /\ OneInside /\ HeldByEdit /\ DownIsEmpty
           /\ ImageOfMemory /\ ImageOfSelf /\ ImageOfBlocks /\ ImageOfDisk
           /\ DiskOfImage /\ DiskOfMemory
           /\ NothingLost /\ AckedSurvives

-----------------------------------------------------------------------------
\* It holds initially.
LEMMA InitSafe == Init => SafeInv
BY JobAssumption DEF Init, SafeInv, TypeOK, OneInside, HeldByEdit, DownIsEmpty, ImageOfMemory, ImageOfSelf,
   ImageOfBlocks, ImageOfDisk, DiskOfImage, DiskOfMemory, NothingLost, AckedSurvives,
   Past, Holding, Refused, Job, PC, Inside, Writing, At

\* The invariant is kept by a job that changes the maps.
LEMMA AlterSafe ==
  ASSUME SafeInv, NEW j \in Job, Alter(j)
  PROVE  SafeInv'
<1> USE JobAssumption DEF SafeInv, Alter, At, Goto, Job
<1>1. TypeOK'
  BY DEF TypeOK, PC, Writing
<1>2. OneInside'
  BY DEF TypeOK, OneInside, Inside, Writing
<1>3. HeldByEdit'
  BY DEF TypeOK, HeldByEdit
<1>4. DownIsEmpty'
  BY DEF TypeOK, DownIsEmpty
<1>5. ImageOfMemory'
  BY DEF TypeOK, ImageOfMemory, Past, Writing
<1>6. ImageOfSelf'
  BY DEF TypeOK, ImageOfSelf, Holding, Writing
<1>7. ImageOfBlocks'
  BY DEF TypeOK, HeldByEdit, ImageOfBlocks
<1>8. ImageOfDisk'
  BY DEF TypeOK, ImageOfDisk, Refused
<1>9. DiskOfImage'
  BY DEF TypeOK, DiskOfImage
<1>10. DiskOfMemory'
  BY DEF TypeOK, DiskOfMemory, Refused
<1>11. NothingLost'
  BY DEF TypeOK, NothingLost
<1>12. AckedSurvives'
  BY DEF TypeOK, AckedSurvives
<1> QED  BY <1>1, <1>2, <1>3, <1>4, <1>5, <1>6, <1>7, <1>8, <1>9, <1>10, <1>11, <1>12

\* The invariant is kept by a job that is submitted as an edit.
LEMMA SubmitSafe ==
  ASSUME SafeInv, NEW j \in Job, Submit(j)
  PROVE  SafeInv'
<1> USE JobAssumption DEF SafeInv, Submit, At, Goto, Job
<1>1. TypeOK'
  BY DEF TypeOK, PC, Writing
<1>2. OneInside'
  BY DEF TypeOK, OneInside, Inside, Writing
<1>3. HeldByEdit'
  BY DEF TypeOK, HeldByEdit, Holding, Writing
<1>4. DownIsEmpty'
  BY DEF TypeOK, DownIsEmpty
<1>5. ImageOfMemory'
  BY DEF TypeOK, ImageOfMemory, Past, Writing
<1>6. ImageOfSelf'
  BY DEF TypeOK, ImageOfSelf, Holding, Writing
<1>7. ImageOfBlocks'
  BY DEF TypeOK, ImageOfBlocks, Holding, Writing
<1>8. ImageOfDisk'
  BY DEF TypeOK, ImageOfDisk, Refused
<1>9. DiskOfImage'
  BY DEF TypeOK, DiskOfImage
<1>10. DiskOfMemory'
  BY DEF TypeOK, DiskOfMemory, Refused
<1>11. NothingLost'
  BY DEF TypeOK, NothingLost
<1>12. AckedSurvives'
  BY DEF TypeOK, AckedSurvives
<1> QED  BY <1>1, <1>2, <1>3, <1>4, <1>5, <1>6, <1>7, <1>8, <1>9, <1>10, <1>11, <1>12

\* The invariant is kept by a job that enters the gate.
LEMMA EnterSafe ==
  ASSUME SafeInv, NEW j \in Job, Enter(j)
  PROVE  SafeInv'
<1> USE JobAssumption DEF SafeInv, Enter, At, Goto, Job
<1>1. TypeOK'
  BY DEF TypeOK, PC, Inside, Writing
<1>2. OneInside'
  BY DEF TypeOK, OneInside, Inside, Writing
<1>3. HeldByEdit'
  BY DEF TypeOK, HeldByEdit, Holding, Writing
<1>4. DownIsEmpty'
  BY DEF TypeOK, DownIsEmpty
<1>5. ImageOfMemory'
  BY DEF TypeOK, ImageOfMemory, Past, Writing
<1>6. ImageOfSelf'
  BY DEF TypeOK, ImageOfSelf, Holding, Writing
<1>7. ImageOfBlocks'
  BY DEF TypeOK, ImageOfBlocks, Holding, Writing
<1>8. ImageOfDisk'
  BY DEF TypeOK, ImageOfDisk, Refused
<1>9. DiskOfImage'
  BY DEF TypeOK, DiskOfImage
<1>10. DiskOfMemory'
  BY DEF TypeOK, DiskOfMemory, Refused
<1>11. NothingLost'
  BY DEF TypeOK, NothingLost
<1>12. AckedSurvives'
  BY DEF TypeOK, AckedSurvives
<1> QED  BY <1>1, <1>2, <1>3, <1>4, <1>5, <1>6, <1>7, <1>8, <1>9, <1>10, <1>11, <1>12

\* The invariant is kept by a job that takes its snapshot.
LEMMA TakeSnapshotSafe ==
  ASSUME SafeInv, NEW j \in Job, TakeSnapshot(j)
  PROVE  SafeInv'
<1> USE JobAssumption DEF SafeInv, TakeSnapshot, At, Goto, Job
<1>1. TypeOK'
  BY DEF TypeOK, PC, Inside, Writing
<1>2. OneInside'
  BY DEF TypeOK, OneInside, Inside, Writing
<1>3. HeldByEdit'
  BY DEF TypeOK, HeldByEdit, Holding, Writing
<1>4. DownIsEmpty'
  BY DEF TypeOK, DownIsEmpty
<1>5. ImageOfMemory'
  BY DEF TypeOK, ImageOfMemory
<1>6. ImageOfSelf'
  BY DEF TypeOK, DownIsEmpty, ImageOfSelf, NothingLost, Holding, Writing
<1>7. ImageOfBlocks'
  BY DEF TypeOK, ImageOfBlocks
<1>8. ImageOfDisk'
  BY DEF TypeOK, HeldByEdit, DownIsEmpty, ImageOfDisk, DiskOfMemory, Holding, Refused, Writing
<1>9. DiskOfImage'
  BY DEF TypeOK, DiskOfImage
<1>10. DiskOfMemory'
  BY DEF TypeOK, DiskOfMemory, Refused
<1>11. NothingLost'
  BY DEF TypeOK, NothingLost
<1>12. AckedSurvives'
  BY DEF TypeOK, AckedSurvives
<1> QED  BY <1>1, <1>2, <1>3, <1>4, <1>5, <1>6, <1>7, <1>8, <1>9, <1>10, <1>11, <1>12

\* The invariant is kept by a job that merges its edit.
LEMMA MergeSafe ==
  ASSUME SafeInv, NEW j \in Job, Merge(j)
  PROVE  SafeInv'
<1> USE JobAssumption DEF SafeInv, Merge, At, Goto, Job
<1>1. TypeOK'
  <2>1. j \in Edit
    BY DEF HeldByEdit
  <2>2. image' \in [Job -> SUBSET Job]
    BY <2>1 DEF TypeOK, Job
  <2> QED  BY <2>1, <2>2 DEF TypeOK, PC, Inside, Writing, Job, Goto
<1>2. OneInside'
  BY DEF TypeOK, OneInside, Inside, Writing
<1>3. HeldByEdit'
  BY DEF TypeOK, HeldByEdit, Holding, Writing
<1>4. DownIsEmpty'
  BY DEF TypeOK, DownIsEmpty
<1>5. ImageOfMemory'
  BY DEF TypeOK, DownIsEmpty, ImageOfMemory, NothingLost, Past, Writing
<1>6. ImageOfSelf'
  BY DEF TypeOK, ImageOfSelf
<1>7. ImageOfBlocks'
  BY DEF TypeOK, ImageOfBlocks
<1>8. ImageOfDisk'
  BY DEF TypeOK, HeldByEdit, DownIsEmpty, ImageOfDisk, DiskOfMemory, Holding, Refused, Writing
<1>9. DiskOfImage'
  BY DEF TypeOK, DiskOfImage
<1>10. DiskOfMemory'
  BY DEF TypeOK, DiskOfMemory, Refused
<1>11. NothingLost'
  BY DEF TypeOK, NothingLost
<1>12. AckedSurvives'
  BY DEF TypeOK, AckedSurvives
<1> QED  BY <1>1, <1>2, <1>3, <1>4, <1>5, <1>6, <1>7, <1>8, <1>9, <1>10, <1>11, <1>12

\* The invariant is kept by a job that is refused.
LEMMA RefuseSafe ==
  ASSUME SafeInv, NEW j \in Job, Refuse(j)
  PROVE  SafeInv'
<1> USE JobAssumption DEF SafeInv, Refuse, At, Goto, Leave, Job
<1>1. TypeOK'
  BY DEF TypeOK, PC, Writing
<1>2. OneInside'
  BY DEF TypeOK, OneInside, Inside, Writing
<1>3. HeldByEdit'
  BY DEF TypeOK, HeldByEdit, Holding, Writing
<1>4. DownIsEmpty'
  BY DEF TypeOK, DownIsEmpty
<1>5. ImageOfMemory'
  BY DEF TypeOK, ImageOfMemory
<1>6. ImageOfSelf'
  BY DEF TypeOK, ImageOfSelf, Holding, Writing
<1>7. ImageOfBlocks'
  BY DEF TypeOK, ImageOfBlocks, Holding, Writing
<1>8. ImageOfDisk'
  BY DEF TypeOK, ImageOfDisk, Refused
<1>9. DiskOfImage'
  BY DEF TypeOK, DiskOfImage
<1>10. DiskOfMemory'
  BY DEF TypeOK, DiskOfMemory, Refused
<1>11. NothingLost'
  BY DEF TypeOK, NothingLost
<1>12. AckedSurvives'
  BY DEF TypeOK, AckedSurvives
<1> QED  BY <1>1, <1>2, <1>3, <1>4, <1>5, <1>6, <1>7, <1>8, <1>9, <1>10, <1>11, <1>12

\* The invariant is kept by a job that writes the temp file.
LEMMA WriteTempSafe ==
  ASSUME SafeInv, NEW j \in Job, WriteTemp(j)
  PROVE  SafeInv'
<1> USE JobAssumption DEF SafeInv, WriteTemp, At, Goto, Job
<1>1. TypeOK'
  BY DEF TypeOK, PC, Inside, Writing
<1>2. OneInside'
  BY DEF TypeOK, OneInside, Inside, Writing
<1>3. HeldByEdit'
  BY DEF TypeOK, HeldByEdit, Holding, Writing
<1>4. DownIsEmpty'
  BY DEF TypeOK, DownIsEmpty
<1>5. ImageOfMemory'
  BY DEF TypeOK, ImageOfMemory, Past, Writing
<1>6. ImageOfSelf'
  BY DEF TypeOK, ImageOfSelf, Holding, Writing
<1>7. ImageOfBlocks'
  BY DEF TypeOK, ImageOfBlocks, Holding, Writing
<1>8. ImageOfDisk'
  BY DEF TypeOK, ImageOfDisk, Refused
<1>9. DiskOfImage'
  BY DEF TypeOK, DiskOfImage
<1>10. DiskOfMemory'
  BY DEF TypeOK, DiskOfMemory, Refused
<1>11. NothingLost'
  BY DEF TypeOK, NothingLost
<1>12. AckedSurvives'
  BY DEF TypeOK, AckedSurvives
<1> QED  BY <1>1, <1>2, <1>3, <1>4, <1>5, <1>6, <1>7, <1>8, <1>9, <1>10, <1>11, <1>12

\* The invariant is kept by a job that renames it.
LEMMA RenameSafe ==
  ASSUME SafeInv, NEW j \in Job, Rename(j)
  PROVE  SafeInv'
<1> USE JobAssumption DEF SafeInv, Rename, At, Goto, Job
<1>1. TypeOK'
  BY DEF TypeOK, PC, Inside, Writing
<1>2. OneInside'
  BY DEF TypeOK, OneInside, Inside, Writing
<1>3. HeldByEdit'
  BY DEF TypeOK, HeldByEdit, Holding, Writing
<1>4. DownIsEmpty'
  BY DEF TypeOK, DownIsEmpty
<1>5. ImageOfMemory'
  BY DEF TypeOK, ImageOfMemory, Past, Writing
<1>6. ImageOfSelf'
  BY DEF TypeOK, ImageOfSelf, Holding, Writing
<1>7. ImageOfBlocks'
  BY DEF TypeOK, ImageOfBlocks, Holding, Writing
<1>8. ImageOfDisk'
  BY DEF TypeOK, OneInside, ImageOfDisk, Inside, Writing
<1>9. DiskOfImage'
  BY DEF TypeOK, OneInside, DiskOfImage, Inside, Writing
<1>10. DiskOfMemory'
  BY DEF TypeOK, ImageOfMemory, DiskOfMemory, Past, Writing
<1>11. NothingLost'
  BY DEF TypeOK, NothingLost
<1>12. AckedSurvives'
  BY DEF TypeOK, ImageOfDisk, DiskOfImage, AckedSurvives, Refused
<1> QED  BY <1>1, <1>2, <1>3, <1>4, <1>5, <1>6, <1>7, <1>8, <1>9, <1>10, <1>11, <1>12

\* The invariant is kept by a job that syncs the directory.
LEMMA SyncDirSafe ==
  ASSUME SafeInv, NEW j \in Job, SyncDir(j)
  PROVE  SafeInv'
<1> USE JobAssumption DEF SafeInv, SyncDir, At, Goto, Leave, Job
<1>1. TypeOK'
  BY DEF TypeOK, PC, Inside, Writing
<1>2. OneInside'
  BY DEF TypeOK, OneInside, Inside, Writing
<1>3. HeldByEdit'
  BY DEF TypeOK, HeldByEdit, Holding, Writing
<1>4. DownIsEmpty'
  BY DEF TypeOK, DownIsEmpty
<1>5. ImageOfMemory'
  BY DEF TypeOK, ImageOfMemory, Past, Writing
<1>6. ImageOfSelf'
  BY DEF TypeOK, ImageOfSelf, Holding, Writing
<1>7. ImageOfBlocks'
  BY DEF TypeOK, ImageOfBlocks, Holding, Writing
<1>8. ImageOfDisk'
  BY DEF TypeOK, ImageOfDisk, Refused
<1>9. DiskOfImage'
  BY DEF TypeOK, DiskOfImage
<1>10. DiskOfMemory'
  BY DEF TypeOK, DiskOfMemory, Refused
<1>11. NothingLost'
  BY DEF TypeOK, NothingLost
<1>12. AckedSurvives'
  BY DEF TypeOK, ImageOfSelf, DiskOfImage, AckedSurvives, Holding, Writing
<1> QED  BY <1>1, <1>2, <1>3, <1>4, <1>5, <1>6, <1>7, <1>8, <1>9, <1>10, <1>11, <1>12

\* The invariant is kept by a job whose write fails.
LEMMA WriteFailsSafe ==
  ASSUME SafeInv, NEW j \in Job, WriteFails(j)
  PROVE  SafeInv'
<1> USE JobAssumption DEF SafeInv, WriteFails, At, Goto, Leave, Job
<1>1. TypeOK'
  BY DEF TypeOK, PC, Writing
<1>2. OneInside'
  BY DEF TypeOK, OneInside, Inside, Writing
<1>3. HeldByEdit'
  BY DEF TypeOK, HeldByEdit, Holding, Writing
<1>4. DownIsEmpty'
  BY DEF TypeOK, DownIsEmpty, Writing
<1>5. ImageOfMemory'
  BY DEF TypeOK, ImageOfMemory, Writing
<1>6. ImageOfSelf'
  BY DEF TypeOK, ImageOfSelf, Holding, Writing
<1>7. ImageOfBlocks'
  BY DEF TypeOK, ImageOfBlocks, Holding, Writing
<1>8. ImageOfDisk'
  BY DEF TypeOK, ImageOfDisk, Refused, Writing
<1>9. DiskOfImage'
  BY DEF TypeOK, DiskOfImage, Writing
<1>10. DiskOfMemory'
  BY DEF TypeOK, DiskOfMemory, Refused, Writing
<1>11. NothingLost'
  BY DEF TypeOK, NothingLost, Writing
<1>12. AckedSurvives'
  BY DEF TypeOK, AckedSurvives, Writing
<1> QED  BY <1>1, <1>2, <1>3, <1>4, <1>5, <1>6, <1>7, <1>8, <1>9, <1>10, <1>11, <1>12

\* The invariant is kept by a job that commits its edit.
LEMMA CommitSafe ==
  ASSUME SafeInv, NEW j \in Job, Commit(j)
  PROVE  SafeInv'
<1> USE JobAssumption DEF SafeInv, Commit, At, Goto, Leave, Job
<1>1. TypeOK'
  BY DEF TypeOK, PC, Writing
<1>2. OneInside'
  BY DEF TypeOK, OneInside, Inside, Writing
<1>3. HeldByEdit'
  BY DEF TypeOK, HeldByEdit, Holding, Writing
<1>4. DownIsEmpty'
  BY DEF TypeOK, DownIsEmpty
<1>5. ImageOfMemory'
  BY DEF TypeOK, HeldByEdit, ImageOfMemory, ImageOfBlocks, Holding, Writing
<1>6. ImageOfSelf'
  BY DEF TypeOK, ImageOfSelf, Holding, Writing
<1>7. ImageOfBlocks'
  BY DEF TypeOK, ImageOfMemory, ImageOfBlocks, ImageOfDisk, DiskOfImage, Past, Holding, Refused, Writing
<1>8. ImageOfDisk'
  BY DEF TypeOK, ImageOfDisk, Refused
<1>9. DiskOfImage'
  BY DEF TypeOK, DiskOfImage
<1>10. DiskOfMemory'
  BY DEF TypeOK, DiskOfImage, DiskOfMemory, Refused
<1>11. NothingLost'
  BY DEF TypeOK, HeldByEdit, ImageOfSelf, ImageOfBlocks, NothingLost, Holding, Writing
<1>12. AckedSurvives'
  BY DEF TypeOK, ImageOfSelf, DiskOfImage, AckedSurvives, Holding, Writing
<1> QED  BY <1>1, <1>2, <1>3, <1>4, <1>5, <1>6, <1>7, <1>8, <1>9, <1>10, <1>11, <1>12

\* The invariant is kept when the daemon ends.
LEMMA StopSafe ==
  ASSUME SafeInv, Stop
  PROVE  SafeInv'
<1> USE JobAssumption DEF SafeInv, Stop, At, Job
<1>1. TypeOK'
  <2>1. pc' \in [Job -> PC]
    BY DEF TypeOK, PC
  <2>2. disk' \subseteq Job /\ risk' \subseteq SUBSET Job
    <3>1. CASE UNCHANGED <<disk, risk>>
      BY <3>1 DEF TypeOK
    <3>2. CASE disk' \in risk /\ risk' = {disk'}
      BY <3>2 DEF TypeOK
    <3> QED  BY <3>1, <3>2
  <2>3. alive' \in BOOLEAN
    BY Zenon
  <2>4. stops' \in Nat /\ mem' \subseteq Job /\ image' \in [Job -> SUBSET Job]
    BY DEF TypeOK
  <2> QED  BY <2>1, <2>2, <2>3, <2>4 DEF TypeOK
<1>2. OneInside'
  BY DEF TypeOK, OneInside, Inside, Writing
<1>3. HeldByEdit'
  BY DEF TypeOK, HeldByEdit, Holding, Writing
<1>4. DownIsEmpty'
  BY DEF TypeOK, DownIsEmpty
<1>5. ImageOfMemory'
  BY DEF TypeOK, ImageOfMemory
<1>6. ImageOfSelf'
  BY DEF TypeOK, ImageOfSelf, Holding, Writing
<1>7. ImageOfBlocks'
  BY DEF TypeOK, ImageOfBlocks
<1>8. ImageOfDisk'
  BY DEF TypeOK, ImageOfDisk
<1>9. DiskOfImage'
  BY DEF TypeOK, DiskOfImage
<1>10. DiskOfMemory'
  BY DEF TypeOK, DiskOfMemory
<1>11. NothingLost'
  BY DEF TypeOK, NothingLost
<1>12. AckedSurvives'
  BY DEF TypeOK, AckedSurvives
<1> QED  BY <1>1, <1>2, <1>3, <1>4, <1>5, <1>6, <1>7, <1>8, <1>9, <1>10, <1>11, <1>12

\* The invariant is kept when the daemon starts.
LEMMA StartSafe ==
  ASSUME SafeInv, Start
  PROVE  SafeInv'
<1> USE JobAssumption DEF SafeInv, Start, At, Job
<1>1. TypeOK'
  BY DEF TypeOK, Writing
<1>2. OneInside'
  BY DEF TypeOK, OneInside
<1>3. HeldByEdit'
  BY DEF TypeOK, HeldByEdit
<1>4. DownIsEmpty'
  BY DEF TypeOK, DownIsEmpty
<1>5. ImageOfMemory'
  BY DEF TypeOK, DownIsEmpty, ImageOfMemory
<1>6. ImageOfSelf'
  BY DEF TypeOK, ImageOfSelf
<1>7. ImageOfBlocks'
  BY DEF TypeOK, DownIsEmpty, ImageOfBlocks, Holding, Writing
<1>8. ImageOfDisk'
  BY DEF TypeOK, ImageOfDisk, Refused
<1>9. DiskOfImage'
  BY DEF TypeOK, DiskOfImage
<1>10. DiskOfMemory'
  BY DEF TypeOK, DiskOfMemory
<1>11. NothingLost'
  BY DEF TypeOK, DownIsEmpty, DiskOfImage, NothingLost, AckedSurvives
<1>12. AckedSurvives'
  BY DEF TypeOK, AckedSurvives
<1> QED  BY <1>1, <1>2, <1>3, <1>4, <1>5, <1>6, <1>7, <1>8, <1>9, <1>10, <1>11, <1>12

\* Every step keeps the invariant.
LEMMA StepSafe ==
  ASSUME SafeInv, [Next]_vars
  PROVE  SafeInv'
<1>1. ASSUME NEW j \in Job, JobStep(j) PROVE SafeInv'
  BY <1>1, AlterSafe, SubmitSafe, EnterSafe, TakeSnapshotSafe, MergeSafe, RefuseSafe,
     WriteTempSafe, RenameSafe, SyncDirSafe, WriteFailsSafe, CommitSafe DEF JobStep
<1>2. CASE UNCHANGED vars
  BY <1>2 DEF vars, SafeInv, TypeOK, OneInside, HeldByEdit, DownIsEmpty, ImageOfMemory,
     ImageOfSelf, ImageOfBlocks, ImageOfDisk, DiskOfImage, DiskOfMemory, NothingLost,
     AckedSurvives, Refused, At
<1> QED  BY <1>1, <1>2, StopSafe, StartSafe DEF Next, Over

\* The inductive invariant holds of the writers of services.json.
THEOREM Safe == Spec => []SafeInv
BY InitSafe, StepSafe, PTL DEF Spec

\* Every variable keeps its shape (supervisor.rs: the Inner fields and the value
\* write_persisted is given).
THEOREM TypeCorrect == Spec => []TypeOK
<1>1. SafeInv => TypeOK  BY DEF SafeInv
<1> QED  BY <1>1, Safe, PTL

\* No command, sync or block edit ever loses what another one changed in memory
\* (supervisor.rs set_global_block: the blocks are read again under their lock).
THEOREM NoLostUpdate == Spec => []NothingLost
<1>1. SafeInv => NothingLost  BY DEF SafeInv
<1> QED  BY <1>1, Safe, PTL

\* A save that was acknowledged survives crashes and power failures
\* (atomic_json.rs atomic_write_json_durable).
THEOREM AckedIsDurable == Spec => []AckedSurvives
<1>1. SafeInv => AckedSurvives  BY DEF SafeInv
<1> QED  BY <1>1, Safe, PTL

-----------------------------------------------------------------------------
(* The refinement: what each step is in StateFile. *)

\* A job that neither ends nor renames is not seen in the file.
LEMMA JobHidden ==
  ASSUME SafeInv, NEW j \in Job,
         \/ Alter(j) \/ Submit(j) \/ Enter(j) \/ TakeSnapshot(j) \/ Merge(j) \/ WriteTemp(j)
  PROVE  UNCHANGED <<disk, Acked, Refused>>
BY DEF SafeInv, TypeOK, Alter, Submit, Enter, TakeSnapshot, Merge, WriteTemp, At, Goto,
       Acked, Refused, Job

\* The only file a rename takes back is that of a refused edit.
LEMMA RenameSaves ==
  ASSUME SafeInv, NEW j \in Job, Rename(j)
  PROVE  File!Save
<1>1. disk' \in SUBSET Job /\ disk \subseteq disk' \cup Refused
  BY DEF SafeInv, TypeOK, ImageOfDisk, Rename, At
<1>2. UNCHANGED <<Acked, Refused>>
  BY DEF SafeInv, TypeOK, Rename, At, Goto, Acked, Refused, Job
<1>3. disk \ Refused \subseteq disk'
  BY <1>1
<1> QED  BY <1>1, <1>2, <1>3 DEF File!Save

\* A directory sync acknowledges a command or a sync, and hides an edit's.
LEMMA SyncAcks ==
  ASSUME SafeInv, NEW j \in Job, SyncDir(j)
  PROVE  File!Ack(j) \/ UNCHANGED <<disk, Acked, Refused>>
<1>1. CASE j \in Edit
  BY <1>1 DEF SafeInv, TypeOK, SyncDir, At, Goto, Acked, Refused, Job
<1>2. CASE j \notin Edit
  <2>1. j \in disk
    BY DEF SafeInv, SyncDir, At, DiskOfImage, ImageOfSelf, Holding, Writing
  <2>2. Acked' = Acked \cup {j} /\ UNCHANGED <<disk, Refused>>
    BY <1>2, JobAssumption DEF SafeInv, TypeOK, SyncDir, At, Leave, Goto, Acked, Refused, Job
  <2> QED  BY <2>1, <2>2 DEF File!Ack
<1> QED  BY <1>1, <1>2

\* A commit acknowledges the edit.
LEMMA CommitAcks ==
  ASSUME SafeInv, NEW j \in Job, Commit(j)
  PROVE  File!Ack(j)
<1>1. j \in disk
  BY DEF SafeInv, Commit, At, DiskOfImage, ImageOfSelf, Holding, Writing
<1>2. Acked' = Acked \cup {j} /\ UNCHANGED <<disk, Refused>>
  BY DEF SafeInv, TypeOK, Commit, At, Leave, Goto, Acked, Refused, Job
<1> QED  BY <1>1, <1>2 DEF File!Ack

\* A failed write refuses an edit; a command's or a sync's shows in the log only.
LEMMA FailureRefuses ==
  ASSUME SafeInv, NEW j \in Job, Refuse(j) \/ WriteFails(j)
  PROVE  File!Refuse(j) \/ UNCHANGED <<disk, Acked, Refused>>
<1>1. UNCHANGED <<disk, Acked>> /\ j \notin Acked
  BY DEF SafeInv, TypeOK, Refuse, WriteFails, Writing, At, Leave, Goto, Acked, Job
<1>2. CASE j \in Edit
  <2>1. Refused' = Refused \cup {j}
    BY <1>2 DEF SafeInv, TypeOK, Refuse, WriteFails, Leave, Goto, Refused, Job
  <2> QED  BY <1>1, <2>1 DEF File!Refuse
<1>3. CASE j \notin Edit
  BY <1>1, <1>3 DEF SafeInv, TypeOK, Refuse, WriteFails, Leave, Goto, Refused, Job
<1> QED  BY <1>2, <1>3

\* The end of the daemon may take back saves, but no acknowledged change.
LEMMA StopLoses ==
  ASSUME SafeInv, Stop
  PROVE  File!Lose
<1>1. disk' \in SUBSET Job
  <2>1. disk' \in risk
    BY DEF SafeInv, DiskOfImage, Stop
  <2> QED  BY <2>1 DEF SafeInv, TypeOK
<1>2. Acked \subseteq disk'
  <2>1. disk' \in risk
    BY DEF SafeInv, DiskOfImage, Stop
  <2> QED  BY <2>1 DEF SafeInv, AckedSurvives, Acked, At
<1>3. Acked' = Acked /\ Refused' = {}
  BY DEF Stop, Acked, Refused, At, Job
<1> QED  BY <1>1, <1>2, <1>3 DEF File!Lose

\* Every step is a step of the file, or the file does not see it.
LEMMA StepRefines ==
  ASSUME SafeInv, [Next]_vars
  PROVE  File!FileNext \/ UNCHANGED <<disk, Acked, Refused>>
<1>1. ASSUME NEW j \in Job, JobStep(j)
      PROVE  File!FileNext \/ UNCHANGED <<disk, Acked, Refused>>
  <2>1. CASE Rename(j)
    BY <2>1, RenameSaves DEF File!FileNext
  <2>2. CASE SyncDir(j)
    BY <2>2, SyncAcks DEF File!FileNext
  <2>3. CASE Commit(j)
    BY <2>3, CommitAcks DEF File!FileNext
  <2>4. CASE Refuse(j) \/ WriteFails(j)
    BY <2>4, FailureRefuses DEF File!FileNext
  <2> QED  BY <1>1, <2>1, <2>2, <2>3, <2>4, JobHidden DEF JobStep
<1>2. CASE Stop
  BY <1>2, StopLoses DEF File!FileNext
<1>3. CASE Start \/ UNCHANGED vars
  BY <1>3 DEF Start, vars, Acked, Refused, At
<1> QED  BY <1>1, <1>2, <1>3 DEF Next, Over

\* services.json is the file StateFile describes, however many writers, failures
\* and stops there are (supervisor.rs persist_gate, atomic_json.rs).
THEOREM FileImplemented == Spec => FileKept
<1>1. Init => File!FileInit
  BY DEF Init, File!FileInit, Acked, Refused, Job
<1>2. SafeInv /\ [Next]_vars => [File!FileNext]_(File!fileVars)
  BY StepRefines DEF File!fileVars
<1> QED  BY <1>1, <1>2, Safe, PTL DEF Spec, FileKept, File!FileSpec

=============================================================================
