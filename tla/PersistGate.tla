----------------------------- MODULE PersistGate -----------------------------
(***************************************************************************)
(* How services.json is written (supervisor.rs persist, set_global_block;  *)
(* portman-core atomic_json.rs): concurrent writers under persist_gate,    *)
(* each a snapshot of the shared maps, a temp file, a rename and a         *)
(* directory sync, any of which may fail, with crashes and power failures  *)
(* between any two of them.                                                *)
(*                                                                         *)
(* The maps and the file are sets of the changes they contain.  A Command  *)
(* changes the slots, a Sync the secrets blocks, both in memory first; an  *)
(* Edit (set_global_block, remove_global_block) writes the file first and  *)
(* changes the blocks in memory only when that succeeded.  Every job runs  *)
(* once.                                                                   *)
(***************************************************************************)
EXTENDS Naturals, FiniteSets

CONSTANTS
  Command,   \* jobs that change the slots and persist: up, down, a runner
  Sync,      \* jobs that change the secrets blocks in memory and persist
  Edit,      \* edits of a global block
  MaxStops,  \* bound on how often the daemon stops
  None       \* no job

ASSUME JobAssumption == /\ Command \cap Sync = {} /\ Command \cap Edit = {} /\ Sync \cap Edit = {}
                        /\ None \notin Command \cup Sync \cup Edit
ASSUME StopsAssumption == MaxStops \in Nat

Job == Command \cup Sync \cup Edit

VARIABLES
  alive,   \* the daemon runs
  mem,     \* the changes in the daemon's maps: slots, secrets
  disk,    \* the changes in services.json
  risk,    \* the contents a power failure may leave in services.json
  gate,    \* holder of persist_gate
  held,    \* the edit that holds the secrets lock
  image,   \* image[j]: the Persisted value job j is about to write
  pc,      \* pc[j]: where job j is
  stops    \* daemon stops so far

vars == <<alive, mem, disk, risk, gate, held, image, pc, stops>>

Writing == {"write", "rename", "sync"}
Inside  == {"snapshot", "merge", "commit"} \cup Writing
PC      == {"idle", "gate", "saved", "unsaved", "dead"} \cup Inside

Init ==
  /\ alive = TRUE
  /\ mem = {}
  /\ disk = {}
  /\ risk = {{}}
  /\ gate = None
  /\ held = None
  /\ image = [j \in Job |-> {}]
  /\ pc = [j \in Job |-> "idle"]
  /\ stops = 0

-----------------------------------------------------------------------------
At(j, l) == pc[j] = l

Goto(j, l) == pc' = [pc EXCEPT ![j] = l]

\* The job is over: its guards and its value are dropped.
Leave(j, l) ==
  /\ Goto(j, l)
  /\ gate' = None
  /\ held' = IF held = j THEN None ELSE held
  /\ image' = [image EXCEPT ![j] = {}]

\* A command or a sync changes the maps; sync needs the secrets lock for it.
Alter(j) ==
  /\ alive /\ At(j, "idle") /\ j \notin Edit
  /\ j \in Sync => held = None
  /\ mem' = mem \cup {j}
  /\ Goto(j, "gate")
  /\ UNCHANGED <<alive, disk, risk, gate, held, image, stops>>

Submit(j) ==
  /\ alive /\ At(j, "idle") /\ j \in Edit
  /\ Goto(j, "gate")
  /\ UNCHANGED <<alive, mem, disk, risk, gate, held, image, stops>>

\* Mutant: no gate.
EnterFreely(j) ==
  /\ At(j, "gate")
  /\ Goto(j, "snapshot")
  /\ UNCHANGED <<alive, mem, disk, risk, gate, held, image, stops>>

Enter(j) ==
  /\ At(j, "gate") /\ gate = None
  /\ gate' = j
  /\ Goto(j, "snapshot")
  /\ UNCHANGED <<alive, mem, disk, risk, held, image, stops>>

\* persisted_snapshot, under the slots, secrets and egress locks.
TakeSnapshot(j) ==
  /\ At(j, "snapshot") /\ held = None
  /\ image' = [image EXCEPT ![j] = mem]
  /\ Goto(j, IF j \in Edit THEN "merge" ELSE "write")
  /\ UNCHANGED <<alive, mem, disk, risk, gate, held, stops>>

\* Mutant: the blocks are those of the snapshot.
MergeSnapshot(j) ==
  /\ At(j, "merge") /\ held = None
  /\ held' = j
  /\ image' = [image EXCEPT ![j] = @ \cup {j}]
  /\ Goto(j, "write")
  /\ UNCHANGED <<alive, mem, disk, risk, gate, stops>>

\* The edit takes the secrets lock, reads the blocks anew and changes them.
Merge(j) ==
  /\ At(j, "merge") /\ held = None
  /\ held' = j
  /\ image' = [image EXCEPT ![j] = (@ \cap Command) \cup (mem \ Command) \cup {j}]
  /\ Goto(j, "write")
  /\ UNCHANGED <<alive, mem, disk, risk, gate, stops>>

\* The block belongs to a repository: nothing is written.
Refuse(j) ==
  /\ At(j, "merge") /\ held = None
  /\ Leave(j, "unsaved")
  /\ UNCHANGED <<alive, mem, disk, risk, stops>>

\* The temp file is written and synced.  Its name is unique to the write.
WriteTemp(j) ==
  /\ At(j, "write")
  /\ Goto(j, "rename")
  /\ UNCHANGED <<alive, mem, disk, risk, gate, held, image, stops>>

Rename(j) ==
  /\ At(j, "rename")
  /\ disk' = image[j]
  /\ risk' = risk \cup {image[j]}
  /\ Goto(j, "sync")
  /\ UNCHANGED <<alive, mem, gate, held, image, stops>>

\* Mutant: the directory sync is best effort.
SyncMaybe(j) ==
  /\ At(j, "sync")
  /\ IF j \in Edit THEN Goto(j, "commit") /\ UNCHANGED <<gate, held, image>> ELSE Leave(j, "saved")
  /\ UNCHANGED <<alive, mem, disk, risk, stops>>

\* The directory is synced: no power failure takes the rename back.
SyncDir(j) ==
  /\ At(j, "sync")
  /\ risk' = {disk}
  /\ IF j \in Edit THEN Goto(j, "commit") /\ UNCHANGED <<gate, held, image>> ELSE Leave(j, "saved")
  /\ UNCHANGED <<alive, mem, disk, stops>>

\* A step of the write fails: persist warns, an edit returns the error.  A
\* rename that was not synced stays.
WriteFails(j) ==
  /\ pc[j] \in Writing
  /\ Leave(j, "unsaved")
  /\ UNCHANGED <<alive, mem, disk, risk, stops>>

\* The edit reaches memory and is answered.
Commit(j) ==
  /\ At(j, "commit")
  /\ mem' = (mem \cap Command) \cup (image[j] \ Command)
  /\ Leave(j, "saved")
  /\ UNCHANGED <<alive, disk, risk, stops>>

-----------------------------------------------------------------------------
\* The daemon ends, alone or with the machine.
Stop ==
  /\ alive /\ stops < MaxStops
  /\ alive' = FALSE
  /\ stops' = stops + 1
  /\ mem' = {}
  /\ gate' = None
  /\ held' = None
  /\ pc' = [j \in Job |-> IF pc[j] \in {"idle", "saved"} THEN pc[j] ELSE "dead"]
  /\ \/ UNCHANGED <<disk, risk>>
     \/ disk' \in risk /\ risk' = {disk'}
  /\ image' = [j \in Job |-> {}]

\* load_persisted.
Start ==
  /\ ~alive
  /\ alive' = TRUE
  /\ mem' = disk
  /\ UNCHANGED <<disk, risk, gate, held, image, pc, stops>>

JobStep(j) ==
  \/ Alter(j) \/ Submit(j) \/ Enter(j) \/ TakeSnapshot(j) \/ Merge(j) \/ Refuse(j)
  \/ WriteTemp(j) \/ Rename(j) \/ SyncDir(j) \/ WriteFails(j) \/ Commit(j)

Over == (\A j \in Job : pc[j] \in {"saved", "unsaved", "dead"}) /\ UNCHANGED vars

Next == (\E j \in Job : JobStep(j)) \/ Stop \/ Start \/ Over

Spec == Init /\ [][Next]_vars

-----------------------------------------------------------------------------
(* Properties. *)

\* Type invariant: every variable keeps its shape.
TypeOK ==
  /\ alive \in BOOLEAN
  /\ mem \subseteq Job
  /\ disk \subseteq Job
  /\ risk \subseteq SUBSET Job
  /\ gate \in Job \cup {None}
  /\ held \in Edit \cup {None}
  /\ image \in [Job -> SUBSET Job]
  /\ pc \in [Job -> PC]
  /\ stops \in Nat

\* No update is lost: what a command or a sync changed stays in the maps,
\* whatever block edit commits around it, and so does a committed edit
\* (supervisor.rs:1358-1360: the blocks are read again under their lock).
NothingLost ==
  alive => \A j \in Job : \/ pc[j] \in {"idle", "dead"}
                          \/ j \in Edit /\ ~At(j, "saved")
                          \/ j \in mem

\* What was reported as saved survives a power failure (atomic_json.rs: "acknowledge
\* only after file and directory sync").
AckedSurvives == \A j \in Job : At(j, "saved") => \A S \in risk : j \in S

Acked   == {j \in Job : pc[j] = "saved"}
Refused == {j \in Edit : pc[j] = "unsaved"}

File == INSTANCE StateFile WITH Change <- Job, saved <- disk, acked <- Acked, refused <- Refused

\* services.json is the file StateFile describes: no save overwrites a newer
\* snapshot with an older one (supervisor.rs:557-562, persist_gate).
FileKept == File!FileSpec

=============================================================================
