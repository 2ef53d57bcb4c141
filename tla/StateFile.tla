------------------------------ MODULE StateFile ------------------------------
(***************************************************************************)
(* What services.json promises, whoever writes it: a save replaces the     *)
(* whole file and takes back nothing but edits that were refused, and a    *)
(* change that was reported as saved is in the file from then on, whatever *)
(* happens to the daemon or to the machine.                                *)
(***************************************************************************)

CONSTANT Change

VARIABLES
  saved,    \* the changes the file holds
  acked,    \* the changes reported as saved
  refused   \* the changes reported as failed that the file may still hold

fileVars == <<saved, acked, refused>>

FileInit == saved = {} /\ acked = {} /\ refused = {}

Save == /\ saved' \in {S \in SUBSET Change : saved \ refused \subseteq S}
        /\ UNCHANGED <<acked, refused>>

Ack(x) == /\ x \in saved
          /\ acked' = acked \cup {x}
          /\ UNCHANGED <<saved, refused>>

Refuse(x) == /\ x \notin acked
             /\ refused' = refused \cup {x}
             /\ UNCHANGED <<saved, acked>>

\* The daemon ends; a power failure may also take back the latest saves.
Lose == /\ saved' \in {S \in SUBSET Change : acked \subseteq S}
        /\ refused' = {}
        /\ UNCHANGED acked

FileNext == \/ Save
            \/ \E x \in Change : Ack(x) \/ Refuse(x)
            \/ Lose

FileSpec == FileInit /\ [][FileNext]_fileVars

=============================================================================
