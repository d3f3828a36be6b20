---------------------------- MODULE SnapshotStore ----------------------------
(***************************************************************************)
(* SnapshotStore (persistence.cpp) over atomic_write_file (workspace.cpp): *)
(* the file at the state path, the saves in progress and their staging     *)
(* files.  A save takes its snapshot of the core, writes it to a staging   *)
(* file, flushes and closes that, and puts it in place of the file at the  *)
(* state path.  Two saves may be under way at the same time, and nothing   *)
(* but the names of their staging files keeps them apart.                  *)
(*                                                                         *)
(* An image is abstracted to what a successor must find in it: the changes *)
(* and the evidence it contains.  A file is abstracted to the image its    *)
(* header was made for (its length, its checksum) and the images whose     *)
(* bytes are behind the header.  The process may die between any two       *)
(* steps; the host may not: nothing is synced to disk.                     *)
(***************************************************************************)
EXTENDS Naturals

CONSTANTS
    Saver,            \* threads that may be inside save() at the same time
    MaxSaveFailures   \* writes that fail, a bound

ASSUME StoreAssumption == MaxSaveFailures \in Nat

VARIABLES
    disk,             \* the file at the state path
    staging,          \* the staging files, by name
    saving,           \* per saver: how far its save is
    saveFailures

storeVars == <<disk, staging, saving, saveFailures>>

EmptyImage == [changes |-> {}, evidence |-> 0]
File(image, payload) == [image |-> image, payload |-> payload]
NoFile == File(EmptyImage, {})
NotSaving == [pc |-> "Idle", image |-> EmptyImage]

\* validate_header and parse_image: the payload has the length and the
\* checksum of the header, so it is the one that the header was made for.
Intact(file) == file.payload = {file.image}

\* The name of the staging file: the process and a counter of the saves.
\* Mutation: the name is that of the state path with a suffix.
shared_staging_name(s) == CHOOSE t \in Saver : TRUE
StagingName(s) == s

\* core.snapshot() and serialize_snapshot(): the image is fixed from here on.
BeginSave(s, image) ==
    /\ saving' = [saving EXCEPT ![s] = [pc |-> "Serialized", image |-> image]]
    /\ UNCHANGED <<disk, staging, saveFailures>>

\* A save that fails, a short write or a failing flush included, removes the
\* staging file and leaves the file at the state path alone.
FailSave(s) ==
    /\ saveFailures < MaxSaveFailures
    /\ saveFailures' = saveFailures + 1
    /\ saving' = [saving EXCEPT ![s].pc = "Failed"]
    /\ staging' = [staging EXCEPT ![StagingName(s)] = NoFile]
    /\ UNCHANGED disk

\* The staging file is opened, which empties one that is there already, and
\* begun with the header; the payload is written behind it, flushed and closed.
write_staging_file(s) ==
    \/ /\ saving[s].pc = "Serialized"
       /\ saving' = [saving EXCEPT ![s].pc = "Created"]
       /\ staging' = [staging EXCEPT ![StagingName(s)] = File(saving[s].image, {})]
       /\ UNCHANGED <<disk, saveFailures>>
    \/ /\ saving[s].pc = "Created"
       /\ saving' = [saving EXCEPT ![s].pc = "Written"]
       /\ staging' = [staging EXCEPT ![StagingName(s)].payload = @ \cup {saving[s].image}]
       /\ UNCHANGED <<disk, saveFailures>>
    \/ saving[s].pc \in {"Serialized", "Created"} /\ FailSave(s)

\* The staging file, as it is now, is renamed to the state path in one step, or
\* the file that is there stays.
replace_with_staging(s) ==
    \/ /\ saving[s].pc = "Written" /\ staging[StagingName(s)] # NoFile
       /\ disk' = staging[StagingName(s)]
       /\ staging' = [staging EXCEPT ![StagingName(s)] = NoFile]
       /\ saving' = [saving EXCEPT ![s].pc = "Saved"]
       /\ UNCHANGED saveFailures
    \/ saving[s].pc = "Written" /\ FailSave(s)

atomic_write_file(s) == write_staging_file(s) \/ replace_with_staging(s)

\* save() has returned to its caller.
Returned(s) == saving[s].pc \in {"Saved", "Failed"}
TakeResult(s) ==
    /\ saving' = [saving EXCEPT ![s] = NotSaving]
    /\ UNCHANGED <<disk, staging, saveFailures>>

\* A state path without a file stands for the empty image.
StoreInit ==
    /\ disk = File(EmptyImage, {EmptyImage})
    /\ staging = [s \in Saver |-> NoFile]
    /\ saving = [s \in Saver |-> NotSaving]
    /\ saveFailures = 0
=============================================================================
