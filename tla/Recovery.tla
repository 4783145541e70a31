------------------------------ MODULE Recovery ------------------------------
(***************************************************************************)
(* What is left of one transfer when the program ends at any moment: its   *)
(* row and its chunk rows in the database (storage/database.py), written   *)
(* by the chunk manager and the controller, and the state file of          *)
(* ResumableTransfer (transfer/resumable.py).                              *)
(*                                                                         *)
(* A method of the database commits once, so it is one action; the state   *)
(* file is opened, which empties it, written, and only then the database.  *)
(* The event loop runs one method after the other: only a crash comes in   *)
(* between.  What calls ResumableTransfer is any coroutine.                *)
(***************************************************************************)
EXTENDS Integers, FiniteSets

CONSTANTS
    NumChunks,      \* chunks of the file
    TransferState,  \* what callers write into the state column
    MaxLists,       \* bound: lists built by init_send or init_receive
    MaxCrashes      \* bound: times the program ends without cleaning up

ASSUME ChunksAssumption == NumChunks \in Nat \ {0}
ASSUME StateAssumption ==
    /\ {"pending", "paused"} \subseteq TransferState
    /\ "absent" \notin TransferState
ASSUME BoundsAssumption == MaxLists \in Nat /\ MaxCrashes \in Nat

Chunk == 0 .. NumChunks - 1
List == 1 .. MaxLists

VARIABLES
    up,       \* the program runs
    crashes,  \* counter of the bound
    row,      \* state column of the transfers row, or "absent"
    rows,     \* list -> chunk -> state column of its chunk row, or "absent"
    list,     \* the list in _chunks, or NoList
    made,     \* lists built so far
    state,    \* chunk -> ChunkState.state in that list
    drain,    \* the chunk on its way through send_message, or Nothing
    file,     \* the state file: "absent", "torn" (empty or cut off) or "whole"
    saved,    \* the chunk states it holds if it is whole
    saving,   \* where save_state is
    ever      \* history: chunks that were ever acknowledged

memVars  == <<list, made, state, drain>>
fileVars == <<file, saved>>
diskVars == <<row, rows, fileVars>>
vars == <<up, crashes, memVars, diskVars, saving, ever>>

NoList == 0
Nothing == -1
ItemState == {"pending", "sent", "acked", "failed"}
States == [Chunk -> ItemState]

FileState == {"absent", "torn", "whole"}

Absent == "absent"
NoRows == [l \in List |-> [i \in Chunk |-> Absent]]
AllPending == [i \in Chunk |-> "pending"]

Idle == up /\ saving = "no"

-----------------------------------------------------------------------------
(* The database.                                                           *)

\* INSERT OR REPLACE deletes the old row first, and with it, by ON DELETE
\* CASCADE, its chunk rows.
SaveTransfer(s) ==
    /\ Idle
    /\ row' = s /\ rows' = NoRows
    /\ UNCHANGED <<up, crashes, memVars, fileVars, saving, ever>>

\* UPDATE of a row that is not there changes nothing.
UpdateTransferState(s) ==
    /\ Idle /\ row # Absent
    /\ row' = s
    /\ UNCHANGED <<up, crashes, memVars, rows, fileVars, saving, ever>>

\* Mutants: the chunk rows stay; the row is only marked.
DeleteKeepingChunks ==
    /\ Idle
    /\ row' = Absent /\ UNCHANGED rows
    /\ UNCHANGED <<up, crashes, memVars, fileVars, saving, ever>>
DeleteByMark ==
    /\ Idle
    /\ row' = "deleted" /\ rows' = NoRows
    /\ UNCHANGED <<up, crashes, memVars, fileVars, saving, ever>>
DeleteTransfer ==
    /\ Idle
    /\ row' = Absent /\ rows' = NoRows
    /\ UNCHANGED <<up, crashes, memVars, fileVars, saving, ever>>

\* update_chunk_state, by chunk id: a row of that very list, if it is there.
UpdateChunkRow(i, s) ==
    rows' = [rows EXCEPT ![list][i] = IF @ = Absent THEN Absent ELSE s]

SaveChunks(l) == rows' = [rows EXCEPT ![l] = AllPending]
DeleteTransferChunks == rows' = NoRows

-----------------------------------------------------------------------------
(* The chunk manager.                                                      *)

\* _ensure_parent_transfer.
EnsureParent == row' = IF row = Absent THEN "pending" ELSE row

\* init_send, init_receive: a transfers row if there is none, a new list, and
\* its rows under new ids beside those of older lists.
InitList ==
    /\ Idle /\ made < MaxLists
    /\ made' = made + 1 /\ list' = made + 1
    /\ state' = AllPending /\ drain' = Nothing
    /\ EnsureParent /\ SaveChunks(made + 1)
    /\ UNCHANGED <<up, crashes, fileVars, saving, ever>>

\* The first chunk that is pending, or failed and not given up: retry counts
\* are FileTransfer's.  "sent" is not written to the database.
GetNextPendingChunk ==
    /\ Idle /\ list # NoList /\ drain = Nothing
    /\ \E i \in Chunk :
         /\ state[i] \in {"pending", "failed"}
         /\ \A j \in 0 .. i - 1 : state[j] # "pending"
         /\ state' = [state EXCEPT ![i] = "sent"]
         /\ drain' = i
    /\ UNCHANGED <<up, crashes, list, made, diskVars, saving, ever>>

\* After send_message the chunk is marked once more, answered or not.
ChunkSent ==
    /\ Idle /\ drain # Nothing
    /\ state' = [state EXCEPT ![drain] = "sent"]
    /\ drain' = Nothing
    /\ UNCHANGED <<up, crashes, list, made, diskVars, saving, ever>>

\* Mutant: the row is not written.
AckInMemory(i) ==
    /\ Idle /\ list # NoList
    /\ state' = [state EXCEPT ![i] = "acked"]
    /\ ever' = ever \cup {i}
    /\ UNCHANGED <<up, crashes, list, made, drain, diskVars, saving>>
\* ack_chunk at the sender, receive_chunk at the receiver.
AckChunk(i) ==
    /\ Idle /\ list # NoList
    /\ state' = [state EXCEPT ![i] = "acked"]
    /\ UpdateChunkRow(i, "acked")
    /\ ever' = ever \cup {i}
    /\ UNCHANGED <<up, crashes, list, made, drain, row, fileVars, saving>>

MarkChunkFailed(i) ==
    /\ Idle /\ list # NoList
    /\ state' = [state EXCEPT ![i] = "failed"]
    /\ UpdateChunkRow(i, "failed")
    /\ UNCHANGED <<up, crashes, list, made, drain, row, fileVars, saving,
                   ever>>

\* The rows of every list go, the transfers row and the state file stay.
Cleanup ==
    /\ Idle
    /\ list' = NoList /\ drain' = Nothing /\ state' = AllPending
    /\ DeleteTransferChunks
    /\ UNCHANGED <<up, crashes, made, row, fileVars, saving, ever>>

-----------------------------------------------------------------------------
(* ResumableTransfer.                                                      *)

\* save_state: open(..., "w") empties the file ...
OpenStateFile ==
    /\ Idle /\ list # NoList
    /\ file' = "torn"
    /\ saving' = "opened"
    /\ UNCHANGED <<up, crashes, memVars, row, rows, saved, ever>>

\* ... json.dump fills it, and the row is replaced, which takes the chunk rows
\* with it; whatever raises in between is logged.
WriteStateFile ==
    /\ up /\ saving = "opened"
    /\ file' = "whole" /\ saved' = state
    /\ saving' = "written"
    /\ UNCHANGED <<up, crashes, memVars, row, rows, ever>>

RecordTransfer(s) ==
    /\ up /\ saving = "written"
    /\ row' = s /\ rows' = NoRows
    /\ saving' = "no"
    /\ UNCHANGED <<up, crashes, memVars, fileVars, ever>>

SaveFails ==
    /\ up /\ saving # "no"
    /\ saving' = "no"
    /\ UNCHANGED <<up, crashes, memVars, diskVars, ever>>

\* delete_state, and cleanup_old_states for a file of seven days.
DeleteState ==
    /\ Idle
    /\ file' = "absent"
    /\ UNCHANGED <<up, crashes, memVars, row, rows, saved, saving, ever>>

\* Entries of what load_state returns; None is the empty set.  The chunk rows
\* are read only if there is no state file; a file that does not parse is None.
Entry(l, i, s) == [list |-> l, index |-> i, state |-> s]
FromRows ==
    {e \in {Entry(l, i, rows[l][i]) : l \in List, i \in Chunk} :
        e.state # Absent}
Load(FromFile) ==
    IF file = "whole" THEN FromFile
    ELSE IF file = "absent" /\ row # Absent THEN FromRows
    ELSE {}
\* Mutant: chunks on their way are counted as received.
LoadedBold ==
    Load({Entry(NoList, i, IF saved[i] = "sent" THEN "acked" ELSE saved[i]) :
            i \in Chunk})
Loaded == Load({Entry(NoList, i, saved[i]) : i \in Chunk})

\* get_resume_info: what the file or the rows say of each chunk.
Count(s) == Cardinality({e \in Loaded : e.state = s})
\* Mutant: pending chunks do not count.
CanResumeLate == Loaded # {} /\ Count("acked") > 0
CanResume == Loaded # {} /\ Count("acked") + Count("pending") > 0

\* get_resumable_transfers.
Resumable == row = "paused" /\ Loaded # {}

-----------------------------------------------------------------------------
(* The program ends: the memory is gone, a transaction that was not        *)
(* committed too.                                                          *)

Crash ==
    /\ up /\ crashes < MaxCrashes
    /\ up' = FALSE /\ crashes' = crashes + 1
    /\ list' = NoList /\ drain' = Nothing /\ state' = AllPending
    /\ saving' = "no"
    /\ UNCHANGED <<made, diskVars, ever>>

Restart ==
    /\ ~up
    /\ up' = TRUE
    /\ UNCHANGED <<crashes, memVars, diskVars, saving, ever>>

Init ==
    /\ up = TRUE /\ crashes = 0
    /\ row = Absent /\ rows = NoRows
    /\ file = "absent" /\ saved = AllPending
    /\ list = NoList /\ made = 0 /\ drain = Nothing
    /\ state = AllPending
    /\ saving = "no"
    /\ ever = {}

Next ==
    \/ \E s \in TransferState :
         SaveTransfer(s) \/ UpdateTransferState(s) \/ RecordTransfer(s)
    \/ DeleteTransfer \/ InitList \/ GetNextPendingChunk \/ ChunkSent
    \/ \E i \in Chunk : AckChunk(i) \/ MarkChunkFailed(i)
    \/ Cleanup \/ OpenStateFile \/ WriteStateFile \/ SaveFails \/ DeleteState
    \/ Crash \/ Restart

Spec == Init /\ [][Next]_vars

-----------------------------------------------------------------------------
TypeOK ==
    /\ up \in BOOLEAN /\ crashes \in Nat
    /\ row \in TransferState \cup {Absent}
    /\ rows \in [List -> [Chunk -> ItemState \cup {Absent}]]
    /\ file \in FileState /\ saved \in States
    /\ list \in List \cup {NoList} /\ made \in 0 .. MaxLists
    /\ state \in States /\ drain \in Chunk \cup {Nothing}
    /\ saving \in {"no", "opened", "written"}
    /\ ever \in SUBSET Chunk

(* No chunk row is left without its transfer, whatever is replaced, deleted*)
(* or interrupted: save_chunks would raise on it, and load_state never     *)
(* find it (database.py:106, 218, 275-279; chunk_manager.py:76-90).        *)
RowsHaveParent == row = Absent => rows = NoRows

(* The rows of the list in memory are all gone, or all there and say what  *)
(* the list says, a chunk on its way excepted, which they keep as it was:  *)
(* there is no mixture, at any moment a crash may come (chunk_manager.py:  *)
(* 92-140, database.py:309-340).  They do go while the list is in use:     *)
(* save_transfer replaces the transfer's row, which erases them            *)
(* (database.py:106, 218), and a crash then loses what was acknowledged.   *)
RowsFollow ==
    list # NoList =>
      \/ \A i \in Chunk : rows[list][i] = Absent
      \/ \A i \in Chunk :
            IF state[i] = "sent"
            THEN rows[list][i] \in {"pending", "acked", "failed"}
            ELSE rows[list][i] = state[i]

(* What load_state returns covers the file, and calls no chunk received    *)
(* that never was, be it from the file, the rows of an older list or those *)
(* of a list that a crash cut short (resumable.py:60-103).                 *)
LoadedIsTrue ==
    Loaded # {} =>
      /\ {e.index : e \in Loaded} = Chunk
      /\ \A e \in Loaded : e.state = "acked" => e.index \in ever

(* A transfer that is listed as resumable, with its rows to go by, can be  *)
(* resumed unless a chunk has failed: the chunk that was on its way counts *)
(* as pending there (resumable.py:105-137).  Of a state file this is not   *)
(* true: it may say "sent" of all that is left, which counts for nothing.  *)
RowsCanResume ==
    Resumable /\ file = "absent" /\ ~CanResume => Count("failed") > 0
=============================================================================
