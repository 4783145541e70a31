---------------------------- MODULE FileTransfer ----------------------------
(***************************************************************************)
(* One file transfer between two peers: the TransferController and the     *)
(* ChunkManager of both ends, over one authenticated connection that can   *)
(* be lost and re-established (network/transfer_controller.py,             *)
(* transfer/chunk_manager.py).                                             *)
(*                                                                         *)
(* Each end runs one asyncio event loop.  The code between two awaits runs *)
(* without interruption, so it is one action; `await conn.send_message`    *)
(* writes and may then suspend until the socket's buffer drains            *)
(* (connection_manager.py:69-76), so what the code does after it is an     *)
(* action of its own.  A connection delivers in order and an end handles   *)
(* one message at a time (connection_manager.py:311-346).                  *)
(*                                                                         *)
(* Abstracted: contents of chunks (only "the bytes match their hash" is    *)
(* kept), compression, speeds, byte counts and progress, GUI callbacks.    *)
(***************************************************************************)
EXTENDS Integers, Sequences

CONSTANTS
    NumChunks,      \* chunks of the file: 0 for an empty file
    MaxOps,         \* bound: pause/resume/cancel calls made at each end
    MaxDamage,      \* bound: chunks whose bytes do not match their hash
    MaxDrops,       \* bound: times the connection is lost
    ReadMayFail,    \* whether the sender's file can become unreadable
    MaxRefusals,    \* bound: times the receiver's disk refuses to write
    MayMix          \* bound: whether chunks are damaged in a run in which
                    \* somebody interferes

Sender == "sender"
Receiver == "receiver"
End == {Sender, Receiver}

Other(e) == IF e = Sender THEN Receiver ELSE Sender

ASSUME NumChunksAssumption == NumChunks \in Nat
ASSUME BoundsAssumption ==
    /\ MaxOps \in [End -> Nat]
    /\ MaxDamage \in Nat
    /\ MaxDrops \in Nat
    /\ ReadMayFail \in BOOLEAN
    /\ MaxRefusals \in Nat
    /\ MayMix \in BOOLEAN

Chunk == 0 .. NumChunks - 1

\* get_next_pending_chunk gives a failed chunk up once its retry_count is 5.
MaxRetryCount == 5

\* Coroutines that may come to run _send_file_chunks: slot 0 is the one
\* created for the accepted request, slot k the one of the k-th user call.
Slot == 0 .. MaxOps[Sender]

NoConn == 0                     \* get_connection returned None

VARIABLES
    state,      \* end -> Transfer.state in memory ("none": no Transfer yet)
    active,     \* end -> transfer_id is in _active_transfers
    db,         \* end -> state column of the transfers row
    history,    \* end -> an entry was added to transfer_history
    listed,     \* end -> ChunkManager._chunks has a list for the transfer
    gen,        \* how many lists init_send has built: identity of the newest
    chunkState, \* sender's list: chunk -> state
    retry,      \* sender's list: chunk -> retry_count
    posted,     \* history: chunks of the newest list that were written
    dropped,    \* history: chunks of it whose coroutine raised before that
    acked,      \* receiver's list: chunks in state "acked"
    data,       \* receiver's _chunk_data: chunks whose bytes are held
    file,       \* the receiver's output file
    refused,    \* times the receiver's disk refused to write
    dialog,     \* the receiver's question to its user
    task,       \* sender's coroutines, see Slot
    busy,       \* receiver suspended in _handle_file_chunk on the ack
    leaving,    \* end -> cancel_transfer suspended on its message
    rejecting,  \* reject_transfer suspended on its message
    chan,       \* end -> messages on their way to that end, in order
    up,         \* the connection is alive
    epoch,      \* number of the current connection
    ops,        \* end -> user calls made so far
    damage      \* damaged chunks sent so far

xferVars  == <<state, active, db, history>>
sentVars  == <<posted, dropped>>
sendVars  == <<gen, chunkState, retry, sentVars>>
diskVars  == <<file, refused>>
recvVars  == <<acked, data, diskVars, dialog>>
waitVars  == <<busy, leaving, rejecting>>
linkVars  == <<up, epoch>>
vars == <<xferVars, listed, sendVars, recvVars, task, waitVars, chan, linkVars,
          ops, damage>>

TransferState == {"none", "pending", "in_progress", "paused", "completed",
                  "cancelled", "failed"}
ItemState == {"pending", "sent", "acked", "failed"}
TaskPC == {"idle", "resuming", "start", "loop", "drain", "done"}

Action == {"pause", "resume", "cancel"}
MetaMsg == [type |-> "file_meta"]
ChunkMsg(i, good) == [type |-> "file_chunk", index |-> i, good |-> good]
AckMsg(i, ok) == [type |-> "file_ack", index |-> i, ok |-> ok]
RequestMsg(accepted) == [type |-> "file_request", accepted |-> accepted]
DataMsg(action) == [type |-> "data", action |-> action]

Message ==
    {MetaMsg}
      \cup {ChunkMsg(i, b) : i \in Chunk, b \in BOOLEAN}
      \cup {AckMsg(i, b) : i \in Chunk, b \in BOOLEAN}
      \cup {RequestMsg(b) : b \in BOOLEAN}
      \cup {DataMsg(a) : a \in Action}

Coroutine == [pc : TaskPC, index : Nat, gen : Nat, conn : Nat]
NewTask == [pc |-> "idle", index |-> 0, gen |-> 0, conn |-> NoConn]

Init ==
    /\ state = [e \in End |-> "none"]
    /\ active = [e \in End |-> FALSE]
    /\ db = [e \in End |-> "none"]
    /\ history = [e \in End |-> FALSE]
    /\ listed = [e \in End |-> FALSE]
    /\ gen = 0
    /\ chunkState = [i \in Chunk |-> "pending"]
    /\ retry = [i \in Chunk |-> 0]
    /\ posted = {}
    /\ dropped = {}
    /\ acked = {}
    /\ data = {}
    /\ file = "absent"
    /\ refused = 0
    /\ dialog = "none"
    /\ task = [t \in Slot |-> NewTask]
    /\ busy = FALSE
    /\ leaving = [e \in End |-> FALSE]
    /\ rejecting = FALSE
    /\ chan = [e \in End |-> <<>>]
    /\ up = TRUE
    /\ epoch = 1
    /\ ops = [e \in End |-> 0]
    /\ damage = 0

-----------------------------------------------------------------------------
(* Connection.  CurrentConn is what get_connection(peer_id) returns.       *)

CurrentConn == IF up THEN epoch ELSE NoConn
Alive(c) == up /\ c = epoch

\* The handlers look the transfer up in _active_transfers; the mutant does not.
KnownAlways(e) == TRUE
Known(e) == active[e]

Incoming(e, type) == chan[e] # <<>> /\ Head(chan[e]).type = type
Consume(e) == chan' = [chan EXCEPT ![e] = Tail(@)]
Post(e, m) == chan' = [chan EXCEPT ![e] = Append(@, m)]
PostIfUp(e, m) == IF up THEN Post(e, m) ELSE UNCHANGED chan
Reply(e, m) ==
    chan' = [chan EXCEPT ![e] = Tail(@),
                         ![Other(e)] = IF up THEN Append(@, m) ELSE @]

\* Assign Transfer.state and the database row together.
SetState(e, s) ==
    /\ state' = [state EXCEPT ![e] = s]
    /\ db' = [db EXCEPT ![e] = s]

\* Mutants of Cleanup: the chunks stay, or the transfer does.
CleanupKeepsChunks(e) ==
    /\ active' = [active EXCEPT ![e] = FALSE]
    /\ listed' = [listed EXCEPT ![e] = FALSE]
    /\ UNCHANGED <<acked, data>>
CleanupKeepsTransfer(e) ==
    /\ listed' = [listed EXCEPT ![e] = FALSE]
    /\ UNCHANGED <<active, acked, data>>

\* _cleanup_transfer: forget the transfer and its chunks.
Cleanup(e) ==
    /\ active' = [active EXCEPT ![e] = FALSE]
    /\ listed' = [listed EXCEPT ![e] = FALSE]
    /\ IF e = Receiver THEN acked' = {} /\ data' = {}
                       ELSE UNCHANGED <<acked, data>>

-----------------------------------------------------------------------------
(* Offering a file and answering the offer.                                *)

SendFile ==
    /\ up /\ state[Sender] = "none"
    /\ SetState(Sender, "pending")
    /\ active' = [active EXCEPT ![Sender] = TRUE]
    /\ Post(Receiver, MetaMsg)
    /\ UNCHANGED <<history, listed, sendVars, recvVars, task, waitVars,
                   linkVars, ops, damage>>

HandleFileMeta ==
    /\ ~busy /\ Incoming(Receiver, "file_meta")
    /\ Consume(Receiver)
    /\ SetState(Receiver, "pending")
    /\ active' = [active EXCEPT ![Receiver] = TRUE]
    /\ dialog' = "open"
    /\ UNCHANGED <<history, listed, sendVars, acked, data, diskVars, task,
                   waitVars, linkVars, ops, damage>>

\* The receiver's disk is full or the directory not writable (README.md:298).
Refuse ==
    /\ refused < MaxRefusals
    /\ MayMix \/ damage = 0
    /\ refused' = refused + 1

\* The user says yes.  The dialog is consumed even when the transfer is gone,
\* the peer is not connected or the directory cannot be made, and then
\* nothing else happens.
AcceptTransfer ==
    /\ dialog = "open"
    /\ \/ /\ active[Receiver] /\ up
          /\ dialog' = "accepted"
          /\ listed' = [listed EXCEPT ![Receiver] = TRUE]
          /\ acked' = {} /\ data' = {}
          /\ Post(Sender, RequestMsg(TRUE))
          /\ UNCHANGED refused
       \/ /\ IF active[Receiver] /\ up THEN Refuse ELSE UNCHANGED refused
          /\ dialog' = "lost"
          /\ UNCHANGED <<listed, acked, data, chan>>
    /\ UNCHANGED <<xferVars, sendVars, file, task, waitVars, linkVars, ops,
                   damage>>

\* The user says no.
RejectTransfer ==
    /\ dialog = "open"
    /\ dialog' = "rejected"
    /\ IF active[Receiver] /\ ~up
         THEN SetState(Receiver, "cancelled") /\ Cleanup(Receiver)
         ELSE UNCHANGED <<state, db, active, listed, acked, data>>
    /\ rejecting' = (active[Receiver] /\ up)
    /\ IF active[Receiver] THEN PostIfUp(Sender, RequestMsg(FALSE))
                           ELSE UNCHANGED chan
    /\ UNCHANGED <<history, sendVars, diskVars, task, busy, leaving, linkVars,
                   ops, damage>>

RejectSent ==
    /\ rejecting /\ rejecting' = FALSE
    /\ SetState(Receiver, "cancelled")
    /\ Cleanup(Receiver)
    /\ UNCHANGED <<history, sendVars, diskVars, dialog, task, busy, leaving,
                   chan, linkVars, ops, damage>>

RejectFails ==
    /\ rejecting /\ ~up /\ rejecting' = FALSE
    /\ UNCHANGED <<xferVars, listed, sendVars, recvVars, task, busy, leaving,
                   chan, linkVars, ops, damage>>

\* create_task for the accepted request; the mutant forgets it.
CreateNoTask == task
CreateTask == [task EXCEPT ![0] = [@ EXCEPT !.pc = "start", !.conn = epoch]]

HandleFileRequest ==
    /\ Incoming(Sender, "file_request")
    /\ Consume(Sender)
    /\ LET accepted == Head(chan[Sender]).accepted
       IN  IF Known(Sender)
             THEN /\ SetState(Sender, IF accepted THEN "in_progress"
                                                  ELSE "cancelled")
                  /\ task' = IF accepted THEN CreateTask ELSE task
             ELSE UNCHANGED <<state, db, task>>
    /\ UNCHANGED <<active, history, listed, sendVars, recvVars, waitVars,
                   linkVars, ops, damage>>

-----------------------------------------------------------------------------
(* _send_file_chunks: one step from one await to the next.                 *)

TaskDone(t) == task' = [task EXCEPT ![t].pc = "done"]

AddToHistory(e) == history' = [history EXCEPT ![e] = TRUE]

Finish(t) ==
    /\ TaskDone(t)
    /\ SetState(Sender, "completed")
    /\ AddToHistory(Sender)

\* The except clause: the peer is not told.
Fail(t) ==
    /\ TaskDone(t)
    /\ SetState(Sender, "failed")
    /\ UNCHANGED history

\* Nobody has called pause, resume or cancel, and the connection holds.
Calm == up /\ epoch = 1 /\ \A e \in End : ops[e] = 0
Unreadable == ReadMayFail /\ (MayMix \/ damage = 0)

\* Read chunk i of list g and write it to the coroutine's connection; s is
\* the transfer's state in this step, sent and lost what posted and dropped
\* hold before it.  Reading can raise, and so does the write on a connection
\* that is dead or was None: the chunk, marked sent already, then never goes
\* out.
Transmit(t, i, g, s, sent, lost) ==
    \/ /\ Alive(task[t].conn)
       /\ \E good \in BOOLEAN :
            /\ good \/ (damage < MaxDamage /\ (MayMix \/ Calm))
            /\ damage' = IF good THEN damage ELSE damage + 1
            /\ Post(Receiver, ChunkMsg(i, good))
       /\ task' = [task EXCEPT ![t] =
                     [@ EXCEPT !.pc = "drain", !.index = i, !.gen = g]]
       /\ state' = [state EXCEPT ![Sender] = s]
       /\ posted' = sent \cup {i} /\ dropped' = lost
       /\ UNCHANGED <<db, history>>
    \/ /\ Unreadable \/ ~Alive(task[t].conn)
       /\ posted' = sent /\ dropped' = lost \cup {i}
       /\ Fail(t)
       /\ UNCHANGED <<chan, damage>>

\* The list init_send builds.  Mutants: chunks numbered from one; chunks
\* acknowledged before are kept.
NewListFromOne == [i \in 1 .. NumChunks |-> "pending"]
NewListKeepsAcked ==
    [i \in Chunk |-> IF listed[Sender] /\ chunkState[i] = "acked"
                       THEN "acked" ELSE "pending"]
NewList == [i \in Chunk |-> "pending"]

\* The first step of the coroutine: whatever the state was, it becomes
\* in_progress, a new list replaces the old one and its first chunk is sent.
StartSendFileChunks(t) ==
    /\ task[t].pc = "start"
    /\ \/ /\ Unreadable         \* init_send raises
          /\ Fail(t)
          /\ UNCHANGED <<listed, sendVars, chan, damage>>
       \/ /\ gen' = gen + 1
          /\ listed' = [listed EXCEPT ![Sender] = TRUE]
          /\ retry' = [i \in Chunk |-> 0]
          /\ IF NumChunks = 0
               THEN /\ chunkState' = NewList
                    /\ posted' = {} /\ dropped' = {}
                    /\ Finish(t) /\ UNCHANGED <<chan, damage>>
               ELSE /\ chunkState' = [NewList EXCEPT ![0] = "sent"]
                    /\ Transmit(t, 0, gen + 1, "in_progress", {}, {})
    /\ UNCHANGED <<active, recvVars, waitVars, linkVars, ops>>

\* Mutants of Sendable: the last chunk is left out; one retry too many.
SendableButLast(i) ==
    listed[Sender] /\ i < NumChunks - 1 /\ chunkState[i] = "pending"
SendableOnceMore(i) ==
    /\ listed[Sender]
    /\ \/ chunkState[i] = "pending"
       \/ chunkState[i] = "failed" /\ retry[i] <= MaxRetryCount

\* What get_next_pending_chunk takes.
Sendable(i) ==
    /\ listed[Sender]
    /\ \/ chunkState[i] = "pending"
       \/ chunkState[i] = "failed" /\ retry[i] < MaxRetryCount

NextPendingChunk(i) == Sendable(i) /\ \A j \in Chunk : j < i => ~Sendable(j)

\* The top of the loop.  A paused coroutine only sleeps and looks again.
SendNextChunk(t) ==
    /\ task[t].pc = "loop"
    /\ state[Sender] \notin {"paused", "cancelled"}
    /\ \/ /\ \A i \in Chunk : ~Sendable(i)
          /\ Finish(t)
          /\ UNCHANGED <<chunkState, retry, sentVars, chan, damage>>
       \/ \E i \in Chunk :
            /\ NextPendingChunk(i)
            /\ chunkState' = [chunkState EXCEPT ![i] = "sent"]
            /\ retry' = [retry EXCEPT ![i] =
                           IF chunkState[i] = "failed" THEN @ + 1 ELSE @]
            /\ Transmit(t, i, gen, state[Sender], posted, dropped)
    /\ UNCHANGED <<active, listed, gen, recvVars, waitVars, linkVars, ops>>

\* Mutant: a cancelled coroutine sleeps on, as a paused one does.
KeepSleeping(t) ==
    task[t].pc = "loop" /\ state[Sender] = "cancelled" /\ UNCHANGED vars

StopSending(t) ==
    /\ task[t].pc = "loop"
    /\ state[Sender] = "cancelled"
    /\ TaskDone(t)
    /\ UNCHANGED <<xferVars, listed, sendVars, recvVars, waitVars, chan,
                   linkVars, ops, damage>>

\* The write has drained.  The chunk object belongs to the list it was taken
\* from, which may have been replaced meanwhile.
ChunkSent(t) ==
    /\ task[t].pc = "drain"
    /\ chunkState' = IF task[t].gen = gen
                       THEN [chunkState EXCEPT ![task[t].index] = "sent"]
                       ELSE chunkState
    /\ db' = [db EXCEPT ![Sender] = "in_progress"]
    /\ task' = [task EXCEPT ![t].pc = "loop"]
    /\ UNCHANGED <<state, active, history, listed, gen, retry, sentVars,
                   recvVars, waitVars, chan, linkVars, ops, damage>>

DrainFails(t) ==
    /\ task[t].pc = "drain" /\ ~Alive(task[t].conn)
    /\ Fail(t)
    /\ UNCHANGED <<active, listed, sendVars, recvVars, waitVars, chan,
                   linkVars, ops, damage>>

-----------------------------------------------------------------------------
(* Chunks and acknowledgements.                                            *)

\* A chunk for a transfer that is not active is dropped without an answer.
\* A good one is stored in any state, before the transfer is accepted too.
HandleFileChunk ==
    /\ ~busy /\ Incoming(Receiver, "file_chunk")
    /\ LET m == Head(chan[Receiver])
       IN  \/ /\ ~Known(Receiver)
              /\ Consume(Receiver)
              /\ UNCHANGED <<db, acked, data, busy>>
           \/ /\ Known(Receiver) /\ ~m.good
              /\ Reply(Receiver, AckMsg(m.index, FALSE))
              /\ UNCHANGED <<db, acked, data, busy>>
           \/ /\ Known(Receiver) /\ m.good
              /\ data' = data \cup {m.index}
              /\ acked' = IF listed[Receiver] THEN acked \cup {m.index}
                                             ELSE acked
              /\ db' = [db EXCEPT ![Receiver] = "in_progress"]
              /\ Reply(Receiver, AckMsg(m.index, TRUE))
              /\ busy' = TRUE
    /\ UNCHANGED <<state, active, history, listed, sendVars, diskVars, dialog,
                   task, leaving, rejecting, linkVars, ops, damage>>

\* assemble_file truncates the file and writes chunk after chunk.  It gives up
\* at one it lacks, and when the disk refuses: making the directory or opening
\* raise before the file is touched, writing leaves it cut, also a whole one.
AssembleFile ==
    Chunk \subseteq data /\ file' = "whole" /\ UNCHANGED refused
AssembleFails ==
    \/ ~(Chunk \subseteq data) /\ file' = "partial" /\ UNCHANGED refused
    \/ Refuse /\ file' \in {file, "partial"}

\* get_chunk_progress: acked >= total.  Mutants: one chunk is enough; the
\* chunks stored are counted instead of those of the list.
OneAcked == listed[Receiver] /\ acked # {}
AllStored == NumChunks > 0 /\ data = Chunk
AllAcked == listed[Receiver] /\ NumChunks > 0 /\ acked = Chunk

\* The ack is written: with every listed chunk acked the file is put
\* together, also when it was before.
FileChunkAcked ==
    /\ busy /\ busy' = FALSE
    /\ \/ AllAcked /\ AssembleFile
          /\ SetState(Receiver, "completed") /\ AddToHistory(Receiver)
       \/ AllAcked /\ AssembleFails /\ UNCHANGED <<state, db, history>>
       \/ ~AllAcked /\ UNCHANGED <<diskVars, state, db, history>>
    /\ UNCHANGED <<active, listed, sendVars, acked, data, dialog, task,
                   leaving, rejecting, chan, linkVars, ops, damage>>

\* The write of the ack raises: the handler logs and returns.
FileChunkAckFails ==
    /\ busy /\ ~up /\ busy' = FALSE
    /\ UNCHANGED <<xferVars, listed, sendVars, recvVars, task, leaving,
                   rejecting, chan, linkVars, ops, damage>>

\* ack_chunk and mark_chunk_failed change the chunk of the newest list.
HandleFileAck ==
    /\ Incoming(Sender, "file_ack")
    /\ Consume(Sender)
    /\ LET m == Head(chan[Sender])
       IN  IF Known(Sender) /\ listed[Sender]
             THEN /\ chunkState' = [chunkState EXCEPT ![m.index] =
                                      IF m.ok THEN "acked" ELSE "failed"]
                  /\ retry' = [retry EXCEPT ![m.index] =
                                 IF m.ok THEN @ ELSE @ + 1]
             ELSE UNCHANGED <<chunkState, retry>>
    /\ UNCHANGED <<xferVars, listed, gen, sentVars, recvVars, task, waitVars,
                   linkVars, ops, damage>>

-----------------------------------------------------------------------------
(* Pause, resume and cancel: called at one end, told to the other.         *)

\* The peer's call arrives.
HandleData(e) ==
    /\ e = Receiver => ~busy
    /\ Incoming(e, "data")
    /\ Consume(e)
    /\ LET action == Head(chan[e]).action
       IN  IF Known(e)
             THEN /\ SetState(e, CASE action = "pause"  -> "paused"
                                   [] action = "resume" -> "in_progress"
                                   [] action = "cancel" -> "cancelled")
                  /\ IF action = "cancel"
                       THEN Cleanup(e)
                       ELSE UNCHANGED <<active, listed, acked, data>>
             ELSE UNCHANGED <<state, db, active, listed, acked, data>>
    /\ UNCHANGED <<history, sendVars, diskVars, dialog, task, waitVars,
                   linkVars, ops, damage>>

UserCall(e) ==
    /\ active[e] /\ ops[e] < MaxOps[e]
    /\ MayMix \/ damage = 0
    /\ ops' = [ops EXCEPT ![e] = @ + 1]

PauseTransfer(e) ==
    /\ UserCall(e)
    /\ SetState(e, "paused")
    /\ PostIfUp(Other(e), DataMsg("pause"))
    /\ UNCHANGED <<active, history, listed, sendVars, recvVars, task,
                   waitVars, linkVars, damage>>

\* At the sender a coroutine is created once the message is written, on the
\* connection found before, None included; one that still runs is kept.
ResumeTransfer(e) ==
    /\ UserCall(e)
    /\ SetState(e, "in_progress")
    /\ PostIfUp(Other(e), DataMsg("resume"))
    /\ task' = IF e = Sender
                 THEN [task EXCEPT ![ops[e] + 1] =
                         [@ EXCEPT !.pc = IF up THEN "resuming" ELSE "start",
                                   !.conn = CurrentConn]]
                 ELSE task
    /\ UNCHANGED <<active, history, listed, sendVars, recvVars, waitVars,
                   linkVars, damage>>

ResumeSent(t) ==
    /\ task[t].pc = "resuming"
    /\ task' = [task EXCEPT ![t].pc = "start"]
    /\ UNCHANGED <<xferVars, listed, sendVars, recvVars, waitVars, chan,
                   linkVars, ops, damage>>

ResumeFails(t) ==
    /\ task[t].pc = "resuming" /\ ~Alive(task[t].conn)
    /\ TaskDone(t)
    /\ UNCHANGED <<xferVars, listed, sendVars, recvVars, waitVars, chan,
                   linkVars, ops, damage>>

\* Cleanup waits for the message to be written.
CancelTransfer(e) ==
    /\ UserCall(e)
    /\ SetState(e, "cancelled")
    /\ PostIfUp(Other(e), DataMsg("cancel"))
    /\ IF up THEN /\ leaving' = [leaving EXCEPT ![e] = TRUE]
                  /\ UNCHANGED <<active, listed, acked, data>>
             ELSE Cleanup(e) /\ UNCHANGED leaving
    /\ UNCHANGED <<history, sendVars, diskVars, dialog, task, busy, rejecting,
                   linkVars, damage>>

CancelSent(e) ==
    /\ leaving[e]
    /\ leaving' = [leaving EXCEPT ![e] = FALSE]
    /\ Cleanup(e)
    /\ UNCHANGED <<state, db, history, sendVars, diskVars, dialog, task, busy,
                   rejecting, chan, linkVars, ops, damage>>

\* The write raises and the transfer stays active.
CancelFails(e) ==
    /\ leaving[e] /\ ~up
    /\ leaving' = [leaving EXCEPT ![e] = FALSE]
    /\ UNCHANGED <<xferVars, listed, sendVars, recvVars, task, busy,
                   rejecting, chan, linkVars, ops, damage>>

-----------------------------------------------------------------------------
(* Loss of the connection.  An end still reads what had reached it; what it *)
(* writes goes nowhere.                                                    *)

ConnectionLost ==
    /\ up /\ epoch <= MaxDrops
    /\ MayMix \/ damage = 0
    /\ up' = FALSE
    /\ \E i \in 0 .. Len(chan[Sender]), j \in 0 .. Len(chan[Receiver]) :
         chan' = [chan EXCEPT ![Sender] = SubSeq(@, 1, i),
                              ![Receiver] = SubSeq(@, 1, j)]
    /\ UNCHANGED <<xferVars, listed, sendVars, recvVars, task, waitVars,
                   epoch, ops, damage>>

\* Whoever waited for a drain is released as soon as the connection is lost,
\* and what had arrived is read, long before the peers shake hands again.
Reconnect ==
    /\ ~up /\ \A e \in End : chan[e] = <<>> /\ ~leaving[e]
    /\ ~busy /\ ~rejecting
    /\ \A t \in Slot : task[t].pc \notin {"drain", "resuming"}
    /\ up' = TRUE
    /\ epoch' = epoch + 1
    /\ UNCHANGED <<xferVars, listed, sendVars, recvVars, task, waitVars,
                   chan, ops, damage>>

-----------------------------------------------------------------------------
TaskStep(t) ==
    \/ StartSendFileChunks(t) \/ SendNextChunk(t) \/ StopSending(t)
    \/ ChunkSent(t) \/ DrainFails(t)
    \/ ResumeSent(t) \/ ResumeFails(t)

Handle(e) ==
    \/ e = Receiver /\ (HandleFileMeta \/ HandleFileChunk)
    \/ e = Sender /\ (HandleFileAck \/ HandleFileRequest)
    \/ HandleData(e)

Continue(e) ==
    \/ e = Receiver /\ (\/ FileChunkAcked \/ FileChunkAckFails
                        \/ RejectSent \/ RejectFails)
    \/ CancelSent(e) \/ CancelFails(e)

User(e) ==
    \/ e = Sender /\ SendFile
    \/ e = Receiver /\ (AcceptTransfer \/ RejectTransfer)
    \/ PauseTransfer(e) \/ ResumeTransfer(e) \/ CancelTransfer(e)

Next ==
    \/ \E t \in Slot : TaskStep(t)
    \/ \E e \in End : Handle(e) \/ Continue(e) \/ User(e)
    \/ ConnectionLost \/ Reconnect

Spec == Init /\ [][Next]_vars

\* The event loops run what is ready and the connection delivers; nothing
\* obliges a user to act, a connection to fail or a peer to come back.
Fairness ==
    /\ \A t \in Slot : WF_vars(TaskStep(t))
    /\ \A e \in End : WF_vars(Handle(e)) /\ WF_vars(Continue(e))

FairSpec == Spec /\ Fairness

-----------------------------------------------------------------------------
(* What the model keeps of every variable.                                 *)
TypeOK ==
    /\ state \in [End -> TransferState]
    /\ active \in [End -> BOOLEAN]
    /\ db \in [End -> TransferState]
    /\ history \in [End -> BOOLEAN]
    /\ listed \in [End -> BOOLEAN]
    /\ gen \in Nat
    /\ chunkState \in [Chunk -> ItemState]
    /\ retry \in [Chunk -> Nat]
    /\ posted \in SUBSET Chunk
    /\ dropped \in SUBSET Chunk
    /\ acked \in SUBSET Chunk
    /\ data \in SUBSET Chunk
    /\ file \in {"absent", "partial", "whole"}
    /\ refused \in Nat
    /\ dialog \in {"none", "open", "accepted", "rejected", "lost"}
    /\ task \in [Slot -> Coroutine]
    /\ busy \in BOOLEAN
    /\ leaving \in [End -> BOOLEAN]
    /\ rejecting \in BOOLEAN
    /\ chan \in [End -> Seq(Message)]
    /\ up \in BOOLEAN
    /\ epoch \in Nat
    /\ ops \in [End -> Nat]
    /\ damage \in 0 .. MaxDamage

-----------------------------------------------------------------------------
(* Safety.                                                                 *)

\* The receiver reports a transfer completed, in memory, in the database or
\* in its history, only when it has put its output file together, whatever was
\* paused, resumed, sent twice, damaged or lost; and the file lacks a chunk
\* only where the disk refused a write: the list that counts the acks and the
\* map that holds the bytes never disagree.  What is reported stays reported
\* when a chunk sent again makes the receiver assemble again and the disk cuts
\* the file then (chunk_manager.py:157, 166-168).
DeliveredWhole ==
    /\ state[Receiver] = "completed" \/ db[Receiver] = "completed"
         \/ history[Receiver] => file # "absent"
    /\ file = "partial" => refused > 0

\* No file is written that the receiving user has not agreed to, though
\* chunks are stored without looking at the transfer's state
\* (transfer_controller.py:144-160).
Consent == file # "absent" => dialog = "accepted"

\* A receiver that has left the transfer holds nothing of it: chunks that arrive
\* after, and an acceptance that crosses a cancel, bring nothing back.
LeftIsForgotten ==
    ~active[Receiver] => data = {} /\ acked = {} /\ ~listed[Receiver]

\* An acceptance the sender has yet to act on: it starts with a new list.
RestartDue ==
    \/ \E k \in DOMAIN chan[Sender] : chan[Sender][k] = RequestMsg(TRUE)
    \/ task[0].pc = "start"

\* What the sender's list calls acked is in the receiver's hands: nothing but
\* an acceptance (which empties the map and makes the sender start over) or
\* the receiver's leaving ever throws an acknowledged chunk away.
AckedIsStored ==
    \A i \in Chunk :
        listed[Sender] /\ chunkState[i] = "acked"
            => i \in data \/ ~active[Receiver] \/ RestartDue

\* A sender that reports the transfer completed has written every chunk of its
\* newest list to a connection, also when several coroutines share the list,
\* or holds the peer's answer about it.  Excepted is a chunk some coroutine
\* took and raised before writing: it stays marked sent, and another coroutine
\* passes it over (chunk_manager.py:97-99, transfer_controller.py:322-337).
CompletedSentAll ==
    state[Sender] = "completed" /\ listed[Sender]
        => \A i \in Chunk :
             \/ i \in posted \cup dropped
             \/ chunkState[i] \in {"acked", "failed"}

\* While nobody interferes, a chunk is given up by its fifth failure count:
\* retransmission cannot go on for ever (chunk_manager.py:100-104).
RetryCapped == Calm => \A i \in Chunk : retry[i] <= MaxRetryCount

\* The offers still on their way to the receiver.
Offers == {k \in DOMAIN chan[Receiver] : chan[Receiver][k].type = "file_meta"}

\* The receiving user is asked once: a second question would let the answer
\* to the first be taken back by the list the second one builds.
AskedOnce ==
    /\ \A j, k \in Offers : j = k
    /\ Offers # {} => dialog = "none"
    /\ dialog = "none" => ~active[Receiver]
    /\ state[Sender] = "none" => dialog = "none" /\ Offers = {}

\* Why what is counted is what is held: the receiver's list exists only while
\* it takes part and after its user agreed, and marks only what is stored.
ReceiverInv ==
    /\ acked \subseteq data
    /\ ~listed[Receiver] => acked = {}
    /\ listed[Receiver] => active[Receiver] /\ dialog = "accepted"
    /\ DeliveredWhole
    /\ Consent
    /\ LeftIsForgotten
    /\ AskedOnce

-----------------------------------------------------------------------------
(* Liveness.                                                               *)

\* No coroutine of the sender runs for ever: each ends, or sleeps because the
\* transfer is paused, however many chunks fail and whoever drops the line.
SenderSettles ==
    []<>(\/ state[Sender] = "paused"
         \/ \A t \in Slot : task[t].pc \in {"idle", "done"})

\* An accepted file that nobody interferes with, that can be read and written,
\* and of which no chunk is damaged, reaches the download directory and both
\* ends record it as completed.
AcceptedIsSaved ==
    dialog = "accepted" ~>
        \/ damage > 0 \/ refused > 0 \/ ~Calm \/ state[Sender] = "failed"
        \/ /\ file = "whole"
           /\ \A e \in End : state[e] = "completed" /\ history[e]

\* On a connection that holds, an end that cancels is followed by the other:
\* the cancel travels behind whatever was sent before it, and no coroutine,
\* pause or resume in between keeps either end in the transfer.
CancelReachesPeer ==
    \A e \in End : leaving[e] ~> ~active[Sender] /\ ~active[Receiver]

-----------------------------------------------------------------------------
(* What the documents say and the code does not do.                        *)

\* README.md:130 "Cancel and remove a transfer": a transfer that was cancelled
\* and removed is not taken up again.
CancelIsFinal ==
    [][state[Sender] = "cancelled" /\ ~active[Sender]
         => state'[Sender] = "cancelled"]_vars

-----------------------------------------------------------------------------
(* What the receiving user is promised, see Delivery.                      *)

Consented == IF listed[Receiver] THEN "agreed"
             ELSE IF dialog = "accepted" THEN "left" ELSE "asked"

Promise == INSTANCE Delivery
             WITH phase <- Consented, got <- acked, done <- history[Receiver]

DeliveryPromise == Promise!Spec

=============================================================================
