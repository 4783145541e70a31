---------------------------- MODULE SenderProofs ----------------------------
(***************************************************************************)
(* What FileTransfer guarantees of the sender's list of chunks, for every  *)
(* number of chunks and all bounds: a completed transfer has sent them     *)
(* all, retransmission is capped, and what is called acked is stored.      *)
(***************************************************************************)
EXTENDS FileTransferProofs

-----------------------------------------------------------------------------
(* Messages of a queue: none of a set, or at most one of it.               *)

None(q, S) == \A k \in DOMAIN q : q[k] \notin S
Single(q, S) == \A j, k \in DOMAIN q : q[j] \in S /\ q[k] \in S => j = k

\* What is said on the wire of chunk i, and the yes to the offer.
About(i) == {ChunkMsg(i, b) : b \in BOOLEAN} \cup {AckMsg(i, b) : b \in BOOLEAN}
Yes == {RequestMsg(TRUE)}

-----------------------------------------------------------------------------
(* The inductive invariants.                                               *)

\* Chunk i, or the answer to it, is on its way.
Flying(i) == \E e \in End : ~None(chan[e], About(i))

\* While nobody interferes one coroutine sends, started by one yes.
OneCoroutine ==
    /\ \A t \in Slot : t # 0 => task[t].pc = "idle"
    /\ task[0].pc # "resuming"
    /\ Single(chan[Sender], Yes)
    /\ ~None(chan[Sender], Yes) => dialog = "accepted" /\ task[0].pc = "idle"
    /\ dialog # "accepted" => task[0].pc = "idle"
    /\ task[0].pc \in {"idle", "start"} => \A i \in Chunk : ~Flying(i)

\* A chunk is on the wire once, and counted twice per round: when its failure
\* is reported and when it is taken up again.
CountFits(i) ==
    /\ \A e \in End : Single(chan[e], About(i))
    /\ None(chan[Sender], About(i)) \/ None(chan[Receiver], About(i))
    /\ Flying(i) => chunkState[i] = "sent" /\ retry[i] \in {0, 2, 4}
    /\ chunkState[i] = "pending" => retry[i] = 0
    /\ chunkState[i] = "failed" => retry[i] \in {1, 3, 5}
    /\ retry[i] <= MaxRetryCount

CalmInv ==
    /\ epoch > 0
    /\ Calm => OneCoroutine /\ \A i \in Chunk : CountFits(i)

\* The connection has held from the start.
Unbroken == up /\ epoch = 1

Marked(i) == listed[Sender] /\ chunkState[i] = "acked"
Kept(i) == i \in data \/ ~active[Receiver]
AckOf(i) == {AckMsg(i, TRUE)}

\* An acknowledgement under way speaks of a chunk that is kept, or a yes
\* travels behind it and will make the sender start over.
AckTrue(i) ==
    \A k \in DOMAIN chan[Sender] :
      chan[Sender][k] = AckMsg(i, TRUE)
        => \/ Kept(i)
           \/ \E j \in DOMAIN chan[Sender] :
                j > k /\ chan[Sender][j] = RequestMsg(TRUE)

AckState ==
    /\ \A i \in Chunk : Marked(i) => Kept(i) \/ RestartDue
    /\ \A i \in Chunk : AckTrue(i)
    /\ ~active[Sender] => \A i \in Chunk : ~Marked(i)
    /\ dialog = "none" =>
         \A i \in Chunk : ~Marked(i) /\ None(chan[Sender], AckOf(i))

AckInv == epoch > 0 /\ (Unbroken => AckState)

-----------------------------------------------------------------------------
(* What taking from a queue and adding to it does to these.                *)

LEMMA TailIs ==
    ASSUME NEW q \in Seq(Message), q # <<>>
    PROVE  /\ \A k \in DOMAIN Tail(q) :
                k \in Nat /\ k + 1 \in DOMAIN q /\ Tail(q)[k] = q[k + 1]
           /\ \A k \in DOMAIN q :
                /\ k \in Nat
                /\ k # 1 => k - 1 \in DOMAIN Tail(q) /\ Tail(q)[k - 1] = q[k]
           /\ 1 \in DOMAIN q /\ q[1] = Head(q)
<1>1. ASSUME NEW k \in DOMAIN q, k # 1
      PROVE  k - 1 \in DOMAIN Tail(q) /\ Tail(q)[k - 1] = q[k]
  <2>1. k - 1 \in 1 .. (Len(q) - 1) /\ (k - 1) + 1 = k
    BY <1>1
  <2>2. k - 1 \in DOMAIN Tail(q) /\ Tail(q)[k - 1] = q[(k - 1) + 1]
    BY <2>1
  <2> QED BY <2>1, <2>2
<1>2. \A k \in DOMAIN Tail(q) :
        k \in Nat /\ k + 1 \in DOMAIN q /\ Tail(q)[k] = q[k + 1]
  OBVIOUS
<1>3. 1 \in DOMAIN q /\ q[1] = Head(q) /\ \A k \in DOMAIN q : k \in Nat
  OBVIOUS
<1> QED BY <1>1, <1>2, <1>3

LEMMA AppendIs ==
    ASSUME NEW q \in Seq(Message), NEW m \in Message
    PROVE  /\ \A k \in DOMAIN Append(q, m) :
                \/ k \in DOMAIN q /\ Append(q, m)[k] = q[k]
                \/ k = Len(q) + 1 /\ Append(q, m)[k] = m
           /\ \A k \in DOMAIN q : /\ k \in DOMAIN Append(q, m)
                                  /\ k < Len(q) + 1
                                  /\ Append(q, m)[k] = q[k]
           /\ Len(q) + 1 \in DOMAIN Append(q, m)
           /\ Append(q, m)[Len(q) + 1] = m
OBVIOUS

LEMMA TailNone ==
    ASSUME NEW q \in Seq(Message), q # <<>>, NEW S
    PROVE  /\ None(q, S) => None(Tail(q), S) /\ Head(q) \notin S
           /\ Single(q, S) => Single(Tail(q), S)
           /\ Single(q, S) /\ Head(q) \in S => None(Tail(q), S)
<1>1. None(q, S) => None(Tail(q), S) /\ Head(q) \notin S
  BY TailIs DEF None
<1>2. ASSUME Single(q, S), NEW j \in DOMAIN Tail(q), NEW k \in DOMAIN Tail(q),
             Tail(q)[j] \in S, Tail(q)[k] \in S
      PROVE  j = k
  <2>1. /\ j \in Nat /\ k \in Nat /\ j + 1 \in DOMAIN q /\ k + 1 \in DOMAIN q
        /\ q[j + 1] \in S /\ q[k + 1] \in S
    BY <1>2, TailIs
  <2>2. j + 1 = k + 1
    BY <1>2, <2>1 DEF Single
  <2> QED BY <2>1, <2>2
<1>3. ASSUME Single(q, S), Head(q) \in S, NEW k \in DOMAIN Tail(q),
             Tail(q)[k] \in S
      PROVE  FALSE
  <2>1. k \in Nat /\ k + 1 \in DOMAIN q /\ q[k + 1] \in S /\ k >= 1
    BY <1>3, TailIs
  <2>2. k + 1 = 1
    BY <1>3, <2>1, TailIs DEF Single
  <2> QED BY <2>1, <2>2
<1> QED BY <1>1, <1>2, <1>3 DEF None, Single

LEMMA AppendNone ==
    ASSUME NEW q \in Seq(Message), NEW m \in Message, NEW S
    PROVE  /\ m \notin S /\ None(q, S) => None(Append(q, m), S)
           /\ m \notin S /\ Single(q, S) => Single(Append(q, m), S)
           /\ None(q, S) => Single(Append(q, m), S)
           /\ None(Append(q, m), S) => None(q, S)
<1>1. m \notin S /\ None(q, S) => None(Append(q, m), S)
  BY AppendIs DEF None
<1>2. m \notin S /\ Single(q, S) => Single(Append(q, m), S)
  BY AppendIs DEF Single
<1>3. None(q, S) => Single(Append(q, m), S)
  BY AppendIs DEF None, Single
<1>4. None(Append(q, m), S) => None(q, S)
  BY AppendIs DEF None
<1> QED BY <1>1, <1>2, <1>3, <1>4

-----------------------------------------------------------------------------
(* A completed transfer has sent every chunk.                              *)

\* Of the newest list, what a coroutine is writing was written, and so was
\* what is marked sent, unless its coroutine raised.
SentInv ==
    /\ \A t \in Slot :
         /\ task[t].gen <= gen
         /\ task[t].pc = "drain" /\ task[t].gen = gen => task[t].index \in posted
    /\ \A i \in Chunk : chunkState[i] = "sent" => i \in posted \cup dropped
    /\ CompletedSentAll

\* The coroutines write no other chunk than before.
TasksQuiet ==
    \A t \in Slot : /\ task'[t].gen = task[t].gen
                    /\ task'[t].index = task[t].index
                    /\ task'[t].pc = "drain" => task[t].pc = "drain"

(* A step that completes nothing at the sender, takes no chunk and at most  *)
(* notes an answer.                                                         *)
SentQuiet ==
    /\ state'[Sender] = "completed" /\ listed'[Sender]
         => state[Sender] = "completed" /\ listed[Sender]
    /\ UNCHANGED <<gen, sentVars>>
    /\ \A i \in Chunk : \/ chunkState'[i] = chunkState[i]
                        \/ chunkState'[i] \in {"acked", "failed"}
    /\ TasksQuiet

LEMMA SentQuietKeeps == SentInv /\ SentQuiet => SentInv'
<1> SUFFICES ASSUME SentInv, SentQuiet PROVE SentInv'
  OBVIOUS
<1>1. gen' = gen /\ posted' = posted /\ dropped' = dropped
  BY DEF SentQuiet, sentVars
<1>2. \A t \in Slot :
        /\ task'[t].gen <= gen'
        /\ task'[t].pc = "drain" /\ task'[t].gen = gen' => task'[t].index \in posted'
  BY <1>1 DEF SentInv, SentQuiet, TasksQuiet
<1>3. \A i \in Chunk : chunkState'[i] = "sent" => i \in posted' \cup dropped'
  BY <1>1 DEF SentInv, SentQuiet
<1>4. CompletedSentAll'
  BY <1>1 DEF SentInv, SentQuiet, CompletedSentAll
<1> QED BY <1>2, <1>3, <1>4 DEF SentInv

LEMMA TaskQuiet ==
    ASSUME TypeOK, NEW t \in Slot, NEW p, p # "drain"
    PROVE  /\ task' = [task EXCEPT ![t].pc = p] => TasksQuiet
           /\ \A c : task' = [task EXCEPT ![t] = [@ EXCEPT !.pc = p, !.conn = c]]
                => TasksQuiet
<1>1. task \in [Slot -> Coroutine]
  BY DEF TypeOK
<1>2. \A c \in Slot : task[c] \in Coroutine
  BY <1>1
<1>3. ASSUME task' = [task EXCEPT ![t].pc = p] PROVE TasksQuiet
  <2>1. \A c \in Slot : c # t => task'[c] = task[c]
    BY <1>1, <1>3
  <2>2. task'[t] = [task[t] EXCEPT !.pc = p]
    BY <1>1, <1>3
  <2> QED BY <1>2, <2>1, <2>2 DEF TasksQuiet, Coroutine
<1>4. ASSUME NEW c, task' = [task EXCEPT ![t] = [@ EXCEPT !.pc = p, !.conn = c]]
      PROVE  TasksQuiet
  <2>1. \A u \in Slot : u # t => task'[u] = task[u]
    BY <1>1, <1>4
  <2>2. task'[t] = [task[t] EXCEPT !.pc = p, !.conn = c]
    BY <1>1, <1>4
  <2> QED BY <1>2, <2>1, <2>2 DEF TasksQuiet, Coroutine
<1> QED BY <1>3, <1>4

LEMMA SameTasks == UNCHANGED task => TasksQuiet
BY DEF TasksQuiet

LEMMA CleanupUnlists ==
    ASSUME TypeOK, NEW e \in End, Cleanup(e)
    PROVE  listed'[Sender] => listed[Sender]
BY DEF TypeOK, Cleanup, End

LEMMA FailsUncompleted ==
    ASSUME TypeOK, NEW t \in Slot, Fail(t)
    PROVE  state'[Sender] = "failed"
BY SenderState DEF Fail

(* What writing a chunk of list g does: the chunk is noted, and the          *)
(* coroutine waits for the write or has failed.                             *)
LEMMA TransmitSent ==
    ASSUME TypeOK, NEW t \in Slot, NEW i \in Chunk, NEW g, NEW s, NEW sent,
           NEW lost, Transmit(t, i, g, s, sent, lost)
    PROVE  /\ sent \subseteq posted' /\ lost \subseteq dropped'
           /\ i \in posted' \cup dropped'
           /\ \A u \in Slot : u # t => task'[u] = task[u]
           /\ \/ /\ task'[t].gen = g /\ task'[t].index = i /\ i \in posted'
                 /\ state'[Sender] = s
              \/ /\ task'[t].gen = task[t].gen /\ task'[t].pc = "done"
                 /\ state'[Sender] = "failed"
<1>t. /\ task \in [Slot -> Coroutine] /\ task[t] \in Coroutine
      /\ state \in [End -> TransferState] /\ Sender \in End
  BY DEF TypeOK, End
<1>1. CASE /\ posted' = sent \cup {i} /\ dropped' = lost
           /\ task' = [task EXCEPT ![t] =
                         [@ EXCEPT !.pc = "drain", !.index = i, !.gen = g]]
           /\ state' = [state EXCEPT ![Sender] = s]
  BY <1>t, <1>1 DEF Coroutine
<1>2. CASE posted' = sent /\ dropped' = lost \cup {i} /\ Fail(t)
  <2>1. state'[Sender] = "failed"
    BY <1>2, FailsUncompleted
  <2>2. task' = [task EXCEPT ![t].pc = "done"]
    BY <1>2 DEF Fail, TaskDone
  <2> QED BY <1>t, <1>2, <2>1, <2>2 DEF Coroutine
<1> QED BY <1>1, <1>2 DEF Transmit

LEMMA StartSent ==
    ASSUME TypeOK, SentInv, NEW t \in Slot, StartSendFileChunks(t)
    PROVE  SentInv'
<1>t. /\ task \in [Slot -> Coroutine] /\ gen \in Nat
      /\ \A u \in Slot : task[u] \in Coroutine /\ task[u].gen \in Nat
  BY DEF TypeOK, Coroutine
<1>1. CASE Fail(t) /\ UNCHANGED <<listed, sendVars>>
  <2>1. TasksQuiet
    BY <1>1, TaskQuiet DEF Fail, TaskDone
  <2> QED BY <1>1, <2>1, FailsUncompleted, SentQuietKeeps DEF SentQuiet, sendVars
<1>2. CASE ~(Fail(t) /\ UNCHANGED <<listed, sendVars>>) /\ NumChunks = 0
  <2>1. Chunk = {}
    BY <1>2 DEF Chunk
  <2>2. gen' = gen + 1 /\ TaskDone(t)
    BY <1>2 DEF StartSendFileChunks, Finish
  <2>3. TasksQuiet
    BY <2>2, TaskQuiet DEF TaskDone
  <2>4. \A u \in Slot : task'[u].gen <= gen' /\ task'[u].gen # gen'
    BY <1>t, <2>2, <2>3 DEF SentInv, TasksQuiet
  <2> QED BY <2>1, <2>4 DEF SentInv, CompletedSentAll
<1>3. CASE ~(Fail(t) /\ UNCHANGED <<listed, sendVars>>) /\ NumChunks # 0
  <2>1. 0 \in Chunk
    BY <1>3, NumChunksAssumption DEF Chunk
  <2>2. /\ gen' = gen + 1 /\ chunkState' = [NewList EXCEPT ![0] = "sent"]
        /\ Transmit(t, 0, gen + 1, "in_progress", {}, {})
    BY <1>3 DEF StartSendFileChunks
  <2>3. /\ 0 \in posted' \cup dropped'
        /\ \A u \in Slot : u # t => task'[u] = task[u]
        /\ \/ /\ task'[t].gen = gen + 1 /\ task'[t].index = 0 /\ 0 \in posted'
              /\ state'[Sender] = "in_progress"
           \/ /\ task'[t].gen = task[t].gen /\ task'[t].pc = "done"
              /\ state'[Sender] = "failed"
    BY <2>1, <2>2, TransmitSent
  <2>4. \A u \in Slot : u # t => task'[u].gen <= gen' /\ task'[u].gen # gen'
    BY <1>t, <2>2, <2>3 DEF SentInv
  <2>5. \A u \in Slot :
          /\ task'[u].gen <= gen'
          /\ task'[u].pc = "drain" /\ task'[u].gen = gen' => task'[u].index \in posted'
    BY <1>t, <2>2, <2>3, <2>4 DEF SentInv
  <2>6. \A i \in Chunk : chunkState'[i] = "sent" => i \in posted' \cup dropped'
    BY <2>2, <2>3 DEF NewList
  <2> QED BY <2>3, <2>5, <2>6 DEF SentInv, CompletedSentAll
<1> QED BY <1>1, <1>2, <1>3

LEMMA SendNextSent ==
    ASSUME TypeOK, SentInv, NEW t \in Slot, SendNextChunk(t)
    PROVE  SentInv'
<1>t. /\ task \in [Slot -> Coroutine] /\ gen \in Nat
      /\ \A u \in Slot : task[u] \in Coroutine /\ task[u].gen \in Nat
      /\ chunkState \in [Chunk -> ItemState]
  BY DEF TypeOK, Coroutine
<1>1. CASE /\ \A i \in Chunk : ~Sendable(i)
           /\ Finish(t) /\ UNCHANGED <<chunkState, sentVars>>
  <2>1. TasksQuiet
    BY <1>1, TaskQuiet DEF Finish, TaskDone
  <2>2. UNCHANGED <<gen, listed, chunkState, posted, dropped>>
    BY <1>1 DEF SendNextChunk, sentVars
  <2>3. CompletedSentAll'
    BY <1>1, <1>t, <2>2 DEF Sendable, SentInv, CompletedSentAll, ItemState
  <2>4. \A u \in Slot :
          /\ task'[u].gen <= gen'
          /\ task'[u].pc = "drain" /\ task'[u].gen = gen' => task'[u].index \in posted'
    BY <2>1, <2>2 DEF SentInv, TasksQuiet
  <2> QED BY <2>2, <2>3, <2>4 DEF SentInv
<1>2. CASE ~(/\ \A i \in Chunk : ~Sendable(i)
             /\ Finish(t) /\ UNCHANGED <<chunkState, sentVars>>)
  <2>1. PICK i \in Chunk :
          /\ chunkState' = [chunkState EXCEPT ![i] = "sent"]
          /\ Transmit(t, i, gen, state[Sender], posted, dropped)
    BY <1>2 DEF SendNextChunk
  <2>2. /\ posted \subseteq posted' /\ dropped \subseteq dropped'
        /\ i \in posted' \cup dropped'
        /\ \A u \in Slot : u # t => task'[u] = task[u]
        /\ \/ /\ task'[t].gen = gen /\ task'[t].index = i /\ i \in posted'
              /\ state'[Sender] = state[Sender]
           \/ /\ task'[t].gen = task[t].gen /\ task'[t].pc = "done"
              /\ state'[Sender] = "failed"
    BY <2>1, TransmitSent
  <2>3. UNCHANGED <<gen, listed>>
    BY <1>2 DEF SendNextChunk
  <2>4. \A u \in Slot :
          /\ task'[u].gen <= gen'
          /\ task'[u].pc = "drain" /\ task'[u].gen = gen' => task'[u].index \in posted'
    BY <1>t, <2>2, <2>3 DEF SentInv
  <2>5. \A j \in Chunk : chunkState'[j] = "sent" => j \in posted' \cup dropped'
    BY <1>t, <2>1, <2>2 DEF SentInv
  <2>6. CompletedSentAll'
    BY <1>t, <2>1, <2>2, <2>3 DEF SentInv, CompletedSentAll
  <2> QED BY <2>4, <2>5, <2>6 DEF SentInv
<1> QED BY <1>1, <1>2

LEMMA ChunkSentSent ==
    ASSUME TypeOK, SentInv, NEW t \in Slot, ChunkSent(t)
    PROVE  SentInv'
<1>1. UNCHANGED <<state, listed, gen, posted, dropped>>
  BY DEF ChunkSent, sentVars
<1>2. TasksQuiet
  BY TaskQuiet DEF ChunkSent
<1>3. \A i \in Chunk : \/ chunkState'[i] = chunkState[i]
                       \/ chunkState'[i] = "sent" /\ i \in posted
  BY DEF ChunkSent, SentInv, TypeOK
<1>4. \A i \in Chunk : chunkState'[i] = "sent" => i \in posted' \cup dropped'
  BY <1>1, <1>3 DEF SentInv
<1>5. \A u \in Slot :
        /\ task'[u].gen <= gen'
        /\ task'[u].pc = "drain" /\ task'[u].gen = gen' => task'[u].index \in posted'
  BY <1>1, <1>2 DEF SentInv, TasksQuiet
<1>6. CompletedSentAll'
  BY <1>1, <1>3 DEF SentInv, CompletedSentAll
<1> QED BY <1>4, <1>5, <1>6 DEF SentInv

LEMMA TaskStepSent ==
    ASSUME TypeOK, SentInv, NEW t \in Slot, TaskStep(t)
    PROVE  SentInv'
<1>1. CASE DrainFails(t)
  <2>1. TasksQuiet /\ state'[Sender] = "failed"
    BY <1>1, TaskQuiet, FailsUncompleted DEF DrainFails, Fail, TaskDone
  <2> QED BY <1>1, <2>1, SentQuietKeeps DEF DrainFails, SentQuiet, sendVars
<1>2. CASE StopSending(t) \/ ResumeSent(t) \/ ResumeFails(t)
  <2>1. TasksQuiet
    BY <1>2, TaskQuiet DEF StopSending, ResumeSent, ResumeFails, TaskDone
  <2>2. SentQuiet
    BY <1>2, <2>1
    DEF StopSending, ResumeSent, ResumeFails, xferVars, sendVars, SentQuiet
  <2> QED BY <2>2, SentQuietKeeps
<1> QED BY <1>1, <1>2, StartSent, SendNextSent, ChunkSentSent DEF TaskStep

LEMMA HandleSent ==
    ASSUME TypeOK, NEW e \in End, Handle(e)
    PROVE  SentQuiet
<1>1. CASE HandleFileMeta
  BY <1>1, SenderState, SameTasks DEF HandleFileMeta, sendVars, SentQuiet
<1>2. CASE HandleFileChunk
  BY <1>2, SameTasks DEF HandleFileChunk, sendVars, SentQuiet
<1>3. CASE HandleFileAck
  <2> DEFINE m == Head(chan[Sender])
  <2>1. \A i \in Chunk : \/ chunkState'[i] = chunkState[i]
                         \/ chunkState'[i] \in {"acked", "failed"}
    BY <1>3 DEF HandleFileAck, TypeOK
  <2> QED BY <1>3, <2>1, SameTasks DEF HandleFileAck, xferVars, SentQuiet
<1>4. CASE HandleFileRequest
  <2>1. state'[Sender] = "completed" => state[Sender] = "completed"
    BY <1>4, SenderState DEF HandleFileRequest
  <2>2. TasksQuiet
    <3>1. 0 \in Slot
      BY BoundsAssumption DEF Slot, End
    <3>2. task' = CreateTask \/ UNCHANGED task
      BY <1>4 DEF HandleFileRequest
    <3> QED BY <3>1, <3>2, TaskQuiet, SameTasks DEF CreateTask
  <2> QED BY <1>4, <2>1, <2>2 DEF HandleFileRequest, sendVars, SentQuiet
<1>5. CASE HandleData(e)
  <2> DEFINE m == Head(chan[e])
             s == CASE m.action = "pause"  -> "paused"
                    [] m.action = "resume" -> "in_progress"
                    [] m.action = "cancel" -> "cancelled"
  <2>1. chan[e] # <<>> /\ m \in Message /\ m.type = "data"
    BY <1>5, HeadTyped DEF HandleData, Incoming, TypeOK
  <2>2. s # "completed"
    BY <2>1, MessageFields DEF Action
  <2>3. SetState(e, s) \/ UNCHANGED <<state, db>>
    BY <1>5 DEF HandleData
  <2>4. state'[Sender] = "completed" => state[Sender] = "completed"
    <3> HIDE DEF s
    <3> QED BY <2>2, <2>3, SenderState DEF End
  <2>5. listed'[Sender] => listed[Sender]
    BY <1>5, CleanupUnlists DEF HandleData
  <2> QED BY <1>5, <2>4, <2>5, SameTasks DEF HandleData, sendVars, SentQuiet
<1> QED BY <1>1, <1>2, <1>3, <1>4, <1>5 DEF Handle

LEMMA ContinueSent ==
    ASSUME TypeOK, NEW e \in End, Continue(e)
    PROVE  SentQuiet
<1>1. CASE FileChunkAcked
  BY <1>1, SenderState, SameTasks DEF FileChunkAcked, sendVars, SentQuiet
<1>2. CASE FileChunkAckFails \/ RejectFails \/ CancelFails(e)
  BY <1>2, SameTasks
  DEF FileChunkAckFails, RejectFails, CancelFails, xferVars, sendVars, SentQuiet
<1>3. CASE RejectSent
  BY <1>3, SenderState, CleanupUnlists, SameTasks
  DEF RejectSent, sendVars, SentQuiet, End
<1>4. CASE CancelSent(e)
  BY <1>4, CleanupUnlists, SameTasks DEF CancelSent, sendVars, SentQuiet
<1> QED BY <1>1, <1>2, <1>3, <1>4 DEF Continue

LEMMA UserSent ==
    ASSUME TypeOK, NEW e \in End, User(e)
    PROVE  SentQuiet
<1>s. ASSUME NEW s, s # "completed", SetState(e, s)
      PROVE  state'[Sender] = "completed" => state[Sender] = "completed"
  BY <1>s, SenderState DEF End
<1>1. CASE SendFile
  BY <1>1, SenderState, SameTasks DEF SendFile, sendVars, SentQuiet
<1>2. CASE AcceptTransfer
  <2>1. listed'[Sender] => listed[Sender]
    BY <1>2 DEF AcceptTransfer, TypeOK, End, Sender, Receiver
  <2> QED BY <1>2, <2>1, SameTasks DEF AcceptTransfer, xferVars, sendVars, SentQuiet
<1>3. CASE RejectTransfer
  <2>1. state'[Sender] = state[Sender] /\ (listed'[Sender] => listed[Sender])
    BY <1>3, SenderState, CleanupUnlists DEF RejectTransfer, End
  <2> QED BY <1>3, <2>1, SameTasks DEF RejectTransfer, sendVars, SentQuiet
<1>4. CASE PauseTransfer(e)
  BY <1>4, <1>s, SameTasks DEF PauseTransfer, sendVars, SentQuiet
<1>5. CASE ResumeTransfer(e)
  <2>1. TasksQuiet
    <3>1. ops[e] + 1 \in Slot \/ e # Sender
      BY <1>5, BoundsAssumption DEF ResumeTransfer, UserCall, Slot, TypeOK, End
    <3> DEFINE p == IF up THEN "resuming" ELSE "start"
    <3>2. p # "drain"
      OBVIOUS
    <3>3. task' = IF e = Sender
                    THEN [task EXCEPT ![ops[e] + 1] =
                            [@ EXCEPT !.pc = p, !.conn = CurrentConn]]
                    ELSE task
      BY <1>5 DEF ResumeTransfer
    <3> HIDE DEF p
    <3> QED BY <3>1, <3>2, <3>3, TaskQuiet, SameTasks
  <2> QED BY <1>5, <1>s, <2>1 DEF ResumeTransfer, sendVars, SentQuiet
<1>6. CASE CancelTransfer(e)
  <2>1. listed'[Sender] => listed[Sender]
    BY <1>6, CleanupUnlists DEF CancelTransfer
  <2> QED BY <1>6, <1>s, <2>1, SameTasks DEF CancelTransfer, sendVars, SentQuiet
<1> QED BY <1>1, <1>2, <1>3, <1>4, <1>5, <1>6 DEF User

LEMMA NextSent == TypeOK /\ SentInv /\ [Next]_vars => SentInv'
<1> SUFFICES ASSUME TypeOK, SentInv, [Next]_vars
             PROVE  SentInv'
  OBVIOUS
<1>1. CASE \E t \in Slot : TaskStep(t)
  BY <1>1, TaskStepSent
<1>2. CASE \E e \in End : Handle(e) \/ Continue(e) \/ User(e)
  BY <1>2, HandleSent, ContinueSent, UserSent, SentQuietKeeps
<1>3. CASE ConnectionLost \/ Reconnect \/ UNCHANGED vars
  BY <1>3, SentQuietKeeps, SameTasks
  DEF ConnectionLost, Reconnect, vars, xferVars, sendVars, SentQuiet
<1> QED BY <1>1, <1>2, <1>3 DEF Next

LEMMA InitSent == Init => SentInv
BY BoundsAssumption
DEF Init, SentInv, CompletedSentAll, End, NewTask

(* A sender that reports the transfer completed has written every chunk of   *)
(* its newest list to a connection, or holds the peer's answer about it,     *)
(* whichever coroutine found nothing left to send; excepted are chunks a     *)
(* coroutine took and raised before writing                                  *)
(* (transfer_controller.py:311-365, chunk_manager.py:89-104).                *)
THEOREM CompletedHasSentAll == Spec => []CompletedSentAll
<1>1. TypeOK /\ SentInv /\ [Next]_vars => SentInv'
  BY NextSent
<1>2. SentInv => CompletedSentAll
  BY DEF SentInv
<1> QED BY <1>1, <1>2, InitSent, TypeCorrect, PTL DEF Spec

-----------------------------------------------------------------------------
(* The wire.                                                               *)

(* What each way of writing and reading does to both queues.               *)
LEMMA Wire ==
    ASSUME TypeOK, NEW m \in Message
    PROVE  /\ \A e \in End : chan[e] \in Seq(Message)
           /\ Sender \in End /\ Receiver \in End /\ Sender # Receiver
           /\ Consume(Sender) => /\ chan'[Sender] = Tail(chan[Sender])
                                 /\ chan'[Receiver] = chan[Receiver]
           /\ Consume(Receiver) => /\ chan'[Receiver] = Tail(chan[Receiver])
                                   /\ chan'[Sender] = chan[Sender]
           /\ Post(Sender, m) => /\ chan'[Sender] = Append(chan[Sender], m)
                                 /\ chan'[Receiver] = chan[Receiver]
           /\ Post(Receiver, m) => /\ chan'[Receiver] = Append(chan[Receiver], m)
                                   /\ chan'[Sender] = chan[Sender]
           /\ \A e \in End : PostIfUp(e, m) => Post(e, m) \/ UNCHANGED chan
           /\ up /\ Reply(Receiver, m)
                => /\ chan'[Receiver] = Tail(chan[Receiver])
                   /\ chan'[Sender] = Append(chan[Sender], m)
<1>1. /\ chan \in [End -> Seq(Message)] /\ Sender \in End /\ Receiver \in End
      /\ Sender # Receiver /\ Other(Receiver) = Sender
  BY DEF TypeOK, End, Sender, Receiver, Other
<1>2. ASSUME up, Reply(Receiver, m)
      PROVE  /\ chan'[Receiver] = Tail(chan[Receiver])
             /\ chan'[Sender] = Append(chan[Sender], m)
  <2>1. chan' = [chan EXCEPT ![Receiver] = Tail(@),
                             ![Sender] = IF up THEN Append(@, m) ELSE @]
    BY <1>1, <1>2 DEF Reply
  <2> QED BY <1>1, <1>2, <2>1
<1>3. \A e \in End : PostIfUp(e, m) => Post(e, m) \/ UNCHANGED chan
  BY DEF PostIfUp
<1>4. /\ Consume(Sender) => /\ chan'[Sender] = Tail(chan[Sender])
                            /\ chan'[Receiver] = chan[Receiver]
      /\ Consume(Receiver) => /\ chan'[Receiver] = Tail(chan[Receiver])
                              /\ chan'[Sender] = chan[Sender]
  BY <1>1 DEF Consume
<1>5. /\ Post(Sender, m) => /\ chan'[Sender] = Append(chan[Sender], m)
                            /\ chan'[Receiver] = chan[Receiver]
      /\ Post(Receiver, m) => /\ chan'[Receiver] = Append(chan[Receiver], m)
                              /\ chan'[Sender] = chan[Sender]
  BY <1>1 DEF Post
<1> QED BY <1>1, <1>2, <1>3, <1>4, <1>5

LEMMA MessageIs ==
    ASSUME NEW m \in Message
    PROVE  /\ m.type = "file_chunk" => m = ChunkMsg(m.index, m.good)
           /\ m.type = "file_ack" => m = AckMsg(m.index, m.ok)
           /\ m.type = "file_request" => m = RequestMsg(m.accepted)
BY DEF Message, MetaMsg, ChunkMsg, AckMsg, RequestMsg, DataMsg

LEMMA AboutIs ==
    ASSUME NEW i \in Chunk, NEW j \in Chunk, NEW b \in BOOLEAN
    PROVE  /\ i = j => ChunkMsg(i, b) \in About(j) /\ AckMsg(i, b) \in About(j)
           /\ i # j => ChunkMsg(i, b) \notin About(j) /\ AckMsg(i, b) \notin About(j)
           /\ ChunkMsg(i, b) \notin Yes /\ AckMsg(i, b) \notin Yes
           /\ RequestMsg(b) \notin About(i) /\ (~b => RequestMsg(b) \notin Yes)
           /\ RequestMsg(TRUE) \in Yes
BY DEF About, Yes, ChunkMsg, AckMsg, RequestMsg

\* A message that is neither about a chunk nor a yes.
Dull(m) == m.type \notin {"file_chunk", "file_ack"} /\ m # RequestMsg(TRUE)

DullStep(e) ==
    \/ chan'[e] = chan[e]
    \/ chan[e] # <<>> /\ chan'[e] = Tail(chan[e])
    \/ \E m \in Message : Dull(m) /\ chan'[e] = Append(chan[e], m)

LEMMA DullKeeps ==
    ASSUME TypeOK, NEW e \in End, DullStep(e), NEW S,
           S = Yes \/ \E i \in Chunk : S = About(i)
    PROVE  /\ None(chan[e], S) => None(chan'[e], S)
           /\ Single(chan[e], S) => Single(chan'[e], S)
<1>1. chan[e] \in Seq(Message)
  BY DEF TypeOK
<1>2. CASE chan'[e] = chan[e]
  BY <1>2
<1>3. CASE chan[e] # <<>> /\ chan'[e] = Tail(chan[e])
  BY <1>1, <1>3, TailNone
<1>4. ASSUME NEW m \in Message, Dull(m), chan'[e] = Append(chan[e], m)
      PROVE  /\ None(chan[e], S) => None(chan'[e], S)
             /\ Single(chan[e], S) => Single(chan'[e], S)
  <2>1. m \notin S
    <3>1. CASE S = Yes
      BY <1>4, <3>1 DEF Dull, Yes
    <3>2. ASSUME NEW i \in Chunk, S = About(i) PROVE m \notin S
      BY <1>4, <3>2 DEF Dull, About, ChunkMsg, AckMsg
    <3> QED BY <3>1, <3>2
  <2> QED BY <1>1, <1>4, <2>1, AppendNone
<1> QED BY <1>2, <1>3, <1>4 DEF DullStep

-----------------------------------------------------------------------------
(* Retransmission is capped.                                               *)

(* A step that leaves chunks, answers and the yes alone; a coroutine that   *)
(* runs may end.                                                            *)
CalmQuiet ==
    /\ UNCHANGED <<chunkState, retry>>
    /\ \A t \in Slot : \/ task'[t] = task[t]
                       \/ task[t].pc # "idle" /\ task'[t].pc = "done"
    /\ dialog = "accepted" => dialog' = "accepted"
    /\ \A e \in End : DullStep(e)

CalmState == OneCoroutine /\ \A i \in Chunk : CountFits(i)

LEMMA CalmQuietKeeps ==
    ASSUME TypeOK, CalmState, CalmQuiet
    PROVE  CalmState'
<1>0. 0 \in Slot /\ Sender \in End /\ Receiver \in End
  BY BoundsAssumption DEF Slot, End
<1>1. ASSUME NEW e \in End, NEW S, S = Yes \/ \E i \in Chunk : S = About(i)
      PROVE  /\ None(chan[e], S) => None(chan'[e], S)
             /\ Single(chan[e], S) => Single(chan'[e], S)
  BY <1>1, DullKeeps DEF CalmQuiet
<1>2. \A i \in Chunk : Flying(i)' => Flying(i)
  BY <1>1 DEF Flying
<1>3. ASSUME NEW i \in Chunk PROVE CountFits(i)'
  <2>1. CountFits(i)
    BY DEF CalmState
  <2>2. /\ \A e \in End : Single(chan'[e], About(i))
        /\ None(chan'[Sender], About(i)) \/ None(chan'[Receiver], About(i))
    BY <1>0, <1>1, <2>1 DEF CountFits
  <2> QED BY <1>2, <2>1, <2>2 DEF CountFits, CalmQuiet
<1>4. OneCoroutine'
  <2>1. Single(chan'[Sender], Yes)
        /\ (None(chan[Sender], Yes) => None(chan'[Sender], Yes))
    BY <1>0, <1>1 DEF CalmState, OneCoroutine
  <2>2. /\ \A t \in Slot : t # 0 => task'[t].pc = "idle"
        /\ task'[0].pc # "resuming"
        /\ task'[0].pc \in {"idle", "start"} => task'[0] = task[0]
        /\ task[0].pc = "idle" => task'[0].pc = "idle"
    BY <1>0 DEF CalmState, OneCoroutine, CalmQuiet
  <2>3. /\ ~None(chan'[Sender], Yes) => dialog' = "accepted" /\ task'[0].pc = "idle"
        /\ dialog' # "accepted" => task'[0].pc = "idle"
    BY <2>1, <2>2 DEF CalmState, OneCoroutine, CalmQuiet
  <2>4. task'[0].pc \in {"idle", "start"} => \A i \in Chunk : ~Flying(i)'
    BY <1>2, <2>2 DEF CalmState, OneCoroutine
  <2> QED BY <2>1, <2>2, <2>3, <2>4 DEF OneCoroutine
<1> QED BY <1>3, <1>4 DEF CalmState

LEMMA TransmitShape ==
    ASSUME TypeOK, NEW t \in Slot, NEW i \in Chunk, NEW g, NEW s,
           NEW sent, NEW lost, Transmit(t, i, g, s, sent, lost)
    PROVE  /\ \A u \in Slot : u # t => task'[u] = task[u]
           /\ task'[t].pc \in {"drain", "done"}
           /\ chan'[Sender] = chan[Sender]
           /\ \/ chan'[Receiver] = chan[Receiver]
              \/ \E b \in BOOLEAN :
                   chan'[Receiver] = Append(chan[Receiver], ChunkMsg(i, b))
<1>1. task \in [Slot -> Coroutine] /\ task[t] \in Coroutine
  BY DEF TypeOK
<1>2. CASE Fail(t) /\ UNCHANGED chan
  BY <1>1, <1>2 DEF Fail, TaskDone, Coroutine
<1>3. CASE ~(Fail(t) /\ UNCHANGED chan)
  <2>1. PICK b \in BOOLEAN : Post(Receiver, ChunkMsg(i, b))
    BY <1>3 DEF Transmit
  <2>2. task' = [task EXCEPT ![t] = [@ EXCEPT !.pc = "drain", !.index = i, !.gen = g]]
    BY <1>3 DEF Transmit
  <2>3. /\ chan'[Receiver] = Append(chan[Receiver], ChunkMsg(i, b))
        /\ chan'[Sender] = chan[Sender]
    BY <2>1, Wire, MessagesTyped
  <2> QED BY <1>1, <2>2, <2>3 DEF Coroutine
<1> QED BY <1>2, <1>3

(* Chunk i is put on the wire, or the write fails; nothing about it was     *)
(* there.                                                                   *)
LEMMA TransmitCounts ==
    ASSUME TypeOK, CalmState, task[0].pc # "idle",
           NEW i \in Chunk, NEW g, NEW s, NEW sent, NEW lost,
           Transmit(0, i, g, s, sent, lost), ~Flying(i),
           UNCHANGED dialog,
           chunkState'[i] = "sent", retry'[i] \in {0, 2, 4},
           \A j \in Chunk : j # i =>
             \/ chunkState'[j] = chunkState[j] /\ retry'[j] = retry[j]
             \/ ~Flying(j) /\ chunkState'[j] = "pending" /\ retry'[j] = 0
    PROVE  CalmState'
<1>0. 0 \in Slot /\ Sender \in End /\ Receiver \in End /\ Sender # Receiver
  BY BoundsAssumption DEF Slot, End, Sender, Receiver
<1>1. \A e \in End : chan[e] \in Seq(Message)
  BY DEF TypeOK
<1>2. /\ \A u \in Slot : u # 0 => task'[u] = task[u]
      /\ task'[0].pc \in {"drain", "done"}
      /\ chan'[Sender] = chan[Sender]
      /\ \/ chan'[Receiver] = chan[Receiver]
         \/ \E b \in BOOLEAN :
              chan'[Receiver] = Append(chan[Receiver], ChunkMsg(i, b))
  BY <1>0, TransmitShape
<1>3. OneCoroutine'
  BY <1>0, <1>2 DEF CalmState, OneCoroutine
<1>4. ASSUME NEW j \in Chunk, j # i PROVE CountFits(j)'
  <2>1. CountFits(j)
    BY DEF CalmState
  <2>2. /\ None(chan[Receiver], About(j)) => None(chan'[Receiver], About(j))
        /\ Single(chan[Receiver], About(j)) => Single(chan'[Receiver], About(j))
    <3>1. CASE chan'[Receiver] = chan[Receiver]
      BY <3>1
    <3>2. ASSUME NEW b \in BOOLEAN,
                 chan'[Receiver] = Append(chan[Receiver], ChunkMsg(i, b))
          PROVE  /\ None(chan[Receiver], About(j)) => None(chan'[Receiver], About(j))
                 /\ Single(chan[Receiver], About(j)) => Single(chan'[Receiver], About(j))
      <4>1. ChunkMsg(i, b) \in Message /\ ChunkMsg(i, b) \notin About(j)
        BY <1>4, AboutIs, MessagesTyped
      <4> QED BY <1>0, <1>1, <3>2, <4>1, AppendNone
    <3> QED BY <1>2, <3>1, <3>2
  <2>3. /\ \A e \in End : Single(chan'[e], About(j))
        /\ None(chan'[Sender], About(j)) \/ None(chan'[Receiver], About(j))
        /\ Flying(j)' => Flying(j)
    BY <1>0, <1>2, <2>1, <2>2 DEF CountFits, Flying, End
  <2> QED BY <1>4, <2>1, <2>3 DEF CountFits, MaxRetryCount
<1>5. CountFits(i)'
  <2>1. None(chan[Sender], About(i)) /\ None(chan[Receiver], About(i))
    BY <1>0 DEF Flying
  <2>2. Single(chan'[Receiver], About(i))
    <3>1. CASE chan'[Receiver] = chan[Receiver]
      BY <2>1, <3>1 DEF None, Single
    <3>2. ASSUME NEW b \in BOOLEAN,
                 chan'[Receiver] = Append(chan[Receiver], ChunkMsg(i, b))
          PROVE  Single(chan'[Receiver], About(i))
      <4>1. ChunkMsg(i, b) \in Message
        BY MessagesTyped
      <4> QED BY <1>0, <1>1, <2>1, <3>2, <4>1, AppendNone
    <3> QED BY <1>2, <3>1, <3>2
  <2>3. Single(chan'[Sender], About(i)) /\ None(chan'[Sender], About(i))
    BY <1>2, <2>1 DEF None, Single
  <2> QED BY <2>2, <2>3 DEF CountFits, MaxRetryCount, End
<1> QED BY <1>3, <1>4, <1>5 DEF CalmState

LEMMA TaskStepCalm ==
    ASSUME TypeOK, CalmState, NEW t \in Slot, TaskStep(t)
    PROVE  CalmState'
<1>0. /\ 0 \in Slot /\ task \in [Slot -> Coroutine]
      /\ chunkState \in [Chunk -> ItemState] /\ retry \in [Chunk -> Nat]
  BY BoundsAssumption DEF TypeOK, Slot, End
<1>1. t = 0 /\ task[0].pc # "resuming"
  BY DEF CalmState, OneCoroutine, TaskStep, StartSendFileChunks, SendNextChunk,
         StopSending, ChunkSent, DrainFails, ResumeSent, ResumeFails
<1>d. TaskDone(0) => task'[0].pc = "done" /\ \A u \in Slot : u # 0 => task'[u] = task[u]
  BY <1>0 DEF TaskDone, Coroutine
<1>q. ASSUME UNCHANGED <<chunkState, retry, dialog, chan>>, task[0].pc # "idle",
             TaskDone(0)
      PROVE  CalmState'
  <2>1. CalmQuiet
    BY <1>q, <1>d DEF CalmQuiet, DullStep
  <2> QED BY <2>1, CalmQuietKeeps
<1>2. CASE StartSendFileChunks(0)
  <2>0. task[0].pc = "start" /\ UNCHANGED recvVars /\ \A i \in Chunk : ~Flying(i)
    BY <1>2 DEF StartSendFileChunks, CalmState, OneCoroutine
  <2>1. CASE Fail(0) /\ UNCHANGED <<sendVars, chan>>
    BY <1>q, <2>0, <2>1 DEF Fail, sendVars, recvVars
  <2>2. CASE ~(Fail(0) /\ UNCHANGED <<sendVars, chan>>)
    <3>1. retry' = [i \in Chunk |-> 0]
      BY <1>2, <2>2 DEF StartSendFileChunks
    <3>2. CASE NumChunks = 0
      <4>1. Chunk = {}
        BY <3>2 DEF Chunk
      <4>2. TaskDone(0) /\ UNCHANGED chan
        BY <1>2, <2>2, <3>2 DEF StartSendFileChunks, Finish
      <4>3. OneCoroutine'
        BY <2>0, <4>1, <4>2, <1>d DEF CalmState, OneCoroutine, recvVars
      <4> QED BY <4>1, <4>3 DEF CalmState
    <3>3. CASE NumChunks # 0
      <4>1. 0 \in Chunk
        BY <3>3, NumChunksAssumption DEF Chunk
      <4>2. /\ chunkState' = [NewList EXCEPT ![0] = "sent"]
            /\ Transmit(0, 0, gen + 1, "in_progress", {}, {})
        BY <1>2, <2>2, <3>3 DEF StartSendFileChunks
      <4>3. /\ chunkState'[0] = "sent" /\ retry'[0] \in {0, 2, 4}
            /\ \A j \in Chunk : j # 0 => chunkState'[j] = "pending" /\ retry'[j] = 0
        BY <3>1, <4>1, <4>2 DEF NewList
      <4>4. UNCHANGED dialog /\ task[0].pc # "idle"
        BY <2>0 DEF recvVars
      <4> DEFINE g == gen + 1
                 i == 0
      <4>5. i \in Chunk /\ Transmit(0, i, g, "in_progress", {}, {}) /\ ~Flying(i)
        BY <2>0, <4>1, <4>2
      <4>6. /\ chunkState'[i] = "sent" /\ retry'[i] \in {0, 2, 4}
            /\ \A j \in Chunk : j # i =>
                 ~Flying(j) /\ chunkState'[j] = "pending" /\ retry'[j] = 0
        BY <2>0, <4>3
      <4> HIDE DEF g, i
      <4> QED BY <4>4, <4>5, <4>6, TransmitCounts
    <3> QED BY <3>2, <3>3
  <2> QED BY <2>1, <2>2
<1>3. CASE SendNextChunk(0)
  <2>0. task[0].pc = "loop" /\ UNCHANGED dialog
    BY <1>3 DEF SendNextChunk, recvVars
  <2>1. CASE TaskDone(0) /\ UNCHANGED <<chunkState, retry, chan>>
    BY <1>q, <2>0, <2>1
  <2>2. CASE ~(TaskDone(0) /\ UNCHANGED <<chunkState, retry, chan>>)
    <3>1. PICK i \in Chunk :
            /\ NextPendingChunk(i)
            /\ chunkState' = [chunkState EXCEPT ![i] = "sent"]
            /\ retry' = [retry EXCEPT ![i] =
                           IF chunkState[i] = "failed" THEN @ + 1 ELSE @]
            /\ Transmit(0, i, gen, state[Sender], posted, dropped)
      BY <1>3, <2>2 DEF SendNextChunk, Finish
    <3>2. \/ chunkState[i] = "pending"
          \/ chunkState[i] = "failed" /\ retry[i] < 5
      BY <3>1 DEF NextPendingChunk, Sendable, MaxRetryCount
    <3>3. CountFits(i)
      BY DEF CalmState
    <3>4. ~Flying(i) /\ chunkState'[i] = "sent"
      BY <1>0, <3>1, <3>2, <3>3 DEF CountFits
    <3>5. retry'[i] \in {0, 2, 4}
      <4>1. CASE chunkState[i] = "pending"
        BY <1>0, <3>1, <3>3, <4>1 DEF CountFits
      <4>2. CASE chunkState[i] = "failed" /\ retry[i] < 5
        <5>1. retry[i] \in {1, 3}
          BY <3>3, <4>2 DEF CountFits
        <5> QED BY <1>0, <3>1, <4>2, <5>1
      <4> QED BY <3>2, <4>1, <4>2
    <3>6. \A j \in Chunk : j # i => chunkState'[j] = chunkState[j] /\ retry'[j] = retry[j]
      BY <1>0, <3>1
    <3> QED BY <2>0, <3>1, <3>4, <3>5, <3>6, TransmitCounts
  <2> QED BY <2>1, <2>2
<1>4. CASE StopSending(0) \/ DrainFails(0)
  <2>1. /\ UNCHANGED <<chunkState, retry, dialog, chan>>
        /\ task[0].pc # "idle" /\ TaskDone(0)
    BY <1>4 DEF StopSending, DrainFails, Fail, sendVars, recvVars
  <2> QED BY <1>q, <2>1
<1>5. CASE ChunkSent(0)
  <2>1. /\ task'[0].pc = "loop" /\ UNCHANGED <<retry, chan, dialog>>
        /\ \A u \in Slot : u # 0 => task'[u] = task[u]
    BY <1>5, <1>0 DEF ChunkSent, recvVars, Coroutine
  <2>2. \A j \in Chunk : chunkState'[j] = "sent" \/ chunkState'[j] = chunkState[j]
    BY <1>5, <1>0 DEF ChunkSent
  <2>3. OneCoroutine'
    <3>1. task[0].pc = "drain"
      BY <1>5 DEF ChunkSent
    <3> QED BY <2>1, <3>1 DEF CalmState, OneCoroutine
  <2>4. ASSUME NEW j \in Chunk PROVE CountFits(j)'
    <3>1. CountFits(j) /\ (Flying(j)' <=> Flying(j))
      BY <2>1 DEF CalmState, Flying
    <3> QED BY <2>1, <2>2, <3>1 DEF CountFits
  <2> QED BY <2>3, <2>4 DEF CalmState
<1> QED BY <1>1, <1>2, <1>3, <1>4, <1>5 DEF TaskStep, ResumeSent, ResumeFails

LEMMA HandleCalm ==
    ASSUME TypeOK, ReceiverInv, up, CalmState, NEW e \in End, Handle(e)
    PROVE  CalmState'
<1>0. /\ 0 \in Slot /\ task \in [Slot -> Coroutine]
      /\ chunkState \in [Chunk -> ItemState] /\ retry \in [Chunk -> Nat]
  BY BoundsAssumption DEF TypeOK, Slot, End
<1>w. /\ \A f \in End : chan[f] \in Seq(Message)
      /\ Sender \in End /\ Receiver \in End /\ Sender # Receiver
      /\ Consume(Sender) => /\ chan'[Sender] = Tail(chan[Sender])
                            /\ chan'[Receiver] = chan[Receiver]
      /\ Consume(Receiver) => /\ chan'[Receiver] = Tail(chan[Receiver])
                              /\ chan'[Sender] = chan[Sender]
  BY Wire, MessagesTyped
<1>q. ASSUME UNCHANGED <<chunkState, retry, task>>, NEW f \in End,
             dialog = "accepted" => dialog' = "accepted",
             chan[f] # <<>>, Consume(f)
      PROVE  CalmState'
  <2>1. \A g \in End : DullStep(g)
    BY <1>q, <1>w DEF DullStep, End
  <2>2. CalmQuiet
    BY <1>q, <2>1 DEF CalmQuiet
  <2> QED BY <2>2, CalmQuietKeeps
<1>1. CASE HandleFileMeta
  <2>1. dialog # "accepted"
    BY <1>1, OfferAhead DEF ReceiverInv, AskedOnce
  <2> QED BY <1>1, <1>q, <1>w, <2>1 DEF HandleFileMeta, Incoming, sendVars
<1>2. CASE HandleFileChunk
  <2>0. PICK i \in Chunk, good \in BOOLEAN : Head(chan[Receiver]) = ChunkMsg(i, good)
    BY <1>2, <1>w, HeadTyped, MessageFields, MessageIs
    DEF HandleFileChunk, Incoming, TypeOK
  <2> DEFINE m == ChunkMsg(i, good)
  <2>1. chan[Receiver] # <<>> /\ Head(chan[Receiver]) = m /\ m.index = i
    BY <1>2, <2>0 DEF HandleFileChunk, Incoming, ChunkMsg
  <2>a. m \in Message /\ m \in About(i)
    BY MessagesTyped DEF About
  <2>2. UNCHANGED <<chunkState, retry, task, dialog>>
    BY <1>2 DEF HandleFileChunk, sendVars
  <2>3. CASE Consume(Receiver)
    BY <1>q, <1>w, <2>1, <2>2, <2>3
  <2> HIDE DEF m
  <2>4. ASSUME NEW b \in BOOLEAN, Reply(Receiver, AckMsg(i, b))
        PROVE  CalmState'
    <3> DEFINE a == AckMsg(i, b)
    <3>1. a \in Message /\ m \in About(i)
      BY <2>a, MessagesTyped
    <3>b. a \notin Yes /\ \A j \in Chunk : j # i => a \notin About(j)
      BY DEF AckMsg, Yes, RequestMsg, About, ChunkMsg
    <3>2. /\ chan'[Receiver] = Tail(chan[Receiver])
          /\ chan'[Sender] = Append(chan[Sender], a)
      BY <2>4, <3>1, Wire
    <3>3. ~None(chan[Receiver], About(i)) /\ Flying(i)
      BY <1>w, <2>1, <3>1, TailNone DEF Flying
    <3>4. OneCoroutine'
      <4>1. task[0].pc \notin {"idle", "start"}
        BY <2>1, <3>3 DEF CalmState, OneCoroutine
      <4>2. /\ Single(chan'[Sender], Yes)
            /\ None(chan[Sender], Yes) => None(chan'[Sender], Yes)
        <5> HIDE DEF a
        <5> QED BY <1>w, <3>1, <3>2, <3>b, AppendNone DEF CalmState, OneCoroutine
      <4> QED BY <2>2, <4>1, <4>2 DEF CalmState, OneCoroutine
    <3>5. CountFits(i)'
      <4>1. CountFits(i)
        BY <2>1 DEF CalmState
      <4>2. None(chan[Sender], About(i))
        BY <3>3, <4>1 DEF CountFits
      <4>3. Single(chan'[Sender], About(i))
        BY <1>w, <3>1, <3>2, <4>2, AppendNone
      <4>4. None(chan'[Receiver], About(i)) /\ Single(chan'[Receiver], About(i))
        BY <1>w, <2>1, <3>1, <3>2, <4>1, TailNone DEF CountFits
      <4> QED BY <2>2, <3>3, <4>1, <4>3, <4>4 DEF CountFits, End
    <3>6. ASSUME NEW j \in Chunk, j # i PROVE CountFits(j)'
      <4>1. CountFits(j)
        BY DEF CalmState
      <4>2. /\ None(chan[Sender], About(j)) => None(chan'[Sender], About(j))
            /\ Single(chan[Sender], About(j)) => Single(chan'[Sender], About(j))
        <5> HIDE DEF a
        <5> QED BY <1>w, <3>1, <3>2, <3>b, <3>6, AppendNone
      <4>3. /\ None(chan[Receiver], About(j)) => None(chan'[Receiver], About(j))
            /\ Single(chan[Receiver], About(j)) => Single(chan'[Receiver], About(j))
        BY <1>w, <2>1, <3>2, TailNone
      <4>4. Flying(j)' => Flying(j)
        BY <1>w, <4>2, <4>3 DEF Flying, End
      <4> QED BY <1>w, <2>2, <4>1, <4>2, <4>3, <4>4 DEF CountFits, End
    <3> QED BY <3>4, <3>5, <3>6 DEF CalmState
  <2> QED BY <1>2, <2>0, <2>1, <2>3, <2>4 DEF HandleFileChunk
<1>3. CASE HandleFileAck
  <2>0. PICK i \in Chunk, ok \in BOOLEAN : Head(chan[Sender]) = AckMsg(i, ok)
    BY <1>3, <1>w, HeadTyped, MessageFields, MessageIs
    DEF HandleFileAck, Incoming, TypeOK
  <2> DEFINE m == AckMsg(i, ok)
  <2>1. chan[Sender] # <<>> /\ Head(chan[Sender]) = m /\ m.index = i /\ m.ok = ok
    BY <1>3, <2>0 DEF HandleFileAck, Incoming, AckMsg
  <2>2. /\ UNCHANGED <<task, dialog>>
        /\ chan'[Sender] = Tail(chan[Sender]) /\ chan'[Receiver] = chan[Receiver]
    BY <1>3, <1>w DEF HandleFileAck, recvVars
  <2>3. \/ UNCHANGED <<chunkState, retry>>
        \/ /\ chunkState' = [chunkState EXCEPT ![i] =
                               IF ok THEN "acked" ELSE "failed"]
           /\ retry' = [retry EXCEPT ![i] = IF ok THEN @ ELSE @ + 1]
    BY <1>3, <2>1 DEF HandleFileAck
  <2>4. m \in About(i)
    BY DEF About
  <2> HIDE DEF m
  <2>5. ~None(chan[Sender], About(i)) /\ Flying(i)
    BY <1>w, <2>1, <2>4, TailNone DEF Flying
  <2>6. \A S : /\ None(chan[Sender], S) => None(chan'[Sender], S)
               /\ Single(chan[Sender], S) => Single(chan'[Sender], S)
    BY <1>w, <2>1, <2>2, TailNone
  <2>7. \A j \in Chunk : Flying(j)' => Flying(j)
    BY <1>w, <2>2, <2>6 DEF Flying, End
  <2>8. OneCoroutine'
    BY <2>2, <2>6, <2>7 DEF CalmState, OneCoroutine
  <2>9. CountFits(i)'
    <3>1. CountFits(i) /\ retry[i] \in {0, 2, 4} /\ chunkState[i] = "sent"
      BY <2>1, <2>5 DEF CalmState, CountFits
    <3>2. None(chan'[Sender], About(i)) /\ None(chan'[Receiver], About(i))
      BY <1>w, <2>1, <2>2, <2>4, <2>5, <3>1, TailNone DEF CountFits
    <3>3. \A f \in End : Single(chan'[f], About(i)) /\ None(chan'[f], About(i))
      BY <3>2 DEF End, None, Single
    <3>4. \/ chunkState'[i] = "sent" /\ retry'[i] \in {0, 2, 4}
          \/ chunkState'[i] = "acked" /\ retry'[i] \in {0, 2, 4}
          \/ chunkState'[i] = "failed" /\ retry'[i] \in {1, 3, 5}
      BY <1>0, <2>1, <2>3, <3>1
    <3> QED BY <1>w, <3>3, <3>4 DEF CountFits, Flying, MaxRetryCount
  <2>10. ASSUME NEW j \in Chunk, j # i PROVE CountFits(j)'
    <3>1. CountFits(j)
      BY DEF CalmState
    <3>2. chunkState'[j] = chunkState[j] /\ retry'[j] = retry[j]
      BY <1>0, <2>1, <2>3, <2>10
    <3> QED BY <1>w, <2>2, <2>6, <2>7, <3>1, <3>2 DEF CountFits, End
  <2> QED BY <2>8, <2>9, <2>10 DEF CalmState
<1>4. CASE HandleFileRequest
  <2> DEFINE m == Head(chan[Sender])
  <2>1. /\ chan[Sender] # <<>> /\ m \in Message /\ m = RequestMsg(m.accepted)
        /\ Consume(Sender) /\ UNCHANGED <<chunkState, retry, dialog>>
    BY <1>4, <1>w, HeadTyped, MessageIs
    DEF HandleFileRequest, Incoming, TypeOK, sendVars, recvVars
  <2>2. CASE UNCHANGED task
    BY <1>q, <1>w, <2>1, <2>2
  <2>3. CASE m.accepted /\ task' = CreateTask
    <3>1. m \in Yes
      BY <2>1, <2>3, MessageFields DEF Yes, RequestMsg
    <3>2. ~None(chan[Sender], Yes)
      BY <1>w, <2>1, <3>1, TailNone
    <3>3. /\ chan'[Sender] = Tail(chan[Sender]) /\ chan'[Receiver] = chan[Receiver]
          /\ None(chan'[Sender], Yes) /\ Single(chan'[Sender], Yes)
      <4>1. chan'[Sender] = Tail(chan[Sender]) /\ chan'[Receiver] = chan[Receiver]
        BY <1>w, <2>1
      <4> QED BY <1>w, <2>1, <3>1, <4>1, TailNone DEF CalmState, OneCoroutine
    <3>4. dialog = "accepted" /\ task[0].pc = "idle"
      BY <3>2 DEF CalmState, OneCoroutine
    <3>5. task'[0].pc = "start" /\ \A t \in Slot : t # 0 => task'[t] = task[t]
      BY <1>0, <2>3 DEF CreateTask, Coroutine
    <3>6. \A S : /\ None(chan[Sender], S) => None(chan'[Sender], S)
                 /\ Single(chan[Sender], S) => Single(chan'[Sender], S)
      BY <1>w, <2>1, <3>3, TailNone
    <3>7. \A j \in Chunk : Flying(j)' => Flying(j)
      BY <1>w, <3>3, <3>6 DEF Flying, End
    <3>8. OneCoroutine'
      BY <2>1, <3>3, <3>4, <3>5, <3>7 DEF CalmState, OneCoroutine
    <3>9. ASSUME NEW j \in Chunk PROVE CountFits(j)'
      <4>1. CountFits(j)
        BY DEF CalmState
      <4> QED BY <1>w, <2>1, <3>3, <3>6, <3>7, <4>1 DEF CountFits, End
    <3> QED BY <3>8, <3>9 DEF CalmState
  <2> QED BY <1>4, <2>2, <2>3 DEF HandleFileRequest
<1>5. CASE HandleData(e)
  <2>1. /\ UNCHANGED <<chunkState, retry, task, dialog>>
        /\ chan[e] # <<>> /\ Consume(e)
    BY <1>5 DEF HandleData, Incoming, sendVars
  <2> QED BY <1>q, <2>1
<1> QED BY <1>1, <1>2, <1>3, <1>4, <1>5 DEF Handle

LEMMA ContinueCalm ==
    ASSUME TypeOK, CalmState, NEW e \in End, Continue(e)
    PROVE  CalmState'
<1>1. UNCHANGED <<chunkState, retry, task, dialog, chan>>
  BY DEF Continue, FileChunkAcked, FileChunkAckFails, RejectSent, RejectFails,
         CancelSent, CancelFails, xferVars, sendVars, recvVars
<1>2. CalmQuiet
  BY <1>1 DEF CalmQuiet, DullStep
<1> QED BY <1>2, CalmQuietKeeps

(* The offer, and the answer to it; other calls end the calm.               *)
LEMMA UserCalm ==
    ASSUME TypeOK, CalmState, SendFile \/ AcceptTransfer \/ RejectTransfer
    PROVE  CalmState'
<1>0. 0 \in Slot
  BY BoundsAssumption DEF Slot, End
<1>w. /\ \A f \in End : chan[f] \in Seq(Message)
      /\ Sender \in End /\ Receiver \in End /\ Sender # Receiver
  BY Wire, MessagesTyped
<1>q. ASSUME UNCHANGED <<chunkState, retry, task>>,
             dialog = "accepted" => dialog' = "accepted",
             \/ UNCHANGED chan
             \/ Post(Receiver, MetaMsg)
             \/ Post(Sender, RequestMsg(FALSE))
      PROVE  CalmState'
  <2>1. /\ MetaMsg \in Message /\ RequestMsg(FALSE) \in Message
        /\ Dull(MetaMsg) /\ Dull(RequestMsg(FALSE))
    BY MessagesTyped DEF Dull, MetaMsg, RequestMsg
  <2>2. \A f \in End : DullStep(f)
    BY <1>q, <1>w, <2>1, Wire DEF DullStep, End
  <2>3. CalmQuiet
    BY <1>q, <2>2 DEF CalmQuiet
  <2> QED BY <2>3, CalmQuietKeeps
<1>1. CASE SendFile
  BY <1>1, <1>q DEF SendFile, sendVars, recvVars
<1>2. CASE RejectTransfer
  BY <1>2, <1>q DEF RejectTransfer, PostIfUp, sendVars
<1>3. CASE AcceptTransfer /\ UNCHANGED chan
  BY <1>3, <1>q DEF AcceptTransfer, sendVars
<1>4. CASE AcceptTransfer /\ ~UNCHANGED chan
  <2> DEFINE m == RequestMsg(TRUE)
  <2>1. m \in Message /\ \A i \in Chunk : m \notin About(i)
    BY MessagesTyped DEF About, RequestMsg, ChunkMsg, AckMsg
  <2>2. /\ dialog = "open" /\ dialog' = "accepted" /\ Post(Sender, m)
        /\ UNCHANGED <<chunkState, retry, task>>
    BY <1>4 DEF AcceptTransfer, sendVars
  <2>3. chan'[Sender] = Append(chan[Sender], m) /\ chan'[Receiver] = chan[Receiver]
    BY <2>1, <2>2, Wire
  <2> HIDE DEF m
  <2>4. None(chan[Sender], Yes) /\ task[0].pc = "idle"
    BY <2>2 DEF CalmState, OneCoroutine
  <2>5. Single(chan'[Sender], Yes)
    BY <1>w, <2>1, <2>3, <2>4, AppendNone
  <2>6. ASSUME NEW i \in Chunk
        PROVE  /\ None(chan[Sender], About(i)) => None(chan'[Sender], About(i))
               /\ Single(chan[Sender], About(i)) => Single(chan'[Sender], About(i))
    BY <1>w, <2>1, <2>3, AppendNone
  <2>7. \A i \in Chunk : Flying(i)' => Flying(i)
    BY <1>w, <2>3, <2>6 DEF Flying, End
  <2>8. OneCoroutine'
    BY <2>2, <2>4, <2>5, <2>7 DEF CalmState, OneCoroutine
  <2>9. ASSUME NEW i \in Chunk PROVE CountFits(i)'
    <3>1. CountFits(i)
      BY DEF CalmState
    <3> QED BY <1>w, <2>2, <2>3, <2>6, <2>7, <3>1 DEF CountFits, End
  <2> QED BY <2>8, <2>9 DEF CalmState
<1> QED BY <1>1, <1>2, <1>3, <1>4

(* Calm is never regained: calls are counted, and connections numbered.     *)
LEMMA CalmEnds ==
    ASSUME TypeOK, epoch > 0, [Next]_vars
    PROVE  /\ epoch' > 0
           /\ Unbroken' => Unbroken /\ ~ConnectionLost /\ ~Reconnect
           /\ Calm' => Calm /\ \A e \in End : ~UserCall(e)
<1>0. epoch \in Nat /\ ops \in [End -> Nat]
  BY DEF TypeOK
<1>1. CASE ConnectionLost
  BY <1>0, <1>1 DEF ConnectionLost, Unbroken, Calm
<1>2. CASE Reconnect
  BY <1>0, <1>2 DEF Reconnect, Unbroken, Calm
<1>3. ASSUME NEW t \in Slot, TaskStep(t)
      PROVE  UNCHANGED <<linkVars, ops>>
  BY <1>3 DEF TaskStep, StartSendFileChunks, SendNextChunk, StopSending,
              ChunkSent, DrainFails, ResumeSent, ResumeFails
<1>4. ASSUME NEW e \in End, Handle(e) \/ Continue(e)
      PROVE  UNCHANGED <<linkVars, ops>>
  <2>1. Handle(e) => UNCHANGED <<linkVars, ops>>
    BY DEF Handle, HandleFileMeta, HandleFileChunk, HandleFileAck,
           HandleFileRequest, HandleData
  <2>2. Continue(e) => UNCHANGED <<linkVars, ops>>
    BY DEF Continue, FileChunkAcked, FileChunkAckFails, RejectSent,
           RejectFails, CancelSent, CancelFails
  <2> QED BY <1>4, <2>1, <2>2
<1>5. ASSUME NEW e \in End, User(e)
      PROVE  /\ UNCHANGED linkVars
             /\ UNCHANGED ops \/ UserCall(e)
  BY <1>5 DEF User, SendFile, AcceptTransfer, RejectTransfer, PauseTransfer,
              ResumeTransfer, CancelTransfer
<1>6. \A e \in End : UserCall(e) => ops'[e] # 0
  BY <1>0 DEF UserCall
<1>7. CASE UNCHANGED vars
  BY <1>6, <1>7 DEF vars, linkVars, Unbroken, Calm, ConnectionLost, Reconnect
<1>8. CASE UNCHANGED linkVars /\ UNCHANGED ops
  BY <1>6, <1>8 DEF linkVars, Unbroken, Calm, ConnectionLost, Reconnect
<1>9. ASSUME NEW e \in End, UNCHANGED linkVars, UserCall(e)
      PROVE  /\ epoch' > 0
             /\ Unbroken' => Unbroken /\ ~ConnectionLost /\ ~Reconnect
             /\ ~Calm'
  BY <1>6, <1>9 DEF linkVars, Unbroken, Calm, ConnectionLost, Reconnect
<1>10. UNCHANGED linkVars => Unbroken' = Unbroken
  BY DEF linkVars, Unbroken
<1> QED BY <1>1, <1>2, <1>3, <1>4, <1>5, <1>7, <1>8, <1>9 DEF Next

LEMMA NextCalm == TypeOK /\ ReceiverInv /\ CalmInv /\ [Next]_vars => CalmInv'
<1> SUFFICES ASSUME TypeOK, ReceiverInv, CalmInv, [Next]_vars PROVE CalmInv'
  OBVIOUS
<1>1. epoch' > 0 /\ (Calm' => Calm /\ \A e \in End : ~UserCall(e))
  BY CalmEnds DEF CalmInv
<1>2. Calm' => Unbroken'
  BY DEF Calm, Unbroken
<1>3. ASSUME Calm' PROVE CalmState'
  <2>1. CalmState /\ up /\ \A e \in End : ~UserCall(e)
    BY <1>1, <1>3 DEF CalmInv, CalmState, Calm
  <2>2. CASE \E t \in Slot : TaskStep(t)
    BY <2>1, <2>2, TaskStepCalm
  <2>3. ASSUME NEW e \in End, Handle(e) \/ Continue(e) PROVE CalmState'
    BY <2>1, <2>3, HandleCalm, ContinueCalm
  <2>4. ASSUME NEW e \in End, User(e) PROVE CalmState'
    <3>1. SendFile \/ AcceptTransfer \/ RejectTransfer
      BY <2>1, <2>4 DEF User, PauseTransfer, ResumeTransfer, CancelTransfer
    <3> QED BY <2>1, <3>1, UserCalm
  <2>5. CASE UNCHANGED vars
    <3>1. CalmQuiet
      BY <2>5 DEF vars, sendVars, recvVars, CalmQuiet, DullStep
    <3> QED BY <2>1, <3>1, CalmQuietKeeps
  <2>6. ~ConnectionLost /\ ~Reconnect
    BY <1>2, <1>3, CalmEnds DEF CalmInv
  <2> QED BY <2>2, <2>3, <2>4, <2>5, <2>6 DEF Next
<1> QED BY <1>1, <1>3 DEF CalmInv, CalmState

LEMMA InitCalm == Init => CalmInv
<1> SUFFICES ASSUME Init PROVE CalmInv
  OBVIOUS
<1>1. 0 \in Slot
  BY BoundsAssumption DEF Slot, End
<1>2. \A e \in End : \A S : None(chan[e], S) /\ Single(chan[e], S)
  BY DEF Init, None, Single
<1>3. OneCoroutine
  BY <1>1, <1>2 DEF Init, OneCoroutine, NewTask, Flying, End
<1>4. \A i \in Chunk : CountFits(i)
  BY <1>2 DEF Init, CountFits, Flying, MaxRetryCount, End
<1> QED BY <1>3, <1>4 DEF CalmInv, Init

(* Nobody interfering, no chunk's failure count passes five, whatever is     *)
(* damaged and however late a drain reports what was already answered: at    *)
(* most one chunk or answer speaks of it at a time                           *)
(* (transfer_controller.py:311-345, chunk_manager.py:89-104, 129-134).       *)
THEOREM RetriesEnd == Spec => []RetryCapped
<1>1. CalmInv => RetryCapped
  BY DEF CalmInv, CountFits, RetryCapped
<1>2. TypeOK /\ ReceiverInv /\ CalmInv /\ [Next]_vars => CalmInv'
  BY NextCalm
<1> QED BY <1>1, <1>2, InitCalm, TypeCorrect, ReceiverSafe, PTL DEF Spec

-----------------------------------------------------------------------------
(* What is called acked is stored, while the connection holds.              *)

\* A yes is under way.
YesComes == ~None(chan[Sender], Yes)

LEMMA RestartIs == RestartDue <=> YesComes \/ task[0].pc = "start"
BY DEF RestartDue, YesComes, None, Yes

\* A step that brings the sender no answer and takes no yes from it.
NoAnswer ==
    \/ chan'[Sender] = chan[Sender]
    \/ /\ chan[Sender] # <<>> /\ Head(chan[Sender]) # RequestMsg(TRUE)
       /\ chan'[Sender] = Tail(chan[Sender])
    \/ \E m \in Message : /\ m.type # "file_ack"
                          /\ chan'[Sender] = Append(chan[Sender], m)

(* The places of a queue: what is behind stays behind.                      *)
LEMMA TailAckTrue ==
    ASSUME TypeOK, NEW i \in Chunk, AckTrue(i), Kept(i) => Kept(i)',
           chan[Sender] # <<>>, chan'[Sender] = Tail(chan[Sender])
    PROVE  AckTrue(i)'
<1>1. chan[Sender] \in Seq(Message)
  BY DEF TypeOK, End
<1> DEFINE q == chan[Sender]
           r == Tail(q)
           a == AckMsg(i, TRUE)
<1>2. ASSUME NEW k \in DOMAIN r, r[k] = a, ~Kept(i)
      PROVE  \E j \in DOMAIN r : j > k /\ r[j] = RequestMsg(TRUE)
  <2>1. k \in Nat /\ k + 1 \in DOMAIN q /\ q[k + 1] = a
    <3> HIDE DEF a
    <3> QED BY <1>1, <1>2, TailIs
  <2>2. PICK j \in DOMAIN q : j > k + 1 /\ q[j] = RequestMsg(TRUE)
    BY <1>2, <2>1 DEF AckTrue
  <2>3. j \in Nat
    BY <1>1, TailIs
  <2>4. j # 1 /\ j - 1 > k
    BY <2>1, <2>2, <2>3
  <2>5. j - 1 \in DOMAIN r /\ r[j - 1] = q[j]
    BY <1>1, <2>4, TailIs
  <2> QED BY <2>2, <2>4, <2>5
<1> QED BY <1>2 DEF AckTrue

LEMMA AppendAckTrue ==
    ASSUME TypeOK, NEW i \in Chunk, AckTrue(i), Kept(i) => Kept(i)',
           NEW m \in Message, chan'[Sender] = Append(chan[Sender], m),
           m # AckMsg(i, TRUE)
    PROVE  AckTrue(i)'
<1>1. chan[Sender] \in Seq(Message)
  BY DEF TypeOK, End
<1> DEFINE q == chan[Sender]
           r == Append(q, m)
           a == AckMsg(i, TRUE)
<1>2. ASSUME NEW k \in DOMAIN r, r[k] = a, ~Kept(i)
      PROVE  \E j \in DOMAIN r : j > k /\ r[j] = RequestMsg(TRUE)
  <2>1. k \in DOMAIN q /\ q[k] = a
    <3> HIDE DEF a
    <3>1. m # a
      BY DEF a
    <3> QED BY <1>1, <1>2, <3>1, AppendIs
  <2>2. PICK j \in DOMAIN q : j > k /\ q[j] = RequestMsg(TRUE)
    BY <1>2, <2>1 DEF AckTrue
  <2>3. j \in DOMAIN r /\ r[j] = q[j]
    BY <1>1, AppendIs
  <2> QED BY <2>2, <2>3
<1> QED BY <1>2 DEF AckTrue

LEMMA NoAnswerKeeps ==
    ASSUME TypeOK, NoAnswer
    PROVE  /\ \A i \in Chunk : AckTrue(i) /\ (Kept(i) => Kept(i)') => AckTrue(i)'
           /\ YesComes => YesComes'
           /\ \A i \in Chunk : None(chan[Sender], AckOf(i))
                                 => None(chan'[Sender], AckOf(i))
<1>1. chan[Sender] \in Seq(Message)
  BY DEF TypeOK, End
<1>2. CASE chan'[Sender] = chan[Sender]
  BY <1>2 DEF AckTrue, YesComes
<1>3. CASE /\ chan[Sender] # <<>> /\ Head(chan[Sender]) # RequestMsg(TRUE)
           /\ chan'[Sender] = Tail(chan[Sender])
  <2>1. ASSUME YesComes PROVE YesComes'
    <3>1. PICK k \in DOMAIN chan[Sender] : chan[Sender][k] = RequestMsg(TRUE)
      BY <2>1 DEF YesComes, None, Yes
    <3>2. k # 1
      BY <1>1, <1>3, <3>1, TailIs
    <3>3. k - 1 \in DOMAIN chan'[Sender] /\ chan'[Sender][k - 1] = chan[Sender][k]
      BY <1>1, <1>3, <3>2, TailIs
    <3> QED BY <3>1, <3>3 DEF YesComes, None, Yes
  <2> QED BY <1>1, <1>3, <2>1, TailAckTrue, TailNone
<1>4. ASSUME NEW m \in Message, m.type # "file_ack",
             chan'[Sender] = Append(chan[Sender], m)
      PROVE  /\ \A i \in Chunk : AckTrue(i) /\ (Kept(i) => Kept(i)') => AckTrue(i)'
             /\ YesComes => YesComes'
             /\ \A i \in Chunk : None(chan[Sender], AckOf(i))
                                   => None(chan'[Sender], AckOf(i))
  <2>1. \A i \in Chunk : m # AckMsg(i, TRUE) /\ m \notin AckOf(i)
    BY <1>4 DEF AckMsg, AckOf
  <2>2. YesComes => YesComes'
    BY <1>1, <1>4, AppendNone DEF YesComes
  <2> QED BY <1>1, <1>4, <2>1, <2>2, AppendAckTrue, AppendNone
<1> QED BY <1>2, <1>3, <1>4 DEF NoAnswer

(* A step that marks no chunk and lets none go.                             *)
AckQuiet ==
    /\ \A i \in Chunk : (Marked(i)' => Marked(i)) /\ (Kept(i) => Kept(i)')
    /\ ~active'[Sender] => ~active[Sender] \/ ~listed'[Sender]
    /\ task[0].pc = "start" => task'[0].pc = "start"
    /\ dialog' = "none" => dialog = "none"
    /\ NoAnswer

LEMMA AckQuietKeeps ==
    ASSUME TypeOK, AckState, AckQuiet
    PROVE  AckState'
<1>1. RestartDue => RestartDue'
  <2>1. RestartDue' <=> YesComes' \/ task'[0].pc = "start"
    BY DEF RestartDue, YesComes, None, Yes
  <2> QED BY <2>1, RestartIs, NoAnswerKeeps DEF AckQuiet
<1>2. \A i \in Chunk : AckTrue(i)'
  BY NoAnswerKeeps DEF AckState, AckQuiet
<1>3. ~active'[Sender] => \A i \in Chunk : ~Marked(i)'
  BY DEF AckState, AckQuiet, Marked
<1>4. dialog' = "none" =>
        \A i \in Chunk : ~Marked(i)' /\ None(chan'[Sender], AckOf(i))
  BY NoAnswerKeeps DEF AckState, AckQuiet
<1>5. \A i \in Chunk : Marked(i)' => Kept(i)' \/ RestartDue'
  BY <1>1 DEF AckState, AckQuiet
<1> QED BY <1>2, <1>3, <1>4, <1>5 DEF AckState

(* What a cleanup does to marks and to what is kept.                        *)
LEMMA CleanupQuiet ==
    ASSUME TypeOK, NEW e \in End, Cleanup(e), UNCHANGED chunkState
    PROVE  /\ \A i \in Chunk : (Marked(i)' => Marked(i)) /\ (Kept(i) => Kept(i)')
           /\ ~active'[Sender] => ~active[Sender] \/ ~listed'[Sender]
<1>1. /\ active' = [active EXCEPT ![e] = FALSE]
      /\ listed' = [listed EXCEPT ![e] = FALSE]
      /\ e = Sender => UNCHANGED data
      /\ active \in [End -> BOOLEAN] /\ listed \in [End -> BOOLEAN]
      /\ Sender \in End /\ Receiver \in End /\ Sender # Receiver
  BY DEF Cleanup, TypeOK, End, Sender, Receiver
<1>2. CASE e = Sender
  BY <1>1, <1>2 DEF Marked, Kept
<1>3. CASE e = Receiver
  BY <1>1, <1>3 DEF Marked, Kept
<1> QED BY <1>2, <1>3 DEF End

LEMMA TaskStepAcked ==
    ASSUME TypeOK, ~ReadMayFail, AckState, NEW t \in Slot, TaskStep(t)
    PROVE  AckState'
<1>0. /\ 0 \in Slot /\ task \in [Slot -> Coroutine] /\ listed \in [End -> BOOLEAN]
      /\ chunkState \in [Chunk -> ItemState] /\ Sender \in End
  BY BoundsAssumption DEF TypeOK, Slot, End
<1>d. TaskDone(t) => \A u \in Slot : u # t => task'[u] = task[u]
  BY <1>0 DEF TaskDone
<1>t. ASSUME NEW i \in Chunk, NEW g, NEW s, NEW sent, NEW lost,
             Transmit(t, i, g, s, sent, lost)
      PROVE  chan'[Sender] = chan[Sender] /\ \A u \in Slot : u # t => task'[u] = task[u]
  BY <1>t, TransmitShape
<1>q. ASSUME UNCHANGED <<active, data, listed, dialog>>, chan'[Sender] = chan[Sender],
             \A i \in Chunk : chunkState'[i] = "acked" => chunkState[i] = "acked",
             task[t].pc # "start", \A u \in Slot : u # t => task'[u] = task[u]
      PROVE  AckState'
  <2>1. AckQuiet
    BY <1>0, <1>q DEF AckQuiet, Marked, Kept, NoAnswer
  <2> QED BY <2>1, AckQuietKeeps
<1>1. CASE StartSendFileChunks(t)
  <2>1. /\ \A i \in Chunk : chunkState'[i] # "acked"
        /\ chan'[Sender] = chan[Sender] /\ UNCHANGED <<active, dialog, data>>
    <3>1. ~Unreadable
      BY DEF Unreadable
    <3>2. UNCHANGED <<active, dialog, data>>
      BY <1>1 DEF StartSendFileChunks, recvVars
    <3>3. CASE NumChunks = 0
      <4>1. Chunk = {}
        BY <3>3 DEF Chunk
      <4> QED BY <1>1, <3>1, <3>2, <3>3, <4>1 DEF StartSendFileChunks
    <3>4. CASE NumChunks # 0
      <4>1. 0 \in Chunk
        BY <3>4, NumChunksAssumption DEF Chunk
      <4>2. /\ chunkState' = [NewList EXCEPT ![0] = "sent"]
            /\ Transmit(t, 0, gen + 1, "in_progress", {}, {})
        BY <1>1, <3>1, <3>4 DEF StartSendFileChunks
      <4>3. chan'[Sender] = chan[Sender]
        BY <4>1, <4>2, <1>t
      <4> QED BY <3>2, <4>2, <4>3 DEF NewList
    <3> QED BY <3>3, <3>4
  <2>2. \A i \in Chunk : ~Marked(i)' /\ (AckTrue(i) => AckTrue(i)')
    BY <2>1 DEF Marked, AckTrue, Kept
  <2> QED BY <2>1, <2>2 DEF AckState, None
<1>2. CASE SendNextChunk(t)
  <2>0. UNCHANGED <<active, data, listed, dialog>> /\ task[t].pc # "start"
    BY <1>2 DEF SendNextChunk, recvVars
  <2>1. CASE TaskDone(t) /\ UNCHANGED <<chunkState, chan>>
    BY <1>q, <1>d, <2>0, <2>1
  <2>2. CASE ~(TaskDone(t) /\ UNCHANGED <<chunkState, chan>>)
    <3>1. PICK i \in Chunk : /\ chunkState' = [chunkState EXCEPT ![i] = "sent"]
                             /\ Transmit(t, i, gen, state[Sender], posted, dropped)
      BY <1>2, <2>2 DEF SendNextChunk, Finish
    <3>2. chan'[Sender] = chan[Sender] /\ \A u \in Slot : u # t => task'[u] = task[u]
      BY <3>1, <1>t
    <3>3. \A j \in Chunk : chunkState'[j] = "acked" => chunkState[j] = "acked"
      BY <1>0, <3>1
    <3> QED BY <1>q, <2>0, <3>2, <3>3
  <2> QED BY <2>1, <2>2
<1>3. CASE ChunkSent(t)
  <2>1. \A j \in Chunk : chunkState'[j] = "acked" => chunkState[j] = "acked"
    BY <1>3, <1>0 DEF ChunkSent
  <2>2. \A u \in Slot : u # t => task'[u] = task[u]
    BY <1>3, <1>0 DEF ChunkSent
  <2> QED BY <1>3, <1>q, <2>1, <2>2 DEF ChunkSent, recvVars
<1>4. CASE StopSending(t) \/ DrainFails(t) \/ ResumeFails(t)
  BY <1>4, <1>q, <1>d
  DEF StopSending, DrainFails, ResumeFails, Fail, xferVars, sendVars, recvVars
<1>5. CASE ResumeSent(t)
  <2>1. \A u \in Slot : u # t => task'[u] = task[u]
    BY <1>5, <1>0 DEF ResumeSent
  <2> QED BY <1>5, <1>q, <2>1 DEF ResumeSent, xferVars, sendVars, recvVars
<1> QED BY <1>1, <1>2, <1>3, <1>4, <1>5 DEF TaskStep

LEMMA HandleAcked ==
    ASSUME TypeOK, ReceiverInv, up, AckState, NEW e \in End, Handle(e)
    PROVE  AckState'
<1>w. /\ \A f \in End : chan[f] \in Seq(Message)
      /\ Sender \in End /\ Receiver \in End /\ Sender # Receiver
      /\ Consume(Sender) => /\ chan'[Sender] = Tail(chan[Sender])
                            /\ chan'[Receiver] = chan[Receiver]
      /\ Consume(Receiver) => /\ chan'[Receiver] = Tail(chan[Receiver])
                              /\ chan'[Sender] = chan[Sender]
  BY Wire, MessagesTyped
<1>y. /\ chunkState \in [Chunk -> ItemState] /\ active \in [End -> BOOLEAN]
      /\ 0 \in Slot /\ task \in [Slot -> Coroutine]
  BY BoundsAssumption DEF TypeOK, Slot, End
<1>1. CASE HandleFileMeta
  <2>1. dialog = "none" /\ dialog' = "open"
    BY <1>1, OfferAhead DEF ReceiverInv, AskedOnce, HandleFileMeta
  <2>2. chan'[Sender] = chan[Sender] /\ UNCHANGED <<listed, chunkState>>
    BY <1>1, <1>w DEF HandleFileMeta, sendVars
  <2>3. \A i \in Chunk : ~Marked(i)' /\ None(chan'[Sender], AckOf(i))
    BY <2>1, <2>2 DEF AckState, Marked
  <2>4. \A i \in Chunk : AckTrue(i)'
    BY <2>3 DEF None, AckOf, AckTrue
  <2> QED BY <2>1, <2>3, <2>4 DEF AckState
<1>2. CASE HandleFileChunk
  <2>0. PICK i \in Chunk, good \in BOOLEAN : Head(chan[Receiver]) = ChunkMsg(i, good)
    BY <1>2, <1>w, HeadTyped, MessageFields, MessageIs
    DEF HandleFileChunk, Incoming, TypeOK
  <2>1. Head(chan[Receiver]).index = i
    BY <2>0 DEF ChunkMsg
  <2>2. UNCHANGED <<active, listed, chunkState, task, dialog>>
    BY <1>2 DEF HandleFileChunk, sendVars
  <2>3. CASE Consume(Receiver) /\ UNCHANGED data
    <3>1. AckQuiet
      BY <1>w, <2>2, <2>3 DEF AckQuiet, NoAnswer, Marked, Kept
    <3> QED BY <3>1, AckQuietKeeps
  <2>4. ASSUME NEW b \in BOOLEAN, Reply(Receiver, AckMsg(i, b)), active[Receiver],
               b => data' = data \cup {i}, ~b => UNCHANGED data
        PROVE  AckState'
    <3> DEFINE m == AckMsg(i, b)
    <3>1. m \in Message
      BY MessagesTyped
    <3>2. chan'[Sender] = Append(chan[Sender], m)
      BY <2>4, <3>1, Wire
    <3>3. \A j \in Chunk : m = AckMsg(j, TRUE) => b /\ j = i
      BY DEF AckMsg
    <3> HIDE DEF m
    <3>4. \A j \in Chunk : (Kept(j) => Kept(j)') /\ (Marked(j)' => Marked(j))
      BY <2>2, <2>4 DEF Kept, Marked
    <3>5. ASSUME NEW j \in Chunk PROVE AckTrue(j)'
      <4>1. CASE Kept(j)'
        BY <4>1 DEF AckTrue
      <4>2. CASE ~Kept(j)'
        <5>1. m # AckMsg(j, TRUE)
          BY <2>4, <3>3, <4>2 DEF Kept
        <5> QED BY <3>1, <3>2, <3>4, <5>1, AppendAckTrue DEF AckState
      <4> QED BY <4>1, <4>2
    <3>6. RestartDue => RestartDue'
      <4>1. YesComes => YesComes'
        BY <1>w, <3>1, <3>2, AppendNone DEF YesComes
      <4>2. RestartDue' <=> YesComes' \/ task'[0].pc = "start"
        BY DEF RestartDue, YesComes, None, Yes
      <4> QED BY <2>2, <4>1, <4>2, RestartIs
    <3>7. dialog' # "none"
      BY <2>2, <2>4 DEF ReceiverInv, AskedOnce
    <3> QED BY <2>2, <3>4, <3>5, <3>6, <3>7 DEF AckState
  <2>5. \/ Consume(Receiver) /\ UNCHANGED data
        \/ active[Receiver] /\ Reply(Receiver, AckMsg(i, FALSE)) /\ UNCHANGED data
        \/ active[Receiver] /\ Reply(Receiver, AckMsg(i, TRUE)) /\ data' = data \cup {i}
    BY <1>2, <2>1 DEF HandleFileChunk, Known
  <2> QED BY <2>3, <2>4, <2>5
<1>3. CASE HandleFileAck
  <2>0. PICK i \in Chunk, ok \in BOOLEAN : Head(chan[Sender]) = AckMsg(i, ok)
    BY <1>3, <1>w, HeadTyped, MessageFields, MessageIs
    DEF HandleFileAck, Incoming, TypeOK
  <2> DEFINE m == AckMsg(i, ok)
  <2>1. chan[Sender] # <<>> /\ Head(chan[Sender]) = m /\ m.index = i /\ m.ok = ok
    BY <1>3, <2>0 DEF HandleFileAck, Incoming, AckMsg
  <2>2. /\ UNCHANGED <<task, dialog, active, listed, data>>
        /\ chan'[Sender] = Tail(chan[Sender])
    BY <1>3, <1>w DEF HandleFileAck, recvVars, xferVars
  <2>3. \/ UNCHANGED chunkState
        \/ /\ active[Sender]
           /\ chunkState' = [chunkState EXCEPT ![i] =
                               IF ok THEN "acked" ELSE "failed"]
    BY <1>3, <2>1 DEF HandleFileAck, Known
  <2>4. m # RequestMsg(TRUE)
    BY DEF AckMsg, RequestMsg
  <2>5. NoAnswer
    BY <2>0, <2>1, <2>2, <2>4 DEF NoAnswer
  <2>6. CASE \A j \in Chunk : Marked(j)' => Marked(j)
    <3>1. AckQuiet
      BY <2>2, <2>5, <2>6 DEF AckQuiet, Kept
    <3> QED BY <3>1, AckQuietKeeps
  <2>7. CASE ok /\ active[Sender] /\ \A j \in Chunk : j # i /\ Marked(j)' => Marked(j)
    <3>0. \A j \in Chunk : Kept(j)' <=> Kept(j)
      BY <2>2 DEF Kept
    <3>1. Kept(i) \/ YesComes
      <4>1. 1 \in DOMAIN chan[Sender] /\ chan[Sender][1] = AckMsg(i, TRUE)
        BY <1>w, <2>0, <2>1, <2>7, TailIs
      <4> QED BY <4>1 DEF AckState, AckTrue, YesComes, None, Yes
    <3>2. RestartDue => RestartDue'
      <4>1. RestartDue' <=> YesComes' \/ task'[0].pc = "start"
        BY DEF RestartDue, YesComes, None, Yes
      <4> QED BY <2>2, <2>5, <4>1, RestartIs, NoAnswerKeeps
    <3>3. \A j \in Chunk : Marked(j)' => Kept(j)' \/ RestartDue'
      BY <2>7, <3>0, <3>1, <3>2, RestartIs DEF AckState
    <3>4. \A j \in Chunk : AckTrue(j)'
      BY <2>5, <3>0, NoAnswerKeeps DEF AckState
    <3>5. dialog' # "none"
      <4>1. ~None(chan[Sender], AckOf(i))
        BY <1>w, <2>0, <2>1, <2>7, TailNone DEF AckOf
      <4> QED BY <2>2, <4>1 DEF AckState
    <3> QED BY <2>2, <2>7, <3>3, <3>4, <3>5 DEF AckState
  <2>8. ~ok => \A j \in Chunk : Marked(j)' => Marked(j)
    BY <1>y, <2>2, <2>3 DEF Marked
  <2>9. \A j \in Chunk : j # i /\ Marked(j)' => Marked(j)
    BY <1>y, <2>2, <2>3 DEF Marked
  <2>10. UNCHANGED chunkState => \A j \in Chunk : Marked(j)' => Marked(j)
    BY <2>2 DEF Marked
  <2> QED BY <2>3, <2>6, <2>7, <2>8, <2>9, <2>10
<1>4. CASE HandleFileRequest
  <2>1. /\ chan[Sender] # <<>> /\ Consume(Sender)
        /\ chan'[Sender] = Tail(chan[Sender])
        /\ UNCHANGED <<chunkState, listed, active, data, dialog>>
    BY <1>4, <1>w DEF HandleFileRequest, Incoming, sendVars, recvVars
  <2>2. \A i \in Chunk : (Marked(i)' <=> Marked(i)) /\ (Kept(i)' <=> Kept(i))
    BY <2>1 DEF Marked, Kept
  <2>3. task'[0].pc = "start" \/ (UNCHANGED task /\ Head(chan[Sender]) # RequestMsg(TRUE))
          \/ (UNCHANGED task /\ ~active[Sender])
    <3>1. task' = CreateTask => task'[0].pc = "start"
      BY <1>y DEF CreateTask, Coroutine
    <3>2. Head(chan[Sender]) = RequestMsg(TRUE) => Head(chan[Sender]).accepted
      BY DEF RequestMsg
    <3> QED BY <1>4, <3>1, <3>2 DEF HandleFileRequest, Known
  <2>4. CASE UNCHANGED task /\ Head(chan[Sender]) # RequestMsg(TRUE)
    <3>1. AckQuiet
      BY <2>1, <2>2, <2>4 DEF AckQuiet, NoAnswer
    <3> QED BY <3>1, AckQuietKeeps
  <2>5. CASE task'[0].pc = "start" \/ ~active[Sender]
    <3>1. \A i \in Chunk : AckTrue(i)'
      BY <2>1, <2>2, TailAckTrue DEF AckState
    <3>2. \A i \in Chunk : Marked(i)' => Kept(i)' \/ RestartDue'
      BY <2>2, <2>5 DEF AckState, RestartDue
    <3>3. \A i \in Chunk : None(chan[Sender], AckOf(i)) => None(chan'[Sender], AckOf(i))
      BY <1>w, <2>1, TailNone
    <3> QED BY <2>1, <2>2, <3>1, <3>2, <3>3 DEF AckState
  <2> QED BY <2>3, <2>4, <2>5
<1>5. CASE HandleData(e)
  <2>1. /\ UNCHANGED <<chunkState, task, dialog>>
        /\ chan[e] # <<>> /\ Head(chan[e]).type = "data" /\ Consume(e)
        /\ Cleanup(e) \/ UNCHANGED <<active, listed, data>>
    BY <1>5 DEF HandleData, Incoming, sendVars
  <2>2. NoAnswer
    <3>1. Head(chan[e]) # RequestMsg(TRUE)
      BY <2>1 DEF RequestMsg
    <3> QED BY <1>w, <2>1, <3>1 DEF NoAnswer, End
  <2>3. /\ \A i \in Chunk : (Marked(i)' => Marked(i)) /\ (Kept(i) => Kept(i)')
        /\ ~active'[Sender] => ~active[Sender] \/ ~listed'[Sender]
    <3>1. CASE Cleanup(e)
      BY <2>1, <3>1, CleanupQuiet
    <3>2. CASE UNCHANGED <<active, listed, data>>
      BY <2>1, <3>2 DEF Marked, Kept
    <3> QED BY <2>1, <3>1, <3>2
  <2>4. AckQuiet
    BY <2>1, <2>2, <2>3 DEF AckQuiet
  <2> QED BY <2>4, AckQuietKeeps
<1> QED BY <1>1, <1>2, <1>3, <1>4, <1>5 DEF Handle

LEMMA ContinueAcked ==
    ASSUME TypeOK, AckState, NEW e \in End, Continue(e)
    PROVE  AckState'
<1>1. /\ UNCHANGED <<chunkState, task, dialog, chan>>
      /\ \/ UNCHANGED <<active, listed, data>>
         \/ \E f \in End : Cleanup(f)
  BY DEF Continue, FileChunkAcked, FileChunkAckFails, RejectSent, RejectFails,
         CancelSent, CancelFails, xferVars, sendVars, recvVars, End
<1>2. /\ \A i \in Chunk : (Marked(i)' => Marked(i)) /\ (Kept(i) => Kept(i)')
      /\ ~active'[Sender] => ~active[Sender] \/ ~listed'[Sender]
  <2>1. CASE UNCHANGED <<active, listed, data>>
    BY <1>1, <2>1 DEF Marked, Kept
  <2>2. ASSUME NEW f \in End, Cleanup(f)
        PROVE  /\ \A i \in Chunk : (Marked(i)' => Marked(i)) /\ (Kept(i) => Kept(i)')
               /\ ~active'[Sender] => ~active[Sender] \/ ~listed'[Sender]
    BY <1>1, <2>2, CleanupQuiet
  <2> QED BY <1>1, <2>1, <2>2
<1>3. AckQuiet
  BY <1>1, <1>2 DEF AckQuiet, NoAnswer
<1> QED BY <1>3, AckQuietKeeps

LEMMA UserAcked ==
    ASSUME TypeOK, up, AckState, NEW e \in End, User(e)
    PROVE  AckState'
<1>w. /\ \A f \in End : chan[f] \in Seq(Message)
      /\ Sender \in End /\ Receiver \in End /\ Sender # Receiver
      /\ active \in [End -> BOOLEAN] /\ listed \in [End -> BOOLEAN]
  BY Wire, MessagesTyped DEF TypeOK
<1>n. ASSUME NEW f \in End, NEW m \in Message, m.type # "file_ack",
             Post(f, m) \/ PostIfUp(f, m)
      PROVE  NoAnswer
  <2>1. Post(f, m) \/ UNCHANGED chan
    BY <1>n DEF PostIfUp
  <2>2. CASE Post(Sender, m)
    BY <1>n, <2>2, Wire DEF NoAnswer
  <2>3. CASE Post(Receiver, m) \/ UNCHANGED chan
    BY <2>3, Wire DEF NoAnswer
  <2> QED BY <2>1, <2>2, <2>3 DEF End
<1>d. ASSUME NEW a \in Action, PostIfUp(Other(e), DataMsg(a)) PROVE NoAnswer
  <2>1. DataMsg(a) \in Message /\ DataMsg(a).type # "file_ack" /\ Other(e) \in End
    BY MessagesTyped, EndsDiffer DEF DataMsg
  <2> QED BY <1>d, <1>n, <2>1
<1>c. ASSUME UNCHANGED chunkState,
             UNCHANGED <<active, listed, data>> \/ \E f \in End : Cleanup(f)
      PROVE  /\ \A i \in Chunk : (Marked(i)' => Marked(i)) /\ (Kept(i) => Kept(i)')
             /\ ~active'[Sender] => ~active[Sender] \/ ~listed'[Sender]
  <2>1. CASE UNCHANGED <<active, listed, data>>
    BY <1>c, <2>1 DEF Marked, Kept
  <2>2. ASSUME NEW f \in End, Cleanup(f)
        PROVE  /\ \A i \in Chunk : (Marked(i)' => Marked(i)) /\ (Kept(i) => Kept(i)')
               /\ ~active'[Sender] => ~active[Sender] \/ ~listed'[Sender]
    BY <1>c, <2>2, CleanupQuiet
  <2> QED BY <1>c, <2>1, <2>2
<1>1. CASE SendFile
  <2>1. NoAnswer
    BY <1>1, <1>n, <1>w, MessagesTyped DEF SendFile, MetaMsg
  <2>2. active' = [active EXCEPT ![Sender] = TRUE]
        /\ UNCHANGED <<listed, chunkState, data, task, dialog>>
    BY <1>1 DEF SendFile, sendVars, recvVars
  <2>3. AckQuiet
    BY <1>w, <2>1, <2>2 DEF AckQuiet, Marked, Kept
  <2> QED BY <2>3, AckQuietKeeps
<1>2. CASE AcceptTransfer /\ UNCHANGED <<listed, data, chan>>
  <2>1. dialog' # "none" /\ UNCHANGED <<active, chunkState, task>>
    BY <1>2 DEF AcceptTransfer, xferVars, sendVars
  <2>2. AckQuiet
    BY <1>2, <2>1 DEF AckQuiet, NoAnswer, Marked, Kept
  <2> QED BY <2>2, AckQuietKeeps
<1>3. CASE AcceptTransfer /\ ~UNCHANGED <<listed, data, chan>>
  <2> DEFINE m == RequestMsg(TRUE)
  <2>1. /\ dialog' = "accepted" /\ Post(Sender, m)
        /\ listed' = [listed EXCEPT ![Receiver] = TRUE]
        /\ UNCHANGED <<active, chunkState>>
    BY <1>3 DEF AcceptTransfer, xferVars, sendVars
  <2>2. m \in Message /\ chan'[Sender] = Append(chan[Sender], m)
    BY <2>1, MessagesTyped, Wire
  <2>3. \A i \in Chunk : Marked(i)' => Marked(i)
    BY <1>w, <2>1 DEF Marked
  <2>4. RestartDue'
    <3> DEFINE q == chan[Sender]
               r == Append(q, m)
    <3>1. Len(q) + 1 \in DOMAIN r /\ r[Len(q) + 1] = m
      <4> HIDE DEF m
      <4> QED BY <1>w, <2>2, AppendIs
    <3> QED BY <2>2, <3>1 DEF RestartDue
  <2>5. ASSUME NEW i \in Chunk PROVE AckTrue(i)'
    <3> DEFINE q == chan[Sender]
               r == Append(q, m)
               a == AckMsg(i, TRUE)
    <3>1. m # a
      BY DEF RequestMsg, AckMsg
    <3>2. ASSUME NEW k \in DOMAIN r, r[k] = a
          PROVE  \E j \in DOMAIN r : j > k /\ r[j] = m
      <4> HIDE DEF m, a
      <4>1. k \in DOMAIN q
        BY <1>w, <2>2, <3>1, <3>2, AppendIs
      <4>2. /\ Len(q) + 1 > k /\ Len(q) + 1 \in DOMAIN r
            /\ r[Len(q) + 1] = m
        BY <1>w, <2>2, <4>1, AppendIs
      <4> QED BY <4>2
    <3> QED BY <2>2, <3>2 DEF AckTrue
  <2>6. ~active'[Sender] => \A i \in Chunk : ~Marked(i)'
    BY <2>1, <2>3 DEF AckState
  <2> QED BY <2>1, <2>4, <2>5, <2>6 DEF AckState
<1>4. CASE RejectTransfer
  <2>1. NoAnswer
    <3>1. RequestMsg(FALSE) \in Message /\ RequestMsg(FALSE).type # "file_ack"
      BY MessagesTyped DEF RequestMsg
    <3>2. PostIfUp(Sender, RequestMsg(FALSE)) \/ UNCHANGED chan
      BY <1>4 DEF RejectTransfer
    <3> QED BY <1>n, <1>w, <3>1, <3>2 DEF NoAnswer
  <2>2. /\ dialog' # "none" /\ UNCHANGED <<chunkState, task>>
        /\ UNCHANGED <<active, listed, data>>
    BY <1>4 DEF RejectTransfer, sendVars
  <2>3. AckQuiet
    BY <2>1, <2>2, <1>c DEF AckQuiet
  <2> QED BY <2>3, AckQuietKeeps
<1>5. CASE PauseTransfer(e)
  <2>1. NoAnswer /\ UNCHANGED <<active, listed, data, chunkState, task, dialog>>
    BY <1>5, <1>d DEF PauseTransfer, Action, sendVars, recvVars
  <2>2. AckQuiet
    BY <2>1, <1>c DEF AckQuiet
  <2> QED BY <2>2, AckQuietKeeps
<1>6. CASE ResumeTransfer(e)
  <2>1. NoAnswer /\ UNCHANGED <<active, listed, data, chunkState, dialog>>
    BY <1>6, <1>d DEF ResumeTransfer, Action, sendVars, recvVars
  <2>2. task'[0] = task[0]
    <3>1. ops[e] + 1 # 0 /\ 0 \in Slot /\ task \in [Slot -> Coroutine]
      BY BoundsAssumption DEF TypeOK, Slot, End
    <3> QED BY <1>6, <3>1 DEF ResumeTransfer
  <2>3. AckQuiet
    BY <2>1, <2>2, <1>c DEF AckQuiet
  <2> QED BY <2>3, AckQuietKeeps
<1>7. CASE CancelTransfer(e)
  <2>1. /\ NoAnswer /\ UNCHANGED <<chunkState, task, dialog>>
        /\ UNCHANGED <<active, listed, data>>
    BY <1>7, <1>d DEF CancelTransfer, Action, sendVars
  <2>2. AckQuiet
    BY <2>1, <1>c DEF AckQuiet
  <2> QED BY <2>2, AckQuietKeeps
<1> QED BY <1>1, <1>2, <1>3, <1>4, <1>5, <1>6, <1>7 DEF User

LEMMA NextAcked ==
    ASSUME ~ReadMayFail
    PROVE  TypeOK /\ ReceiverInv /\ AckInv /\ [Next]_vars => AckInv'
<1> SUFFICES ASSUME TypeOK, ReceiverInv, AckInv, [Next]_vars PROVE AckInv'
  OBVIOUS
<1>1. epoch' > 0 /\ (Unbroken' => Unbroken /\ ~ConnectionLost /\ ~Reconnect)
  BY CalmEnds DEF AckInv
<1>2. ASSUME Unbroken' PROVE AckState'
  <2>1. AckState /\ up /\ ~ConnectionLost /\ ~Reconnect
    BY <1>1, <1>2 DEF AckInv, Unbroken
  <2>2. CASE UNCHANGED vars
    <3>1. AckQuiet
      BY <2>2
      DEF vars, xferVars, sendVars, recvVars, AckQuiet, NoAnswer, Marked, Kept
    <3> QED BY <2>1, <3>1, AckQuietKeeps
  <2> QED BY <2>1, <2>2, TaskStepAcked, HandleAcked, ContinueAcked, UserAcked
          DEF Next
<1> QED BY <1>1, <1>2 DEF AckInv

LEMMA InitAcked == Init => AckInv
BY DEF Init, AckInv, AckState, Marked, AckTrue, None, End

(* While the connection holds and the file can be read, a chunk the sender   *)
(* calls acked is in the receiver's map, or the receiver has left, or the    *)
(* sender is about to start over: what an acceptance empties is sent again   *)
(* (transfer_controller.py:144-191, 200-213; chunk_manager.py:117-127).      *)
(* Both conditions are needed: a yes lost with the connection, or a file     *)
(* unreadable when the yes arrives, leaves the old list marked.              *)
THEOREM AckedStaysStored ==
    ASSUME ~ReadMayFail
    PROVE  Spec => [](Unbroken => AckedIsStored)
<1>1. AckInv => (Unbroken => AckedIsStored)
  BY DEF AckInv, AckState, Marked, Kept, AckedIsStored
<1>2. TypeOK /\ ReceiverInv /\ AckInv /\ [Next]_vars => AckInv'
  BY NextAcked
<1> QED BY <1>1, <1>2, InitAcked, TypeCorrect, ReceiverSafe, PTL DEF Spec

=============================================================================
