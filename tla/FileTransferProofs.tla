------------------------- MODULE FileTransferProofs -------------------------
(***************************************************************************)
(* What FileTransfer guarantees for every number of chunks and all bounds: *)
(* type correctness, then what the receiving user is promised.             *)
(***************************************************************************)
EXTENDS FileTransfer, TLAPS

-----------------------------------------------------------------------------
(* Messages.                                                               *)

LEMMA MessageFields ==
    ASSUME NEW m \in Message
    PROVE  /\ m.type = "file_chunk" => m.index \in Chunk /\ m.good \in BOOLEAN
           /\ m.type = "file_ack" => m.index \in Chunk /\ m.ok \in BOOLEAN
           /\ m.type = "file_request" => m.accepted \in BOOLEAN
           /\ m.type = "data" => m.action \in Action
BY DEF Message, MetaMsg, ChunkMsg, AckMsg, RequestMsg, DataMsg

LEMMA MessagesTyped ==
    /\ MetaMsg \in Message
    /\ \A i \in Chunk, b \in BOOLEAN : ChunkMsg(i, b) \in Message
    /\ \A i \in Chunk, b \in BOOLEAN : AckMsg(i, b) \in Message
    /\ \A b \in BOOLEAN : RequestMsg(b) \in Message
    /\ \A a \in Action : DataMsg(a) \in Message
BY DEF Message

LEMMA EndsDiffer == \A e \in End : Other(e) \in End /\ Other(e) # e
BY DEF End, Other, Sender, Receiver

LEMMA HeadTyped ==
    ASSUME chan \in [End -> Seq(Message)], NEW e \in End, chan[e] # <<>>
    PROVE  Head(chan[e]) \in Message
OBVIOUS

(* Every way a queue is changed keeps it a queue of messages.              *)
LEMMA ChanTyped ==
    ASSUME chan \in [End -> Seq(Message)], NEW e \in End, NEW m \in Message
    PROVE  /\ Post(e, m) => chan' \in [End -> Seq(Message)]
           /\ chan[e] # <<>> /\ Reply(e, m) => chan' \in [End -> Seq(Message)]
           /\ PostIfUp(e, m) => chan' \in [End -> Seq(Message)]
           /\ chan[e] # <<>> /\ Consume(e) => chan' \in [End -> Seq(Message)]
<1>1. \A f \in End : chan[f] \in Seq(Message) /\ Append(chan[f], m) \in Seq(Message)
  OBVIOUS
<1>2. chan[e] # <<>> => Tail(chan[e]) \in Seq(Message)
  BY <1>1
<1>3. Post(e, m) => chan' \in [End -> Seq(Message)]
  BY <1>1 DEF Post
<1>4. chan[e] # <<>> /\ Reply(e, m) => chan' \in [End -> Seq(Message)]
  <2> SUFFICES ASSUME chan[e] # <<>>, Reply(e, m)
               PROVE  chan' \in [End -> Seq(Message)]
    OBVIOUS
  <2> DEFINE o == Other(e)
  <2>1. o \in End /\ o # e
    BY EndsDiffer
  <2>2. chan' = [chan EXCEPT ![e] = Tail(@),
                             ![o] = IF up THEN Append(@, m) ELSE @]
    BY DEF Reply
  <2> HIDE DEF o
  <2>3. CASE up
    <3>1. chan' = [f \in End |-> IF f = o THEN Append(chan[f], m)
                                 ELSE IF f = e THEN Tail(chan[f]) ELSE chan[f]]
      BY <2>1, <2>2, <2>3
    <3> QED BY <1>1, <1>2, <3>1
  <2>4. CASE ~up
    <3>1. chan' = [f \in End |-> IF f = e THEN Tail(chan[f]) ELSE chan[f]]
      BY <2>1, <2>2, <2>4
    <3> QED BY <1>1, <1>2, <3>1
  <2> QED BY <2>3, <2>4
<1>5. PostIfUp(e, m) => chan' \in [End -> Seq(Message)]
  BY <1>3 DEF PostIfUp
<1>6. chan[e] # <<>> /\ Consume(e) => chan' \in [End -> Seq(Message)]
  BY <1>2 DEF Consume
<1> QED BY <1>3, <1>4, <1>5, <1>6

(* What the coroutines' records become stays a record of a coroutine.      *)
LEMMA PCTyped ==
    ASSUME task \in [Slot -> Coroutine], NEW t \in Slot, NEW p \in TaskPC
    PROVE  [task EXCEPT ![t].pc = p] \in [Slot -> Coroutine]
<1>1. task[t] \in Coroutine
  OBVIOUS
<1>2. [task[t] EXCEPT !.pc = p] \in Coroutine
  BY <1>1 DEF Coroutine
<1> QED BY <1>2

LEMMA ConnTyped ==
    ASSUME task \in [Slot -> Coroutine], NEW t \in Slot, NEW p \in TaskPC,
           NEW c \in Nat
    PROVE  [task EXCEPT ![t] = [@ EXCEPT !.pc = p, !.conn = c]]
             \in [Slot -> Coroutine]
<1>1. task[t] \in Coroutine
  OBVIOUS
<1>2. [task[t] EXCEPT !.pc = p, !.conn = c] \in Coroutine
  BY <1>1 DEF Coroutine
<1> QED BY <1>2

LEMMA DrainTyped ==
    ASSUME task \in [Slot -> Coroutine], NEW t \in Slot, NEW p \in TaskPC,
           NEW i \in Nat, NEW g \in Nat
    PROVE  [task EXCEPT ![t] = [@ EXCEPT !.pc = p, !.index = i, !.gen = g]]
             \in [Slot -> Coroutine]
<1>1. task[t] \in Coroutine
  OBVIOUS
<1>2. [task[t] EXCEPT !.pc = p, !.index = i, !.gen = g] \in Coroutine
  BY <1>1 DEF Coroutine
<1> QED BY <1>2

-----------------------------------------------------------------------------
(* Type correctness.                                                       *)

LEMMA InitTyped == Init => TypeOK
<1> SUFFICES ASSUME Init PROVE TypeOK
  OBVIOUS
<1>1. NewTask \in Coroutine
  BY DEF NewTask, Coroutine, TaskPC, NoConn
<1>2. task \in [Slot -> Coroutine]
  BY <1>1 DEF Init
<1>3. chan \in [End -> Seq(Message)]
  BY DEF Init
<1>4. damage \in 0 .. MaxDamage
  BY BoundsAssumption DEF Init
<1>5. /\ state \in [End -> TransferState] /\ db \in [End -> TransferState]
      /\ chunkState \in [Chunk -> ItemState] /\ retry \in [Chunk -> Nat]
  BY DEF Init, TransferState, ItemState
<1> QED BY <1>2, <1>3, <1>4, <1>5 DEF Init, TypeOK

LEMMA TaskStepTyped ==
    ASSUME TypeOK, NEW t \in Slot, TaskStep(t)
    PROVE  TypeOK'
<1> USE NumChunksAssumption, BoundsAssumption, EndsDiffer
    DEF TypeOK, TransferState, ItemState
<1>p. /\ "done" \in TaskPC /\ "drain" \in TaskPC
     /\ "loop" \in TaskPC /\ "start" \in TaskPC
  BY DEF TaskPC
<1>e. Sender \in End /\ Receiver \in End
  BY DEF End
<1>f. Fail(t) => /\ state' \in [End -> TransferState]
                 /\ db' \in [End -> TransferState]
                 /\ history' \in [End -> BOOLEAN]
                 /\ task' \in [Slot -> Coroutine]
  <2>1. TaskDone(t) => task' \in [Slot -> Coroutine]
    BY <1>p, PCTyped DEF TaskDone
  <2>2. SetState(Sender, "failed") => /\ state' \in [End -> TransferState]
                                      /\ db' \in [End -> TransferState]
    BY <1>e DEF SetState
  <2> QED BY <2>1, <2>2 DEF Fail
<1>g. Finish(t) => /\ state' \in [End -> TransferState]
                   /\ db' \in [End -> TransferState]
                   /\ history' \in [End -> BOOLEAN]
                   /\ task' \in [Slot -> Coroutine]
  <2>1. TaskDone(t) => task' \in [Slot -> Coroutine]
    BY <1>p, PCTyped DEF TaskDone
  <2>2. SetState(Sender, "completed") => /\ state' \in [End -> TransferState]
                                         /\ db' \in [End -> TransferState]
    BY <1>e DEF SetState
  <2>3. [history EXCEPT ![Sender] = TRUE] \in [End -> BOOLEAN]
    BY <1>e
  <2> QED BY <2>1, <2>2, <2>3 DEF Finish, AddToHistory
<1>h. ASSUME NEW i \in Chunk, NEW g \in Nat, NEW s \in TransferState,
             NEW sent, NEW lost, Transmit(t, i, g, s, sent, lost)
      PROVE  /\ state' \in [End -> TransferState]
             /\ db' \in [End -> TransferState]
             /\ history' \in [End -> BOOLEAN]
             /\ task' \in [Slot -> Coroutine]
             /\ chan' \in [End -> Seq(Message)]
             /\ damage' \in 0 .. MaxDamage
  <2>1. CASE Fail(t) /\ UNCHANGED <<chan, damage>>
    BY <2>1, <1>f
  <2>2. CASE ~(Fail(t) /\ UNCHANGED <<chan, damage>>)
    <3>1. i \in Nat
      BY DEF Chunk
    <3>2. PICK good \in BOOLEAN :
            /\ good \/ (damage < MaxDamage /\ (MayMix \/ Calm))
            /\ damage' = IF good THEN damage ELSE damage + 1
            /\ Post(Receiver, ChunkMsg(i, good))
      BY <1>h, <2>2 DEF Transmit
    <3>3. chan' \in [End -> Seq(Message)]
      BY <3>2, <1>e, ChanTyped, MessagesTyped
    <3>4. damage' \in 0 .. MaxDamage
      BY <3>2
    <3>5. /\ task' = [task EXCEPT ![t] =
                        [@ EXCEPT !.pc = "drain", !.index = i, !.gen = g]]
          /\ state' = [state EXCEPT ![Sender] = s]
          /\ UNCHANGED <<db, history>>
      BY <1>h, <2>2 DEF Transmit
    <3>6. task' \in [Slot -> Coroutine]
      BY <3>1, <3>5, <1>p, DrainTyped
    <3>7. /\ state' \in [End -> TransferState]
          /\ db' \in [End -> TransferState] /\ history' \in [End -> BOOLEAN]
      BY <3>5, <1>e
    <3> QED BY <3>3, <3>4, <3>6, <3>7
  <2> QED BY <2>1, <2>2
<1>1. CASE StartSendFileChunks(t)
  <2>1. CASE Fail(t) /\ UNCHANGED <<listed, sendVars, chan, damage>>
    BY <1>1, <2>1, <1>f
    DEF StartSendFileChunks, sendVars, sentVars, recvVars, diskVars, waitVars,
        linkVars
  <2>2. CASE ~(Fail(t) /\ UNCHANGED <<listed, sendVars, chan, damage>>)
    <3>1. /\ gen' = gen + 1
          /\ listed' = [listed EXCEPT ![Sender] = TRUE]
          /\ retry' = [i \in Chunk |-> 0]
          /\ UNCHANGED <<active, recvVars, waitVars, linkVars, ops>>
      BY <1>1, <2>2 DEF StartSendFileChunks
    <3>2. gen' \in Nat /\ listed' \in [End -> BOOLEAN] /\ retry' \in [Chunk -> Nat]
      BY <3>1, <1>e
    <3>3. CASE NumChunks = 0
      BY <1>1, <2>2, <3>1, <3>2, <3>3, <1>g
      DEF StartSendFileChunks, NewList, recvVars, diskVars, waitVars, linkVars
    <3>4. CASE NumChunks # 0
      <4>1. 0 \in Chunk
        BY <3>4 DEF Chunk
      <4>2. /\ chunkState' = [NewList EXCEPT ![0] = "sent"]
            /\ Transmit(t, 0, gen + 1, "in_progress", {}, {})
        BY <1>1, <2>2, <3>4 DEF StartSendFileChunks
      <4>3. chunkState' \in [Chunk -> ItemState]
        BY <4>2 DEF NewList
      <4>4. posted' \in SUBSET Chunk /\ dropped' \in SUBSET Chunk
        BY <4>1, <4>2 DEF Transmit
      <4> QED BY <3>1, <3>2, <4>1, <4>2, <4>3, <4>4, <1>h
          DEF recvVars, diskVars, waitVars, linkVars
    <3> QED BY <3>3, <3>4
  <2> QED BY <2>1, <2>2
<1>2. CASE SendNextChunk(t)
  <2>1. CASE Finish(t) /\ UNCHANGED <<chunkState, retry, sentVars, chan, damage>>
    BY <1>2, <2>1, <1>g
    DEF SendNextChunk, sentVars, recvVars, diskVars, waitVars, linkVars
  <2>2. CASE ~(Finish(t) /\ UNCHANGED <<chunkState, retry, sentVars, chan, damage>>)
    <3>1. PICK i \in Chunk :
            /\ chunkState' = [chunkState EXCEPT ![i] = "sent"]
            /\ retry' = [retry EXCEPT ![i] =
                           IF chunkState[i] = "failed" THEN @ + 1 ELSE @]
            /\ Transmit(t, i, gen, state[Sender], posted, dropped)
      BY <1>2, <2>2 DEF SendNextChunk
    <3>2. chunkState' \in [Chunk -> ItemState] /\ retry' \in [Chunk -> Nat]
      BY <3>1
    <3>3. state[Sender] \in TransferState
      BY <1>e
    <3>4. UNCHANGED <<active, listed, gen, recvVars, waitVars, linkVars, ops>>
      BY <1>2 DEF SendNextChunk
    <3>5. /\ state' \in [End -> TransferState]
          /\ db' \in [End -> TransferState]
          /\ history' \in [End -> BOOLEAN]
          /\ task' \in [Slot -> Coroutine]
          /\ chan' \in [End -> Seq(Message)]
          /\ damage' \in 0 .. MaxDamage
      <4>1. gen \in Nat
        OBVIOUS
      <4>2. Transmit(t, i, gen, state[Sender], posted, dropped)
        BY <3>1
      <4> QED BY <4>1, <4>2, <3>3, <1>h
    <3>6. posted' \in SUBSET Chunk /\ dropped' \in SUBSET Chunk
      BY <3>1 DEF Transmit
    <3> QED BY <3>2, <3>4, <3>5, <3>6 DEF recvVars, diskVars, waitVars, linkVars
  <2> QED BY <2>1, <2>2
<1>3. CASE StopSending(t)
  BY <1>3, <1>p, PCTyped
  DEF StopSending, TaskDone, xferVars, sendVars, sentVars, recvVars, diskVars,
      waitVars, linkVars
<1>4. CASE ChunkSent(t)
  <2>1. task' \in [Slot -> Coroutine]
    BY <1>4, <1>p, PCTyped DEF ChunkSent
  <2>2. chunkState' \in [Chunk -> ItemState]
    BY <1>4 DEF ChunkSent
  <2>3. db' \in [End -> TransferState]
    BY <1>4, <1>e DEF ChunkSent
  <2> QED BY <1>4, <2>1, <2>2, <2>3
          DEF ChunkSent, sentVars, recvVars, diskVars, waitVars, linkVars
<1>5. CASE DrainFails(t)
  BY <1>5, <1>f
  DEF DrainFails, sendVars, sentVars, recvVars, diskVars, waitVars, linkVars
<1>6. CASE ResumeSent(t)
  BY <1>6, <1>p, PCTyped
  DEF ResumeSent, xferVars, sendVars, sentVars, recvVars, diskVars, waitVars,
      linkVars
<1>7. CASE ResumeFails(t)
  BY <1>7, <1>p, PCTyped
  DEF ResumeFails, TaskDone, xferVars, sendVars, sentVars, recvVars, diskVars,
      waitVars, linkVars
<1> QED BY <1>1, <1>2, <1>3, <1>4, <1>5, <1>6, <1>7 DEF TaskStep


LEMMA HandleTyped ==
    ASSUME TypeOK, NEW e \in End, Handle(e)
    PROVE  TypeOK'
<1> USE DEF TypeOK
<1>e. Sender \in End /\ Receiver \in End
  BY DEF End
<1>s. {"pending", "in_progress", "paused", "cancelled"} \subseteq TransferState
  BY DEF TransferState
<1>r. ASSUME NEW f \in End, NEW s \in TransferState, SetState(f, s)
      PROVE  state' \in [End -> TransferState] /\ db' \in [End -> TransferState]
  BY <1>r DEF SetState
<1>1. CASE HandleFileMeta
  <2>1. chan' \in [End -> Seq(Message)]
    BY <1>1, <1>e, ChanTyped, MessagesTyped DEF HandleFileMeta, Incoming
  <2>2. state' \in [End -> TransferState] /\ db' \in [End -> TransferState]
    BY <1>1, <1>e, <1>s, <1>r DEF HandleFileMeta
  <2>3. active' \in [End -> BOOLEAN]
    BY <1>1, <1>e DEF HandleFileMeta
  <2> QED BY <1>1, <2>1, <2>2, <2>3
      DEF HandleFileMeta, sendVars, sentVars, waitVars, linkVars, diskVars
<1>2. CASE HandleFileChunk
  <2> DEFINE m == Head(chan[Receiver])
  <2>1. chan[Receiver] # <<>> /\ m \in Message /\ m.type = "file_chunk"
    BY <1>2, <1>e, HeadTyped DEF HandleFileChunk, Incoming
  <2>2. m.index \in Chunk
    BY <2>1, MessageFields
  <2>3. AckMsg(m.index, TRUE) \in Message /\ AckMsg(m.index, FALSE) \in Message
    BY <2>2, MessagesTyped
  <2>4. chan' \in [End -> Seq(Message)]
    BY <1>2, <1>e, <2>1, <2>3, ChanTyped DEF HandleFileChunk
  <2>5. /\ data' \in SUBSET Chunk /\ acked' \in SUBSET Chunk /\ busy' \in BOOLEAN
        /\ db' \in [End -> TransferState]
    BY <1>2, <1>e, <1>s, <2>2 DEF HandleFileChunk
  <2> QED BY <1>2, <2>4, <2>5
          DEF HandleFileChunk, sendVars, sentVars, linkVars, diskVars
<1>3. CASE HandleFileAck
  <2> DEFINE m == Head(chan[Sender])
  <2>1. chan[Sender] # <<>> /\ m \in Message /\ m.type = "file_ack"
    BY <1>3, <1>e, HeadTyped DEF HandleFileAck, Incoming
  <2>2. m.index \in Chunk
    BY <2>1, MessageFields
  <2>3. chan' \in [End -> Seq(Message)]
    BY <1>3, <1>e, <2>1, ChanTyped, MessagesTyped DEF HandleFileAck
  <2>4. chunkState' \in [Chunk -> ItemState] /\ retry' \in [Chunk -> Nat]
    <3> DEFINE i == m.index
    <3>1. /\ [chunkState EXCEPT ![i] = IF m.ok THEN "acked" ELSE "failed"]
               \in [Chunk -> ItemState]
          /\ [retry EXCEPT ![i] = IF m.ok THEN @ ELSE @ + 1] \in [Chunk -> Nat]
      <4> HIDE DEF m
      <4> QED BY <2>2 DEF ItemState
    <3> QED BY <1>3, <3>1 DEF HandleFileAck
  <2> QED BY <1>3, <2>3, <2>4
      DEF HandleFileAck, xferVars, sentVars, recvVars, diskVars, waitVars, linkVars
<1>4. CASE HandleFileRequest
  <2>1. chan' \in [End -> Seq(Message)]
    BY <1>4, <1>e, ChanTyped, MessagesTyped DEF HandleFileRequest, Incoming
  <2>2. state' \in [End -> TransferState] /\ db' \in [End -> TransferState]
    BY <1>4, <1>e, <1>s, <1>r DEF HandleFileRequest
  <2>3. task' \in [Slot -> Coroutine]
    <3>1. 0 \in Slot
      BY <1>e, BoundsAssumption DEF Slot
    <3>2. CreateTask \in [Slot -> Coroutine]
      BY <3>1, ConnTyped DEF CreateTask, TaskPC
    <3> QED BY <1>4, <3>2 DEF HandleFileRequest
  <2> QED BY <1>4, <2>1, <2>2, <2>3
     
      DEF HandleFileRequest, sendVars, sentVars, recvVars, diskVars, waitVars,
          linkVars
<1>5. CASE HandleData(e)
  <2> DEFINE m == Head(chan[e])
  <2>1. chan[e] # <<>> /\ m \in Message /\ m.type = "data"
    BY <1>5, HeadTyped DEF HandleData, Incoming
  <2>2. m.action \in Action
    BY <2>1, MessageFields
  <2>3. chan' \in [End -> Seq(Message)]
    BY <1>5, <2>1, ChanTyped, MessagesTyped DEF HandleData
  <2>4. state' \in [End -> TransferState] /\ db' \in [End -> TransferState]
    <3> DEFINE s == CASE m.action = "pause"  -> "paused"
                      [] m.action = "resume" -> "in_progress"
                      [] m.action = "cancel" -> "cancelled"
    <3>1. s \in TransferState
      BY <2>2, <1>s DEF Action
    <3>2. SetState(e, s) \/ UNCHANGED <<state, db>>
      BY <1>5 DEF HandleData
    <3> HIDE DEF s
    <3> QED BY <3>1, <3>2, <1>r
  <2>5. /\ active' \in [End -> BOOLEAN] /\ listed' \in [End -> BOOLEAN]
        /\ acked' \in SUBSET Chunk /\ data' \in SUBSET Chunk
    BY <1>5 DEF HandleData, Cleanup
  <2> QED BY <1>5, <2>3, <2>4, <2>5
          DEF HandleData, sendVars, sentVars, waitVars, linkVars, diskVars
<1> QED BY <1>1, <1>2, <1>3, <1>4, <1>5 DEF Handle

LEMMA ContinueTyped ==
    ASSUME TypeOK, NEW e \in End, Continue(e)
    PROVE  TypeOK'
<1> USE DEF TypeOK
<1>e. Sender \in End /\ Receiver \in End
  BY DEF End
<1>s. {"completed", "cancelled"} \subseteq TransferState
  BY DEF TransferState
<1>r. ASSUME NEW f \in End, NEW s \in TransferState, SetState(f, s)
      PROVE  state' \in [End -> TransferState] /\ db' \in [End -> TransferState]
  BY <1>r DEF SetState
<1>c. ASSUME NEW f \in End, Cleanup(f)
      PROVE  /\ active' \in [End -> BOOLEAN] /\ listed' \in [End -> BOOLEAN]
             /\ acked' \in SUBSET Chunk /\ data' \in SUBSET Chunk
  BY <1>c DEF Cleanup
<1>1. CASE FileChunkAcked
  <2>1. file' \in {"absent", "partial", "whole"} /\ refused' \in Nat
    BY <1>1 DEF FileChunkAcked, AssembleFile, AssembleFails, Refuse, diskVars
  <2>2. history' \in [End -> BOOLEAN]
    BY <1>1, <1>e DEF FileChunkAcked, AddToHistory
  <2>3. state' \in [End -> TransferState] /\ db' \in [End -> TransferState]
    BY <1>1, <1>e, <1>s, <1>r DEF FileChunkAcked
  <2> QED BY <1>1, <2>1, <2>2, <2>3
          DEF FileChunkAcked, AddToHistory, sendVars, sentVars, linkVars
<1>2. CASE FileChunkAckFails
  BY <1>2
  DEF FileChunkAckFails, xferVars, sendVars, sentVars, recvVars, diskVars,
      linkVars
<1>3. CASE RejectSent
  <2>1. state' \in [End -> TransferState] /\ db' \in [End -> TransferState]
    BY <1>3, <1>e, <1>s, <1>r DEF RejectSent
  <2> QED BY <1>3, <1>e, <1>c, <2>1
          DEF RejectSent, sendVars, sentVars, linkVars, diskVars
<1>4. CASE RejectFails
  BY <1>4
  DEF RejectFails, xferVars, sendVars, sentVars, recvVars, diskVars, linkVars
<1>5. CASE CancelSent(e)
  <2>1. leaving' \in [End -> BOOLEAN]
    BY <1>5 DEF CancelSent
  <2> QED BY <1>5, <1>c, <2>1 DEF CancelSent, sendVars, sentVars, linkVars, diskVars
<1>6. CASE CancelFails(e)
  <2>1. leaving' \in [End -> BOOLEAN]
    BY <1>6 DEF CancelFails
  <2> QED BY <1>6, <2>1
          DEF CancelFails, xferVars, sendVars, sentVars, recvVars, diskVars,
              linkVars
<1> QED BY <1>1, <1>2, <1>3, <1>4, <1>5, <1>6 DEF Continue

LEMMA UserTyped ==
    ASSUME TypeOK, NEW e \in End, User(e)
    PROVE  TypeOK'
<1> USE DEF TypeOK
<1>e. Sender \in End /\ Receiver \in End
  BY DEF End
<1>s. {"pending", "in_progress", "paused", "cancelled"} \subseteq TransferState
  BY DEF TransferState
<1>r. ASSUME NEW f \in End, NEW s \in TransferState, SetState(f, s)
      PROVE  state' \in [End -> TransferState] /\ db' \in [End -> TransferState]
  BY <1>r DEF SetState
<1>c. ASSUME NEW f \in End, Cleanup(f)
      PROVE  /\ active' \in [End -> BOOLEAN] /\ listed' \in [End -> BOOLEAN]
             /\ acked' \in SUBSET Chunk /\ data' \in SUBSET Chunk
  BY <1>c DEF Cleanup
<1>p. ASSUME NEW f \in End, NEW a \in Action, PostIfUp(Other(f), DataMsg(a))
      PROVE  chan' \in [End -> Seq(Message)]
  BY <1>p, EndsDiffer, MessagesTyped, ChanTyped
<1>o. UserCall(e) => ops' \in [End -> Nat]
  BY DEF UserCall
<1>1. CASE SendFile
  <2>1. chan' \in [End -> Seq(Message)]
    BY <1>1, <1>e, ChanTyped, MessagesTyped DEF SendFile
  <2>2. state' \in [End -> TransferState] /\ db' \in [End -> TransferState]
    BY <1>1, <1>e, <1>s, <1>r DEF SendFile
  <2>3. active' \in [End -> BOOLEAN]
    BY <1>1, <1>e DEF SendFile
  <2> QED BY <1>1, <2>1, <2>2, <2>3
          DEF SendFile, sendVars, sentVars, recvVars, diskVars, waitVars,
              linkVars
<1>2. CASE AcceptTransfer
  <2>1. chan' \in [End -> Seq(Message)]
    BY <1>2, <1>e, ChanTyped, MessagesTyped DEF AcceptTransfer
  <2>2. /\ listed' \in [End -> BOOLEAN] /\ acked' \in SUBSET Chunk
        /\ data' \in SUBSET Chunk
        /\ dialog' \in {"none", "open", "accepted", "rejected", "lost"}
    BY <1>2, <1>e DEF AcceptTransfer
  <2>3. refused' \in Nat
    <3>1. refused' = refused \/ Refuse
      BY <1>2 DEF AcceptTransfer
    <3> QED BY <3>1 DEF Refuse
  <2> QED BY <1>2, <2>1, <2>2, <2>3
          DEF AcceptTransfer, xferVars, sendVars, sentVars, waitVars, linkVars
<1>3. CASE RejectTransfer
  <2>1. chan' \in [End -> Seq(Message)]
    BY <1>3, <1>e, ChanTyped, MessagesTyped DEF RejectTransfer
  <2>2. state' \in [End -> TransferState] /\ db' \in [End -> TransferState]
    BY <1>3, <1>e, <1>s, <1>r DEF RejectTransfer
  <2>3. /\ active' \in [End -> BOOLEAN] /\ listed' \in [End -> BOOLEAN]
        /\ acked' \in SUBSET Chunk /\ data' \in SUBSET Chunk
    BY <1>3, <1>e, <1>c DEF RejectTransfer
  <2>4. rejecting' \in BOOLEAN
    BY <1>3 DEF RejectTransfer
  <2> QED BY <1>3, <2>1, <2>2, <2>3, <2>4
          DEF RejectTransfer, sendVars, sentVars, linkVars, diskVars
<1>4. CASE PauseTransfer(e)
  <2>1. chan' \in [End -> Seq(Message)]
    BY <1>4, <1>p DEF PauseTransfer, Action
  <2>2. state' \in [End -> TransferState] /\ db' \in [End -> TransferState]
    BY <1>4, <1>s, <1>r DEF PauseTransfer
  <2> QED BY <1>4, <1>o, <2>1, <2>2
      DEF PauseTransfer, sendVars, sentVars, recvVars, diskVars, waitVars, linkVars
<1>5. CASE ResumeTransfer(e)
  <2>1. chan' \in [End -> Seq(Message)]
    BY <1>5, <1>p DEF ResumeTransfer, Action
  <2>2. state' \in [End -> TransferState] /\ db' \in [End -> TransferState]
    BY <1>5, <1>s, <1>r DEF ResumeTransfer
  <2>3. task' \in [Slot -> Coroutine]
    <3>1. e = Sender => ops[e] + 1 \in Slot
      <4>1. ops[e] \in Nat /\ MaxOps[e] \in Nat /\ ops[e] < MaxOps[e]
        BY <1>5, BoundsAssumption DEF ResumeTransfer, UserCall
      <4> QED BY <4>1 DEF Slot
    <3>2. CurrentConn \in Nat /\ {"resuming", "start"} \subseteq TaskPC
      BY DEF CurrentConn, NoConn, TaskPC
    <3> DEFINE p == IF up THEN "resuming" ELSE "start"
    <3>3. p \in TaskPC
      BY <3>2
    <3>4. task' = IF e = Sender
                    THEN [task EXCEPT ![ops[e] + 1] =
                            [@ EXCEPT !.pc = p, !.conn = CurrentConn]]
                    ELSE task
      BY <1>5 DEF ResumeTransfer
    <3> HIDE DEF p
    <3> QED BY <3>1, <3>2, <3>3, <3>4, ConnTyped
  <2> QED BY <1>5, <1>o, <2>1, <2>2, <2>3
      DEF ResumeTransfer, sendVars, sentVars, recvVars, diskVars, waitVars, linkVars
<1>6. CASE CancelTransfer(e)
  <2>1. chan' \in [End -> Seq(Message)]
    BY <1>6, <1>p DEF CancelTransfer, Action
  <2>2. state' \in [End -> TransferState] /\ db' \in [End -> TransferState]
    BY <1>6, <1>s, <1>r DEF CancelTransfer
  <2>3. /\ active' \in [End -> BOOLEAN] /\ listed' \in [End -> BOOLEAN]
        /\ acked' \in SUBSET Chunk /\ data' \in SUBSET Chunk
        /\ leaving' \in [End -> BOOLEAN]
    BY <1>6, <1>c DEF CancelTransfer
  <2> QED BY <1>6, <1>o, <2>1, <2>2, <2>3
          DEF CancelTransfer, sendVars, sentVars, linkVars, diskVars
<1> QED BY <1>1, <1>2, <1>3, <1>4, <1>5, <1>6 DEF User

(* The first messages of a queue are a queue of messages.                   *)
LEMMA SubSeqOfSeq ==
    ASSUME NEW S, NEW s \in Seq(S), NEW n \in 0 .. Len(s)
    PROVE  SubSeq(s, 1, n) \in Seq(S)
<1>1. \A k \in 1 .. n : s[k] \in S
  OBVIOUS
<1> QED BY <1>1

(* What a lost connection leaves of the messages under way.                *)
CutTo(i, j) == chan' = [chan EXCEPT ![Sender] = SubSeq(@, 1, i),
                                    ![Receiver] = SubSeq(@, 1, j)]

(* Cut queues are queues of messages, the receiver's a prefix of itself.    *)
LEMMA CutTyped ==
    ASSUME chan \in [End -> Seq(Message)],
           NEW i \in 0 .. Len(chan[Sender]), NEW j \in 0 .. Len(chan[Receiver]),
           CutTo(i, j)
    PROVE  /\ chan' \in [End -> Seq(Message)]
           /\ chan'[Receiver] = SubSeq(chan[Receiver], 1, j)
<1>1. /\ Sender \in End /\ Receiver \in End /\ Sender # Receiver
      /\ \A e \in End : e = Sender \/ e = Receiver
  BY DEF End, Sender, Receiver
<1>2. chan[Sender] \in Seq(Message) /\ chan[Receiver] \in Seq(Message)
  BY <1>1
<1>3. SubSeq(chan[Sender], 1, i) \in Seq(Message)
  BY <1>2, SubSeqOfSeq
<1>4. SubSeq(chan[Receiver], 1, j) \in Seq(Message)
  BY <1>2, SubSeqOfSeq
<1>5. chan' = [f \in End |-> IF f = Receiver THEN SubSeq(chan[Receiver], 1, j)
                             ELSE SubSeq(chan[Sender], 1, i)]
  BY <1>1 DEF CutTo
<1> QED BY <1>1, <1>3, <1>4, <1>5

LEMMA NextTyped == TypeOK /\ [Next]_vars => TypeOK'
<1> SUFFICES ASSUME TypeOK, [Next]_vars PROVE TypeOK'
  OBVIOUS
<1>1. CASE ConnectionLost
  <2>1. PICK i \in 0 .. Len(chan[Sender]), j \in 0 .. Len(chan[Receiver]) :
          CutTo(i, j)
    BY <1>1 DEF ConnectionLost, CutTo
  <2>2. chan' \in [End -> Seq(Message)]
    BY <2>1, CutTyped DEF TypeOK
  <2> QED BY <1>1, <2>2
          DEF ConnectionLost, TypeOK, xferVars, sendVars, sentVars, recvVars,
              diskVars, waitVars
<1>2. CASE Reconnect
  BY <1>2
  DEF Reconnect, TypeOK, xferVars, sendVars, sentVars, recvVars, diskVars,
      waitVars
<1>3. CASE UNCHANGED vars
  BY <1>3
  DEF vars, TypeOK, xferVars, sendVars, sentVars, recvVars, diskVars, waitVars,
      linkVars
<1> QED BY <1>1, <1>2, <1>3, TaskStepTyped, HandleTyped, ContinueTyped, UserTyped
    DEF Next

(* Every variable keeps its type, whatever the number of chunks and bounds. *)
THEOREM TypeCorrect == Spec => []TypeOK
<1>1. Init => TypeOK
  BY InitTyped
<1>2. TypeOK /\ [Next]_vars => TypeOK'
  BY NextTyped
<1> QED BY <1>1, <1>2, PTL DEF Spec

-----------------------------------------------------------------------------
(* The receiver's invariant.                                               *)

(* What a step may do to the messages on their way to the receiver, the    *)
(* offer itself apart.                                                     *)
NoNewOffer ==
    \/ chan'[Receiver] = chan[Receiver]
    \/ \E k \in 0 .. Len(chan[Receiver]) :
         chan'[Receiver] = SubSeq(chan[Receiver], 1, k)
    \/ chan[Receiver] # <<>> /\ chan'[Receiver] = Tail(chan[Receiver])
    \/ \E m \in Message : /\ m.type # "file_meta"
                          /\ chan'[Receiver] = Append(chan[Receiver], m)

LEMMA NoNewOfferKeeps ==
    ASSUME TypeOK, NoNewOffer, \A j, k \in Offers : j = k
    PROVE  /\ \A j, k \in Offers' : j = k
           /\ Offers = {} => Offers' = {}
<1> DEFINE q == chan[Receiver]
           r == chan'[Receiver]
<1>1. q \in Seq(Message)
  BY DEF TypeOK, End
<1>2. /\ Offers = {k \in DOMAIN q : q[k].type = "file_meta"}
      /\ Offers' = {k \in DOMAIN r : r[k].type = "file_meta"}
  BY DEF Offers
<1>3. /\ \A j, k \in {i \in DOMAIN q : q[i].type = "file_meta"} : j = k
      /\ r = q \/ (\E k \in 0 .. Len(q) : r = SubSeq(q, 1, k))
           \/ (q # <<>> /\ r = Tail(q))
           \/ \E m \in Message : m.type # "file_meta" /\ r = Append(q, m)
  BY <1>2 DEF NoNewOffer
<1> HIDE DEF q, r
<1>4. CASE r = q
  BY <1>2, <1>3, <1>4
<1>5. CASE \E k \in 0 .. Len(q) : r = SubSeq(q, 1, k)
  <2>1. \A k \in DOMAIN r : k \in DOMAIN q /\ r[k] = q[k]
    BY <1>1, <1>5
  <2> QED BY <1>2, <1>3, <2>1
<1>6. CASE q # <<>> /\ r = Tail(q)
  <2>1. \A k \in DOMAIN r : k \in Int /\ k + 1 \in DOMAIN q /\ r[k] = q[k + 1]
    BY <1>1, <1>6
  <2>2. \A k \in Offers' : k \in Int /\ k + 1 \in Offers
    BY <1>2, <2>1
  <2>3. ASSUME NEW j \in Offers', NEW k \in Offers' PROVE j = k
    <3>1. j \in Int /\ k \in Int /\ j + 1 = k + 1
      BY <2>2
    <3> QED BY <3>1
  <2> QED BY <2>2, <2>3
<1>7. CASE \E m \in Message : m.type # "file_meta" /\ r = Append(q, m)
  <2>1. PICK m \in Message : m.type # "file_meta" /\ r = Append(q, m)
    BY <1>7
  <2>2. \A k \in DOMAIN r : \/ k \in DOMAIN q /\ r[k] = q[k]
                            \/ r[k] = m
    BY <1>1, <2>1
  <2>3. Offers' \subseteq Offers
    BY <1>2, <2>1, <2>2
  <2> QED BY <2>3
<1> QED BY <1>3, <1>4, <1>5, <1>6, <1>7

(* The step that takes the offer leaves none behind.                       *)
LEMMA OfferTaken ==
    ASSUME TypeOK, \A j, k \in Offers : j = k, HandleFileMeta
    PROVE  Offers' = {}
<1> DEFINE q == chan[Receiver]
           r == chan'[Receiver]
<1>1. q \in Seq(Message) /\ q # <<>> /\ r = Tail(q) /\ Head(q).type = "file_meta"
  BY DEF TypeOK, End, HandleFileMeta, Consume, Incoming
<1>2. /\ Offers = {k \in DOMAIN q : q[k].type = "file_meta"}
      /\ Offers' = {k \in DOMAIN r : r[k].type = "file_meta"}
  BY DEF Offers
<1> HIDE DEF q, r
<1>3. 1 \in Offers
  BY <1>1, <1>2
<1>4. \A k \in DOMAIN r : k \in Nat \ {0} /\ k + 1 \in DOMAIN q /\ r[k] = q[k + 1]
  BY <1>1
<1>5. ASSUME NEW k \in Offers' PROVE FALSE
  <2>1. k \in Nat \ {0} /\ k + 1 \in Offers
    BY <1>2, <1>4
  <2>2. k + 1 = 1
    BY <1>3, <2>1
  <2> QED BY <2>1, <2>2
<1> QED BY <1>5

(* A step that leaves the receiver's side alone, or only pauses, resumes   *)
(* or fails it.                                                            *)
ReceiverQuiet ==
    /\ UNCHANGED recvVars
    /\ active'[Receiver] = active[Receiver]
    /\ listed'[Receiver] = listed[Receiver]
    /\ history'[Receiver] = history[Receiver]
    /\ state'[Receiver] = "completed" => state[Receiver] = "completed"
    /\ db'[Receiver] = "completed" => db[Receiver] = "completed"
    /\ state'[Sender] = "none" => state[Sender] = "none"
    /\ NoNewOffer

LEMMA QuietKeeps ==
    ASSUME TypeOK, ReceiverInv, ReceiverQuiet
    PROVE  ReceiverInv'
<1>1. /\ \A j, k \in Offers' : j = k
      /\ Offers = {} => Offers' = {}
  BY NoNewOfferKeeps DEF ReceiverInv, AskedOnce, ReceiverQuiet
<1>2. AskedOnce'
  BY <1>1 DEF ReceiverInv, AskedOnce, ReceiverQuiet, recvVars, diskVars
<1> QED BY <1>2
   
    DEF ReceiverInv, ReceiverQuiet, recvVars, diskVars, DeliveredWhole,
        Consent, LeftIsForgotten

(* A step in which the receiver leaves the transfer.                       *)
ReceiverLeaves ==
    /\ Cleanup(Receiver)
    /\ UNCHANGED <<diskVars, dialog>>
    /\ history'[Receiver] = history[Receiver]
    /\ state'[Receiver] = "completed" => state[Receiver] = "completed"
    /\ db'[Receiver] = "completed" => db[Receiver] = "completed"
    /\ state'[Sender] = "none" => state[Sender] = "none"
    /\ NoNewOffer

LEMMA LeavingKeeps ==
    ASSUME TypeOK, ReceiverInv, ReceiverLeaves
    PROVE  ReceiverInv'
<1>1. /\ \A j, k \in Offers' : j = k
      /\ Offers = {} => Offers' = {}
  BY NoNewOfferKeeps DEF ReceiverInv, AskedOnce, ReceiverLeaves
<1>2. ~active'[Receiver] /\ ~listed'[Receiver] /\ acked' = {} /\ data' = {}
  BY DEF ReceiverLeaves, Cleanup, TypeOK, End
<1>3. AskedOnce'
  BY <1>1, <1>2 DEF ReceiverInv, AskedOnce, ReceiverLeaves
<1> QED BY <1>2, <1>3
   
    DEF ReceiverInv, ReceiverLeaves, diskVars, DeliveredWhole, Consent,
        LeftIsForgotten

-----------------------------------------------------------------------------
(* Which steps are quiet, which leave, and what the others do.             *)

LEMMA PostQuiet ==
    ASSUME TypeOK, NEW m \in Message
    PROVE  /\ Post(Receiver, m) /\ m.type # "file_meta" => NoNewOffer
           /\ Post(Sender, m) => NoNewOffer
           /\ PostIfUp(Sender, m) => NoNewOffer
           /\ PostIfUp(Receiver, m) /\ m.type # "file_meta" => NoNewOffer
           /\ Consume(Sender) => NoNewOffer
           /\ chan[Receiver] # <<>> /\ Consume(Receiver) => NoNewOffer
           /\ chan[Receiver] # <<>> /\ Reply(Receiver, m) => NoNewOffer
           /\ UNCHANGED chan => NoNewOffer
<1>1. chan \in [End -> Seq(Message)] /\ Sender \in End /\ Receiver \in End
  BY DEF TypeOK, End
<1>2. Sender # Receiver /\ Other(Receiver) = Sender
  BY DEF Sender, Receiver, Other
<1>3. Post(Receiver, m) /\ m.type # "file_meta" => NoNewOffer
  BY <1>1 DEF Post, NoNewOffer
<1>4. Post(Sender, m) => NoNewOffer
  BY <1>1, <1>2 DEF Post, NoNewOffer
<1>5. Consume(Sender) => NoNewOffer
  BY <1>1, <1>2 DEF Consume, NoNewOffer
<1>6. chan[Receiver] # <<>> /\ Consume(Receiver) => NoNewOffer
  BY <1>1 DEF Consume, NoNewOffer
<1>7. ASSUME chan[Receiver] # <<>>, Reply(Receiver, m) PROVE NoNewOffer
  <2>1. chan' = [chan EXCEPT ![Receiver] = Tail(@),
                             ![Sender] = IF up THEN Append(@, m) ELSE @]
    BY <1>2, <1>7 DEF Reply
  <2>2. chan'[Receiver] = Tail(chan[Receiver])
    BY <1>1, <1>2, <2>1
  <2> QED BY <1>7, <2>2 DEF NoNewOffer
<1>8. UNCHANGED chan => NoNewOffer
  BY DEF NoNewOffer
<1> QED BY <1>3, <1>4, <1>5, <1>6, <1>7, <1>8 DEF PostIfUp

LEMMA SenderState ==
    ASSUME TypeOK, NEW s
    PROVE  /\ SetState(Sender, s)
                => /\ state'[Sender] = s
                   /\ state'[Receiver] = state[Receiver]
                   /\ db'[Receiver] = db[Receiver]
           /\ SetState(Receiver, s)
                => /\ state'[Receiver] = s
                   /\ db'[Receiver] = s
                   /\ state'[Sender] = state[Sender]
BY DEF TypeOK, SetState, End, Sender, Receiver

LEMMA TaskStepQuiet ==
    ASSUME TypeOK, NEW t \in Slot, TaskStep(t)
    PROVE  ReceiverQuiet
<1>e. /\ Sender \in End /\ Receiver \in End /\ Sender # Receiver
      /\ state \in [End -> TransferState] /\ history \in [End -> BOOLEAN]
      /\ listed \in [End -> BOOLEAN] /\ db \in [End -> TransferState]
  BY DEF TypeOK, End, Sender, Receiver
<1> DEFINE Apart == /\ state'[Receiver] = state[Receiver]
                    /\ db'[Receiver] = db[Receiver]
                    /\ history'[Receiver] = history[Receiver]
                    /\ state'[Sender] = "none" => state[Sender] = "none"
<1>f. Fail(t) => Apart
  BY SenderState DEF Fail
<1>g. Finish(t) => Apart
  <2>1. [history EXCEPT ![Sender] = TRUE][Receiver] = history[Receiver]
    BY <1>e
  <2>2. SetState(Sender, "completed")
          => /\ state'[Sender] = "completed"
             /\ state'[Receiver] = state[Receiver]
             /\ db'[Receiver] = db[Receiver]
    BY SenderState
  <2> QED BY <2>1, <2>2 DEF Finish, AddToHistory
<1>h. ASSUME NEW i \in Chunk, NEW g, NEW s, NEW sent, NEW lost,
             s = "none" => state[Sender] = "none",
             Transmit(t, i, g, s, sent, lost)
      PROVE  Apart /\ NoNewOffer
  <2>1. CASE Fail(t) /\ UNCHANGED chan
    BY <2>1, <1>f, PostQuiet, MessagesTyped
  <2>2. CASE ~(Fail(t) /\ UNCHANGED chan)
    <3>1. PICK good \in BOOLEAN : Post(Receiver, ChunkMsg(i, good))
      BY <1>h, <2>2 DEF Transmit
    <3>2. ChunkMsg(i, good).type # "file_meta"
      BY DEF ChunkMsg
    <3>3. NoNewOffer
      BY <3>1, <3>2, PostQuiet, MessagesTyped
    <3>4. state' = [state EXCEPT ![Sender] = s] /\ UNCHANGED <<db, history>>
      BY <1>h, <2>2 DEF Transmit
    <3>5. state'[Sender] = s /\ state'[Receiver] = state[Receiver]
      BY <3>4, <1>e
    <3> QED BY <1>h, <3>3, <3>4, <3>5
  <2> QED BY <2>1, <2>2
<1>c. UNCHANGED chan => NoNewOffer
  BY PostQuiet, MessagesTyped
<1>1. CASE StartSendFileChunks(t)
  <2>1. UNCHANGED <<active, recvVars>>
    BY <1>1 DEF StartSendFileChunks
  <2>2. listed'[Receiver] = listed[Receiver]
    BY <1>1, <1>e DEF StartSendFileChunks
  <2>3. Apart /\ NoNewOffer
    <3>1. CASE Fail(t) /\ UNCHANGED chan
      BY <3>1, <1>f, <1>c
    <3>2. CASE Finish(t) /\ UNCHANGED chan
      BY <3>2, <1>g, <1>c
    <3>3. CASE NumChunks # 0 /\ Transmit(t, 0, gen + 1, "in_progress", {}, {})
      <4>1. 0 \in Chunk
        BY <3>3, NumChunksAssumption DEF Chunk
      <4> QED BY <3>3, <4>1, <1>h
    <3> QED BY <1>1, <3>1, <3>2, <3>3 DEF StartSendFileChunks
  <2> QED BY <2>1, <2>2, <2>3 DEF ReceiverQuiet
<1>2. CASE SendNextChunk(t)
  <2>1. UNCHANGED <<active, listed, recvVars>>
    BY <1>2 DEF SendNextChunk
  <2>2. Apart /\ NoNewOffer
    <3>1. CASE Finish(t) /\ UNCHANGED chan
      BY <3>1, <1>g, <1>c
    <3>2. CASE \E i \in Chunk : Transmit(t, i, gen, state[Sender], posted, dropped)
      BY <3>2, <1>h
    <3> QED BY <1>2, <3>1, <3>2 DEF SendNextChunk
  <2> QED BY <2>1, <2>2 DEF ReceiverQuiet
<1>3. CASE StopSending(t)
  BY <1>3, <1>c DEF StopSending, ReceiverQuiet, xferVars
<1>4. CASE ChunkSent(t)
  <2>1. db'[Receiver] = db[Receiver]
    BY <1>4, <1>e DEF ChunkSent
  <2> QED BY <1>4, <1>c, <2>1 DEF ChunkSent, ReceiverQuiet
<1>5. CASE DrainFails(t)
  BY <1>5, <1>c, <1>f DEF DrainFails, ReceiverQuiet
<1>6. CASE ResumeSent(t)
  BY <1>6, <1>c DEF ResumeSent, ReceiverQuiet, xferVars
<1>7. CASE ResumeFails(t)
  BY <1>7, <1>c DEF ResumeFails, ReceiverQuiet, xferVars
<1> QED BY <1>1, <1>2, <1>3, <1>4, <1>5, <1>6, <1>7 DEF TaskStep

LEMMA SendFileKeeps ==
    ASSUME TypeOK, ReceiverInv, SendFile
    PROVE  ReceiverInv'
<1>e. /\ Sender \in End /\ Receiver \in End /\ Sender # Receiver
      /\ active \in [End -> BOOLEAN] /\ listed \in [End -> BOOLEAN]
      /\ db \in [End -> TransferState] /\ chan \in [End -> Seq(Message)]
  BY DEF TypeOK, End, Sender, Receiver
<1>1. Offers = {} /\ dialog = "none" /\ ~active[Receiver]
  BY DEF SendFile, ReceiverInv, AskedOnce
<1>2. chan'[Receiver] = Append(chan[Receiver], MetaMsg)
  BY <1>e DEF SendFile, Post
<1>3. \A k \in Offers' : k = Len(chan[Receiver]) + 1
  <2> DEFINE q == chan[Receiver]
  <2>1. q \in Seq(Message) /\ \A k \in DOMAIN q : q[k].type # "file_meta"
    BY <1>e, <1>1 DEF Offers
  <2>2. Offers' = {k \in DOMAIN Append(q, MetaMsg) :
                       Append(q, MetaMsg)[k].type = "file_meta"}
    BY <1>2 DEF Offers
  <2> HIDE DEF q
  <2>3. \A k \in 1 .. Len(q) + 1 :
          k = Len(q) + 1 \/ (k \in 1 .. Len(q) /\ Append(q, MetaMsg)[k] = q[k])
    BY <2>1
  <2>4. DOMAIN Append(q, MetaMsg) = 1 .. Len(q) + 1 /\ DOMAIN q = 1 .. Len(q)
    BY <2>1
  <2>5. \A k \in Offers' : k = Len(q) + 1
    BY <2>1, <2>2, <2>3, <2>4
  <2> QED BY <2>5 DEF q
<1>4. /\ state'[Sender] = "pending" /\ state'[Receiver] = state[Receiver]
      /\ db'[Receiver] = db[Receiver]
  BY SenderState DEF SendFile
<1>5. active'[Receiver] = active[Receiver]
  BY <1>e DEF SendFile
<1> QED BY <1>1, <1>3, <1>4, <1>5
    DEF SendFile, recvVars, diskVars, ReceiverInv, DeliveredWhole, Consent,
        LeftIsForgotten, AskedOnce

LEMMA OfferAhead == TypeOK /\ HandleFileMeta => Offers # {}
<1> SUFFICES ASSUME TypeOK, HandleFileMeta PROVE Offers # {}
  OBVIOUS
<1>1. /\ chan[Receiver] \in Seq(Message) /\ chan[Receiver] # <<>>
      /\ Head(chan[Receiver]).type = "file_meta"
  BY DEF HandleFileMeta, Incoming, TypeOK, End
<1>2. 1 \in DOMAIN chan[Receiver] /\ chan[Receiver][1] = Head(chan[Receiver])
  BY <1>1
<1> QED BY <1>1, <1>2 DEF Offers

LEMMA HandleFileMetaKeeps ==
    ASSUME TypeOK, ReceiverInv, HandleFileMeta
    PROVE  ReceiverInv'
<1>e. /\ Sender \in End /\ Receiver \in End /\ Sender # Receiver
      /\ active \in [End -> BOOLEAN] /\ listed \in [End -> BOOLEAN]
      /\ db \in [End -> TransferState] /\ chan \in [End -> Seq(Message)]
  BY DEF TypeOK, End, Sender, Receiver
<1>1. Offers' = {}
  BY OfferTaken DEF ReceiverInv, AskedOnce
<1>2. dialog = "none" /\ ~active[Receiver] /\ state[Sender] # "none"
  BY OfferAhead DEF ReceiverInv, AskedOnce
<1>3. /\ state'[Receiver] = "pending" /\ db'[Receiver] = "pending"
      /\ state'[Sender] = state[Sender]
  BY SenderState DEF HandleFileMeta
<1>4. active'[Receiver]
  BY <1>e DEF HandleFileMeta
<1>5. ~listed[Receiver] /\ file = "absent"
  BY <1>2 DEF ReceiverInv, Consent, LeftIsForgotten
<1>6. ~history[Receiver]
  BY <1>5 DEF ReceiverInv, DeliveredWhole
<1> QED BY <1>1, <1>2, <1>3, <1>4, <1>5, <1>6
    DEF HandleFileMeta, ReceiverInv, DeliveredWhole, Consent, LeftIsForgotten,
        AskedOnce, diskVars

LEMMA AcceptTransferKeeps ==
    ASSUME TypeOK, ReceiverInv, AcceptTransfer
    PROVE  ReceiverInv'
<1>e. /\ Sender \in End /\ Receiver \in End /\ Sender # Receiver
      /\ active \in [End -> BOOLEAN] /\ listed \in [End -> BOOLEAN]
      /\ db \in [End -> TransferState] /\ chan \in [End -> Seq(Message)]
  BY DEF TypeOK, End, Sender, Receiver
<1>c. UNCHANGED chan => NoNewOffer
  BY PostQuiet, MessagesTyped
<1>1. NoNewOffer
  BY <1>c, PostQuiet, MessagesTyped DEF AcceptTransfer
<1>2. /\ \A j, k \in Offers' : j = k
      /\ Offers = {} => Offers' = {}
  BY <1>1, NoNewOfferKeeps DEF ReceiverInv, AskedOnce
<1>3. AskedOnce'
  BY <1>2 DEF AcceptTransfer, ReceiverInv, AskedOnce, xferVars
<1>4. file = "absent" /\ ~listed[Receiver]
  BY DEF AcceptTransfer, ReceiverInv, Consent
<1>5. CASE dialog' = "accepted"
  BY <1>3, <1>4, <1>5, <1>e
  DEF AcceptTransfer, xferVars, ReceiverInv, DeliveredWhole, Consent,
      LeftIsForgotten
<1>6. CASE dialog' # "accepted"
  BY <1>3, <1>4, <1>6
  DEF AcceptTransfer, xferVars, ReceiverInv, DeliveredWhole, Consent,
      LeftIsForgotten
<1> QED BY <1>5, <1>6

LEMMA RejectTransferKeeps ==
    ASSUME TypeOK, ReceiverInv, RejectTransfer
    PROVE  ReceiverInv'
<1>e. /\ Sender \in End /\ Receiver \in End /\ Sender # Receiver
      /\ active \in [End -> BOOLEAN] /\ listed \in [End -> BOOLEAN]
      /\ db \in [End -> TransferState] /\ chan \in [End -> Seq(Message)]
  BY DEF TypeOK, End, Sender, Receiver
<1>c. UNCHANGED chan => NoNewOffer
  BY PostQuiet, MessagesTyped
<1>1. NoNewOffer
  BY <1>c, PostQuiet, MessagesTyped DEF RejectTransfer
<1>2. /\ \A j, k \in Offers' : j = k
      /\ Offers = {} => Offers' = {}
  BY <1>1, NoNewOfferKeeps DEF ReceiverInv, AskedOnce
<1>3. file = "absent" /\ ~listed[Receiver]
  BY DEF RejectTransfer, ReceiverInv, Consent
<1>4. /\ state'[Receiver] = "completed" => state[Receiver] = "completed"
      /\ db'[Receiver] = "completed" => db[Receiver] = "completed"
      /\ state'[Sender] = state[Sender]
  BY SenderState DEF RejectTransfer
<1>5. CASE active[Receiver] /\ ~up
  <2>1. ~active'[Receiver] /\ ~listed'[Receiver] /\ acked' = {} /\ data' = {}
    BY <1>5, <1>e DEF RejectTransfer, Cleanup
  <2> QED BY <1>2, <1>3, <1>4, <2>1
      DEF RejectTransfer, ReceiverInv, DeliveredWhole, Consent,
          LeftIsForgotten, AskedOnce, diskVars
<1>6. CASE ~(active[Receiver] /\ ~up)
  BY <1>2, <1>3, <1>4, <1>6
  DEF RejectTransfer, ReceiverInv, DeliveredWhole, Consent,
      LeftIsForgotten, AskedOnce, diskVars
<1> QED BY <1>5, <1>6

LEMMA HandleFileChunkKeeps ==
    ASSUME TypeOK, ReceiverInv, HandleFileChunk
    PROVE  ReceiverInv'
<1>e. /\ Sender \in End /\ Receiver \in End /\ Sender # Receiver
      /\ active \in [End -> BOOLEAN] /\ listed \in [End -> BOOLEAN]
      /\ db \in [End -> TransferState] /\ chan \in [End -> Seq(Message)]
  BY DEF TypeOK, End, Sender, Receiver
<1> DEFINE m == Head(chan[Receiver])
<1>1. chan[Receiver] # <<>> /\ m \in Message /\ m.type = "file_chunk"
  BY <1>e, HeadTyped DEF HandleFileChunk, Incoming, TypeOK
<1>2. AckMsg(m.index, TRUE) \in Message /\ AckMsg(m.index, FALSE) \in Message
  BY <1>1, MessageFields, MessagesTyped
<1>3. NoNewOffer
  BY <1>1, <1>2, PostQuiet DEF HandleFileChunk
<1>4. /\ \A j, k \in Offers' : j = k
      /\ Offers = {} => Offers' = {}
  BY <1>3, NoNewOfferKeeps DEF ReceiverInv, AskedOnce
<1>5. AskedOnce'
  BY <1>4 DEF HandleFileChunk, ReceiverInv, AskedOnce
<1>6. db'[Receiver] = "completed" => db[Receiver] = "completed"
  BY <1>e DEF HandleFileChunk
<1>7. /\ acked' \subseteq data'
      /\ ~listed[Receiver] => acked' = {}
      /\ ~active[Receiver] => data' = {} /\ acked' = {}
  BY DEF HandleFileChunk, ReceiverInv, LeftIsForgotten, Known
<1> QED BY <1>5, <1>6, <1>7
   
    DEF HandleFileChunk, ReceiverInv, DeliveredWhole, Consent, LeftIsForgotten,
        diskVars

LEMMA FileChunkAckedKeeps ==
    ASSUME TypeOK, ReceiverInv, FileChunkAcked
    PROVE  ReceiverInv'
<1>c. UNCHANGED chan => NoNewOffer
  BY PostQuiet, MessagesTyped
<1>1. CASE ~AllAcked
  <2>1. ReceiverQuiet
    BY <1>1, <1>c
    DEF FileChunkAcked, AddToHistory, ReceiverQuiet, recvVars, diskVars
  <2> QED BY <2>1, QuietKeeps
<1>2. CASE AllAcked
  <2>1. Chunk \subseteq data /\ active[Receiver] /\ dialog = "accepted"
    BY <1>2 DEF AllAcked, ReceiverInv
  <2>2. /\ \/ file' = "whole" /\ SetState(Receiver, "completed")
           \/ /\ file' = file \/ (file' = "partial" /\ refused' > 0)
              /\ UNCHANGED <<state, db, history>>
        /\ refused > 0 => refused' > 0
    <3>1. CASE AssembleFile /\ SetState(Receiver, "completed")
      BY <3>1 DEF AssembleFile, TypeOK
    <3>2. CASE AssembleFails /\ UNCHANGED <<state, db, history>>
      BY <2>1, <3>2 DEF AssembleFails, Refuse, TypeOK
    <3> QED BY <1>2, <3>1, <3>2 DEF FileChunkAcked
  <2>3. state'[Sender] = state[Sender]
    BY <2>2, SenderState
  <2>4. Offers' = Offers
    BY DEF FileChunkAcked, Offers
  <2>5. AskedOnce'
    BY <2>3, <2>4 DEF FileChunkAcked, ReceiverInv, AskedOnce
  <2>6. Consent'
    BY <2>1 DEF FileChunkAcked, Consent
  <2>7. DeliveredWhole'
    <3>1. CASE file' = "whole"
      BY <3>1 DEF DeliveredWhole
    <3>2. CASE UNCHANGED <<file, state, db, history>>
      BY <2>2, <3>2 DEF ReceiverInv, DeliveredWhole, TypeOK
    <3>3. CASE file' = "partial" /\ refused' > 0
      BY <3>3 DEF DeliveredWhole
    <3> QED BY <2>2, <3>1, <3>2, <3>3
  <2>8. LeftIsForgotten'
    BY DEF FileChunkAcked, ReceiverInv, LeftIsForgotten
  <2> QED BY <2>5, <2>6, <2>7, <2>8 DEF FileChunkAcked, ReceiverInv
<1> QED BY <1>1, <1>2

-----------------------------------------------------------------------------
(* All other steps are quiet or leave.                                     *)

OfferStep ==
    \/ SendFile \/ HandleFileMeta \/ AcceptTransfer \/ RejectTransfer
    \/ HandleFileChunk \/ FileChunkAcked

LEMMA HandleShape ==
    ASSUME TypeOK, NEW e \in End, Handle(e)
    PROVE  ReceiverQuiet \/ ReceiverLeaves \/ OfferStep
<1>e. /\ Sender \in End /\ Receiver \in End /\ Sender # Receiver
      /\ active \in [End -> BOOLEAN] /\ listed \in [End -> BOOLEAN]
      /\ db \in [End -> TransferState]
  BY DEF TypeOK, End, Sender, Receiver
<1>3. CASE HandleFileAck
  <2>1. NoNewOffer
    BY <1>3, PostQuiet, MessagesTyped DEF HandleFileAck
  <2>2. ReceiverQuiet
    BY <1>3, <2>1 DEF HandleFileAck, ReceiverQuiet, xferVars
  <2> QED BY <2>2
<1>4. CASE HandleFileRequest
  <2>1. NoNewOffer
    BY <1>4, PostQuiet, MessagesTyped DEF HandleFileRequest
  <2>2. /\ state'[Receiver] = state[Receiver] /\ db'[Receiver] = db[Receiver]
        /\ state'[Sender] = "none" => state[Sender] = "none"
    BY <1>4, SenderState DEF HandleFileRequest
  <2>3. ReceiverQuiet
    BY <1>4, <2>1, <2>2 DEF HandleFileRequest, ReceiverQuiet
  <2> QED BY <2>3
<1>5. CASE HandleData(e)
  <2> DEFINE m == Head(chan[e])
             s == CASE m.action = "pause"  -> "paused"
                    [] m.action = "resume" -> "in_progress"
                    [] m.action = "cancel" -> "cancelled"
  <2>1. chan[e] # <<>> /\ m \in Message /\ m.type = "data"
    BY <1>5, HeadTyped DEF HandleData, Incoming, TypeOK
  <2>2. s # "none" /\ s # "completed"
    BY <2>1, MessageFields DEF Action
  <2>3. NoNewOffer
    BY <1>5, <2>1, PostQuiet DEF HandleData, End
  <2>4. SetState(e, s) \/ UNCHANGED <<state, db>>
    BY <1>5 DEF HandleData
  <2>5. /\ state'[Receiver] = "completed" => state[Receiver] = "completed"
        /\ db'[Receiver] = "completed" => db[Receiver] = "completed"
        /\ state'[Sender] = "none" => state[Sender] = "none"
    <3> HIDE DEF s
    <3> QED BY <2>2, <2>4, SenderState DEF End
  <2>6. CASE e = Receiver /\ Cleanup(Receiver)
    BY <1>5, <2>3, <2>5, <2>6 DEF HandleData, ReceiverLeaves
  <2>7. CASE e = Sender /\ Cleanup(Sender)
    <3>1. active'[Receiver] = active[Receiver] /\ listed'[Receiver] = listed[Receiver]
      BY <2>7, <1>e DEF Cleanup
    <3>2. UNCHANGED <<acked, data>>
      BY <2>7, <1>e DEF Cleanup
    <3> QED BY <1>5, <2>3, <2>5, <3>1, <3>2
        DEF HandleData, ReceiverQuiet, recvVars, diskVars
  <2>8. CASE UNCHANGED <<active, listed, acked, data>>
    BY <1>5, <2>3, <2>5, <2>8 DEF HandleData, ReceiverQuiet, recvVars, diskVars
  <2> QED BY <1>5, <2>6, <2>7, <2>8 DEF HandleData, End
<1> QED BY <1>3, <1>4, <1>5 DEF OfferStep, Handle

LEMMA ContinueShape ==
    ASSUME TypeOK, NEW e \in End, Continue(e)
    PROVE  ReceiverQuiet \/ ReceiverLeaves \/ OfferStep
<1>e. /\ Sender \in End /\ Receiver \in End /\ Sender # Receiver
      /\ active \in [End -> BOOLEAN] /\ listed \in [End -> BOOLEAN]
      /\ history \in [End -> BOOLEAN]
  BY DEF TypeOK, End, Sender, Receiver
<1>c. UNCHANGED chan => NoNewOffer
  BY PostQuiet, MessagesTyped
<1>2. CASE FileChunkAckFails \/ RejectFails \/ CancelFails(e)
  <2>1. ReceiverQuiet
    BY <1>2, <1>c
    DEF FileChunkAckFails, RejectFails, CancelFails, ReceiverQuiet, xferVars
  <2> QED BY <2>1
<1>3. CASE RejectSent
  <2>1. /\ state'[Receiver] = "cancelled" /\ db'[Receiver] = "cancelled"
        /\ state'[Sender] = state[Sender]
    BY <1>3, SenderState DEF RejectSent
  <2>2. ReceiverLeaves
    BY <1>3, <1>c, <2>1 DEF RejectSent, ReceiverLeaves
  <2> QED BY <2>2
<1>4. CASE e = Receiver /\ CancelSent(e)
  <2>1. ReceiverLeaves
    BY <1>4, <1>c DEF CancelSent, ReceiverLeaves
  <2> QED BY <2>1
<1>5. CASE e = Sender /\ CancelSent(e)
  <2>1. /\ active'[Receiver] = active[Receiver]
        /\ listed'[Receiver] = listed[Receiver]
        /\ UNCHANGED <<acked, data>>
    BY <1>5, <1>e DEF CancelSent, Cleanup
  <2>2. ReceiverQuiet
    BY <1>5, <1>c, <2>1 DEF CancelSent, ReceiverQuiet, recvVars, diskVars
  <2> QED BY <2>2
<1> QED BY <1>2, <1>3, <1>4, <1>5 DEF OfferStep, Continue, End

LEMMA UserShape ==
    ASSUME TypeOK, NEW e \in End, User(e)
    PROVE  ReceiverQuiet \/ ReceiverLeaves \/ OfferStep
<1>e. /\ Sender \in End /\ Receiver \in End /\ Sender # Receiver
      /\ active \in [End -> BOOLEAN] /\ listed \in [End -> BOOLEAN]
      /\ chan \in [End -> Seq(Message)]
  BY DEF TypeOK, End, Sender, Receiver
<1>c. UNCHANGED chan => NoNewOffer
  BY PostQuiet, MessagesTyped
<1>p. ASSUME NEW a \in Action, PostIfUp(Other(e), DataMsg(a))
      PROVE  NoNewOffer
  <2>1. DataMsg(a) \in Message /\ DataMsg(a).type # "file_meta"
    BY MessagesTyped DEF DataMsg
  <2>2. Other(e) = Sender \/ Other(e) = Receiver
    BY DEF Other
  <2> QED BY <1>p, <2>1, <2>2, PostQuiet
<1>s. ASSUME NEW s, s # "none", s # "completed", SetState(e, s)
      PROVE  /\ state'[Receiver] = "completed" => state[Receiver] = "completed"
             /\ db'[Receiver] = "completed" => db[Receiver] = "completed"
             /\ state'[Sender] = "none" => state[Sender] = "none"
  <2>1. CASE e = Sender
    BY <1>s, <2>1, SenderState
  <2>2. CASE e = Receiver
    BY <1>s, <2>2, SenderState
  <2> QED BY <2>1, <2>2 DEF End
<1>4. CASE PauseTransfer(e)
  <2>1. ReceiverQuiet
    BY <1>4, <1>p, <1>s DEF PauseTransfer, Action, ReceiverQuiet
  <2> QED BY <2>1
<1>5. CASE ResumeTransfer(e)
  <2>1. ReceiverQuiet
    BY <1>5, <1>p, <1>s DEF ResumeTransfer, Action, ReceiverQuiet
  <2> QED BY <2>1
<1>6. CASE CancelTransfer(e)
  <2>1. NoNewOffer
    BY <1>6, <1>p DEF CancelTransfer, Action
  <2>2. /\ state'[Receiver] = "completed" => state[Receiver] = "completed"
        /\ db'[Receiver] = "completed" => db[Receiver] = "completed"
        /\ state'[Sender] = "none" => state[Sender] = "none"
    BY <1>6, <1>s DEF CancelTransfer
  <2>3. CASE ~up /\ e = Receiver
    <3>1. ReceiverLeaves
      BY <1>6, <2>1, <2>2, <2>3 DEF CancelTransfer, ReceiverLeaves
    <3> QED BY <3>1
  <2>4. CASE up \/ e = Sender
    <3>1. /\ active'[Receiver] = active[Receiver]
          /\ listed'[Receiver] = listed[Receiver]
          /\ UNCHANGED <<acked, data>>
      BY <1>6, <2>4, <1>e DEF CancelTransfer, Cleanup
    <3>2. ReceiverQuiet
      BY <1>6, <2>1, <2>2, <3>1
      DEF CancelTransfer, ReceiverQuiet, recvVars, diskVars
    <3> QED BY <3>2
  <2> QED BY <2>3, <2>4 DEF End
<1> QED BY <1>4, <1>5, <1>6 DEF OfferStep, User

LEMMA NextShape ==
    ASSUME TypeOK, [Next]_vars
    PROVE  ReceiverQuiet \/ ReceiverLeaves \/ OfferStep
<1>1. CASE \E t \in Slot : TaskStep(t)
  BY <1>1, TaskStepQuiet
<1>2. CASE ConnectionLost
  <2>1. PICK i \in 0 .. Len(chan[Sender]), j \in 0 .. Len(chan[Receiver]) :
          CutTo(i, j)
    BY <1>2 DEF ConnectionLost, CutTo
  <2>2. NoNewOffer
    BY <2>1, CutTyped DEF TypeOK, NoNewOffer
  <2> QED BY <1>2, <2>2 DEF ConnectionLost, ReceiverQuiet, xferVars
<1>3. CASE Reconnect \/ UNCHANGED vars
  <2>1. UNCHANGED chan /\ UNCHANGED <<xferVars, listed, recvVars>>
    BY <1>3 DEF Reconnect, vars
  <2> QED BY <2>1 DEF ReceiverQuiet, xferVars, NoNewOffer
<1> QED BY <1>1, <1>2, <1>3, HandleShape, ContinueShape, UserShape DEF Next

LEMMA NextKeeps == TypeOK /\ ReceiverInv /\ [Next]_vars => ReceiverInv'
<1> SUFFICES ASSUME TypeOK, ReceiverInv, [Next]_vars PROVE ReceiverInv'
  OBVIOUS
<1>1. CASE ReceiverQuiet
  BY <1>1, QuietKeeps
<1>2. CASE ReceiverLeaves
  BY <1>2, LeavingKeeps
<1>3. CASE OfferStep
  BY <1>3, SendFileKeeps, HandleFileMetaKeeps, AcceptTransferKeeps,
     RejectTransferKeeps, HandleFileChunkKeeps, FileChunkAckedKeeps
  DEF OfferStep
<1> QED BY <1>1, <1>2, <1>3, NextShape

LEMMA InitReceiver == Init => ReceiverInv
BY DEF Init, ReceiverInv, DeliveredWhole, Consent, LeftIsForgotten, AskedOnce,
       Offers, End

(* The receiver's invariant holds of every behaviour, whatever the users    *)
(* call, however many chunks are damaged and connections lost: what its     *)
(* list counts is held, its list exists only after consent, it is asked     *)
(* once.                                                                    *)
THEOREM ReceiverSafe == Spec => []ReceiverInv
<1>1. Init => ReceiverInv
  BY InitReceiver
<1>2. TypeOK /\ ReceiverInv /\ [Next]_vars => ReceiverInv'
  BY NextKeeps
<1> QED BY <1>1, <1>2, TypeCorrect, PTL DEF Spec

(* A receiver that says completed has put the file together, and the file   *)
(* lacks a chunk only where its disk refused a write                        *)
(* (transfer_controller.py:176-191, chunk_manager.py:146-177).              *)
THEOREM DeliveryWhole == Spec => []DeliveredWhole
<1>1. ReceiverInv => DeliveredWhole
  BY DEF ReceiverInv
<1> QED BY <1>1, ReceiverSafe, PTL

(* No file without the receiving user's yes (transfer_controller.py:367-384). *)
THEOREM ConsentKept == Spec => []Consent
<1>1. ReceiverInv => Consent
  BY DEF ReceiverInv
<1> QED BY <1>1, ReceiverSafe, PTL

(* A receiver that has left holds nothing of the transfer                    *)
(* (transfer_controller.py:437-439, chunk_manager.py:188-193).               *)
THEOREM LeavingForgets == Spec => []LeftIsForgotten
<1>1. ReceiverInv => LeftIsForgotten
  BY DEF ReceiverInv
<1> QED BY <1>1, ReceiverSafe, PTL

-----------------------------------------------------------------------------
(* The detailed model implements the abstract one.                          *)

LEMMA InitPromised == Init => Promise!Init
BY DEF Init, Promise!Init, Consented, End

(* A step is one of Delivery's or leaves all it speaks of alone.            *)
LEMMA NextPromised ==
    TypeOK /\ ReceiverInv /\ [Next]_vars => [Promise!Next]_(Promise!vars)
<1> SUFFICES ASSUME TypeOK, ReceiverInv, [Next]_vars
             PROVE  [Promise!Next]_(Promise!vars)
  OBVIOUS
<1>e. /\ Receiver \in End /\ listed \in [End -> BOOLEAN] /\ active \in [End -> BOOLEAN]
      /\ acked \in SUBSET Chunk /\ history \in [End -> BOOLEAN]
  BY DEF TypeOK, End
<1> USE DEF Promise!vars
<1>1. CASE ReceiverQuiet
  BY <1>1 DEF ReceiverQuiet, recvVars, diskVars, Consented
<1>2. CASE ReceiverLeaves
  <2>1. /\ ~listed'[Receiver] /\ acked' = {} /\ UNCHANGED <<file, dialog>>
        /\ history'[Receiver] = history[Receiver]
    BY <1>2, <1>e DEF ReceiverLeaves, Cleanup, diskVars
  <2>2. CASE listed[Receiver]
    <3>1. Consented = "agreed" /\ Consented' = "left"
      BY <2>1, <2>2 DEF Consented, ReceiverInv
    <3> QED BY <2>1, <3>1 DEF Promise!Next, Promise!Leave
  <2>3. CASE ~listed[Receiver]
    BY <2>1, <2>3 DEF Consented, ReceiverInv
  <2> QED BY <2>2, <2>3
<1>3. CASE SendFile
  BY <1>3 DEF SendFile, recvVars, diskVars, Consented
<1>4. CASE HandleFileMeta
  <2>1. dialog # "accepted"
    BY <1>4, OfferAhead DEF ReceiverInv, AskedOnce
  <2> QED BY <1>4, <2>1 DEF HandleFileMeta, diskVars, Consented
<1>5. CASE AcceptTransfer
  <2>1. /\ dialog = "open" /\ ~listed[Receiver] /\ acked = {}
        /\ UNCHANGED <<file, history>>
    BY <1>5 DEF AcceptTransfer, ReceiverInv, xferVars
  <2>2. CASE dialog' = "accepted"
    <3>1. Consented = "asked" /\ Consented' = "agreed" /\ acked' = {}
      BY <1>5, <2>1, <2>2, <1>e DEF AcceptTransfer, Consented
    <3> QED BY <2>1, <3>1 DEF Promise!Next, Promise!Agree
  <2>3. CASE dialog' # "accepted"
    BY <1>5, <2>1, <2>3 DEF AcceptTransfer, Consented
  <2> QED BY <2>2, <2>3
<1>6. CASE RejectTransfer
  <2>1. dialog = "open" /\ ~listed[Receiver] /\ acked = {}
    BY <1>6 DEF RejectTransfer, ReceiverInv
  <2>2. /\ dialog' = "rejected" /\ ~listed'[Receiver] /\ acked' = {}
        /\ UNCHANGED <<file, history>>
    BY <1>6, <2>1, <1>e DEF RejectTransfer, Cleanup, diskVars
  <2> QED BY <2>1, <2>2 DEF Consented
<1>7. CASE HandleFileChunk
  <2> DEFINE m == Head(chan[Receiver])
  <2>1. m \in Message /\ m.type = "file_chunk"
    BY <1>7, HeadTyped, <1>e DEF HandleFileChunk, Incoming, TypeOK
  <2>2. m.index \in Chunk
    BY <2>1, MessageFields
  <2>3. UNCHANGED <<listed, dialog, file, history>>
    BY <1>7 DEF HandleFileChunk, diskVars
  <2>4. \/ UNCHANGED acked
        \/ listed[Receiver] /\ acked' = acked \cup {m.index}
    BY <1>7 DEF HandleFileChunk
  <2> QED BY <2>2, <2>3, <2>4 DEF Consented, Promise!Next, Promise!Store
<1>8. CASE FileChunkAcked
  <2>1. UNCHANGED <<listed, dialog, acked>>
    BY <1>8 DEF FileChunkAcked, AddToHistory
  <2>2. CASE AllAcked
    <3>0. NumChunks > 0 => 0 \in Chunk
      BY NumChunksAssumption DEF Chunk
    <3>1. listed[Receiver] /\ acked = Chunk /\ Chunk # {} /\ Chunk \subseteq data
      BY <2>2, <3>0 DEF AllAcked, ReceiverInv
    <3>2. CASE AssembleFile /\ AddToHistory(Receiver)
      <4>1. file' = "whole" /\ history'[Receiver] = TRUE
        BY <1>e, <3>2 DEF AssembleFile, AddToHistory
      <4> QED BY <2>1, <3>1, <4>1 DEF Consented, Promise!Next, Promise!Save
    <3>3. CASE AssembleFails /\ UNCHANGED history
      <4>1. file' = file \/ file' = "partial"
        BY <3>3 DEF AssembleFails
      <4> QED BY <2>1, <3>1, <3>3, <4>1
          DEF Consented, Promise!Next, Promise!Spoil
    <3> QED BY <1>8, <2>2, <3>2, <3>3 DEF FileChunkAcked
  <2>3. CASE ~AllAcked
    BY <1>8, <2>1, <2>3 DEF FileChunkAcked, diskVars, Consented
  <2> QED BY <2>2, <2>3
<1> QED BY <1>1, <1>2, <1>3, <1>4, <1>5, <1>6, <1>7, <1>8, NextShape DEF OfferStep

(* The transfer implements Delivery: nothing is counted before the user     *)
(* agrees, the file is written once every chunk has come after that and     *)
(* reported only when it was written whole, and nothing happens once the    *)
(* receiver has left.  A refusing disk may cut the file, also one reported  *)
(* before.                                                                  *)
THEOREM KeepsPromise == Spec => DeliveryPromise
<1>1. Init => Promise!Init
  BY InitPromised
<1>2. TypeOK /\ ReceiverInv /\ [Next]_vars => [Promise!Next]_(Promise!vars)
  BY NextPromised
<1> QED BY <1>1, <1>2, TypeCorrect, ReceiverSafe, PTL
    DEF Spec, DeliveryPromise, Promise!Spec

=============================================================================
