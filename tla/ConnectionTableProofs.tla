----------------------- MODULE ConnectionTableProofs -----------------------
(***************************************************************************)
(* Safety of ConnectionTable for any number of connections, calls and      *)
(* messages: types, and the inductive invariant of the table.              *)
(***************************************************************************)
EXTENDS ConnectionTable, TLAPS

-----------------------------------------------------------------------------
(* Ends, and what is written between them.                                 *)

LEMMA Ends ==
    ASSUME NEW n \in Node, NEW l \in Link
    PROVE  /\ Other(n) \in Node
           /\ <<n, l>> \in Half /\ <<Other(n), l>> \in Half
           /\ Obj(n, l) \in PeerObject /\ l \in PeerObject /\ 0 \in PeerObject
           /\ l \in 0 .. MaxLinks /\ l # Absent
  BY LinksAssumption DEF Other, Node, Half, Obj, PeerObject, Link, Absent

LEMMA Keys ==
    /\ Real \in Key /\ Alias \in Key /\ Absent \in 0 .. MaxLinks
    /\ \A l \in Link : TempId(l) \in Key
  BY LinksAssumption DEF Real, Alias, Absent, TempId, Key, Link

LEMMA PeerIdTyped ==
    ASSUME TypeOK, NEW n \in Node, NEW l \in Link
    PROVE  PeerId(n, l) \in Key
  <1>1. id \in [Node -> [PeerObject -> Key]] /\ Obj(n, l) \in PeerObject
    BY Ends DEF TypeOK
  <1>2. QED
    BY <1>1 DEF PeerId

LEMMA MsgTyped ==
    ASSUME NEW type \in MsgType, NEW n \in Node, NEW l \in Link
    PROVE  Msg(type, n, l) \in Message
  BY Ends DEF Msg, Message

LEMMA DeliverTyped ==
    ASSUME NEW box \in [Node -> [Link -> Seq(Message)]], NEW n \in Node, NEW l \in Link,
           NEW ms \in Seq(Message)
    PROVE  Deliver(box, n, l, ms) \in [Node -> [Link -> Seq(Message)]]
  <1>1. CASE Deliver(box, n, l, ms) = box
    BY <1>1
  <1>2. CASE Deliver(box, n, l, ms) = [box EXCEPT ![Other(n)][l] = @ \o ms]
    <2>1. Other(n) \in Node /\ box[Other(n)][l] \in Seq(Message)
      BY Ends
    <2>2. QED
      <3>1. box[Other(n)][l] \o ms \in Seq(Message)
        BY <2>1
      <3>2. QED
        BY <1>2, <2>1, <3>1
  <1>3. QED
    BY <1>1, <1>2 DEF Deliver

LEMMA ReadTyped ==
    ASSUME TypeOK, NEW n \in Node, NEW l \in Link, inbox[n][l] # <<>>
    PROVE  /\ Read(n, l) \in [Node -> [Link -> Seq(Message)]]
           /\ Head(inbox[n][l]) \in Message
  <1>1. inbox \in [Node -> [Link -> Seq(Message)]] /\ inbox[n][l] \in Seq(Message)
    BY Ends DEF TypeOK
  <1>2. Tail(inbox[n][l]) \in Seq(Message) /\ Head(inbox[n][l]) \in Message
    BY <1>1
  <1>3. QED
    BY <1>1, <1>2 DEF Read

\* Each message type the code sends.
LEMMA SentTyped ==
    ASSUME NEW n \in Node, NEW l \in Link
    PROVE  /\ <<Msg("hello", n, l)>> \in Seq(Message)
           /\ <<Msg("key", n, l)>> \in Seq(Message)
           /\ <<Msg("ping", n, l)>> \in Seq(Message)
           /\ <<Msg("pong", n, l)>> \in Seq(Message)
           /\ <<Msg("data", n, l)>> \in Seq(Message)
           /\ <<Msg("clear", n, l)>> \in Seq(Message)
           /\ <<Msg("disconnect", n, l)>> \in Seq(Message)
           /\ <<Msg("hello", n, l)>> \o <<Msg("key", n, l)>> \in Seq(Message)
           /\ <<>> \o <<Msg("key", n, l)>> \in Seq(Message)
  <1>1. /\ Msg("hello", n, l) \in Message /\ Msg("key", n, l) \in Message
        /\ Msg("ping", n, l) \in Message /\ Msg("pong", n, l) \in Message
        /\ Msg("data", n, l) \in Message /\ Msg("clear", n, l) \in Message
        /\ Msg("disconnect", n, l) \in Message
    BY MsgTyped DEF MsgType
  <1>2. QED
    BY <1>1

-----------------------------------------------------------------------------
(* Types.  The variables are taken by the groups in which actions change   *)
(* them.                                                                   *)

TableTyped ==
    /\ entry \in [Node -> [Key -> 0 .. MaxLinks]]
    /\ id \in [Node -> [PeerObject -> Key]]
    /\ fresh \in [Node -> [PeerObject -> BOOLEAN]]
EndsTyped ==
    /\ stage \in [Node -> [Link -> Stage]]
    /\ closed \in [Node -> [Link -> BOOLEAN]]
    /\ closing \in [Node -> [Link -> BOOLEAN]]
CallsTyped ==
    /\ tries \in [Node -> 0 .. MaxTries]
    /\ opening \in [Node -> BOOLEAN]
    /\ opener \in [Link -> Node \cup {"none"}]
ShakeTyped ==
    /\ pub \in [Node -> [Link -> Half \cup {NoHalf}]]
    /\ key \in [Node -> [Link -> SessionKeys]]
BoxTyped == inbox \in [Node -> [Link -> Seq(Message)]]
EnvTyped == cut \in [Link -> BOOLEAN] /\ frozen \in SUBSET Node
CheckTyped ==
    /\ idle \in [Node -> [Link -> 0 .. Dead]]
    /\ round \in [Node -> SUBSET (Key \X Link)]
BoundTyped ==
    /\ calls \in [Node -> Nat]
    /\ disconnects \in [Node -> Nat]
    /\ sends \in [Node -> Nat]
    /\ replies \in [Node -> Nat]

LEMMA Together ==
    ASSUME TableTyped', EndsTyped', CallsTyped', ShakeTyped', BoxTyped', EnvTyped',
           CheckTyped', BoundTyped'
    PROVE  TypeOK'
  BY DEF TypeOK, TableTyped, EndsTyped, CallsTyped, ShakeTyped, BoxTyped,
         EnvTyped, CheckTyped, BoundTyped

LEMMA Kept ==
    ASSUME TypeOK
    PROVE  /\ UNCHANGED tableVars => TableTyped'
           /\ UNCHANGED <<stage, closed, closing>> => EndsTyped'
           /\ UNCHANGED callVars => CallsTyped'
           /\ UNCHANGED shakeVars => ShakeTyped'
           /\ UNCHANGED inbox => BoxTyped'
           /\ UNCHANGED envVars => EnvTyped'
           /\ UNCHANGED checkVars => CheckTyped'
           /\ UNCHANGED boundVars => BoundTyped'
  BY DEF TypeOK, tableVars, callVars, shakeVars, envVars, checkVars, boundVars,
         TableTyped, EndsTyped, CallsTyped, ShakeTyped, BoxTyped, EnvTyped,
         CheckTyped, BoundTyped

LEMMA CleanupTyped ==
    ASSUME TypeOK, NEW n \in Node, NEW l \in Link, NEW k \in Key,
           NEW table \in [Node -> [Key -> 0 .. MaxLinks]],
           CleanupConnection(n, l, table, k)
    PROVE  /\ entry' \in [Node -> [Key -> 0 .. MaxLinks]]
           /\ fresh' \in [Node -> [PeerObject -> BOOLEAN]]
           /\ stage' \in [Node -> [Link -> Stage]]
           /\ closed' \in [Node -> [Link -> BOOLEAN]]
  BY Ends, Keys DEF TypeOK, CleanupConnection, Stage

LEMMA NextTyped ==
    ASSUME TypeOK, NEW n \in Node, NEW l \in Link, NextMessage(n, l)
    PROVE  /\ entry' \in [Node -> [Key -> 0 .. MaxLinks]]
           /\ fresh' \in [Node -> [PeerObject -> BOOLEAN]]
           /\ stage' \in [Node -> [Link -> Stage]]
           /\ closed' \in [Node -> [Link -> BOOLEAN]]
  <1>1. CASE CleanupConnection(n, l, entry, PeerId(n, l))
    BY <1>1, CleanupTyped, PeerIdTyped DEF TypeOK
  <1>2. CASE /\ stage' = [stage EXCEPT ![n][l] = "loop"]
             /\ fresh' = [fresh EXCEPT ![n][Obj(n, l)] =
                             IF stage[n][l] = "key" THEN FALSE ELSE @]
             /\ UNCHANGED <<entry, closed>>
    <2>1. /\ entry \in [Node -> [Key -> 0 .. MaxLinks]]
          /\ fresh \in [Node -> [PeerObject -> BOOLEAN]]
          /\ stage \in [Node -> [Link -> Stage]]
          /\ closed \in [Node -> [Link -> BOOLEAN]]
          /\ Obj(n, l) \in PeerObject
          /\ "loop" \in Stage
      BY Ends DEF TypeOK, Stage
    <2>2. (IF stage[n][l] = "key" THEN FALSE ELSE fresh[n][Obj(n, l)]) \in BOOLEAN
      BY <2>1
    <2>3. QED
      BY <1>2, <2>1, <2>2
  <1>3. QED
    BY <1>1, <1>2 DEF NextMessage

LEMMA TouchTyped ==
    ASSUME TypeOK, NEW n \in Node, NEW l \in Link, Touch(n, l)
    PROVE  idle' \in [Node -> [Link -> 0 .. Dead]]
  BY Ends DEF TypeOK, Touch, Dead

LEMMA RenamedTyped ==
    ASSUME TypeOK, NEW n \in Node, NEW l \in Link
    PROVE  Renamed(n, l) \in [Node -> [Key -> 0 .. MaxLinks]]
  <1>1. entry[n] \in [Key -> 0 .. MaxLinks]
    BY DEF TypeOK
  <1>2. [entry[n] EXCEPT ![PeerId(n, l)] = Absent, ![Real] = l] \in [Key -> 0 .. MaxLinks]
    BY <1>1, Ends, Keys, PeerIdTyped DEF Link
  <1>3. QED
    BY <1>2 DEF Renamed, TypeOK

-----------------------------------------------------------------------------
LEMMA CallTyped ==
    ASSUME TypeOK, NEW n \in Node, ConnectToPeer(n) \/ Call(n)
    PROVE  TypeOK'
  <1> USE TriesAssumption
  <1>1. CASE ConnectToPeer(n)
    <2>1. CallsTyped' /\ BoundTyped'
      BY <1>1 DEF ConnectToPeer, TypeOK, CallsTyped, BoundTyped
    <2>2. UNCHANGED <<tableVars, stage, closed, closing, shakeVars, inbox, envVars, checkVars>>
      BY <1>1 DEF ConnectToPeer
    <2>3. QED
      BY <2>1, <2>2, Kept, Together
  <1>2. CASE OpenConnection(n)
    <2>1. CallsTyped'
      BY <1>2 DEF OpenConnection, TypeOK, CallsTyped
    <2>2. TableTyped'
      BY <1>2, Ends DEF OpenConnection, TypeOK, TableTyped, PeerObject
    <2>3. UNCHANGED <<stage, closed, closing, shakeVars, inbox, envVars, checkVars, boundVars>>
      BY <1>2 DEF OpenConnection
    <2>4. QED
      BY <2>1, <2>2, <2>3, Kept, Together
  <1>3. CASE ConnectFails(n)
    <2>1. CallsTyped'
      BY <1>3 DEF ConnectFails, TypeOK, CallsTyped, Retry
    <2>2. UNCHANGED <<tableVars, stage, closed, closing, shakeVars, inbox, envVars, checkVars,
                      boundVars>>
      BY <1>3 DEF ConnectFails
    <2>3. QED
      BY <2>1, <2>2, Kept, Together
  <1>4. ASSUME NEW l \in Link, Connected(n, l)
        PROVE  TypeOK'
    <2>1. CallsTyped'
      BY <1>4 DEF Connected, TypeOK, CallsTyped
    <2>2. TableTyped'
      <3>1. id[n][0] \in Key /\ l \in 0 .. MaxLinks /\ 0 \in PeerObject
        <4>1. id \in [Node -> [PeerObject -> Key]]
          BY DEF TypeOK
        <4>2. QED
          BY <4>1, Ends
      <3>2. /\ entry' = [entry EXCEPT ![n][id[n][0]] = l]
            /\ fresh' = [fresh EXCEPT ![n][0] = TRUE]
            /\ id' = id
        BY <1>4 DEF Connected
      <3>3. QED
        BY <3>1, <3>2 DEF TypeOK, TableTyped
    <2>3. EndsTyped'
      <3>1. /\ stage' = [stage EXCEPT ![n][l] = "created", ![Other(n)][l] = "reading"]
            /\ UNCHANGED <<closed, closing>>
        BY <1>4 DEF Connected
      <3>2. "created" \in Stage /\ "reading" \in Stage
        BY DEF Stage
      <3>3. QED
        BY <3>1, <3>2, Ends DEF TypeOK, EndsTyped
    <2>4. UNCHANGED <<shakeVars, inbox, envVars, checkVars, boundVars>>
      BY <1>4 DEF Connected
    <2>5. QED
      BY <2>1, <2>2, <2>3, <2>4, Kept, Together
  <1>5. QED
    BY <1>1, <1>2, <1>3, <1>4 DEF Call

\* What the actions of a handler change besides the table and the boxes.
LEMMA HandlerFrame ==
    ASSUME TypeOK, UNCHANGED <<callVars, closing, envVars, boundVars, round>>
    PROVE  /\ CallsTyped' /\ EnvTyped' /\ BoundTyped'
           /\ closing' \in [Node -> [Link -> BOOLEAN]]
           /\ round' \in [Node -> SUBSET (Key \X Link)]
  BY Kept DEF TypeOK

\* One message more, or not.
LEMMA BoxKept ==
    ASSUME TypeOK, NEW n \in Node, NEW l \in Link, NEW type \in MsgType,
           inbox' = inbox \/ inbox' = Deliver(inbox, n, l, <<Msg(type, n, l)>>)
    PROVE  BoxTyped'
  <1>1. inbox \in [Node -> [Link -> Seq(Message)]] /\ <<Msg(type, n, l)>> \in Seq(Message)
    BY MsgTyped DEF TypeOK
  <1>2. Deliver(inbox, n, l, <<Msg(type, n, l)>>) \in [Node -> [Link -> Seq(Message)]]
    BY <1>1, DeliverTyped
  <1>3. QED
    BY <1>1, <1>2 DEF BoxTyped

LEMMA IncomingTyped ==
    ASSUME TypeOK, NEW n \in Node, NEW l \in Link,
           HandleIncoming(n, l) \/ RefuseIncoming(n, l)
    PROVE  TypeOK'
  <1>1. CASE HandleIncoming(n, l)
    <2>1. /\ inbox' = Read(n, l) /\ inbox[n][l] # <<>>
          /\ pub' = [pub EXCEPT ![n][l] = Head(inbox[n][l]).of]
          /\ entry' = [entry EXCEPT ![n][TempId(l)] = l]
          /\ fresh' = [fresh EXCEPT ![n][l] = TRUE]
          /\ stage' = [stage EXCEPT ![n][l] = "created"]
          /\ Touch(n, l)
          /\ UNCHANGED <<id, callVars, key, closed, closing, envVars, round, boundVars>>
      BY <1>1 DEF HandleIncoming
    <2>2. TableTyped'
      <3>1. TempId(l) \in Key /\ l \in 0 .. MaxLinks /\ l \in PeerObject
        BY Keys, Ends
      <3>2. QED
        BY <2>1, <3>1 DEF TypeOK, TableTyped
    <2>3. EndsTyped'
      BY <2>1 DEF TypeOK, EndsTyped, Stage
    <2>4. ShakeTyped'
      <3>1. Head(inbox[n][l]).of \in Half
        BY <2>1, ReadTyped DEF Message
      <3>2. QED
        BY <2>1, <3>1 DEF TypeOK, ShakeTyped
    <2>5. BoxTyped'
      BY <2>1, ReadTyped DEF BoxTyped
    <2>6. CheckTyped'
      BY <2>1, TouchTyped, HandlerFrame DEF CheckTyped
    <2>7. QED
      BY <2>1, <2>2, <2>3, <2>4, <2>5, <2>6, HandlerFrame, Together
  <1>2. CASE RefuseIncoming(n, l)
    <2>1. /\ stage' = [stage EXCEPT ![n][l] = "gone"]
          /\ closed' = [closed EXCEPT ![n][l] = TRUE]
          /\ UNCHANGED <<tableVars, callVars, shakeVars, inbox, closing, envVars, checkVars,
                         boundVars>>
      BY <1>2 DEF RefuseIncoming
    <2>2. EndsTyped'
      BY <2>1 DEF TypeOK, EndsTyped, Stage
    <2>3. QED
      BY <2>1, <2>2, Kept, Together
  <1>3. QED
    BY <1>1, <1>2

\* The table and the ends after a handler's test of the loop or cleanup.
LEMMA AfterTyped ==
    ASSUME TypeOK, NEW n \in Node, NEW l \in Link,
           UNCHANGED <<id, closing>>,
           \/ NextMessage(n, l)
           \/ CleanupConnection(n, l, entry, PeerId(n, l))
    PROVE  TableTyped' /\ EndsTyped'
  <1>1. /\ entry' \in [Node -> [Key -> 0 .. MaxLinks]]
        /\ fresh' \in [Node -> [PeerObject -> BOOLEAN]]
        /\ stage' \in [Node -> [Link -> Stage]]
        /\ closed' \in [Node -> [Link -> BOOLEAN]]
    BY NextTyped, CleanupTyped, PeerIdTyped DEF TypeOK
  <1>2. QED
    BY <1>1 DEF TypeOK, TableTyped, EndsTyped

LEMMA HelloTyped ==
    ASSUME TypeOK, NEW n \in Node, NEW l \in Link,
           SkipHandshake(n, l) \/ ClientHello(n, l)
    PROVE  TypeOK'
  <1>1. CASE SkipHandshake(n, l)
    <2>1. /\ NextMessage(n, l)
          /\ UNCHANGED <<id, callVars, shakeVars, inbox, closing, envVars, checkVars, boundVars>>
      BY <1>1 DEF SkipHandshake
    <2>2. QED
      BY <2>1, AfterTyped, Kept, Together
  <1>2. CASE ClientHello(n, l)
    <2>1. UNCHANGED <<id, callVars, shakeVars, closing, envVars, round, boundVars>>
      BY <1>2 DEF ClientHello
    <2>2. CASE /\ inbox' = Deliver(inbox, n, l, <<Msg("hello", n, l)>>)
               /\ fresh' = [fresh EXCEPT ![n][Obj(n, l)] = FALSE]
               /\ stage' = [stage EXCEPT ![n][l] = "hello"]
               /\ Touch(n, l)
               /\ UNCHANGED <<entry, closed>>
      <3>1. TableTyped' /\ EndsTyped'
        BY <2>1, <2>2, Ends DEF TypeOK, TableTyped, EndsTyped, Stage
      <3>2. BoxTyped'
        BY <2>2, DeliverTyped, SentTyped DEF TypeOK, BoxTyped
      <3>3. CheckTyped'
        BY <2>1, <2>2, TouchTyped, HandlerFrame DEF CheckTyped
      <3>4. QED
        BY <2>1, <3>1, <3>2, <3>3, HandlerFrame, Kept, Together
    <2>3. CASE /\ CleanupConnection(n, l, entry, PeerId(n, l))
               /\ UNCHANGED <<inbox, idle>>
      BY <2>1, <2>3, AfterTyped, Kept, Together DEF checkVars
    <2>4. QED
      BY <1>2, <2>2, <2>3 DEF ClientHello
  <1>3. QED
    BY <1>1, <1>2

LEMMA SecretTyped ==
    ASSUME TypeOK, NEW n \in Node, NEW l \in Link,
           NEW box \in [Node -> [Link -> Seq(Message)]], NEW sent,
           sent \o <<Msg("key", n, l)>> \in Seq(Message),
           ComputeSecret(n, l, box, sent)
    PROVE  TableTyped' /\ EndsTyped' /\ BoxTyped' /\ CheckTyped'
  <1>1. /\ id' = [id EXCEPT ![n][Obj(n, l)] = Real]
        /\ Touch(n, l)
        /\ UNCHANGED <<callVars, key, closing, envVars, round, boundVars>>
    BY DEF ComputeSecret
  <1>2. CheckTyped'
    BY <1>1, TouchTyped, HandlerFrame DEF CheckTyped
  <1>3. id' \in [Node -> [PeerObject -> Key]] /\ Obj(n, l) \in PeerObject
    BY <1>1, Ends, Keys DEF TypeOK
  <1>4. CASE /\ entry' = Renamed(n, l)
             /\ inbox' = Deliver(box, n, l, sent \o <<Msg("key", n, l)>>)
             /\ fresh' = [fresh EXCEPT ![n][Obj(n, l)] = FALSE]
             /\ stage' = [stage EXCEPT ![n][l] = "key"]
             /\ UNCHANGED closed
    <2>1. TableTyped'
      BY <1>3, <1>4, RenamedTyped DEF TypeOK, TableTyped
    <2>2. EndsTyped'
      BY <1>1, <1>4 DEF TypeOK, EndsTyped, Stage
    <2>3. BoxTyped'
      BY <1>4, DeliverTyped DEF BoxTyped
    <2>4. QED
      BY <1>2, <2>1, <2>2, <2>3
  <1>5. CASE CleanupConnection(n, l, Renamed(n, l), Real) /\ inbox' = box
    <2>1. /\ entry' \in [Node -> [Key -> 0 .. MaxLinks]]
          /\ fresh' \in [Node -> [PeerObject -> BOOLEAN]]
          /\ stage' \in [Node -> [Link -> Stage]]
          /\ closed' \in [Node -> [Link -> BOOLEAN]]
      BY <1>5, CleanupTyped, RenamedTyped, Keys
    <2>2. QED
      BY <1>1, <1>2, <1>3, <1>5, <2>1 DEF TypeOK, TableTyped, EndsTyped, BoxTyped
  <1>6. QED
    BY <1>4, <1>5 DEF ComputeSecret

LEMMA ShakeStepTyped ==
    ASSUME TypeOK, NEW n \in Node, NEW l \in Link,
           ServerHello(n, l) \/ ReadHello(n, l)
    PROVE  TypeOK'
  <1>1. CASE ServerHello(n, l)
    <2>1. /\ ComputeSecret(n, l, inbox, <<Msg("hello", n, l)>>)
          /\ UNCHANGED pub
      BY <1>1 DEF ServerHello
    <2>2. TableTyped' /\ EndsTyped' /\ BoxTyped' /\ CheckTyped'
      BY <2>1, SecretTyped, SentTyped DEF TypeOK
    <2>3. UNCHANGED <<callVars, key, closing, envVars, round, boundVars>>
      BY <2>1 DEF ComputeSecret
    <2>4. QED
      BY <2>1, <2>2, <2>3, HandlerFrame, Kept, Together DEF shakeVars
  <1>2. CASE ReadHello(n, l)
    <2>1. /\ inbox[n][l] # <<>>
          /\ pub' = [pub EXCEPT ![n][l] = Head(inbox[n][l]).of]
          /\ ComputeSecret(n, l, Read(n, l), <<>>)
      BY <1>2 DEF ReadHello
    <2>2. TableTyped' /\ EndsTyped' /\ BoxTyped' /\ CheckTyped'
      BY <2>1, SecretTyped, SentTyped, ReadTyped
    <2>3. UNCHANGED <<callVars, key, closing, envVars, round, boundVars>>
      BY <2>1 DEF ComputeSecret
    <2>4. Head(inbox[n][l]).of \in Half
      BY <2>1, ReadTyped DEF Message
    <2>5. ShakeTyped'
      BY <2>1, <2>3, <2>4 DEF TypeOK, ShakeTyped
    <2>6. QED
      BY <2>2, <2>3, <2>5, HandlerFrame, Together
  <1>3. QED
    BY <1>1, <1>2

LEMMA ReadKeyTyped ==
    ASSUME TypeOK, NEW n \in Node, NEW l \in Link, ReadKey(n, l)
    PROVE  TypeOK'
  <1>1. /\ inbox[n][l] # <<>> /\ inbox' = Read(n, l)
        /\ key' = [key EXCEPT ![n][l] = SessionKey(n, l, Head(inbox[n][l]))]
        /\ NextMessage(n, l) /\ Touch(n, l)
        /\ UNCHANGED <<id, callVars, pub, closing, envVars, round, boundVars>>
    BY DEF ReadKey
  <1>2. Head(inbox[n][l]).of \in Half
    BY <1>1, ReadTyped DEF Message
  <1>3. pub[n][l] \in Half \cup {NoHalf} /\ <<n, l>> \in Half
    <2>1. pub \in [Node -> [Link -> Half \cup {NoHalf}]]
      BY DEF TypeOK
    <2>2. QED
      BY <2>1, Ends
  <1>4. SessionKey(n, l, Head(inbox[n][l])) \in SessionKeys
    BY <1>2, <1>3 DEF SessionKey, SessionKeys
  <1>5. ShakeTyped'
    BY <1>1, <1>4 DEF TypeOK, ShakeTyped
  <1>6. BoxTyped'
    BY <1>1, ReadTyped DEF BoxTyped
  <1>7. CheckTyped'
    BY <1>1, TouchTyped, HandlerFrame DEF CheckTyped
  <1>8. TableTyped' /\ EndsTyped'
    BY <1>1, AfterTyped
  <1>9. QED
    BY <1>1, <1>5, <1>6, <1>7, <1>8, HandlerFrame, Together

LEMMA LoopTyped ==
    ASSUME TypeOK, NEW n \in Node, NEW l \in Link,
           WrongMessage(n, l) \/ ReadRaises(n, l) \/ HandleMessage(n, l)
    PROVE  TypeOK'
  <1>1. CASE ReadRaises(n, l)
    <2>1. /\ CleanupConnection(n, l, entry, PeerId(n, l))
          /\ UNCHANGED <<id, callVars, shakeVars, inbox, closing, envVars, checkVars, boundVars>>
      BY <1>1 DEF ReadRaises
    <2>2. QED
      BY <2>1, AfterTyped, Kept, Together
  <1>2. CASE WrongMessage(n, l) \/ HandleMessage(n, l)
    <2>1. /\ inbox[n][l] # <<>> /\ Touch(n, l)
          /\ UNCHANGED <<id, callVars, shakeVars, closing, envVars, round, boundVars>>
      BY <1>2 DEF WrongMessage, HandleMessage
    <2>2. \/ NextMessage(n, l)
          \/ CleanupConnection(n, l, entry, PeerId(n, l))
      BY <1>2 DEF WrongMessage, HandleMessage
    <2>3. TableTyped' /\ EndsTyped'
      BY <2>1, <2>2, AfterTyped
    <2>4. inbox' \in {Read(n, l), Deliver(Read(n, l), n, l, <<Msg("pong", n, l)>>)}
      BY <1>2 DEF WrongMessage, HandleMessage
    <2>5. BoxTyped'
      <3>1. Read(n, l) \in [Node -> [Link -> Seq(Message)]]
        BY <2>1, ReadTyped
      <3>2. <<Msg("pong", n, l)>> \in Seq(Message)
        BY SentTyped
      <3>3. Deliver(Read(n, l), n, l, <<Msg("pong", n, l)>>) \in [Node -> [Link -> Seq(Message)]]
        BY <3>1, <3>2, DeliverTyped
      <3>4. QED
        BY <2>4, <3>1, <3>3 DEF BoxTyped
    <2>6. CheckTyped'
      BY <2>1, TouchTyped, HandlerFrame DEF CheckTyped
    <2>7. QED
      BY <2>1, <2>3, <2>5, <2>6, HandlerFrame, Kept, Together
  <1>3. QED
    BY <1>1, <1>2

LEMMA HandlerTyped ==
    ASSUME TypeOK, NEW n \in Node, NEW l \in Link, Handler(n, l)
    PROVE  TypeOK'
  BY IncomingTyped, HelloTyped, ShakeStepTyped, ReadKeyTyped, LoopTyped DEF Handler

-----------------------------------------------------------------------------
LEMMA EntryLink ==
    ASSUME TypeOK, NEW n \in Node, NEW k \in Key, entry[n][k] # Absent
    PROVE  entry[n][k] \in Link
  BY LinksAssumption DEF TypeOK, Absent, Link

LEMMA DisconnectTyped ==
    ASSUME TypeOK, NEW n \in Node, NEW k \in Key, entry[n][k] # Absent,
           Disconnect(n, k), UNCHANGED <<id, fresh, stage>>
    PROVE  TableTyped' /\ EndsTyped' /\ BoxTyped'
  <1> DEFINE l == entry[n][k]
  <1>1. l \in Link
    BY EntryLink
  <1>2. /\ entry' = [entry EXCEPT ![n][k] = Absent]
        /\ inbox' \in {inbox, Deliver(inbox, n, l, <<Msg("disconnect", n, l)>>)}
        /\ closed' = [closed EXCEPT ![n][l] = TRUE]
        /\ closing' = [closing EXCEPT ![n][l] = TRUE]
    BY DEF Disconnect
  <1> HIDE DEF l
  <1>3. TableTyped'
    BY <1>2, Keys DEF TypeOK, TableTyped
  <1>4. EndsTyped'
    BY <1>1, <1>2 DEF TypeOK, EndsTyped
  <1>5. BoxTyped'
    BY <1>1, <1>2, BoxKept DEF MsgType
  <1>6. QED
    BY <1>3, <1>4, <1>5

LEMMA UserTyped ==
    ASSUME TypeOK, NEW n \in Node
    PROVE  /\ SendToPeer(n) \/ ReplyToPeer(n) => TypeOK'
           /\ \A k \in Key : DisconnectFromPeer(n, k) => TypeOK'
           /\ \A l \in Link : Disconnected(n, l) => TypeOK'
  <1>1. ASSUME SendToPeer(n) \/ ReplyToPeer(n)
        PROVE  TypeOK'
    <2>1. PICK l \in Link, type \in {"data", "clear"} :
            /\ inbox' = Deliver(inbox, n, l, <<Msg(type, n, l)>>)
            /\ Touch(n, l)
      BY <1>1, EntryLink, Keys DEF SendToPeer, ReplyToPeer
    <2>2. /\ sends' \in {sends, [sends EXCEPT ![n] = @ + 1]}
          /\ replies' \in {replies, [replies EXCEPT ![n] = @ + 1]}
          /\ UNCHANGED <<tableVars, callVars, stage, shakeVars, closed, closing, envVars,
                         round, calls, disconnects>>
      BY <1>1 DEF SendToPeer, ReplyToPeer
    <2>3. BoxTyped'
      BY <2>1, DeliverTyped, SentTyped DEF TypeOK, BoxTyped
    <2>4. CheckTyped'
      BY <2>1, <2>2, TouchTyped DEF TypeOK, CheckTyped
    <2>5. BoundTyped'
      <3>1. /\ sends \in [Node -> Nat] /\ replies \in [Node -> Nat]
            /\ UNCHANGED <<calls, disconnects>>
        BY <2>2 DEF TypeOK
      <3>2. sends' \in [Node -> Nat] /\ replies' \in [Node -> Nat]
        BY <2>2, <3>1
      <3>3. QED
        BY <3>1, <3>2 DEF TypeOK, BoundTyped
    <2>6. QED
      BY <2>2, <2>3, <2>4, <2>5, Kept, Together
  <1>2. ASSUME NEW k \in Key, DisconnectFromPeer(n, k)
        PROVE  TypeOK'
    <2>1. /\ entry[n][k] # Absent /\ Disconnect(n, k)
          /\ disconnects' = [disconnects EXCEPT ![n] = @ + 1]
          /\ UNCHANGED <<id, fresh, callVars, stage, shakeVars, envVars, checkVars,
                         calls, sends, replies>>
      BY <1>2 DEF DisconnectFromPeer
    <2>2. TableTyped' /\ EndsTyped' /\ BoxTyped'
      BY <2>1, DisconnectTyped
    <2>3. BoundTyped'
      BY <2>1 DEF TypeOK, BoundTyped
    <2>4. QED
      BY <2>1, <2>2, <2>3, Kept, Together
  <1>3. ASSUME NEW l \in Link, Disconnected(n, l)
        PROVE  TypeOK'
    <2>1. /\ closing' = [closing EXCEPT ![n][l] = FALSE]
          /\ fresh' = [fresh EXCEPT ![n][Obj(n, l)] = FALSE]
          /\ UNCHANGED <<entry, id, callVars, stage, shakeVars, inbox, closed, envVars,
                         checkVars, boundVars>>
      BY <1>3 DEF Disconnected
    <2>2. TableTyped' /\ EndsTyped'
      BY <2>1, Ends DEF TypeOK, TableTyped, EndsTyped
    <2>3. QED
      BY <2>1, <2>2, Kept, Together
  <1>4. QED
    BY <1>1, <1>2, <1>3

LEMMA CheckStepTyped ==
    ASSUME TypeOK, NEW n \in Node, HealthCheck(n)
    PROVE  TypeOK'
  <1>1. ASSUME StartRound(n)
        PROVE  TypeOK'
    <2>1. /\ round' = [round EXCEPT ![n] =
                {<<k, entry[n][k]>> : k \in {j \in Key : entry[n][j] # Absent}}]
          /\ idle' = [idle EXCEPT ![n] =
                [l \in Link |-> IF @[l] < Dead THEN @[l] + 1 ELSE Dead]]
          /\ UNCHANGED <<tableVars, callVars, stage, shakeVars, inbox, closed, closing,
                         envVars, boundVars>>
      BY <1>1 DEF StartRound
    <2>2. {<<k, entry[n][k]>> : k \in {j \in Key : entry[n][j] # Absent}} \in SUBSET (Key \X Link)
      BY EntryLink
    <2>3. round' \in [Node -> SUBSET (Key \X Link)]
      BY <2>1, <2>2 DEF TypeOK
    <2>4. idle' \in [Node -> [Link -> 0 .. Dead]]
      <3>1. idle[n] \in [Link -> 0 .. Dead]
        BY DEF TypeOK
      <3>2. [l \in Link |-> IF idle[n][l] < Dead THEN idle[n][l] + 1 ELSE Dead]
              \in [Link -> 0 .. Dead]
        BY <3>1 DEF Dead
      <3>3. QED
        BY <2>1, <3>2 DEF TypeOK
    <2>5. QED
      BY <2>1, <2>3, <2>4, Kept, Together DEF CheckTyped
  <1>2. ASSUME NEW k \in Key, NEW l \in Link,
               Ping(n, k, l) \/ StillAlive(n, k, l) \/ Timeout(n, k, l)
        PROVE  TypeOK'
    <2>1. /\ round' = [round EXCEPT ![n] = @ \ {<<k, l>>}]
          /\ UNCHANGED <<id, fresh, callVars, stage, shakeVars, envVars, boundVars>>
      BY <1>2 DEF Ping, StillAlive, Timeout, tableVars
    <2>2. round' \in [Node -> SUBSET (Key \X Link)]
      BY <2>1 DEF TypeOK
    <2>3. CASE Ping(n, k, l)
      <3>1. UNCHANGED <<tableVars, closed, closing>>
        BY <2>3 DEF Ping
      <3>2. inbox' \in {inbox, Deliver(inbox, n, l, <<Msg("ping", n, l)>>)}
        BY <2>3 DEF Ping
      <3>3. BoxTyped'
        BY <3>2, BoxKept DEF MsgType
      <3>4. CheckTyped'
        BY <2>2, <2>3, TouchTyped DEF Ping, TypeOK, CheckTyped
      <3>5. QED
        BY <2>1, <3>1, <3>3, <3>4, Kept, Together
    <2>4. CASE \/ StillAlive(n, k, l)
               \/ Timeout(n, k, l) /\ UNCHANGED <<entry, inbox, closed, closing>>
      <3>1. UNCHANGED <<tableVars, closed, closing, inbox, idle>>
        BY <2>1, <2>4 DEF StillAlive, Timeout, tableVars
      <3>2. CheckTyped'
        BY <2>2, <3>1 DEF TypeOK, CheckTyped
      <3>3. QED
        BY <2>1, <3>1, <3>2, Kept, Together
    <2>5. CASE Timeout(n, k, l) /\ entry[n][k] # Absent /\ Disconnect(n, k)
      <3>1. TableTyped' /\ EndsTyped' /\ BoxTyped'
        BY <2>1, <2>5, DisconnectTyped
      <3>2. CheckTyped'
        BY <2>2, <2>5 DEF Timeout, TypeOK, CheckTyped
      <3>3. QED
        BY <2>1, <3>1, <3>2, Kept, Together
    <2>6. QED
      BY <1>2, <2>3, <2>4, <2>5 DEF Timeout
  <1>3. QED
    BY <1>1, <1>2 DEF HealthCheck

LEMMA EnvTypedStep ==
    ASSUME TypeOK
    PROVE  /\ \A l \in Link : CutLink(l) => TypeOK'
           /\ \A n \in Node : Freeze(n) => TypeOK'
  <1>1. ASSUME NEW l \in Link, CutLink(l)
        PROVE  TypeOK'
    <2>1. /\ cut' = [cut EXCEPT ![l] = TRUE]
          /\ UNCHANGED <<tableVars, callVars, stage, shakeVars, inbox, closed, closing, frozen,
                         checkVars, boundVars>>
      BY <1>1 DEF CutLink
    <2>2. EnvTyped'
      BY <2>1 DEF TypeOK, EnvTyped
    <2>3. QED
      BY <2>1, <2>2, Kept, Together
  <1>2. ASSUME NEW n \in Node, Freeze(n)
        PROVE  TypeOK'
    <2>1. /\ frozen' = frozen \cup {n}
          /\ UNCHANGED <<tableVars, callVars, stage, shakeVars, inbox, closed, closing, cut,
                         checkVars, boundVars>>
      BY <1>2 DEF Freeze
    <2>2. EnvTyped'
      BY <2>1 DEF TypeOK, EnvTyped
    <2>3. QED
      BY <2>1, <2>2, Kept, Together
  <1>3. QED
    BY <1>1, <1>2

LEMMA InitTyped ==
    ASSUME Init
    PROVE  TypeOK
  <1>1. /\ entry \in [Node -> [Key -> 0 .. MaxLinks]]
        /\ fresh \in [Node -> [PeerObject -> BOOLEAN]]
    BY Keys DEF Init
  <1>2. id \in [Node -> [PeerObject -> Key]]
    <2>1. \A n \in Node, o \in PeerObject :
            (IF o # 0 THEN TempId(o)
             ELSE IF n \in AddressOnly THEN Alias ELSE Real) \in Key
      BY LinksAssumption DEF PeerObject, Key, TempId, Alias, Real
    <2>2. QED
      BY <2>1 DEF Init
  <1>3. CallsTyped
    BY TriesAssumption DEF Init, CallsTyped
  <1>4. ShakeTyped
    <2>1. NoKey \in SessionKeys
      BY DEF NoKey, SessionKeys
    <2>2. QED
      BY <2>1 DEF Init, ShakeTyped
  <1>5. EndsTyped
    BY DEF Init, EndsTyped, Stage
  <1>6. BoxTyped
    BY DEF Init, BoxTyped
  <1>7. EnvTyped
    BY DEF Init, EnvTyped
  <1>8. CheckTyped
    BY DEF Init, CheckTyped, Dead
  <1>9. BoundTyped
    BY DEF Init, BoundTyped
  <1>10. QED
    BY <1>1, <1>2, <1>3, <1>4, <1>5, <1>6, <1>7, <1>8, <1>9
    DEF TypeOK, CallsTyped, ShakeTyped, EndsTyped, BoxTyped, EnvTyped, CheckTyped, BoundTyped

\* Every variable keeps its type, whatever connections cross, end or hang
\* (connection_manager.py).
THEOREM TypeCorrect == Spec => []TypeOK
  <1>1. Init => TypeOK
    BY InitTyped
  <1>2. TypeOK /\ [Next]_vars => TypeOK'
    <2> SUFFICES ASSUME TypeOK, [Next]_vars
                 PROVE  TypeOK'
      OBVIOUS
    <2>1. CASE UNCHANGED vars
      BY <2>1 DEF TypeOK, vars, tableVars, callVars, shakeVars, envVars, checkVars, boundVars
    <2>2. CASE Next
      BY <2>2, CallTyped, HandlerTyped, UserTyped, CheckStepTyped, EnvTypedStep DEF Next
    <2>3. QED
      BY <2>1, <2>2
  <1>3. QED
    BY <1>1, <1>2, PTL DEF Spec

-----------------------------------------------------------------------------
(* The table.                                                              *)

\* A step that enters nothing and renames nobody keeps the invariant if
\* every end that stops running has left the table.
LeavesTable ==
    /\ UNCHANGED <<id, opener>>
    /\ \A m \in Node, k \in Key : entry'[m][k] = entry[m][k] \/ entry'[m][k] = Absent
    /\ \A m \in Node, l \in Link :
         /\ stage[m][l] \in Running /\ stage'[m][l] \notin Running
              => entry'[m][PeerId(m, l)] = Absent
         /\ stage'[m][l] \in {"none", "reading"} => stage'[m][l] = stage[m][l]
         /\ stage[m][l] = "none" => stage'[m][l] = "none"

LEMMA LeavingKeeps ==
    ASSUME TypeOK, TableInv, LeavesTable
    PROVE  TableInv'
  <1>1. EntryIsOwn'
    BY EntryLink DEF TableInv, EntryIsOwn, LeavesTable, PeerId, Obj
  <1>2. EntryIsLive'
    <2> SUFFICES ASSUME NEW n \in Node, NEW k \in Key, entry'[n][k] # Absent
                 PROVE  stage'[n][entry'[n][k]] \in Running
      BY DEF EntryIsLive
    <2>1. entry'[n][k] = entry[n][k] /\ entry[n][k] # Absent
      BY DEF LeavesTable
    <2>2. /\ entry[n][k] \in Link
          /\ stage[n][entry[n][k]] \in Running
          /\ PeerId(n, entry[n][k]) = k
      BY <2>1, EntryLink DEF TableInv, EntryIsLive, EntryIsOwn
    <2>3. QED
      BY <2>1, <2>2 DEF LeavesTable
  <1>3. StageFits'
    BY DEF TableInv, StageFits, LeavesTable
  <1>4. QED
    BY <1>1, <1>2, <1>3 DEF TableInv

\* An end that moves on while it runs, or reads its first message in vain.
LEMMA QuietLeaves ==
    ASSUME TypeOK, NEW n \in Node, NEW l \in Link, NEW s \in Running \cup {"gone"},
           UNCHANGED <<id, opener, entry>>,
           stage' = [stage EXCEPT ![n][l] = s],
           stage[n][l] \in Running => s \in Running,
           stage[n][l] # "none"
    PROVE  LeavesTable
  BY DEF LeavesTable, TypeOK, Running

LEMMA CleanupLeaves ==
    ASSUME TypeOK, NEW n \in Node, NEW l \in Link,
           UNCHANGED <<id, opener>>,
           CleanupConnection(n, l, entry, PeerId(n, l)),
           stage[n][l] # "none"
    PROVE  LeavesTable
  <1>1. /\ entry' = [entry EXCEPT ![n][PeerId(n, l)] = Absent]
        /\ stage' = [stage EXCEPT ![n][l] = "gone"]
    BY DEF CleanupConnection
  <1>2. entry'[n][PeerId(n, l)] = Absent
    BY <1>1, PeerIdTyped DEF TypeOK
  <1>3. \A m \in Node, k \in Key : entry'[m][k] = entry[m][k] \/ entry'[m][k] = Absent
    BY <1>1 DEF TypeOK
  <1>4. \A m \in Node, i \in Link :
          (m = n /\ i = l) \/ stage'[m][i] = stage[m][i]
    BY <1>1 DEF TypeOK
  <1>5. stage'[n][l] = "gone"
    BY <1>1 DEF TypeOK
  <1>6. QED
    BY <1>2, <1>3, <1>4, <1>5 DEF LeavesTable

LEMMA NextLeaves ==
    ASSUME TypeOK, NEW n \in Node, NEW l \in Link,
           UNCHANGED <<id, opener>>,
           NextMessage(n, l), stage[n][l] # "none"
    PROVE  LeavesTable
  <1>1. CASE /\ stage' = [stage EXCEPT ![n][l] = "loop"]
             /\ UNCHANGED entry
    BY <1>1, QuietLeaves DEF Running
  <1>2. CASE CleanupConnection(n, l, entry, PeerId(n, l))
    BY <1>2, CleanupLeaves
  <1>3. QED
    BY <1>1, <1>2 DEF NextMessage

\* Steps that leave stages alone and at most remove an entry.
LEMMA RemovalLeaves ==
    ASSUME TypeOK, UNCHANGED <<id, opener, stage>>,
           entry' = entry \/ \E n \in Node, k \in Key : entry' = [entry EXCEPT ![n][k] = Absent]
    PROVE  LeavesTable
  <1>1. entry \in [Node -> [Key -> 0 .. MaxLinks]]
    BY DEF TypeOK
  <1>2. \A m \in Node, k \in Key : entry'[m][k] = entry[m][k] \/ entry'[m][k] = Absent
    <2>1. CASE entry' = entry
      BY <2>1
    <2>2. ASSUME NEW n \in Node, NEW j \in Key, entry' = [entry EXCEPT ![n][j] = Absent]
          PROVE  \A m \in Node, k \in Key :
                   entry'[m][k] = entry[m][k] \/ entry'[m][k] = Absent
      BY <1>1, <2>2
    <2>3. QED
      BY <2>1, <2>2
  <1>3. QED
    BY <1>2 DEF LeavesTable

-----------------------------------------------------------------------------
(* The three steps that enter a connection.                                *)

LEMMA ConnectedKeeps ==
    ASSUME TypeOK, TableInv, NEW n \in Node, NEW l \in Link, Connected(n, l)
    PROVE  TableInv'
  <1>1. /\ opener[l] = "none"
        /\ opener' = [opener EXCEPT ![l] = n]
        /\ entry' = [entry EXCEPT ![n][id[n][0]] = l]
        /\ stage' = [stage EXCEPT ![n][l] = "created", ![Other(n)][l] = "reading"]
        /\ id' = id
    BY DEF Connected
  <1>2. /\ Other(n) \in Node /\ Other(n) # n
        /\ n # "none"
        /\ l # Absent
    BY Ends DEF Other, Node
  <1>3. \A m \in Node : stage[m][l] = "none"
    BY <1>1 DEF TableInv, StageFits
  <1>4. \A m \in Node, k \in Key : entry[m][k] # l
    BY <1>2, <1>3 DEF TableInv, EntryIsLive, Running
  <1>5. /\ \A m \in Node, i \in Link \ {l} : stage'[m][i] = stage[m][i] /\ opener'[i] = opener[i]
        /\ stage'[n][l] = "created" /\ stage'[Other(n)][l] = "reading"
        /\ opener'[l] = n
    BY <1>1, <1>2 DEF TypeOK
  <1>6. \A m \in Node, k \in Key :
          entry'[m][k] = entry[m][k] \/ (m = n /\ k = id[n][0] /\ entry'[m][k] = l)
    BY <1>1 DEF TypeOK
  <1>7. EntryIsLive'
    <2> SUFFICES ASSUME NEW m \in Node, NEW k \in Key, entry'[m][k] # Absent
                 PROVE  stage'[m][entry'[m][k]] \in Running
      BY DEF EntryIsLive
    <2>1. CASE entry'[m][k] = entry[m][k]
      BY <1>4, <1>5, <2>1, EntryLink DEF TableInv, EntryIsLive
    <2>2. CASE m = n /\ entry'[m][k] = l
      BY <1>5, <2>2 DEF Running
    <2>3. QED
      BY <1>6, <2>1, <2>2
  <1>8. EntryIsOwn'
    <2> SUFFICES ASSUME NEW m \in Node, NEW k \in Key, entry'[m][k] # Absent
                 PROVE  id'[m][IF opener'[entry'[m][k]] = m THEN 0 ELSE entry'[m][k]] = k
      BY DEF EntryIsOwn, PeerId, Obj
    <2>1. CASE entry'[m][k] = entry[m][k]
      <3>1. entry[m][k] \in Link \ {l} /\ PeerId(m, entry[m][k]) = k
        BY <1>4, <2>1, EntryLink DEF TableInv, EntryIsOwn
      <3>2. QED
        BY <1>1, <1>5, <2>1, <3>1 DEF PeerId, Obj
    <2>2. CASE m = n /\ k = id[n][0] /\ entry'[m][k] = l
      BY <1>1, <1>5, <2>2 DEF PeerId, Obj
    <2>3. QED
      BY <1>6, <2>1, <2>2
  <1>9. StageFits'
    <2> SUFFICES ASSUME NEW m \in Node, NEW i \in Link
                 PROVE  /\ opener'[i] = "none" => stage'[m][i] = "none"
                        /\ stage'[m][i] = "reading" => opener'[i] # m
                        /\ stage'[m][i] \in {"none", "reading"} => id'[m][i] = TempId(i)
      BY DEF StageFits
    <2>1. CASE i # l
      <3>1. stage'[m][i] = stage[m][i] /\ opener'[i] = opener[i] /\ id' = id
        BY <1>1, <1>5, <2>1
      <3>2. /\ opener[i] = "none" => stage[m][i] = "none"
            /\ stage[m][i] = "reading" => opener[i] # m
            /\ stage[m][i] \in {"none", "reading"} => id[m][i] = TempId(i)
        BY DEF TableInv, StageFits
      <3>3. QED
        BY <3>1, <3>2
    <2>2. CASE i = l
      <3>1. opener'[i] = n /\ id'[m][i] = TempId(i)
        BY <1>1, <1>3, <1>5, <2>2 DEF TableInv, StageFits
      <3>2. n # "none" /\ (stage'[n][i] = "created" /\ (m = n \/ m # n))
        BY <1>2, <1>5, <2>2
      <3>3. QED
        BY <3>1, <3>2
    <2>3. QED
      BY <2>1, <2>2
  <1>10. QED
    BY <1>7, <1>8, <1>9 DEF TableInv

LEMMA IncomingKeeps ==
    ASSUME TypeOK, TableInv, NEW n \in Node, NEW l \in Link, HandleIncoming(n, l)
    PROVE  TableInv'
  <1>1. /\ stage[n][l] = "reading"
        /\ entry' = [entry EXCEPT ![n][TempId(l)] = l]
        /\ stage' = [stage EXCEPT ![n][l] = "created"]
        /\ id' = id /\ opener' = opener
    BY DEF HandleIncoming, callVars
  <1>2. PeerId(n, l) = TempId(l) /\ l # Absent /\ TempId(l) \in Key
    BY <1>1, Ends, Keys DEF TableInv, StageFits, PeerId, Obj
  <1>3. /\ \A m \in Node, i \in Link :
             (m = n /\ i = l) \/ stage'[m][i] = stage[m][i]
        /\ stage'[n][l] = "created"
    BY <1>1 DEF TypeOK
  <1>4. \A m \in Node, k \in Key :
          entry'[m][k] = entry[m][k] \/ (m = n /\ k = TempId(l) /\ entry'[m][k] = l)
    BY <1>1 DEF TypeOK
  <1>5. EntryIsLive'
    <2> SUFFICES ASSUME NEW m \in Node, NEW k \in Key, entry'[m][k] # Absent
                 PROVE  stage'[m][entry'[m][k]] \in Running
      BY DEF EntryIsLive
    <2>1. CASE entry'[m][k] = entry[m][k]
      BY <1>3, <2>1, EntryLink DEF TableInv, EntryIsLive, Running
    <2>2. CASE m = n /\ entry'[m][k] = l
      BY <1>3, <2>2 DEF Running
    <2>3. QED
      BY <1>4, <2>1, <2>2
  <1>6. EntryIsOwn'
    <2> SUFFICES ASSUME NEW m \in Node, NEW k \in Key, entry'[m][k] # Absent
                 PROVE  PeerId(m, entry'[m][k]) = k
      BY <1>1 DEF EntryIsOwn, PeerId, Obj
    <2>1. QED
      BY <1>2, <1>4 DEF TableInv, EntryIsOwn
  <1>7. StageFits'
    BY <1>1, <1>3 DEF TableInv, StageFits
  <1>8. QED
    BY <1>5, <1>6, <1>7 DEF TableInv

\* The handshake renames the Peer object, which other connections may share:
\* the entry they had under the old id is the one that goes.
LEMMA SecretKeeps ==
    ASSUME TypeOK, TableInv, NEW n \in Node, NEW l \in Link,
           NEW box, NEW sent, ComputeSecret(n, l, box, sent),
           stage[n][l] \in Running
    PROVE  TableInv'
  <1> DEFINE old == PeerId(n, l)
  <1>1. /\ id' = [id EXCEPT ![n][Obj(n, l)] = Real]
        /\ opener' = opener
    BY DEF ComputeSecret, callVars
  <1>2. /\ old \in Key /\ Real \in Key /\ Obj(n, l) \in PeerObject
        /\ l # Absent /\ \A i \in Link : i \in PeerObject /\ 0 \in PeerObject /\ i # 0
    BY PeerIdTyped, Keys, Ends, LinksAssumption DEF Absent, Link
  <1>3. /\ \A m \in Node, o \in PeerObject :
             id'[m][o] = IF m = n /\ o = Obj(n, l) THEN Real ELSE id[m][o]
    BY <1>1, <1>2 DEF TypeOK
  <1>4. \/ entry' = Renamed(n, l) /\ stage' = [stage EXCEPT ![n][l] = "key"]
        \/ /\ entry' = [Renamed(n, l) EXCEPT ![n][Real] = Absent]
           /\ stage' = [stage EXCEPT ![n][l] = "gone"]
    BY DEF ComputeSecret, CleanupConnection
  <1>5. /\ Renamed(n, l)[n][Real] = l
        /\ Renamed(n, l)[n][old] \in {l, Absent}
        /\ \A k \in Key \ {Real, old} : Renamed(n, l)[n][k] = entry[n][k]
        /\ \A m \in Node \ {n} : Renamed(n, l)[m] = entry[m]
        /\ Renamed(n, l)[n][old] = l => old = Real
    BY <1>2 DEF Renamed, TypeOK
  <1>6. /\ \A m \in Node, i \in Link : (m = n /\ i = l) \/ stage'[m][i] = stage[m][i]
        /\ stage'[n][l] \in {"key", "gone"}
    <2>1. DOMAIN stage = Node /\ \A m \in Node : DOMAIN stage[m] = Link
      BY DEF TypeOK
    <2>2. stage' = [stage EXCEPT ![n][l] = "key"]
          \/ stage' = [stage EXCEPT ![n][l] = "gone"]
      BY <1>4
    <2>3. QED
      BY <2>1, <2>2
  <1>7. \A m \in Node, k \in Key :
          \/ entry'[m][k] = Absent
          \/ entry'[m][k] = entry[m][k] /\ (m # n \/ k \notin {Real, old})
          \/ m = n /\ k = Real /\ entry'[m][k] = l /\ stage'[n][l] = "key"
    <2>1. CASE entry' = Renamed(n, l) /\ stage' = [stage EXCEPT ![n][l] = "key"]
      BY <1>5, <1>6, <2>1 DEF TypeOK
    <2>2. CASE entry' = [Renamed(n, l) EXCEPT ![n][Real] = Absent]
      <3>1. Renamed(n, l) \in [Node -> [Key -> 0 .. MaxLinks]]
        BY RenamedTyped
      <3>2. QED
        BY <1>2, <1>5, <2>2, <3>1
    <2>3. QED
      BY <1>4, <2>1, <2>2
  <1>8. EntryIsLive'
    <2> SUFFICES ASSUME NEW m \in Node, NEW k \in Key, entry'[m][k] # Absent
                 PROVE  stage'[m][entry'[m][k]] \in Running
      BY DEF EntryIsLive
    <2>1. CASE entry'[m][k] = entry[m][k] /\ (m # n \/ k \notin {Real, old})
      <3>1. /\ entry[m][k] \in Link /\ stage[m][entry[m][k]] \in Running
            /\ PeerId(m, entry[m][k]) = k
        BY <2>1, EntryLink DEF TableInv, EntryIsLive, EntryIsOwn
      <3>2. m # n \/ entry[m][k] # l
        BY <2>1, <3>1
      <3>3. QED
        BY <1>6, <2>1, <3>1, <3>2
    <2>2. CASE m = n /\ entry'[m][k] = l /\ stage'[n][l] = "key"
      BY <2>2 DEF Running
    <2>3. QED
      BY <1>7, <2>1, <2>2
  <1>9. EntryIsOwn'
    <2> SUFFICES ASSUME NEW m \in Node, NEW k \in Key, entry'[m][k] # Absent
                 PROVE  id'[m][Obj(m, entry'[m][k])] = k
      BY <1>1 DEF EntryIsOwn, PeerId, Obj
    <2>1. CASE entry'[m][k] = entry[m][k] /\ (m # n \/ k \notin {Real, old})
      <3>1. /\ entry[m][k] \in Link /\ id[m][Obj(m, entry[m][k])] = k
        BY <2>1, EntryLink DEF TableInv, EntryIsOwn, PeerId
      <3>2. Obj(m, entry[m][k]) \in PeerObject
        BY <3>1, Ends
      <3>3. m # n \/ Obj(m, entry[m][k]) # Obj(n, l)
        BY <2>1, <3>1 DEF PeerId
      <3>4. QED
        BY <1>3, <2>1, <3>1, <3>2, <3>3
    <2>2. CASE m = n /\ k = Real /\ entry'[m][k] = l
      BY <1>2, <1>3, <2>2
    <2>3. QED
      BY <1>7, <2>1, <2>2
  <1>10. StageFits'
    <2> SUFFICES ASSUME NEW m \in Node, NEW i \in Link
                 PROVE  /\ opener[i] = "none" => stage'[m][i] = "none"
                        /\ stage'[m][i] = "reading" => opener[i] # m
                        /\ stage'[m][i] \in {"none", "reading"} => id'[m][i] = TempId(i)
      BY <1>1 DEF StageFits
    <2>1. /\ opener[i] = "none" => stage[m][i] = "none"
          /\ stage[m][i] = "reading" => opener[i] # m
          /\ stage[m][i] \in {"none", "reading"} => id[m][i] = TempId(i)
      BY DEF TableInv, StageFits
    <2>2. CASE m = n /\ i = l
      BY <1>6, <2>1, <2>2 DEF Running
    <2>3. CASE m # n \/ i # l
      <3>1. stage'[m][i] = stage[m][i]
        BY <1>6, <2>3
      <3>2. m # n \/ Obj(n, l) # i
        BY <1>2, <2>3 DEF Obj
      <3>3. id'[m][i] = id[m][i]
        BY <1>2, <1>3, <3>2
      <3>4. QED
        BY <2>1, <3>1, <3>3
    <2>4. QED
      BY <2>2, <2>3
  <1>11. QED
    BY <1>8, <1>9, <1>10 DEF TableInv

-----------------------------------------------------------------------------
(* The inductive step.                                                     *)

LEMMA HandlerKeeps ==
    ASSUME TypeOK, TableInv, NEW n \in Node, NEW l \in Link, Handler(n, l)
    PROVE  TableInv'
  <1>1. CASE HandleIncoming(n, l)
    BY <1>1, IncomingKeeps
  <1>2. CASE RefuseIncoming(n, l)
    <2>1. /\ stage[n][l] = "reading" /\ stage' = [stage EXCEPT ![n][l] = "gone"]
          /\ UNCHANGED <<id, opener, entry>>
      BY <1>2 DEF RefuseIncoming, tableVars, callVars
    <2>2. QED
      BY <2>1, QuietLeaves, LeavingKeeps DEF Running
  <1>3. CASE SkipHandshake(n, l) \/ ReadKey(n, l)
    <2>1. stage[n][l] # "none" /\ NextMessage(n, l) /\ UNCHANGED <<id, opener>>
      BY <1>3 DEF SkipHandshake, Starting, ReadKey, callVars
    <2>2. QED
      BY <2>1, NextLeaves, LeavingKeeps
  <1>4. CASE ClientHello(n, l)
    <2>1. stage[n][l] = "created" /\ UNCHANGED <<id, opener>>
      BY <1>4 DEF ClientHello, Starting, callVars
    <2>2. CASE stage' = [stage EXCEPT ![n][l] = "hello"] /\ UNCHANGED entry
      BY <2>1, <2>2, QuietLeaves, LeavingKeeps DEF Running
    <2>3. CASE CleanupConnection(n, l, entry, PeerId(n, l))
      BY <2>1, <2>3, CleanupLeaves, LeavingKeeps
    <2>4. QED
      BY <1>4, <2>2, <2>3 DEF ClientHello
  <1>5. CASE ServerHello(n, l) \/ ReadHello(n, l)
    <2>1. stage[n][l] \in Running
      BY <1>5 DEF ServerHello, ReadHello, Starting, Running
    <2>2. \E box, sent : ComputeSecret(n, l, box, sent)
      BY <1>5 DEF ServerHello, ReadHello
    <2>3. QED
      BY <2>1, <2>2, SecretKeeps
  <1>6. CASE WrongMessage(n, l) \/ ReadRaises(n, l) \/ HandleMessage(n, l)
    <2>1. stage[n][l] # "none" /\ UNCHANGED <<id, opener>>
      BY <1>6 DEF WrongMessage, ReadRaises, HandleMessage, callVars
    <2>2. NextMessage(n, l) \/ CleanupConnection(n, l, entry, PeerId(n, l))
      BY <1>6 DEF WrongMessage, ReadRaises, HandleMessage
    <2>3. QED
      BY <2>1, <2>2, NextLeaves, CleanupLeaves, LeavingKeeps
  <1>7. QED
    BY <1>1, <1>2, <1>3, <1>4, <1>5, <1>6 DEF Handler

LEMMA CallKeeps ==
    ASSUME TypeOK, TableInv, NEW n \in Node, ConnectToPeer(n) \/ Call(n)
    PROVE  TableInv'
  <1>1. CASE ConnectToPeer(n) \/ OpenConnection(n) \/ ConnectFails(n)
    <2>1. UNCHANGED <<id, opener, stage, entry>>
      BY <1>1 DEF ConnectToPeer, OpenConnection, ConnectFails, tableVars
    <2>2. QED
      BY <2>1, RemovalLeaves, LeavingKeeps
  <1>2. CASE \E l \in Link : Connected(n, l)
    BY <1>2, ConnectedKeeps
  <1>3. QED
    BY <1>1, <1>2 DEF Call

LEMMA RestKeeps ==
    ASSUME TypeOK, TableInv, NEW n \in Node,
           \/ SendToPeer(n) \/ ReplyToPeer(n) \/ Freeze(n) \/ HealthCheck(n)
           \/ \E k \in Key : DisconnectFromPeer(n, k)
           \/ \E l \in Link : Disconnected(n, l) \/ CutLink(l)
           \/ UNCHANGED vars
    PROVE  TableInv'
  <1>1. UNCHANGED <<id, opener, stage>>
    BY DEF SendToPeer, ReplyToPeer, Freeze, HealthCheck, StartRound, Ping, StillAlive, Timeout,
           DisconnectFromPeer, Disconnected, CutLink, vars, tableVars, callVars
  <1>2. entry' = entry \/ \E m \in Node, k \in Key : entry' = [entry EXCEPT ![m][k] = Absent]
    BY DEF SendToPeer, ReplyToPeer, Freeze, HealthCheck, StartRound, Ping, StillAlive, Timeout,
           DisconnectFromPeer, Disconnect, Disconnected, CutLink, vars, tableVars
  <1>3. QED
    BY <1>1, <1>2, RemovalLeaves, LeavingKeeps

\* The inductive invariant of the table, whatever calls cross, whoever
\* disconnects and whatever is lost (connection_manager.py:213, 293, 365-367,
\* 399-401, 438).
THEOREM TableSafe == Spec => []TableInv
  <1>1. Init => TableInv
    <2> SUFFICES ASSUME Init
                 PROVE  TableInv
      OBVIOUS
    <2>1. \A n \in Node, k \in Key : entry[n][k] = Absent
      BY DEF Init
    <2>2. StageFits
      BY LinksAssumption DEF Init, StageFits, PeerObject, Link, TempId
    <2>3. QED
      BY <2>1, <2>2 DEF TableInv, EntryIsLive, EntryIsOwn
  <1>2. TypeOK /\ TableInv /\ [Next]_vars => TableInv'
    <2> SUFFICES ASSUME TypeOK, TableInv, [Next]_vars
                 PROVE  TableInv'
      OBVIOUS
    <2>1. "a" \in Node
      BY DEF Node
    <2>2. CASE UNCHANGED vars \/ \E l \in Link : CutLink(l)
      BY <2>1, <2>2, RestKeeps
    <2>3. ASSUME NEW n \in Node, ConnectToPeer(n) \/ Call(n)
          PROVE  TableInv'
      BY <2>3, CallKeeps
    <2>4. ASSUME NEW n \in Node, NEW l \in Link, Handler(n, l)
          PROVE  TableInv'
      BY <2>4, HandlerKeeps
    <2>5. ASSUME NEW n \in Node,
                 \/ SendToPeer(n) \/ ReplyToPeer(n) \/ Freeze(n) \/ HealthCheck(n)
                 \/ \E k \in Key : DisconnectFromPeer(n, k)
                 \/ \E l \in Link : Disconnected(n, l)
          PROVE  TableInv'
      BY <2>5, RestKeeps
    <2>6. QED
      BY <2>2, <2>3, <2>4, <2>5 DEF Next
  <1>3. QED
    BY <1>1, <1>2, TypeCorrect, PTL DEF Spec

\* No entry is left behind: each leads to a connection whose coroutine still
\* runs and will remove it (connection_manager.py:436-439).
THEOREM EntriesLive == Spec => []EntryIsLive
  <1>1. TableInv => EntryIsLive
    BY DEF TableInv
  <1>2. QED
    BY <1>1, TableSafe, PTL
=============================================================================
