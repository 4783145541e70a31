-------------------------- MODULE HandshakeProofs --------------------------
(***************************************************************************)
(* The two ends of every connection agree on its session key, for any      *)
(* number of connections, whatever crosses, ends or is lost.               *)
(***************************************************************************)
EXTENDS ConnectionTableProofs

LEMMA OtherOther == \A n \in Node : Other(Other(n)) = n /\ Other(n) # n
  BY DEF Node, Other

-----------------------------------------------------------------------------
(* What may be in the boxes after a step.                                  *)

KnownThen(type, m, i) ==
    /\ type = "key" => Shook(Other(m), i)'
    /\ type \in {"ping", "data"} => key'[Other(m)][i] # NoKey
    /\ type = "pong" => key'[m][i] # NoKey
BoxFits(box) ==
    \A m \in Node, i \in Link : \A j \in DOMAIN box[m][i] :
      box[m][i][j].of = <<Other(m), i>> /\ KnownThen(box[m][i][j].type, m, i)

ShookStays ==
    \A m \in Node, i \in Link :
      /\ Shook(m, i) => Shook(m, i)'
      /\ key[m][i] # NoKey => key'[m][i] # NoKey

LEMMA KnownStays ==
    ASSUME ShookStays, NEW m \in Node, NEW i \in Link, NEW type, Known(type, m, i)
    PROVE  KnownThen(type, m, i)
  BY Ends DEF ShookStays, Known, KnownThen

LEMMA BoxStays ==
    ASSUME InboxFits, ShookStays
    PROVE  BoxFits(inbox)
  BY KnownStays DEF InboxFits, BoxFits

LEMMA ReadFits ==
    ASSUME TypeOK, BoxFits(inbox), NEW n \in Node, NEW l \in Link, inbox[n][l] # <<>>
    PROVE  BoxFits(Read(n, l))
  <1>1. inbox \in [Node -> [Link -> Seq(Message)]] /\ inbox[n][l] \in Seq(Message)
    BY DEF TypeOK
  <1>2. \A j \in DOMAIN Tail(inbox[n][l]) :
          j + 1 \in DOMAIN inbox[n][l] /\ Tail(inbox[n][l])[j] = inbox[n][l][j + 1]
    BY <1>1
  <1>3. \A m \in Node, i \in Link :
          Read(n, l)[m][i] = IF m = n /\ i = l THEN Tail(inbox[n][l]) ELSE inbox[m][i]
    BY <1>1 DEF Read
  <1>4. SUFFICES ASSUME NEW m \in Node, NEW i \in Link, NEW j \in DOMAIN Read(n, l)[m][i]
                 PROVE  /\ Read(n, l)[m][i][j].of = <<Other(m), i>>
                        /\ KnownThen(Read(n, l)[m][i][j].type, m, i)
    BY DEF BoxFits
  <1>5. \E k \in DOMAIN inbox[m][i] : Read(n, l)[m][i][j] = inbox[m][i][k]
    BY <1>2, <1>3
  <1>6. QED
    BY <1>5 DEF BoxFits

LEMMA DeliverFits ==
    ASSUME NEW box \in [Node -> [Link -> Seq(Message)]], BoxFits(box),
           NEW n \in Node, NEW l \in Link, NEW ms \in Seq(Message),
           \A j \in DOMAIN ms : /\ ms[j].of = <<n, l>>
                                /\ KnownThen(ms[j].type, Other(n), l)
    PROVE  BoxFits(Deliver(box, n, l, ms))
  <1>1. CASE Deliver(box, n, l, ms) = box
    BY <1>1 DEF BoxFits
  <1>2. CASE Deliver(box, n, l, ms) = [box EXCEPT ![Other(n)][l] = @ \o ms]
    <2> DEFINE old == box[Other(n)][l]
    <2>1. old \in Seq(Message) /\ Other(n) \in Node
      BY Ends
    <2>2. \A j \in DOMAIN (old \o ms) :
            \/ j \in DOMAIN old /\ (old \o ms)[j] = old[j]
            \/ \E k \in DOMAIN ms : (old \o ms)[j] = ms[k]
      <3> HIDE DEF old
      <3> SUFFICES ASSUME NEW j \in DOMAIN (old \o ms), j \notin DOMAIN old
                   PROVE  j - Len(old) \in DOMAIN ms /\ (old \o ms)[j] = ms[j - Len(old)]
        BY <2>1
      <3> QED
        BY <2>1
    <2>3. \A m \in Node, i \in Link :
            Deliver(box, n, l, ms)[m][i] =
              IF m = Other(n) /\ i = l THEN old \o ms ELSE box[m][i]
      BY <1>2, <2>1
    <2>4. SUFFICES ASSUME NEW m \in Node, NEW i \in Link,
                          NEW j \in DOMAIN Deliver(box, n, l, ms)[m][i]
                   PROVE  LET x == Deliver(box, n, l, ms)[m][i][j]
                          IN  x.of = <<Other(m), i>> /\ KnownThen(x.type, m, i)
      BY DEF BoxFits
    <2>5. CASE m = Other(n) /\ i = l
      <3>1. Other(m) = n
        BY <2>5, OtherOther
      <3>2. j \in DOMAIN (old \o ms) /\ Deliver(box, n, l, ms)[m][i][j] = (old \o ms)[j]
        BY <2>3, <2>5
      <3>3. CASE j \in DOMAIN old /\ (old \o ms)[j] = old[j]
        BY <2>5, <3>2, <3>3 DEF BoxFits
      <3>4. CASE \E k \in DOMAIN ms : (old \o ms)[j] = ms[k]
        BY <2>5, <3>1, <3>2, <3>4
      <3>5. QED
        BY <2>2, <3>2, <3>3, <3>4
    <2>6. CASE ~(m = Other(n) /\ i = l)
      BY <2>3, <2>6 DEF BoxFits
    <2>7. QED
      BY <2>5, <2>6
  <1>3. QED
    BY <1>1, <1>2 DEF Deliver

\* One message.
LEMMA DeliverOneFits ==
    ASSUME NEW box \in [Node -> [Link -> Seq(Message)]], BoxFits(box),
           NEW n \in Node, NEW l \in Link, NEW type \in MsgType,
           KnownThen(type, Other(n), l)
    PROVE  BoxFits(Deliver(box, n, l, <<Msg(type, n, l)>>))
  <1>1. <<Msg(type, n, l)>> \in Seq(Message)
    BY MsgTyped
  <1>2. \A j \in DOMAIN <<Msg(type, n, l)>> :
          /\ <<Msg(type, n, l)>>[j].of = <<n, l>>
          /\ <<Msg(type, n, l)>>[j].type = type
    BY DEF Msg
  <1>3. QED
    BY <1>1, <1>2, DeliverFits

-----------------------------------------------------------------------------
(* Steps that make no key and begin no handshake.                          *)

\* Stages stay, or move beyond the handshake, into the loop only past it.
MovesOn == \A m \in Node, i \in Link :
             \/ stage'[m][i] \in {stage[m][i], "gone"}
             \/ stage'[m][i] = "loop" /\ stage[m][i] \notin {"key", "gone"}

LEMMA MovesOnShook ==
    ASSUME MovesOn, key' = key
    PROVE  ShookStays
  BY DEF MovesOn, ShookStays, Shook

LEMMA QuietKeeps ==
    ASSUME HandshakeInv, UNCHANGED <<pub, key, opener>>, MovesOn, BoxFits(inbox')
    PROVE  HandshakeInv'
  <1>1. ShookStays
    BY MovesOnShook
  <1>2. KeysAgree'
    BY <1>1, Ends DEF HandshakeInv, KeysAgree, ShookStays
  <1>3. InboxFits'
    BY DEF InboxFits, BoxFits, Known, KnownThen
  <1>4. PubFits'
    BY DEF HandshakeInv, PubFits, HasPub, MovesOn
  <1>5. QED
    BY <1>2, <1>3, <1>4 DEF HandshakeInv

LEMMA NextMovesOn ==
    ASSUME TypeOK, NEW n \in Node, NEW l \in Link,
           \/ NextMessage(n, l) /\ stage[n][l] \notin {"key", "gone"}
           \/ CleanupConnection(n, l, entry, PeerId(n, l))
    PROVE  MovesOn
  <1>1. PICK s \in {"loop", "gone"} :
          /\ stage' = [stage EXCEPT ![n][l] = s]
          /\ s = "loop" => stage[n][l] \notin {"key", "gone"}
    BY DEF NextMessage, CleanupConnection
  <1>2. QED
    BY <1>1 DEF TypeOK, MovesOn

\* The box as it is, or with one message more.
LEMMA SentFits ==
    ASSUME TypeOK, HandshakeInv, MovesOn, key' = key, NEW n \in Node, NEW l \in Link,
           NEW type \in MsgType, KnownThen(type, Other(n), l),
           inbox' = inbox \/ inbox' = Deliver(inbox, n, l, <<Msg(type, n, l)>>)
    PROVE  BoxFits(inbox')
  <1>1. BoxFits(inbox) /\ inbox \in [Node -> [Link -> Seq(Message)]]
    BY MovesOnShook, BoxStays DEF HandshakeInv, TypeOK
  <1>2. BoxFits(Deliver(inbox, n, l, <<Msg(type, n, l)>>))
    BY <1>1, DeliverOneFits
  <1>3. QED
    BY <1>1, <1>2

LEMMA LoopShakes ==
    ASSUME TypeOK, HandshakeInv, NEW n \in Node, NEW l \in Link,
           SkipHandshake(n, l) \/ WrongMessage(n, l) \/ ReadRaises(n, l) \/ HandleMessage(n, l)
    PROVE  HandshakeInv'
  <1>1. UNCHANGED <<pub, key, opener>>
    BY DEF SkipHandshake, WrongMessage, ReadRaises, HandleMessage, shakeVars, callVars
  <1>2. MovesOn
    BY NextMovesOn DEF SkipHandshake, Starting, WrongMessage, ReadRaises, HandleMessage
  <1>3. BoxFits(inbox)
    BY <1>1, <1>2, MovesOnShook, BoxStays DEF HandshakeInv
  <1>4. CASE inbox' = inbox
    BY <1>1, <1>2, <1>3, <1>4, QuietKeeps
  <1>5. CASE /\ inbox[n][l] # <<>>
             /\ \/ inbox' = Read(n, l)
                \/ /\ Head1(n, l) = "ping"
                   /\ inbox' = Deliver(Read(n, l), n, l, <<Msg("pong", n, l)>>)
    <2>1. BoxFits(Read(n, l)) /\ Read(n, l) \in [Node -> [Link -> Seq(Message)]]
      BY <1>3, <1>5, ReadFits, ReadTyped
    <2>2. CASE Head1(n, l) = "ping"
      <3>1. inbox[n][l] \in Seq(Message)
        BY DEF TypeOK
      <3>2. 1 \in DOMAIN inbox[n][l] /\ inbox[n][l][1].type = "ping"
        BY <1>5, <2>2, <3>1 DEF Head1
      <3>3. key[Other(n)][l] # NoKey
        BY <3>2 DEF HandshakeInv, InboxFits, Known
      <3>4. KnownThen("pong", Other(n), l)
        BY <1>1, <3>3 DEF KnownThen
      <3>5. BoxFits(Deliver(Read(n, l), n, l, <<Msg("pong", n, l)>>))
        BY <2>1, <3>4, DeliverOneFits DEF MsgType
      <3>6. QED
        BY <1>1, <1>2, <1>5, <2>1, <3>5, QuietKeeps
    <2>3. QED
      BY <1>1, <1>2, <1>5, <2>1, <2>2, QuietKeeps
  <1>6. QED
    BY <1>4, <1>5 DEF SkipHandshake, WrongMessage, ReadRaises, HandleMessage

LEMMA RestShakes ==
    ASSUME TypeOK, HandshakeInv, NEW n \in Node,
           \/ ConnectToPeer(n) \/ OpenConnection(n) \/ ConnectFails(n)
           \/ SendToPeer(n) \/ ReplyToPeer(n) \/ Freeze(n) \/ HealthCheck(n)
           \/ \E k \in Key : DisconnectFromPeer(n, k)
           \/ \E l \in Link : Disconnected(n, l) \/ CutLink(l)
           \/ UNCHANGED vars
    PROVE  HandshakeInv'
  <1>1. UNCHANGED <<pub, key, opener, stage>>
    BY DEF ConnectToPeer, OpenConnection, ConnectFails, SendToPeer, ReplyToPeer, Freeze,
           HealthCheck, StartRound, Ping, StillAlive, Timeout, DisconnectFromPeer,
           Disconnected, CutLink, vars, shakeVars, callVars
  <1>2. MovesOn
    BY <1>1 DEF MovesOn
  <1>3. BoxFits(inbox)
    BY <1>1, <1>2, MovesOnShook, BoxStays DEF HandshakeInv
  <1>4. CASE inbox' = inbox
    BY <1>1, <1>2, <1>3, <1>4, QuietKeeps
  <1>5. ASSUME NEW l \in Link, NEW type \in MsgType, KnownThen(type, Other(n), l),
               inbox' = Deliver(inbox, n, l, <<Msg(type, n, l)>>)
        PROVE  HandshakeInv'
    BY <1>1, <1>2, <1>5, SentFits, QuietKeeps
  <1>6. CASE \E k \in Key : entry[n][k] # Absent /\ Disconnect(n, k)
    <2>1. PICK k \in Key : entry[n][k] # Absent /\ Disconnect(n, k)
      BY <1>6
    <2>2. entry[n][k] \in Link
      BY <2>1, EntryLink
    <2>3. \/ inbox' = inbox
          \/ inbox' = Deliver(inbox, n, entry[n][k], <<Msg("disconnect", n, entry[n][k])>>)
      BY <2>1 DEF Disconnect
    <2>4. QED
      BY <1>4, <1>5, <2>2, <2>3 DEF MsgType, KnownThen
  <1>7. CASE SendToPeer(n) \/ ReplyToPeer(n)
    <2>1. PICK l \in Link, type \in {"data", "clear"} :
            /\ inbox' = Deliver(inbox, n, l, <<Msg(type, n, l)>>)
            /\ type = "data" => key[n][l] # NoKey
      BY <1>7, EntryLink, Keys DEF SendToPeer, ReplyToPeer
    <2>2. KnownThen(type, Other(n), l)
      BY <1>1, <2>1, OtherOther DEF KnownThen
    <2>3. QED
      BY <1>5, <2>1, <2>2 DEF MsgType
  <1>8. ASSUME NEW k \in Key, NEW l \in Link, Ping(n, k, l)
        PROVE  HandshakeInv'
    <2>1. inbox' = inbox \/ inbox' = Deliver(inbox, n, l, <<Msg("ping", n, l)>>)
      BY <1>8 DEF Ping
    <2>2. KnownThen("ping", Other(n), l)
      BY <1>1, <1>8, OtherOther DEF KnownThen, Ping
    <2>3. QED
      BY <1>4, <1>5, <2>1, <2>2 DEF MsgType
  <1>9. \/ inbox' = inbox
        \/ SendToPeer(n) \/ ReplyToPeer(n)
        \/ \E k \in Key : entry[n][k] # Absent /\ Disconnect(n, k)
        \/ \E k \in Key, l \in Link : Ping(n, k, l)
    BY DEF ConnectToPeer, OpenConnection, ConnectFails, Freeze, HealthCheck, StartRound,
           StillAlive, Timeout, DisconnectFromPeer, Disconnected, CutLink, vars
  <1>10. QED
    BY <1>4, <1>6, <1>7, <1>8, <1>9

-----------------------------------------------------------------------------
(* The steps of the handshake.                                             *)

\* What a step of one end has to show.
LEMMA EndKeeps ==
    ASSUME HandshakeInv, NEW n \in Node, NEW l \in Link,
           opener' = opener, ShookStays, BoxFits(inbox'),
           \A m \in Node, i \in Link :
             (m = n /\ i = l) \/ ( /\ stage'[m][i] = stage[m][i]
                                   /\ pub'[m][i] = pub[m][i]
                                   /\ key'[m][i] = key[m][i] ),
           HasPub(n, l)' => pub'[n][l] = <<Other(n), l>>,
           key'[n][l] = key[n][l] \/ (key'[n][l] = KeyOf(l) /\ Shook(Other(n), l)')
    PROVE  HandshakeInv'
  <1>1. KeysAgree'
    <2> SUFFICES ASSUME NEW m \in Node, NEW i \in Link, key'[m][i] # NoKey
                 PROVE  key'[m][i] = KeyOf(i) /\ Shook(Other(m), i)'
      BY DEF KeysAgree
    <2>1. CASE key'[m][i] = key[m][i]
      BY <2>1, Ends DEF HandshakeInv, KeysAgree, ShookStays
    <2>2. CASE m = n /\ i = l
      BY <2>1, <2>2
    <2>3. QED
      BY <2>1, <2>2
  <1>2. InboxFits'
    BY DEF InboxFits, BoxFits, Known, KnownThen
  <1>3. PubFits'
    <2> SUFFICES ASSUME NEW m \in Node, NEW i \in Link,
                        HasPub(m, i)'
                 PROVE  pub'[m][i] = <<Other(m), i>>
      BY DEF PubFits
    <2>1. CASE m = n /\ i = l
      BY <2>1
    <2>2. CASE ~(m = n /\ i = l)
      BY <2>2 DEF HandshakeInv, PubFits, HasPub
    <2>3. QED
      BY <2>1, <2>2
  <1>4. QED
    BY <1>1, <1>2, <1>3 DEF HandshakeInv

\* The stage of one end changes, to what its last stage allows.
LEMMA StageMoves ==
    ASSUME TypeOK, NEW n \in Node, NEW l \in Link, NEW s \in Stage,
           stage' = [stage EXCEPT ![n][l] = s],
           \A m \in Node, i \in Link : key[m][i] # NoKey => key'[m][i] # NoKey,
           stage[n][l] \in {"key", "gone"} => s \in {"key", "gone"} \/ key'[n][l] # NoKey
    PROVE  /\ ShookStays /\ stage'[n][l] = s
           /\ \A m \in Node, i \in Link :
                (m = n /\ i = l) \/ stage'[m][i] = stage[m][i]
  <1>1. /\ stage'[n][l] = s
        /\ \A m \in Node, i \in Link :
             (m = n /\ i = l) \/ stage'[m][i] = stage[m][i]
    BY DEF TypeOK
  <1>2. ASSUME NEW m \in Node, NEW i \in Link, Shook(m, i)
        PROVE  Shook(m, i)'
    <2>1. CASE m = n /\ i = l
      BY <1>1, <1>2, <2>1 DEF Shook
    <2>2. CASE ~(m = n /\ i = l)
      BY <1>1, <1>2, <2>2 DEF Shook
    <2>3. QED
      BY <2>1, <2>2
  <1>3. \A m \in Node, i \in Link : Shook(m, i) => Shook(m, i)'
    BY <1>2
  <1>4. ShookStays
    BY <1>3 DEF ShookStays
  <1>5. QED
    BY <1>1, <1>4

LEMMA ConnectedShakes ==
    ASSUME TypeOK, TableInv, HandshakeInv, NEW n \in Node, NEW l \in Link, Connected(n, l)
    PROVE  HandshakeInv'
  <1>1. /\ opener[l] = "none"
        /\ opener' = [opener EXCEPT ![l] = n]
        /\ stage' = [stage EXCEPT ![n][l] = "created", ![Other(n)][l] = "reading"]
        /\ UNCHANGED <<pub, key, inbox>>
    BY DEF Connected, shakeVars
  <1>2. \A m \in Node : stage[m][l] = "none"
    BY <1>1 DEF TableInv, StageFits
  <1>3. Other(n) \in Node /\ Other(n) # n /\ \A m \in Node : m = n \/ m = Other(n)
    BY DEF Other, Node
  <1>4. /\ \A m \in Node, i \in Link \ {l} : stage'[m][i] = stage[m][i] /\ opener'[i] = opener[i]
        /\ stage'[n][l] = "created" /\ stage'[Other(n)][l] = "reading" /\ opener'[l] = n
    BY <1>1, <1>3 DEF TypeOK
  <1>5. ShookStays
    BY <1>1, <1>2, <1>4 DEF ShookStays, Shook
  <1>6. KeysAgree'
    BY <1>1, <1>5, Ends DEF HandshakeInv, KeysAgree, ShookStays
  <1>7. InboxFits'
    BY <1>1, <1>5, BoxStays DEF HandshakeInv, InboxFits, BoxFits, Known, KnownThen
  <1>8. PubFits'
    <2> SUFFICES ASSUME NEW m \in Node, NEW i \in Link,
                        HasPub(m, i)'
                 PROVE  pub[m][i] = <<Other(m), i>>
      BY <1>1 DEF PubFits
    <2>1. i # l
      BY <1>3, <1>4 DEF HasPub
    <2>2. QED
      BY <1>4, <2>1 DEF HandshakeInv, PubFits, HasPub
  <1>9. QED
    BY <1>6, <1>7, <1>8 DEF HandshakeInv

LEMMA HelloShakes ==
    ASSUME TypeOK, HandshakeInv, NEW n \in Node, NEW l \in Link,
           HandleIncoming(n, l) \/ RefuseIncoming(n, l) \/ ClientHello(n, l)
    PROVE  HandshakeInv'
  <1>1. CASE HandleIncoming(n, l)
    <2>1. /\ stage[n][l] = "reading" /\ inbox[n][l] # <<>>
          /\ stage' = [stage EXCEPT ![n][l] = "created"]
          /\ pub' = [pub EXCEPT ![n][l] = Head(inbox[n][l]).of]
          /\ inbox' = Read(n, l)
          /\ key' = key /\ opener' = opener
      BY <1>1 DEF HandleIncoming, callVars
    <2>2. /\ ShookStays /\ stage'[n][l] = "created"
          /\ \A m \in Node, i \in Link :
               (m = n /\ i = l) \/ stage'[m][i] = stage[m][i]
      BY <2>1, StageMoves DEF Stage
    <2>3. Head(inbox[n][l]).of = <<Other(n), l>>
      <3>1. inbox[n][l] \in Seq(Message)
        BY DEF TypeOK
      <3>2. 1 \in DOMAIN inbox[n][l] /\ Head(inbox[n][l]) = inbox[n][l][1]
        BY <2>1, <3>1
      <3>3. QED
        BY <3>2 DEF HandshakeInv, InboxFits
    <2>4. /\ pub'[n][l] = <<Other(n), l>>
          /\ \A m \in Node, i \in Link : (m = n /\ i = l) \/ pub'[m][i] = pub[m][i]
      BY <2>1, <2>3 DEF TypeOK
    <2>5. BoxFits(inbox')
      BY <2>1, <2>2, BoxStays, ReadFits DEF HandshakeInv
    <2>6. QED
      BY <2>1, <2>2, <2>4, <2>5, EndKeeps
  <1>2. CASE RefuseIncoming(n, l)
    <2>1. /\ stage' = [stage EXCEPT ![n][l] = "gone"]
          /\ UNCHANGED <<pub, key, opener, inbox>>
      BY <1>2 DEF RefuseIncoming, shakeVars, callVars
    <2>2. MovesOn
      BY <2>1 DEF TypeOK, MovesOn
    <2>3. QED
      BY <2>1, <2>2, MovesOnShook, BoxStays, QuietKeeps DEF HandshakeInv
  <1>3. CASE ClientHello(n, l)
    <2>1. UNCHANGED <<pub, key, opener>> /\ stage[n][l] = "created"
      BY <1>3 DEF ClientHello, Starting, shakeVars, callVars
    <2>2. CASE /\ inbox' = Deliver(inbox, n, l, <<Msg("hello", n, l)>>)
               /\ stage' = [stage EXCEPT ![n][l] = "hello"]
      <3>1. /\ ShookStays /\ stage'[n][l] = "hello"
            /\ \A m \in Node, i \in Link :
                 (m = n /\ i = l) \/ stage'[m][i] = stage[m][i]
        BY <2>1, <2>2, StageMoves DEF Stage
      <3>2. BoxFits(inbox) /\ inbox \in [Node -> [Link -> Seq(Message)]]
        BY <3>1, BoxStays DEF HandshakeInv, TypeOK
      <3>3. BoxFits(inbox')
        BY <2>2, <3>2, DeliverOneFits DEF MsgType, KnownThen
      <3>4. ~HasPub(n, l)'
        BY <2>1, <3>1 DEF HasPub
      <3>5. QED
        BY <2>1, <3>1, <3>3, <3>4, EndKeeps
    <2>3. CASE CleanupConnection(n, l, entry, PeerId(n, l)) /\ UNCHANGED inbox
      BY <2>1, <2>3, NextMovesOn, MovesOnShook, BoxStays, QuietKeeps DEF HandshakeInv
    <2>4. QED
      BY <1>3, <2>2, <2>3 DEF ClientHello
  <1>4. QED
    BY <1>1, <1>2, <1>3

LEMMA SecretShakes ==
    ASSUME TypeOK, HandshakeInv, NEW n \in Node, NEW l \in Link,
           ServerHello(n, l) \/ ReadHello(n, l)
    PROVE  HandshakeInv'
  <1>1. PICK box \in [Node -> [Link -> Seq(Message)]],
             sent \in {<<>>, <<Msg("hello", n, l)>>} :
          /\ ComputeSecret(n, l, box, sent)
          /\ box = inbox \/ (box = Read(n, l) /\ inbox[n][l] # <<>>)
    BY ReadTyped DEF ServerHello, ReadHello, TypeOK
  <1>2. /\ key' = key /\ opener' = opener
        /\ \/ /\ inbox' = Deliver(box, n, l, sent \o <<Msg("key", n, l)>>)
              /\ stage' = [stage EXCEPT ![n][l] = "key"]
           \/ /\ inbox' = box
              /\ stage' = [stage EXCEPT ![n][l] = "gone"]
    BY <1>1 DEF ComputeSecret, CleanupConnection, callVars
  <1>3. /\ ShookStays /\ stage'[n][l] \in {"key", "gone"}
        /\ \A m \in Node, i \in Link :
             (m = n /\ i = l) \/ stage'[m][i] = stage[m][i]
    BY <1>2, StageMoves DEF Stage
  <1>4. /\ pub'[n][l] = <<Other(n), l>>
        /\ \A m \in Node, i \in Link : (m = n /\ i = l) \/ pub'[m][i] = pub[m][i]
    <2>1. CASE ServerHello(n, l)
      BY <2>1 DEF ServerHello, Starting, HandshakeInv, PubFits, HasPub
    <2>2. CASE ReadHello(n, l)
      <3>1. inbox[n][l] # <<>> /\ pub' = [pub EXCEPT ![n][l] = Head(inbox[n][l]).of]
        BY <2>2 DEF ReadHello
      <3>2. inbox[n][l] \in Seq(Message)
        BY DEF TypeOK
      <3>3. 1 \in DOMAIN inbox[n][l] /\ Head(inbox[n][l]) = inbox[n][l][1]
        BY <3>1, <3>2
      <3>4. Head(inbox[n][l]).of = <<Other(n), l>>
        BY <3>3 DEF HandshakeInv, InboxFits
      <3>5. QED
        BY <3>1, <3>4 DEF TypeOK
    <2>3. QED
      BY <2>1, <2>2
  <1>5. BoxFits(box)
    BY <1>1, <1>3, BoxStays, ReadFits DEF HandshakeInv
  <1>6. BoxFits(inbox')
    <2>1. CASE inbox' = box
      BY <1>5, <2>1
    <2>2. CASE /\ inbox' = Deliver(box, n, l, sent \o <<Msg("key", n, l)>>)
               /\ stage' = [stage EXCEPT ![n][l] = "key"]
      <3>1. Shook(n, l)'
        BY <1>3 DEF Shook
      <3>2. sent \o <<Msg("key", n, l)>> \in Seq(Message)
        BY SentTyped
      <3>3. \A j \in DOMAIN (sent \o <<Msg("key", n, l)>>) :
              /\ (sent \o <<Msg("key", n, l)>>)[j].of = <<n, l>>
              /\ (sent \o <<Msg("key", n, l)>>)[j].type \in {"hello", "key"}
        BY DEF Msg
      <3>4. QED
        BY <1>5, <2>2, <3>1, <3>2, <3>3, OtherOther, DeliverFits DEF KnownThen
    <2>3. QED
      BY <1>2, <2>1, <2>2
  <1>7. QED
    BY <1>2, <1>3, <1>4, <1>6, EndKeeps

LEMMA ReadKeyShakes ==
    ASSUME TypeOK, HandshakeInv, NEW n \in Node, NEW l \in Link, ReadKey(n, l)
    PROVE  HandshakeInv'
  <1>1. /\ stage[n][l] = "key" /\ inbox[n][l] # <<>> /\ Head1(n, l) = "key"
        /\ inbox' = Read(n, l)
        /\ key' = [key EXCEPT ![n][l] = SessionKey(n, l, Head(inbox[n][l]))]
        /\ NextMessage(n, l)
        /\ pub' = pub /\ opener' = opener
    BY DEF ReadKey, callVars
  <1>2. inbox[n][l] \in Seq(Message)
    BY DEF TypeOK
  <1>3. 1 \in DOMAIN inbox[n][l] /\ Head(inbox[n][l]) = inbox[n][l][1]
    BY <1>1, <1>2
  <1>4. Head(inbox[n][l]).of = <<Other(n), l>> /\ Shook(Other(n), l)
    BY <1>1, <1>3 DEF HandshakeInv, InboxFits, Known, Head1
  <1>5. pub[n][l] = <<Other(n), l>>
    BY <1>1 DEF HandshakeInv, PubFits, HasPub
  <1>6. {<<n, l>>, <<Other(n), l>>} = Node \X {l}
    BY DEF Node, Other
  <1>7. SessionKey(n, l, Head(inbox[n][l])) = KeyOf(l)
    BY <1>4, <1>5, <1>6 DEF SessionKey, KeyOf
  <1>8. /\ key'[n][l] = KeyOf(l)
        /\ \A m \in Node, i \in Link : (m = n /\ i = l) \/ key'[m][i] = key[m][i]
    BY <1>1, <1>7 DEF TypeOK
  <1>9. KeyOf(l) # NoKey
    <2>1. <<n, l>> \in KeyOf(l)[1] /\ NoKey[1] = {}
      BY DEF KeyOf, NoKey
    <2>2. QED
      BY <2>1
  <1>10. \A m \in Node, i \in Link : key[m][i] # NoKey => key'[m][i] # NoKey
    BY <1>8, <1>9
  <1>11. \/ stage' = [stage EXCEPT ![n][l] = "loop"]
         \/ stage' = [stage EXCEPT ![n][l] = "gone"]
    BY <1>1 DEF NextMessage, CleanupConnection
  <1>12. /\ ShookStays /\ stage'[n][l] \in {"loop", "gone"}
         /\ \A m \in Node, i \in Link :
              (m = n /\ i = l) \/ stage'[m][i] = stage[m][i]
    BY <1>8, <1>9, <1>10, <1>11, StageMoves DEF Stage
  <1>13. BoxFits(inbox')
    BY <1>1, <1>12, BoxStays, ReadFits DEF HandshakeInv
  <1>14. Shook(Other(n), l)'
    BY <1>4, <1>12, Ends DEF ShookStays
  <1>15. ~HasPub(n, l)'
    BY <1>12 DEF HasPub
  <1>16. QED
    BY <1>1, <1>8, <1>12, <1>13, <1>14, <1>15, EndKeeps

-----------------------------------------------------------------------------
\* The inductive invariant of the handshake, for connections that cross, end
\* or are lost at any moment of it (connection_manager.py:354-425).
THEOREM HandshakeSafe == Spec => []HandshakeInv
  <1>1. Init => HandshakeInv
    BY DEF Init, HandshakeInv, KeysAgree, InboxFits, PubFits, HasPub
  <1>2. TypeOK /\ TableInv /\ HandshakeInv /\ [Next]_vars => HandshakeInv'
    <2> SUFFICES ASSUME TypeOK, TableInv, HandshakeInv, [Next]_vars
                 PROVE  HandshakeInv'
      OBVIOUS
    <2>1. "a" \in Node
      BY DEF Node
    <2>2. CASE UNCHANGED vars \/ \E l \in Link : CutLink(l)
      BY <2>1, <2>2, RestShakes
    <2>3. ASSUME NEW n \in Node, NEW l \in Link, Handler(n, l)
          PROVE  HandshakeInv'
      BY <2>3, LoopShakes, HelloShakes, SecretShakes, ReadKeyShakes DEF Handler
    <2>4. ASSUME NEW n \in Node,
                 \/ ConnectToPeer(n) \/ OpenConnection(n) \/ ConnectFails(n)
                 \/ SendToPeer(n) \/ ReplyToPeer(n) \/ Freeze(n) \/ HealthCheck(n)
                 \/ \E k \in Key : DisconnectFromPeer(n, k)
                 \/ \E l \in Link : Disconnected(n, l)
          PROVE  HandshakeInv'
      BY <2>4, RestShakes
    <2>5. ASSUME NEW n \in Node, NEW l \in Link, Connected(n, l)
          PROVE  HandshakeInv'
      BY <2>5, ConnectedShakes
    <2>6. QED
      BY <2>2, <2>3, <2>4, <2>5 DEF Next, Call
  <1>3. QED
    BY <1>1, <1>2, TypeCorrect, TableSafe, PTL DEF Spec

\* Both ends of a connection that have a session key have the same, made of
\* both key pairs and both salts (connection_manager.py:406-425).
THEOREM KeyAgreement == Spec => []KeysAgree
  <1>1. HandshakeInv => KeysAgree
    BY DEF HandshakeInv
  <1>2. QED
    BY <1>1, HandshakeSafe, PTL

\* What is encrypted can be read: what was written with a session key waits
\* for an end that has the same key, or that has sent its KEY_EXCHANGE and
\* waits for its peer's, or that is gone.
CanDecrypt ==
    \A n \in Node, l \in Link : \A i \in DOMAIN inbox[n][l] :
      inbox[n][l][i].type \in {"ping", "pong", "data"}
        => key[n][l] = KeyOf(l) \/ stage[n][l] \in {"key", "gone"}

\* No message written with a session key comes to an end that skipped the
\* handshake, or is still before it: such an end is only sent HELLO,
\* KEY_EXCHANGE, DISCONNECT and what its peer wrote in the clear
\* (connection_manager.py:69-75, 90-94, 313, 474).
THEOREM EncryptedIsRead == Spec => []CanDecrypt
  <1>1. HandshakeInv => CanDecrypt
    <2> SUFFICES ASSUME HandshakeInv, NEW n \in Node, NEW l \in Link,
                        NEW i \in DOMAIN inbox[n][l],
                        inbox[n][l][i].type \in {"ping", "pong", "data"}
                 PROVE  key[n][l] = KeyOf(l) \/ stage[n][l] \in {"key", "gone"}
      BY DEF CanDecrypt
    <2>1. CASE inbox[n][l][i].type = "pong"
      BY <2>1 DEF HandshakeInv, KeysAgree, InboxFits, Known
    <2>2. CASE inbox[n][l][i].type # "pong"
      <3>1. key[Other(n)][l] # NoKey
        BY <2>2 DEF HandshakeInv, InboxFits, Known
      <3>2. Shook(n, l)
        <4>1. Other(n) \in Node /\ Other(Other(n)) = n
          BY Ends, OtherOther
        <4>2. Shook(Other(Other(n)), l)
          BY <3>1, <4>1 DEF HandshakeInv, KeysAgree
        <4>3. QED
          BY <4>1, <4>2
      <3>3. QED
        BY <3>2 DEF HandshakeInv, KeysAgree, Shook
    <2>3. QED
      BY <2>1, <2>2
  <1>2. QED
    BY <1>1, HandshakeSafe, PTL

-----------------------------------------------------------------------------
(* Until a connection is closed, lost or written to before its handshake is*)
(* done.  Messages are read in the order the handshake expects, so that no *)
(* end finds one of the wrong type; an end finds its Peer object and its   *)
(* entry as it left them.                                                  *)

Peaceful ==
    /\ \A l \in Link : ~cut[l]
    /\ \A n \in Node : replies[n] = 0
    /\ \A n \in Node, l \in Link : ~closed[n][l]

\* What the k-th message on its way to an end is.
Talk == {"ping", "pong", "data"}
Due(k, type) ==
    /\ k = 1 => type = "hello"
    /\ k = 2 => type = "key"
    /\ k > 2 => type \in Talk

\* How many of the two messages of the handshake an end has read and sent.
Got(n, l) ==
    IF stage[n][l] = "loop" THEN 2
    ELSE IF stage[n][l] = "key" \/ (stage[n][l] = "created" /\ opener[l] # n) THEN 1
    ELSE 0
Sent(n, l) ==
    IF stage[n][l] \in {"key", "loop"} THEN 2
    ELSE IF stage[n][l] = "hello" THEN 1 ELSE 0

InTurn(q, got, sent) ==
    /\ \A j \in DOMAIN q : Due(got + j, q[j].type)
    /\ IF sent < 2 THEN got + Len(q) = sent ELSE got + Len(q) >= 2

WiresFit ==
    \A n \in Node, l \in Link : InTurn(inbox[n][l], Got(n, l), Sent(Other(n), l))

\* A node opens one connection: then its peer is in its table.
CallsFit ==
    \A n \in Node :
      /\ opening[n] => tries[n] > 0
      /\ \A l \in Link : opener[l] = n =>
           /\ tries[n] = 0 /\ entry[n][id[n][0]] # Absent
           /\ \A i \in Link : opener[i] = n => i = l

EndFits(n, l) ==
    /\ ~closing[n][l] /\ stage[n][l] # "gone"
    /\ stage[n][l] = "none" => opener[l] = "none"
    /\ stage[n][l] = "hello" => opener[l] = n
    /\ stage[n][l] = "created" => fresh[n][Obj(n, l)]
    /\ stage[n][l] \in {"key", "loop"} => PeerId(n, l) = Real /\ entry[n][Real] # Absent
    /\ key[n][l] # NoKey <=> stage[n][l] = "loop"
EndsFit == \A n \in Node, l \in Link : EndFits(n, l)

\* A Peer object has the id it was made with, or the peer's own.
IdsFit ==
    \A n \in Node :
      /\ id[n][0] \in {Real, Alias}
      /\ \A l \in Link : id[n][l] \in {Real, TempId(l)}

Orderly == WiresFit /\ CallsFit /\ EndsFit

\* The inductive invariant.
PeaceInv == IdsFit /\ (Peaceful => Orderly)

-----------------------------------------------------------------------------
(* Messages in turn.                                                       *)

LEMMA Counts ==
    ASSUME NEW n \in Node, NEW l \in Link
    PROVE  Got(n, l) \in 0 .. 2 /\ Sent(n, l) \in 0 .. 2
  BY DEF Got, Sent

LEMMA TakeInTurn ==
    ASSUME NEW q \in Seq(Message), q # <<>>, NEW got \in 0 .. 2, NEW sent \in 0 .. 2,
           InTurn(q, got, sent)
    PROVE  /\ Due(got + 1, Head(q).type)
           /\ InTurn(Tail(q), IF got = 2 THEN 2 ELSE got + 1, sent)
  <1>1. /\ 1 \in DOMAIN q /\ Head(q) = q[1] /\ Len(Tail(q)) = Len(q) - 1 /\ Len(q) \in Nat
        /\ DOMAIN Tail(q) = 1 .. Len(q) - 1
        /\ \A j \in DOMAIN Tail(q) : j + 1 \in DOMAIN q /\ Tail(q)[j] = q[j + 1]
    OBVIOUS
  <1>2. \A j \in DOMAIN Tail(q) : Due(got + (j + 1), Tail(q)[j].type)
    BY <1>1 DEF InTurn
  <1>3. \A j \in DOMAIN Tail(q) :
          Due((IF got = 2 THEN 2 ELSE got + 1) + j, Tail(q)[j].type)
    BY <1>1, <1>2 DEF Due
  <1>4. QED
    BY <1>1, <1>3 DEF InTurn

LEMMA AddInTurn ==
    ASSUME NEW q \in Seq(Message), NEW m \in Message, NEW got \in 0 .. 2, NEW sent \in 0 .. 2,
           InTurn(q, got, sent), Due(got + Len(q) + 1, m.type)
    PROVE  InTurn(q \o <<m>>, got, IF sent = 2 THEN 2 ELSE sent + 1)
  <1> DEFINE r == q \o <<m>>
  <1>1. /\ Len(r) = Len(q) + 1 /\ Len(q) \in Nat
        /\ \A j \in DOMAIN r : \/ j \in DOMAIN q /\ r[j] = q[j]
                               \/ j = Len(q) + 1 /\ r[j] = m
    OBVIOUS
  <1>2. \A j \in DOMAIN r : Due(got + j, r[j].type)
    <2> SUFFICES ASSUME NEW j \in DOMAIN r
                 PROVE  Due(got + j, r[j].type)
      OBVIOUS
    <2>1. CASE j \in DOMAIN q /\ r[j] = q[j]
      BY <2>1 DEF InTurn
    <2>2. CASE j = Len(q) + 1 /\ r[j] = m
      <3>1. got + j = got + Len(q) + 1
        BY <1>1, <2>2
      <3>2. QED
        BY <2>2, <3>1
    <2>3. QED
      BY <1>1, <2>1, <2>2
  <1> HIDE DEF r
  <1>3. QED
    BY <1>1, <1>2 DEF InTurn, r

LEMMA Delivered ==
    ASSUME Peaceful, NEW box \in [Node -> [Link -> Seq(Message)]],
           NEW n \in Node, NEW l \in Link, NEW ms \in Seq(Message)
    PROVE  \A m \in Node, i \in Link :
             Deliver(box, n, l, ms)[m][i] =
               IF m = Other(n) /\ i = l THEN box[m][i] \o ms ELSE box[m][i]
  BY Ends DEF Peaceful, Deliver

\* A step of one end may change what is on its way to either end of its
\* connection.
LEMMA WireKeeps ==
    ASSUME WiresFit, NEW n \in Node, NEW l \in Link, opener' = opener,
           \A m \in Node, i \in Link :
             /\ (m = n /\ i = l) \/ stage'[m][i] = stage[m][i]
             /\ i = l \/ inbox'[m][i] = inbox[m][i],
           InTurn(inbox'[n][l], Got(n, l)', Sent(Other(n), l)),
           InTurn(inbox'[Other(n)][l], Got(Other(n), l), Sent(n, l)')
    PROVE  WiresFit'
  <1> SUFFICES ASSUME NEW m \in Node, NEW i \in Link
               PROVE  InTurn(inbox'[m][i], Got(m, i)', Sent(Other(m), i)')
    BY DEF WiresFit
  <1>1. /\ Other(n) \in Node /\ Other(n) # n /\ Other(Other(n)) = n
        /\ Other(m) \in Node /\ Other(m) # m /\ (m = n \/ m = Other(n))
    BY DEF Node, Other
  <1>2. CASE i # l
    <2>1. Got(m, i)' = Got(m, i) /\ Sent(Other(m), i)' = Sent(Other(m), i)
      BY <1>1, <1>2 DEF Got, Sent
    <2>2. QED
      BY <1>2, <2>1 DEF WiresFit
  <1>3. CASE i = l /\ m = n
    <2>1. Sent(Other(n), l)' = Sent(Other(n), l)
      BY <1>1 DEF Sent
    <2>2. QED
      BY <1>3, <2>1
  <1>4. CASE i = l /\ m = Other(n)
    <2>1. Got(Other(n), l)' = Got(Other(n), l)
      BY <1>1 DEF Got
    <2>2. QED
      BY <1>1, <1>4, <2>1
  <1>5. QED
    BY <1>1, <1>2, <1>3, <1>4

\* An end writes a message that is due, or none; its stage stays.
LEMMA SayKeeps ==
    ASSUME TypeOK, Peaceful, WiresFit, NEW n \in Node, NEW l \in Link,
           NEW type \in Talk, stage[n][l] = "loop",
           NEW box \in [Node -> [Link -> Seq(Message)]],
           box = inbox \/ (box = Read(n, l) /\ inbox[n][l] # <<>>),
           UNCHANGED <<opener, stage>>,
           inbox' = box \/ inbox' = Deliver(box, n, l, <<Msg(type, n, l)>>)
    PROVE  WiresFit'
  <1>1. /\ Other(n) \in Node /\ Other(n) # n /\ Other(Other(n)) = n
    BY DEF Node, Other
  <1>2. Msg(type, n, l) \in Message /\ Msg(type, n, l).type = type
    BY MsgTyped DEF Talk, MsgType, Msg
  <1>3. inbox \in [Node -> [Link -> Seq(Message)]]
    BY DEF TypeOK
  <1>4. \A m \in Node, i \in Link :
          box[m][i] = IF m = n /\ i = l /\ box # inbox
                      THEN Tail(inbox[n][l]) ELSE inbox[m][i]
    <2>1. CASE box = inbox
      BY <2>1
    <2>2. CASE box # inbox
      <3>1. box = [inbox EXCEPT ![n][l] = Tail(@)]
        BY <2>2 DEF Read
      <3>2. QED
        BY <1>3, <2>2, <3>1
    <2>3. QED
      BY <2>1, <2>2
  <1>5. \A m \in Node, i \in Link :
          inbox'[m][i] = IF m = Other(n) /\ i = l /\ inbox' # box
                         THEN box[m][i] \o <<Msg(type, n, l)>> ELSE box[m][i]
    <2>1. <<Msg(type, n, l)>> \in Seq(Message)
      BY <1>2
    <2>2. CASE inbox' = box
      BY <2>2
    <2>3. CASE inbox' # box
      <3>1. inbox' = Deliver(box, n, l, <<Msg(type, n, l)>>)
        BY <2>3
      <3>2. \A m \in Node, i \in Link :
              Deliver(box, n, l, <<Msg(type, n, l)>>)[m][i] =
                IF m = Other(n) /\ i = l THEN box[m][i] \o <<Msg(type, n, l)>> ELSE box[m][i]
        <4> DEFINE ms == <<Msg(type, n, l)>>
        <4> HIDE DEF ms
        <4>1. ms \in Seq(Message)
          BY <2>1 DEF ms
        <4>2. \A m \in Node, i \in Link :
                Deliver(box, n, l, ms)[m][i] =
                  IF m = Other(n) /\ i = l THEN box[m][i] \o ms ELSE box[m][i]
          BY <4>1, Delivered
        <4>3. QED
          BY <4>2 DEF ms
      <3>3. QED
        BY <2>3, <3>1, <3>2
    <2>4. QED
      BY <2>2, <2>3
  <1>6. Got(n, l) = 2 /\ Sent(n, l) = 2 /\ Got(n, l)' = 2 /\ Sent(n, l)' = 2
    BY DEF Got, Sent
  <1>7. InTurn(inbox'[n][l], 2, Sent(Other(n), l))
    <2>1. InTurn(inbox[n][l], 2, Sent(Other(n), l)) /\ inbox[n][l] \in Seq(Message)
      BY <1>3, <1>6 DEF WiresFit
    <2>2. box # inbox => InTurn(Tail(inbox[n][l]), 2, Sent(Other(n), l))
      <3> SUFFICES ASSUME box # inbox
                   PROVE  InTurn(Tail(inbox[n][l]), 2, Sent(Other(n), l))
        OBVIOUS
      <3>1. inbox[n][l] # <<>> /\ Sent(Other(n), l) \in 0 .. 2 /\ 2 \in 0 .. 2
        BY <1>1, Counts
      <3>2. InTurn(Tail(inbox[n][l]), IF 2 = 2 THEN 2 ELSE 2 + 1, Sent(Other(n), l))
        BY <2>1, <3>1, TakeInTurn
      <3>3. QED
        BY <3>2
    <2>3. inbox'[n][l] = inbox[n][l] \/ (box # inbox /\ inbox'[n][l] = Tail(inbox[n][l]))
      BY <1>1, <1>4, <1>5
    <2>4. QED
      BY <2>1, <2>2, <2>3
  <1>8. InTurn(inbox'[Other(n)][l], Got(Other(n), l), 2)
    <2> DEFINE q == inbox[Other(n)][l]
               got == Got(Other(n), l)
    <2>1. InTurn(q, got, 2) /\ q \in Seq(Message) /\ got \in 0 .. 2
      BY <1>1, <1>3, <1>6, Counts DEF WiresFit
    <2>2. Due(got + Len(q) + 1, Msg(type, n, l).type)
      <3>1. got + Len(q) >= 2 /\ Len(q) \in Nat
        BY <2>1 DEF InTurn
      <3>2. QED
        BY <1>2, <2>1, <3>1 DEF Due
    <2>3. InTurn(q \o <<Msg(type, n, l)>>, got, 2)
      BY <1>2, <2>1, <2>2, AddInTurn
    <2>4. inbox'[Other(n)][l] = q \/ inbox'[Other(n)][l] = q \o <<Msg(type, n, l)>>
      BY <1>1, <1>4, <1>5
    <2>5. QED
      BY <2>1, <2>3, <2>4
  <1>9. \A m \in Node, i \in Link : i = l \/ inbox'[m][i] = inbox[m][i]
    BY <1>4, <1>5
  <1>10. QED
    BY <1>1, <1>6, <1>7, <1>8, <1>9, WireKeeps

-----------------------------------------------------------------------------
(* Entries and Peer objects.                                               *)

\* What a step may not undo: a peer found stays found.
TableStays ==
    \A m \in Node :
      /\ \A o \in PeerObject : id[m][o] = Real => id'[m][o] = Real
      /\ entry[m][Real] # Absent => entry'[m][Real] # Absent
      /\ entry[m][id[m][0]] # Absent => entry'[m][id'[m][0]] # Absent

LEMMA EnteredStays ==
    ASSUME TypeOK, NEW n \in Node, NEW k \in Key, NEW l \in Link,
           entry' = [entry EXCEPT ![n][k] = l], id' = id
    PROVE  TableStays /\ entry'[n][k] = l
  <1>1. l # Absent /\ entry \in [Node -> [Key -> 0 .. MaxLinks]]
    BY Ends DEF TypeOK
  <1>2. ASSUME NEW m \in Node
        PROVE  /\ id[m][0] \in Key /\ Real \in Key
               /\ \A j \in Key : entry'[m][j] = IF m = n /\ j = k THEN l ELSE entry[m][j]
    <2>1. id[m][0] \in Key
      <3>1. 0 \in PeerObject /\ id \in [Node -> [PeerObject -> Key]]
        BY Ends DEF TypeOK
      <3>2. QED
        BY <3>1
    <2>2. ASSUME NEW j \in Key
          PROVE  entry'[m][j] = IF m = n /\ j = k THEN l ELSE entry[m][j]
      BY <1>1
    <2>3. QED
      BY <2>1, <2>2, Keys
  <1>3. QED
    BY <1>1, <1>2 DEF TableStays

LEMMA RenamedStays ==
    ASSUME TypeOK, IdsFit, NEW n \in Node, NEW l \in Link,
           id' = [id EXCEPT ![n][Obj(n, l)] = Real], entry' = Renamed(n, l)
    PROVE  TableStays /\ PeerId(n, l)' = id'[n][Obj(n, l)'] /\ entry'[n][Real] # Absent
  <1>1. /\ l # Absent /\ Obj(n, l) \in PeerObject /\ 0 \in PeerObject /\ Real \in Key
        /\ entry \in [Node -> [Key -> 0 .. MaxLinks]] /\ id \in [Node -> [PeerObject -> Key]]
    BY Ends, Keys DEF TypeOK
  <1>2. \A m \in Node, o \in PeerObject :
          id'[m][o] = IF m = n /\ o = Obj(n, l) THEN Real ELSE id[m][o]
    BY <1>1
  <1>3. \A m \in Node, j \in Key :
          entry'[m][j] = IF m # n THEN entry[m][j]
                         ELSE IF j = Real THEN l
                         ELSE IF j = PeerId(n, l) THEN Absent ELSE entry[m][j]
    BY <1>1 DEF Renamed
  <1>4. ASSUME NEW m \in Node, entry[m][id[m][0]] # Absent
        PROVE  entry'[m][id'[m][0]] # Absent
    <2>1. id[m][0] \in Key /\ id'[m][0] \in {id[m][0], Real}
      BY <1>1, <1>2
    <2>2. CASE m # n \/ id'[m][0] = Real
      BY <1>1, <1>2, <1>3, <1>4, <2>1, <2>2
    <2>3. CASE m = n /\ id'[m][0] # Real
      <3>1. Obj(n, l) # 0 /\ id'[m][0] = id[m][0]
        BY <1>1, <1>2, <2>3
      <3>2. PeerId(n, l) \in {Real, l} /\ id[n][0] = Alias
        BY <2>3, <3>1 DEF IdsFit, PeerId, Obj, TempId
      <3>3. l # Alias
        BY DEF Link, Alias
      <3>4. QED
        BY <1>3, <1>4, <2>1, <2>3, <3>1, <3>2, <3>3
    <2>4. QED
      BY <2>2, <2>3
  <1>5. QED
    BY <1>1, <1>2, <1>3, <1>4 DEF TableStays, PeerId

LEMMA CallsKeep ==
    ASSUME CallsFit, TableStays, UNCHANGED callVars
    PROVE  CallsFit'
  BY DEF CallsFit, TableStays, callVars

\* Only the other ends of n with the same Peer object see what a step of
\* (n, l) does to it, and there are none.
LEMMA EndsKeep ==
    ASSUME TypeOK, CallsFit, EndsFit, TableStays, NEW n \in Node, NEW l \in Link,
           UNCHANGED <<opener, closing>>,
           \A m \in Node, i \in Link :
             (m = n /\ i = l) \/ (stage'[m][i] = stage[m][i] /\ key'[m][i] = key[m][i]),
           fresh' = fresh \/ \E x \in BOOLEAN : fresh' = [fresh EXCEPT ![n][Obj(n, l)] = x],
           EndFits(n, l)'
    PROVE  EndsFit'
  <1> SUFFICES ASSUME NEW m \in Node, NEW i \in Link, ~(m = n /\ i = l)
               PROVE  EndFits(m, i)'
    BY DEF EndsFit
  <1>1. EndFits(m, i) /\ Obj(m, i)' = Obj(m, i) /\ Obj(m, i) \in PeerObject
    BY Ends DEF EndsFit, Obj
  <1>2. m = n => Obj(m, i) # Obj(n, l)
    BY Ends DEF CallsFit, Obj, Link
  <1>3. fresh'[m][Obj(m, i)] = fresh[m][Obj(m, i)]
    <2>1. CASE fresh' = fresh
      BY <2>1
    <2>2. CASE \E x \in BOOLEAN : fresh' = [fresh EXCEPT ![n][Obj(n, l)] = x]
      <3>1. PICK x \in BOOLEAN : fresh' = [fresh EXCEPT ![n][Obj(n, l)] = x]
        BY <2>2
      <3>2. fresh \in [Node -> [PeerObject -> BOOLEAN]] /\ Obj(n, l) \in PeerObject
        BY Ends DEF TypeOK
      <3>3. QED
        BY <1>1, <1>2, <3>1, <3>2
    <2>3. QED
      BY <2>1, <2>2
  <1>4. PeerId(m, i) = Real => PeerId(m, i)' = Real
    BY <1>1 DEF TableStays, PeerId
  <1>5. QED
    BY <1>1, <1>3, <1>4 DEF EndFits, TableStays

-----------------------------------------------------------------------------
(* The steps of one end.                                                   *)

LEMMA SameTable ==
    ASSUME UNCHANGED <<entry, id>>
    PROVE  TableStays
  BY DEF TableStays

LEMMA ReadIs ==
    ASSUME TypeOK, NEW n \in Node, NEW l \in Link
    PROVE  \A m \in Node, i \in Link :
             Read(n, l)[m][i] = IF m = n /\ i = l THEN Tail(inbox[n][l]) ELSE inbox[m][i]
  BY DEF TypeOK, Read

LEMMA BoxIs ==
    ASSUME TypeOK, NEW n \in Node, NEW l \in Link
    PROVE  inbox[n][l] \in Seq(Message)
  BY DEF TypeOK

LEMMA OtherIs ==
    ASSUME NEW n \in Node
    PROVE  Other(n) \in Node /\ Other(n) # n /\ Other(Other(n)) = n
  BY DEF Node, Other

LEMMA HeadInTurn ==
    ASSUME TypeOK, WiresFit, NEW n \in Node, NEW l \in Link, inbox[n][l] # <<>>
    PROVE  /\ Due(Got(n, l) + 1, Head1(n, l))
           /\ InTurn(Tail(inbox[n][l]), IF Got(n, l) = 2 THEN 2 ELSE Got(n, l) + 1,
                     Sent(Other(n), l))
  <1>1. inbox[n][l] \in Seq(Message) /\ Other(n) \in Node
    BY BoxIs, OtherIs
  <1>2. InTurn(inbox[n][l], Got(n, l), Sent(Other(n), l))
    BY DEF WiresFit
  <1>3. QED
    BY <1>1, <1>2, Counts, TakeInTurn DEF Head1

\* The next message of an end, by how many of the handshake it has sent.
LEMMA SayInTurn ==
    ASSUME NEW q \in Seq(Message), NEW m \in Message, NEW got \in 0 .. 2, NEW sent \in 0 .. 2,
           InTurn(q, got, sent),
           sent = 0 => m.type = "hello", sent = 1 => m.type = "key",
           sent = 2 => m.type \in Talk
    PROVE  InTurn(q \o <<m>>, got, IF sent = 2 THEN 2 ELSE sent + 1)
  <1>1. Len(q) \in Nat
    OBVIOUS
  <1>2. Due(got + Len(q) + 1, m.type)
    BY <1>1 DEF InTurn, Due
  <1>3. QED
    BY <1>2, AddInTurn

LEMMA NobodyRaises ==
    ASSUME Peaceful, NEW n \in Node, NEW l \in Link
    PROVE  /\ ~WriteMayRaise(n, l) /\ ~Eof(n, l) /\ ~ReadRaises(n, l)
           /\ ~closed[n][l] /\ ~cut[l] /\ ~closed[Other(n)][l]
  BY Ends DEF Peaceful, WriteMayRaise, Eof, ReadRaises

LEMMA NobodyRefuses ==
    ASSUME TypeOK, StageFits, Peaceful, Orderly, NEW n \in Node, NEW l \in Link
    PROVE  ~RefuseIncoming(n, l) /\ ~SkipHandshake(n, l) /\ ~WrongMessage(n, l)
  <1>1. ~RefuseIncoming(n, l)
    <2> SUFFICES ASSUME stage[n][l] = "reading", inbox[n][l] # <<>>
                 PROVE  Head1(n, l) = "hello"
      BY NobodyRaises DEF RefuseIncoming
    <2>1. Got(n, l) = 0
      BY DEF Got
    <2>2. QED
      BY <2>1, HeadInTurn DEF Orderly, Due
  <1>2. ~SkipHandshake(n, l)
    BY DEF SkipHandshake, Starting, Orderly, EndsFit, EndFits
  <1>3. ~WrongMessage(n, l)
    <2> SUFFICES ASSUME stage[n][l] \in {"hello", "key"}, inbox[n][l] # <<>>
                 PROVE  Head1(n, l) = stage[n][l]
      BY DEF WrongMessage
    <2>1. Got(n, l) = IF stage[n][l] = "key" THEN 1 ELSE 0
      BY DEF Got
    <2>2. QED
      BY <2>1, HeadInTurn DEF Orderly, Due
  <1>4. QED
    BY <1>1, <1>2, <1>3

\* A peer is found under the id the handshake has learnt.
LEMMA NextStays ==
    ASSUME TypeOK, Orderly, NEW n \in Node, NEW l \in Link,
           stage[n][l] \in {"key", "loop"}, NextMessage(n, l)
    PROVE  /\ stage' = [stage EXCEPT ![n][l] = "loop"]
           /\ fresh' = [fresh EXCEPT ![n][Obj(n, l)] = IF stage[n][l] = "key" THEN FALSE ELSE @]
           /\ UNCHANGED <<entry, closed>>
  <1>1. entry[n][PeerId(n, l)] # Absent
    BY DEF Orderly, EndsFit, EndFits
  <1>2. QED
    BY <1>1 DEF NextMessage

LEMMA IncomingCalm ==
    ASSUME TypeOK, StageFits, Orderly, NEW n \in Node, NEW l \in Link, HandleIncoming(n, l)
    PROVE  closed' = closed /\ Orderly'
  <1>1. /\ stage[n][l] = "reading" /\ opener[l] # n /\ inbox[n][l] # <<>>
        /\ inbox' = Read(n, l)
        /\ entry' = [entry EXCEPT ![n][TempId(l)] = l]
        /\ fresh' = [fresh EXCEPT ![n][l] = TRUE]
        /\ stage' = [stage EXCEPT ![n][l] = "created"]
        /\ UNCHANGED <<id, callVars, opener, key, closed, closing>>
    BY DEF HandleIncoming, StageFits, callVars
  <1>2. /\ stage'[n][l] = "created" /\ fresh'[n][l] = TRUE
        /\ \A m \in Node, i \in Link : (m = n /\ i = l) \/ stage'[m][i] = stage[m][i]
    <2>1. l \in PeerObject /\ fresh \in [Node -> [PeerObject -> BOOLEAN]]
      BY Ends DEF TypeOK
    <2>2. stage \in [Node -> [Link -> Stage]]
      BY DEF TypeOK
    <2>3. QED
      BY <1>1, <2>1, <2>2
  <1>3. TableStays
    BY <1>1, EnteredStays, Keys
  <1>4. CallsFit'
    BY <1>1, <1>3, CallsKeep DEF Orderly
  <1>5. EndFits(n, l)'
    BY <1>1, <1>2 DEF Orderly, EndsFit, EndFits, Obj
  <1>6. EndsFit'
    <2>1. fresh' = [fresh EXCEPT ![n][Obj(n, l)] = TRUE]
      BY <1>1 DEF Obj
    <2>2. QED
      BY <1>1, <1>2, <1>3, <1>5, <2>1, EndsKeep DEF Orderly
  <1>7. WiresFit'
    <2>1. Got(n, l) = 0 /\ Got(n, l)' = 1 /\ Sent(n, l) = 0 /\ Sent(n, l)' = 0
      BY <1>1, <1>2 DEF Got, Sent
    <2>2. InTurn(inbox'[n][l], 1, Sent(Other(n), l))
      BY <1>1, <2>1, HeadInTurn, ReadIs DEF Orderly
    <2>3. InTurn(inbox'[Other(n)][l], Got(Other(n), l), 0)
      <3>1. inbox'[Other(n)][l] = inbox[Other(n)][l]
        BY <1>1, ReadIs, OtherIs
      <3>2. QED
        BY <2>1, <3>1, OtherIs DEF Orderly, WiresFit
    <2>4. \A m \in Node, i \in Link : i = l \/ inbox'[m][i] = inbox[m][i]
      BY <1>1, ReadIs
    <2>5. QED
      BY <1>1, <1>2, <2>1, <2>2, <2>3, <2>4, WireKeeps DEF Orderly
  <1>8. QED
    BY <1>1, <1>4, <1>6, <1>7 DEF Orderly

LEMMA ClientHelloCalm ==
    ASSUME TypeOK, Peaceful, Orderly, NEW n \in Node, NEW l \in Link, ClientHello(n, l)
    PROVE  closed' = closed /\ Orderly'
  <1>1. /\ stage[n][l] = "created" /\ opener[l] = n
        /\ inbox' = Deliver(inbox, n, l, <<Msg("hello", n, l)>>)
        /\ fresh' = [fresh EXCEPT ![n][Obj(n, l)] = FALSE]
        /\ stage' = [stage EXCEPT ![n][l] = "hello"]
        /\ UNCHANGED <<entry, id, callVars, opener, key, closed, closing>>
    BY NobodyRaises DEF ClientHello, Starting, callVars, shakeVars
  <1>2. /\ stage'[n][l] = "hello"
        /\ \A m \in Node, i \in Link : (m = n /\ i = l) \/ stage'[m][i] = stage[m][i]
    BY <1>1 DEF TypeOK
  <1>3. TableStays
    BY <1>1, SameTable
  <1>4. CallsFit'
    BY <1>1, <1>3, CallsKeep DEF Orderly
  <1>5. EndFits(n, l)'
    BY <1>1, <1>2 DEF Orderly, EndsFit, EndFits
  <1>6. EndsFit'
    BY <1>1, <1>2, <1>3, <1>5, EndsKeep DEF Orderly
  <1>7. WiresFit'
    <2>1. Got(n, l) = 0 /\ Got(n, l)' = 0 /\ Sent(n, l) = 0 /\ Sent(n, l)' = 1
      BY <1>1, <1>2 DEF Got, Sent
    <2> DEFINE ms == <<Msg("hello", n, l)>>
               q == inbox[Other(n)][l]
    <2>2. /\ ms \in Seq(Message) /\ Msg("hello", n, l) \in Message
          /\ Msg("hello", n, l).type = "hello"
      BY MsgTyped DEF MsgType, Msg
    <2>3. \A m \in Node, i \in Link :
            inbox'[m][i] = IF m = Other(n) /\ i = l THEN inbox[m][i] \o ms ELSE inbox[m][i]
      <3>1. inbox \in [Node -> [Link -> Seq(Message)]] /\ inbox' = Deliver(inbox, n, l, ms)
        BY <1>1 DEF TypeOK
      <3> HIDE DEF ms
      <3>2. inbox' = [inbox EXCEPT ![Other(n)][l] = @ \o ms]
        BY <3>1, OtherIs DEF Peaceful, Deliver
      <3>3. QED
        BY <3>1, <3>2, OtherIs
    <2>4. InTurn(inbox'[n][l], 0, Sent(Other(n), l))
      BY <2>1, <2>3, OtherIs DEF Orderly, WiresFit
    <2>5. InTurn(inbox'[Other(n)][l], Got(Other(n), l), 1)
      <3>1. /\ q \in Seq(Message) /\ InTurn(q, Got(Other(n), l), 0)
            /\ Got(Other(n), l) \in 0 .. 2
        BY <2>1, OtherIs, BoxIs, Counts DEF Orderly, WiresFit
      <3>2. InTurn(q \o ms, Got(Other(n), l), 1)
        BY <2>2, <3>1, SayInTurn
      <3>3. QED
        BY <2>3, <3>2, OtherIs
    <2>6. QED
      BY <1>1, <1>2, <2>1, <2>3, <2>4, <2>5, WireKeeps DEF Orderly
  <1>8. QED
    BY <1>1, <1>4, <1>6, <1>7 DEF Orderly

LEMMA SecretCalm ==
    ASSUME TypeOK, StageFits, IdsFit, Peaceful, Orderly, NEW n \in Node, NEW l \in Link,
           ServerHello(n, l) \/ ReadHello(n, l)
    PROVE  closed' = closed /\ Orderly'
  <1> DEFINE m == Other(n)
             hello == Msg("hello", n, l)
             sent == Msg("key", n, l)
             q == inbox[m][l]
  <1>1. /\ stage[n][l] \in {"created", "hello"}
        /\ id' = [id EXCEPT ![n][Obj(n, l)] = Real]
        /\ entry' = Renamed(n, l)
        /\ fresh' = [fresh EXCEPT ![n][Obj(n, l)] = FALSE]
        /\ stage' = [stage EXCEPT ![n][l] = "key"]
        /\ UNCHANGED <<callVars, opener, key, closed, closing>>
    BY NobodyRaises DEF ServerHello, ReadHello, Starting, ComputeSecret, callVars
  <1>2. /\ stage'[n][l] = "key"
        /\ \A j \in Node, i \in Link : (j = n /\ i = l) \/ stage'[j][i] = stage[j][i]
    BY <1>1 DEF TypeOK
  <1>3. TableStays /\ PeerId(n, l)' = Real /\ entry'[n][Real] # Absent
    <2>1. TableStays /\ PeerId(n, l)' = id'[n][Obj(n, l)'] /\ entry'[n][Real] # Absent
      BY <1>1, RenamedStays
    <2>2. Obj(n, l)' = Obj(n, l) /\ Obj(n, l) \in PeerObject
      BY <1>1, Ends DEF Obj
    <2>3. id'[n][Obj(n, l)] = Real
      BY <1>1, <2>2 DEF TypeOK
    <2>4. QED
      BY <2>1, <2>2, <2>3
  <1>4. CallsFit'
    BY <1>1, <1>3, CallsKeep DEF Orderly
  <1>5. EndFits(n, l)'
    BY <1>1, <1>2, <1>3 DEF Orderly, EndsFit, EndFits
  <1>6. EndsFit'
    BY <1>1, <1>2, <1>3, <1>5, EndsKeep DEF Orderly
  <1>7. /\ m \in Node /\ m # n /\ q \in Seq(Message) /\ inbox \in [Node -> [Link -> Seq(Message)]]
        /\ hello \in Message /\ hello.type = "hello"
        /\ sent \in Message /\ sent.type = "key"
        /\ InTurn(q, Got(m, l), Sent(n, l)) /\ InTurn(inbox[n][l], Got(n, l), Sent(m, l))
        /\ Got(m, l) \in 0 .. 2 /\ Got(n, l)' = 1 /\ Sent(n, l)' = 2
    <2>1. m \in Node /\ m # n /\ Other(m) = n
      BY OtherIs
    <2>2. hello \in Message /\ hello.type = "hello" /\ sent \in Message /\ sent.type = "key"
      BY MsgTyped DEF MsgType, Msg
    <2>3. Got(n, l)' = 1 /\ Sent(n, l)' = 2
      BY <1>2 DEF Got, Sent
    <2>4. inbox \in [Node -> [Link -> Seq(Message)]]
      BY DEF TypeOK
    <2> HIDE DEF m
    <2>5. InTurn(inbox[m][l], Got(m, l), Sent(n, l))
      BY <2>1 DEF Orderly, WiresFit
    <2>6. InTurn(inbox[n][l], Got(n, l), Sent(m, l))
      BY DEF Orderly, WiresFit, m
    <2>7. QED
      BY <2>1, <2>2, <2>3, <2>4, <2>5, <2>6, BoxIs, Counts
  <1>8. CASE ServerHello(n, l)
    <2>1. /\ inbox' = [inbox EXCEPT ![m][l] = @ \o (<<hello>> \o <<sent>>)]
          /\ Got(n, l) = 1 /\ Sent(n, l) = 0
      BY <1>8, NobodyRaises DEF ServerHello, ComputeSecret, Starting, Deliver, Got, Sent
    <2> HIDE DEF m, hello, sent
    <2>2. \A j \in Node, i \in Link :
            inbox'[j][i] = IF j = m /\ i = l THEN q \o (<<hello>> \o <<sent>>) ELSE inbox[j][i]
      BY <1>7, <2>1
    <2>3. q \o (<<hello>> \o <<sent>>) = (q \o <<hello>>) \o <<sent>>
      BY <1>7
    <2>4. InTurn(q \o <<hello>>, Got(m, l), 1)
      <3>1. InTurn(q, Got(m, l), 0) /\ 0 \in 0 .. 2
        BY <1>7, <2>1
      <3> HIDE DEF q
      <3>2. InTurn(q \o <<hello>>, Got(m, l), IF 0 = 2 THEN 2 ELSE 0 + 1)
        BY <1>7, <3>1, SayInTurn
      <3>3. QED
        BY <3>2
    <2>5. q \o <<hello>> \in Seq(Message)
      BY <1>7
    <2> HIDE DEF q
    <2>6. InTurn((q \o <<hello>>) \o <<sent>>, Got(m, l), 2)
      <3> DEFINE p == q \o <<hello>>
      <3>1. p \in Seq(Message) /\ InTurn(p, Got(m, l), 1) /\ 1 \in 0 .. 2
        BY <2>4, <2>5
      <3> HIDE DEF p
      <3>2. InTurn(p \o <<sent>>, Got(m, l), IF 1 = 2 THEN 2 ELSE 1 + 1)
        BY <1>7, <3>1, SayInTurn
      <3>3. QED
        BY <3>2 DEF p
    <2>7. InTurn(inbox'[m][l], Got(m, l), Sent(n, l)')
      BY <1>7, <2>2, <2>3, <2>6
    <2>8. InTurn(inbox'[n][l], Got(n, l)', Sent(m, l))
      BY <1>7, <2>1, <2>2
    <2>9. WiresFit'
      BY <1>1, <1>2, <2>2, <2>7, <2>8, WireKeeps DEF Orderly, m
    <2>10. QED
      BY <1>1, <1>4, <1>6, <2>9 DEF Orderly
  <1>9. CASE ReadHello(n, l)
    <2>1. /\ inbox' = [Read(n, l) EXCEPT ![m][l] = @ \o (<<>> \o <<sent>>)]
          /\ inbox[n][l] # <<>> /\ Got(n, l) = 0 /\ Sent(n, l) = 1
      BY <1>9, NobodyRaises DEF ReadHello, ComputeSecret, Deliver, Got, Sent
    <2>2. InTurn(Tail(inbox[n][l]), 1, Sent(m, l))
      BY <2>1, HeadInTurn DEF Orderly
    <2> HIDE DEF m, sent
    <2>3. <<>> \o <<sent>> = <<sent>>
      OBVIOUS
    <2>4. \A j \in Node, i \in Link :
            inbox'[j][i] = IF j = m /\ i = l THEN q \o <<sent>>
                           ELSE IF j = n /\ i = l THEN Tail(inbox[n][l]) ELSE inbox[j][i]
      <3>1. Read(n, l) = [inbox EXCEPT ![n][l] = Tail(@)]
        BY DEF Read
      <3>2. QED
        BY <1>7, <2>1, <2>3, <3>1
    <2>5. InTurn(q \o <<sent>>, Got(m, l), 2)
      BY <1>7, <2>1, SayInTurn
    <2>6. InTurn(inbox'[m][l], Got(m, l), Sent(n, l)')
      BY <1>7, <2>4, <2>5
    <2>7. InTurn(inbox'[n][l], Got(n, l)', Sent(m, l))
      BY <1>7, <2>2, <2>4
    <2>8. WiresFit'
      BY <1>1, <1>2, <2>4, <2>6, <2>7, WireKeeps DEF Orderly, m
    <2>9. QED
      BY <1>1, <1>4, <1>6, <2>8 DEF Orderly
  <1>10. QED
    BY <1>8, <1>9

LEMMA ReadKeyCalm ==
    ASSUME TypeOK, Peaceful, Orderly, NEW n \in Node, NEW l \in Link, ReadKey(n, l)
    PROVE  closed' = closed /\ Orderly'
  <1>1. /\ stage[n][l] = "key" /\ inbox[n][l] # <<>>
        /\ inbox' = Read(n, l)
        /\ key' = [key EXCEPT ![n][l] = SessionKey(n, l, Head(inbox[n][l]))]
        /\ stage' = [stage EXCEPT ![n][l] = "loop"]
        /\ fresh' = [fresh EXCEPT ![n][Obj(n, l)] = FALSE]
        /\ UNCHANGED <<entry, id, callVars, opener, closed, closing>>
    BY NextStays DEF ReadKey, callVars
  <1>2. /\ stage'[n][l] = "loop"
        /\ \A m \in Node, i \in Link :
             (m = n /\ i = l) \/ (stage'[m][i] = stage[m][i] /\ key'[m][i] = key[m][i])
    BY <1>1 DEF TypeOK
  <1>3. TableStays
    BY <1>1, SameTable
  <1>4. CallsFit'
    BY <1>1, <1>3, CallsKeep DEF Orderly
  <1>5. EndFits(n, l)'
    <2>1. EndFits(n, l) /\ PeerId(n, l)' = PeerId(n, l)
      BY <1>1 DEF Orderly, EndsFit, PeerId, Obj
    <2>2. key'[n][l] # NoKey
      <3>1. <<n, l>> \in SessionKey(n, l, Head(inbox[n][l]))[1]
        BY DEF SessionKey
      <3>2. NoKey[1] = {}
        BY DEF NoKey
      <3>3. key'[n][l] = SessionKey(n, l, Head(inbox[n][l]))
        BY <1>1 DEF TypeOK
      <3>4. QED
        BY <3>1, <3>2, <3>3
    <2>3. QED
      BY <1>1, <1>2, <2>1, <2>2 DEF EndFits
  <1>6. EndsFit'
    BY <1>1, <1>2, <1>3, <1>5, EndsKeep DEF Orderly
  <1>7. WiresFit'
    <2>1. Got(n, l) = 1 /\ Got(n, l)' = 2 /\ Sent(n, l) = 2 /\ Sent(n, l)' = 2
      BY <1>1, <1>2 DEF Got, Sent
    <2>2. InTurn(inbox'[n][l], 2, Sent(Other(n), l))
      BY <1>1, <2>1, HeadInTurn, ReadIs DEF Orderly
    <2>3. InTurn(inbox'[Other(n)][l], Got(Other(n), l), 2)
      <3>1. inbox'[Other(n)][l] = inbox[Other(n)][l]
        BY <1>1, ReadIs, OtherIs
      <3>2. QED
        BY <2>1, <3>1, OtherIs DEF Orderly, WiresFit
    <2>4. \A m \in Node, i \in Link : i = l \/ inbox'[m][i] = inbox[m][i]
      BY <1>1, ReadIs
    <2>5. QED
      BY <1>1, <1>2, <2>1, <2>2, <2>3, <2>4, WireKeeps DEF Orderly
  <1>8. QED
    BY <1>1, <1>4, <1>6, <1>7 DEF Orderly

LEMMA LoopCalm ==
    ASSUME TypeOK, Peaceful, Orderly, NEW n \in Node, NEW l \in Link, HandleMessage(n, l)
    PROVE  closed' = closed /\ Orderly'
  <1>1. stage[n][l] = "loop" /\ inbox[n][l] # <<>> /\ ~EndsLoop(n, l)
    <2>1. stage[n][l] = "loop" /\ inbox[n][l] # <<>>
      BY DEF HandleMessage
    <2>2. Got(n, l) = 2
      BY <2>1 DEF Got
    <2>3. QED
      BY <2>1, <2>2, HeadInTurn DEF Orderly, Due, Talk, EndsLoop
  <1>2. NextMessage(n, l) /\ UNCHANGED <<id, callVars, opener, key, closing>>
    BY <1>1, NobodyRaises DEF HandleMessage, callVars, shakeVars
  <1>3. stage' = stage /\ fresh' = fresh /\ UNCHANGED <<entry, closed>>
    <2>1. /\ stage' = [stage EXCEPT ![n][l] = "loop"]
          /\ fresh' = [fresh EXCEPT ![n][Obj(n, l)] = @]
          /\ UNCHANGED <<entry, closed>>
      BY <1>1, <1>2, NextStays
    <2>2. stage \in [Node -> [Link -> Stage]] /\ fresh \in [Node -> [PeerObject -> BOOLEAN]]
      BY DEF TypeOK
    <2>3. QED
      BY <1>1, <2>1, <2>2
  <1>4. TableStays
    BY <1>2, <1>3, SameTable
  <1>5. CallsFit'
    BY <1>2, <1>4, CallsKeep DEF Orderly
  <1>6. EndsFit'
    BY <1>2, <1>3 DEF Orderly, EndsFit, EndFits, PeerId, Obj
  <1>7. WiresFit'
    <2>1. PICK box : box = Read(n, l)
      OBVIOUS
    <2>2. box \in [Node -> [Link -> Seq(Message)]] /\ "pong" \in Talk
      BY <1>1, <2>1, ReadTyped DEF Talk
    <2>3. inbox' = box \/ inbox' = Deliver(box, n, l, <<Msg("pong", n, l)>>)
      BY <1>1, <2>1, NobodyRaises DEF HandleMessage
    <2>4. QED
      BY <1>1, <1>2, <1>3, <2>1, <2>2, <2>3, SayKeeps DEF Orderly
  <1>8. QED
    BY <1>3, <1>5, <1>6, <1>7 DEF Orderly

\* Until something ends, no end of a connection ends it.
LEMMA HandlerCalm ==
    ASSUME TypeOK, StageFits, IdsFit, Peaceful, Orderly, NEW n \in Node, NEW l \in Link,
           Handler(n, l)
    PROVE  closed' = closed /\ cut' = cut /\ Orderly'
  <1>1. cut' = cut
    BY DEF Handler, HandleIncoming, RefuseIncoming, SkipHandshake, ClientHello, ServerHello,
           ReadHello, ComputeSecret, ReadKey, WrongMessage, ReadRaises, HandleMessage, envVars
  <1>2. QED
    BY <1>1, NobodyRaises, NobodyRefuses, IncomingCalm, ClientHelloCalm, SecretCalm,
       ReadKeyCalm, LoopCalm DEF Handler

-----------------------------------------------------------------------------
(* The other steps.                                                        *)

LEMMA ConnectedCalm ==
    ASSUME TypeOK, StageFits, Peaceful, Orderly, NEW n \in Node, NEW l \in Link,
           Connected(n, l)
    PROVE  UNCHANGED <<closed, cut>> /\ Orderly'
  <1> DEFINE m == Other(n)
  <1>1. /\ opening[n] /\ opener[l] = "none"
        /\ opener' = [opener EXCEPT ![l] = n]
        /\ entry' = [entry EXCEPT ![n][id[n][0]] = l]
        /\ fresh' = [fresh EXCEPT ![n][0] = TRUE]
        /\ stage' = [stage EXCEPT ![n][l] = "created", ![m][l] = "reading"]
        /\ tries' = [tries EXCEPT ![n] = 0]
        /\ opening' = [opening EXCEPT ![n] = FALSE]
        /\ UNCHANGED <<id, key, inbox, closed, closing, cut>>
    BY DEF Connected, shakeVars, envVars
  <1>2. \A j \in Node : stage[j][l] = "none" /\ (j = n \/ j = m)
    BY <1>1 DEF StageFits, Node, Other
  <1>3. m \in Node /\ m # n /\ Other(m) = n
    BY OtherIs
  <1>4. /\ \A j \in Node, i \in Link \ {l} : stage'[j][i] = stage[j][i] /\ opener'[i] = opener[i]
        /\ stage'[n][l] = "created" /\ stage'[m][l] = "reading" /\ opener'[l] = n
    BY <1>1, <1>3 DEF TypeOK
  <1>5. TableStays /\ entry'[n][id[n][0]] # Absent
    <2>1. id[n][0] \in Key
      <3>1. 0 \in PeerObject /\ id \in [Node -> [PeerObject -> Key]]
        BY Ends DEF TypeOK
      <3>2. QED
        BY <3>1
    <2>2. TableStays /\ entry'[n][id[n][0]] = l
      BY <1>1, <2>1, EnteredStays
    <2>3. QED
      BY <2>2, Ends
  <1>6. \A i \in Link : opener[i] # n
    BY <1>1 DEF Orderly, CallsFit
  <1>7. CallsFit'
    <2>1. \A j \in Node : /\ opening'[j] => opening[j] /\ j # n
                          /\ tries'[j] = IF j = n THEN 0 ELSE tries[j]
      BY <1>1 DEF TypeOK
    <2>2. ASSUME NEW j \in Node, NEW i \in Link, opener'[i] = j
          PROVE  /\ tries'[j] = 0 /\ entry'[j][id'[j][0]] # Absent
                 /\ \A k \in Link : opener'[k] = j => k = i
      <3>1. CASE j = n
        <4>1. i = l /\ \A k \in Link : opener'[k] = n => k = l
          BY <1>4, <1>6, <2>2, <3>1
        <4>2. QED
          BY <1>1, <1>5, <2>1, <3>1, <4>1
      <3>2. CASE j # n
        <4>1. \A k \in Link : opener'[k] = j => k # l /\ opener[k] = j
          BY <1>4, <3>2
        <4>2. opener[i] = j
          BY <2>2, <4>1
        <4>3. QED
          BY <1>5, <2>1, <3>2, <4>1, <4>2 DEF Orderly, CallsFit, TableStays
      <3>3. QED
        BY <3>1, <3>2
    <2>3. \A j \in Node : opening'[j] => tries'[j] > 0
      BY <2>1 DEF Orderly, CallsFit
    <2>4. QED
      BY <2>2, <2>3 DEF CallsFit
  <1>8. EndsFit'
    <2> SUFFICES ASSUME NEW j \in Node, NEW i \in Link
                 PROVE  EndFits(j, i)'
      BY DEF EndsFit
    <2>1. EndFits(j, i)
      BY DEF Orderly, EndsFit
    <2>2. fresh'[n][0] = TRUE /\ \A o \in PeerObject : fresh[j][o] => fresh'[j][o]
      BY <1>1, Ends DEF TypeOK
    <2>3. CASE i = l
      BY <1>1, <1>2, <1>3, <1>4, <2>1, <2>2, <2>3 DEF EndFits, Obj
    <2>4. CASE i # l
      <3>1. Obj(j, i)' = Obj(j, i) /\ PeerId(j, i)' = PeerId(j, i) /\ Obj(j, i) \in PeerObject
        BY <1>1, <1>4, <2>4, Ends DEF Obj, PeerId
      <3>2. /\ stage'[j][i] = stage[j][i] /\ key'[j][i] = key[j][i] /\ opener'[i] = opener[i]
            /\ closing'[j][i] = closing[j][i]
            /\ fresh[j][Obj(j, i)] => fresh'[j][Obj(j, i)]
            /\ entry[j][Real] # Absent => entry'[j][Real] # Absent
        BY <1>1, <1>4, <1>5, <2>2, <2>4, <3>1 DEF TableStays
      <3>3. QED
        BY <2>1, <3>1, <3>2 DEF EndFits
    <2>5. QED
      BY <2>3, <2>4
  <1>9. WiresFit'
    <2> SUFFICES ASSUME NEW j \in Node, NEW i \in Link
                 PROVE  InTurn(inbox[j][i], Got(j, i)', Sent(Other(j), i)')
      BY <1>1 DEF WiresFit
    <2>1. Other(j) \in Node /\ InTurn(inbox[j][i], Got(j, i), Sent(Other(j), i))
      BY OtherIs DEF Orderly, WiresFit
    <2>2. Got(j, i)' = Got(j, i) /\ Sent(Other(j), i)' = Sent(Other(j), i)
      <3>1. CASE i # l
        BY <1>4, <2>1, <3>1 DEF Got, Sent
      <3>2. CASE i = l
        BY <1>2, <1>3, <1>4, <2>1, <3>2 DEF Got, Sent
      <3>3. QED
        BY <3>1, <3>2
    <2>3. QED
      BY <2>1, <2>2
  <1>10. QED
    BY <1>1, <1>7, <1>8, <1>9 DEF Orderly

LEMMA CallCalm ==
    ASSUME TypeOK, Orderly, NEW n \in Node,
           ConnectToPeer(n) \/ OpenConnection(n) \/ ConnectFails(n)
    PROVE  UNCHANGED <<closed, cut>> /\ Orderly'
  <1>1. /\ UNCHANGED <<entry, id, opener, stage, key, inbox, closed, closing, cut>>
        /\ \A i \in Link : opener[i] # n
    <2>1. CASE ConnectToPeer(n)
      BY <2>1 DEF ConnectToPeer, tableVars, shakeVars, envVars, Orderly, CallsFit
    <2>2. CASE OpenConnection(n)
      BY <2>2 DEF OpenConnection, shakeVars, envVars, Orderly, CallsFit
    <2>3. CASE ConnectFails(n)
      BY <2>3 DEF ConnectFails, tableVars, shakeVars, envVars, Orderly, CallsFit, TypeOK
    <2>4. QED
      BY <2>1, <2>2, <2>3
  <1>2. /\ \A j \in Node \ {n} : tries'[j] = tries[j] /\ opening'[j] = opening[j]
        /\ opening'[n] => tries'[n] > 0
    BY DEF ConnectToPeer, OpenConnection, ConnectFails, TypeOK, Orderly, CallsFit
  <1>3. CallsFit'
    BY <1>1, <1>2 DEF Orderly, CallsFit
  <1>4. EndsFit'
    <2> SUFFICES ASSUME NEW j \in Node, NEW i \in Link
                 PROVE  EndFits(j, i)'
      BY DEF EndsFit
    <2>1. EndFits(j, i) /\ Obj(j, i)' = Obj(j, i) /\ PeerId(j, i)' = PeerId(j, i)
      BY <1>1 DEF Orderly, EndsFit, Obj, PeerId
    <2>2. fresh[j][Obj(j, i)] => fresh'[j][Obj(j, i)]
      <3>1. fresh' = fresh \/ fresh' = [fresh EXCEPT ![n][0] = FALSE]
        BY DEF ConnectToPeer, OpenConnection, ConnectFails, tableVars
      <3>2. Obj(j, i) \in PeerObject
        BY Ends
      <3>3. j = n => Obj(j, i) # 0
        <4>1. i # 0
          BY DEF Link
        <4>2. QED
          BY <1>1, <4>1 DEF Obj
      <3>4. fresh \in [Node -> [PeerObject -> BOOLEAN]]
        BY DEF TypeOK
      <3>5. CASE fresh' = [fresh EXCEPT ![n][0] = FALSE]
        BY <3>2, <3>3, <3>4, <3>5
      <3>6. QED
        BY <3>1, <3>5
    <2>3. QED
      BY <1>1, <2>1, <2>2 DEF EndFits
  <1>5. WiresFit'
    BY <1>1 DEF Orderly, WiresFit, Got, Sent
  <1>6. QED
    BY <1>1, <1>3, <1>4, <1>5 DEF Orderly

\* What no end, no call and no table is changed by.
LEMMA RestCalm ==
    ASSUME TypeOK, Peaceful, Orderly, NEW n \in Node,
           \/ SendToPeer(n) \/ Freeze(n) \/ StartRound(n)
           \/ \E k \in Key, l \in Link : Ping(n, k, l) \/ StillAlive(n, k, l)
           \/ UNCHANGED vars
    PROVE  UNCHANGED <<closed, cut>> /\ Orderly'
  <1>1. UNCHANGED <<tableVars, callVars, stage, key, closed, closing, cut>>
    BY DEF SendToPeer, Freeze, StartRound, Ping, StillAlive, vars, shakeVars, envVars
  <1>2. CallsFit' /\ EndsFit'
    BY <1>1 DEF Orderly, CallsFit, EndsFit, EndFits, PeerId, Obj, tableVars, callVars
  <1>3. WiresFit'
    <2>1. CASE inbox' = inbox
      BY <1>1, <2>1 DEF Orderly, WiresFit, Got, Sent, callVars
    <2>2. ASSUME NEW l \in Link, NEW type \in Talk, key[n][l] # NoKey,
                 inbox' = Deliver(inbox, n, l, <<Msg(type, n, l)>>)
          PROVE  WiresFit'
      <3>1. stage[n][l] = "loop"
        BY <2>2 DEF Orderly, EndsFit, EndFits
      <3>2. PICK box : box = inbox
        OBVIOUS
      <3>3. box \in [Node -> [Link -> Seq(Message)]]
        BY <3>2 DEF TypeOK
      <3>4. inbox' = Deliver(box, n, l, <<Msg(type, n, l)>>)
        BY <2>2, <3>2
      <3>5. QED
        BY <1>1, <3>1, <3>2, <3>3, <3>4, SayKeeps DEF Orderly, callVars
    <2>3. CASE SendToPeer(n)
      <3>1. entry[n][Real] \in Link /\ key[n][entry[n][Real]] # NoKey
            /\ inbox' = Deliver(inbox, n, entry[n][Real], <<Msg("data", n, entry[n][Real])>>)
        BY <2>3, EntryLink, Keys DEF SendToPeer
      <3>2. QED
        BY <2>2, <3>1 DEF Talk
    <2>4. ASSUME NEW k \in Key, NEW l \in Link, Ping(n, k, l)
          PROVE  WiresFit'
      <3>1. /\ key[n][l] # NoKey
            /\ inbox' = inbox \/ inbox' = Deliver(inbox, n, l, <<Msg("ping", n, l)>>)
        BY <2>4 DEF Ping
      <3>2. QED
        BY <2>1, <2>2, <3>1 DEF Talk
    <2>5. QED
      BY <2>1, <2>3, <2>4 DEF Freeze, StartRound, StillAlive, vars
  <1>4. QED
    BY <1>1, <1>2, <1>3 DEF Orderly

\* What ends a connection, or may: the user, who disconnects or replies too
\* early, the health check, the network.
Asked ==
    \/ \E n \in Node, k \in Key : DisconnectFromPeer(n, k)
    \/ \E n \in Node : ReplyToPeer(n)
    \/ \E n \in Node, k \in Key, l \in Link : Timeout(n, k, l)
    \/ \E l \in Link : CutLink(l)

LEMMA DisconnectEnds ==
    ASSUME TypeOK, NEW n \in Node, NEW k \in Key, entry[n][k] # Absent, Disconnect(n, k)
    PROVE  ~Peaceful'
  <1>1. entry[n][k] \in Link /\ closed' = [closed EXCEPT ![n][entry[n][k]] = TRUE]
    BY EntryLink DEF Disconnect
  <1>2. closed'[n][entry[n][k]] = TRUE
    BY <1>1 DEF TypeOK
  <1>3. QED
    BY <1>1, <1>2 DEF Peaceful

LEMMA ReplyCounts ==
    ASSUME TypeOK, NEW n \in Node, ReplyToPeer(n)
    PROVE  replies'[n] > 0
  <1>1. replies' = [replies EXCEPT ![n] = @ + 1] /\ replies \in [Node -> Nat]
    BY DEF ReplyToPeer, TypeOK
  <1>2. QED
    BY <1>1

LEMMA AskedCalm ==
    ASSUME TypeOK, Orderly, Asked, Peaceful'
    PROVE  Orderly'
  <1>1. PICK n \in Node, k \in Key, l \in Link : Timeout(n, k, l) /\ entry[n][k] = Absent
    <2>1. ~ \E n \in Node, k \in Key : DisconnectFromPeer(n, k)
      BY DisconnectEnds DEF DisconnectFromPeer
    <2>2. ~ \E l \in Link : CutLink(l)
      BY DEF CutLink, TypeOK, Peaceful
    <2>3. ~ \E n \in Node : ReplyToPeer(n)
      BY ReplyCounts DEF Peaceful
    <2>4. PICK n \in Node, k \in Key, l \in Link : Timeout(n, k, l)
      BY <2>1, <2>2, <2>3 DEF Asked
    <2>5. QED
      BY <2>4, DisconnectEnds DEF Timeout
  <1>2. UNCHANGED <<entry, id, fresh, callVars, stage, key, inbox, closing>>
    BY <1>1 DEF Timeout, shakeVars
  <1>3. QED
    BY <1>2 DEF Orderly, WiresFit, Got, Sent, CallsFit, EndsFit, EndFits, PeerId, Obj, callVars

\* What the steps leave alone.
LEMMA HandlerLeaves ==
    ASSUME NEW n \in Node, NEW l \in Link, Handler(n, l)
    PROVE  /\ UNCHANGED <<cut, round, disconnects, replies>>
           /\ id' = id \/ id' = [id EXCEPT ![n][Obj(n, l)] = Real]
  <1>1. CASE ServerHello(n, l) \/ ReadHello(n, l)
    BY <1>1 DEF ServerHello, ReadHello, ComputeSecret, envVars, boundVars
  <1>2. CASE HandleIncoming(n, l) \/ RefuseIncoming(n, l) \/ SkipHandshake(n, l)
    BY <1>2 DEF HandleIncoming, RefuseIncoming, SkipHandshake, tableVars, envVars, boundVars,
       checkVars
  <1>3. CASE ClientHello(n, l) \/ ReadKey(n, l) \/ WrongMessage(n, l)
    BY <1>3 DEF ClientHello, ReadKey, WrongMessage, envVars, boundVars
  <1>4. CASE ReadRaises(n, l) \/ HandleMessage(n, l)
    BY <1>4 DEF ReadRaises, HandleMessage, envVars, boundVars, checkVars
  <1>5. QED
    BY <1>1, <1>2, <1>3, <1>4 DEF Handler

LEMMA CallLeaves ==
    ASSUME NEW n \in Node,
           \/ ConnectToPeer(n) \/ SendToPeer(n) \/ Freeze(n) \/ Call(n)
           \/ \E l \in Link : Disconnected(n, l)
    PROVE  UNCHANGED <<cut, round, disconnects, replies, id>>
  BY DEF ConnectToPeer, SendToPeer, Freeze, Call, OpenConnection, Connected, ConnectFails,
     Disconnected, tableVars, envVars, boundVars, checkVars

LEMMA AskedLeaves ==
    /\ \A n \in Node : HealthCheck(n) => UNCHANGED <<cut, disconnects, replies, id>>
    /\ \A n \in Node, k \in Key : DisconnectFromPeer(n, k) =>
         /\ UNCHANGED <<cut, round, replies, id>>
         /\ disconnects' = [disconnects EXCEPT ![n] = @ + 1]
    /\ \A n \in Node : ReplyToPeer(n) =>
         /\ UNCHANGED <<cut, round, disconnects, id>>
         /\ replies' = [replies EXCEPT ![n] = @ + 1]
    /\ \A l \in Link : CutLink(l) => UNCHANGED <<round, disconnects, replies, id>>
  <1>1. \A n \in Node : HealthCheck(n) => UNCHANGED <<cut, disconnects, replies, id>>
    <2> SUFFICES ASSUME NEW n \in Node, HealthCheck(n)
                 PROVE  UNCHANGED <<cut, disconnects, replies, id>>
      OBVIOUS
    <2>1. CASE StartRound(n)
      BY <2>1 DEF StartRound, tableVars, envVars, boundVars
    <2>2. ASSUME NEW k \in Key, NEW l \in Link,
                 Ping(n, k, l) \/ StillAlive(n, k, l) \/ Timeout(n, k, l)
          PROVE  UNCHANGED <<cut, disconnects, replies, id>>
      BY <2>2 DEF Ping, StillAlive, Timeout, tableVars, envVars, boundVars
    <2>3. QED
      BY <2>1, <2>2 DEF HealthCheck
  <1>2. \A n \in Node, k \in Key : DisconnectFromPeer(n, k) =>
         /\ UNCHANGED <<cut, round, replies, id>>
         /\ disconnects' = [disconnects EXCEPT ![n] = @ + 1]
    BY DEF DisconnectFromPeer, envVars, checkVars
  <1>3. \A n \in Node : ReplyToPeer(n) =>
         /\ UNCHANGED <<cut, round, disconnects, id>>
         /\ replies' = [replies EXCEPT ![n] = @ + 1]
    BY DEF ReplyToPeer, tableVars, envVars
  <1>4. \A l \in Link : CutLink(l) => UNCHANGED <<round, disconnects, replies, id>>
    BY DEF CutLink, tableVars, checkVars, boundVars
  <1>5. QED
    BY <1>1, <1>2, <1>3, <1>4

\* A step that is not asked for closes nothing.
LEMMA OthersCalm ==
    ASSUME TypeOK, StageFits, IdsFit, Peaceful, Orderly, [Next]_vars, ~Asked
    PROVE  UNCHANGED <<closed, cut, replies>> /\ Orderly'
  <1>1. "a" \in Node
    BY DEF Node
  <1>2. CASE UNCHANGED vars
    BY <1>1, <1>2, RestCalm DEF vars, boundVars
  <1>3. ASSUME NEW n \in Node, NEW l \in Link, Handler(n, l) \/ Connected(n, l)
        PROVE  UNCHANGED <<closed, cut>> /\ Orderly'
    BY <1>3, HandlerCalm, ConnectedCalm
  <1>4. ASSUME NEW n \in Node, ConnectToPeer(n) \/ OpenConnection(n) \/ ConnectFails(n)
        PROVE  UNCHANGED <<closed, cut>> /\ Orderly'
    BY <1>4, CallCalm
  <1>5. ASSUME NEW n \in Node, SendToPeer(n) \/ Freeze(n) \/ HealthCheck(n)
        PROVE  UNCHANGED <<closed, cut>> /\ Orderly'
    <2>1. ~ \E k \in Key, l \in Link : Timeout(n, k, l)
      BY DEF Asked
    <2>2. QED
      BY <1>5, <2>1, RestCalm DEF HealthCheck
  <1>6. ~ \E n \in Node, l \in Link : Disconnected(n, l)
    BY DEF Disconnected, Orderly, EndsFit, EndFits
  <1>7. UNCHANGED <<closed, cut>> /\ Orderly'
    BY <1>2, <1>3, <1>4, <1>5, <1>6 DEF Next, Call, Asked
  <1>8. replies' = replies
    BY HandlerLeaves, CallLeaves, AskedLeaves DEF Next, Asked, vars, boundVars
  <1>9. QED
    BY <1>7, <1>8

LEMMA EndsStay ==
    ASSUME TypeOK, [Next]_vars
    PROVE  /\ Peaceful' => Peaceful
           /\ Disturbed => Disturbed'
  <1>1. \/ closed' = closed
        \/ \E n \in Node, l \in Link : closed' = [closed EXCEPT ![n][l] = TRUE]
    <2>1. ASSUME NEW n \in Node, NEW k \in Key, entry[n][k] # Absent, Disconnect(n, k)
          PROVE  \E l \in Link : closed' = [closed EXCEPT ![n][l] = TRUE]
      BY <2>1, EntryLink DEF Disconnect
    <2>2. ASSUME NEW n \in Node, NEW l \in Link, Handler(n, l)
          PROVE  closed' = closed \/ closed' = [closed EXCEPT ![n][l] = TRUE]
      BY <2>2 DEF Handler, HandleIncoming, RefuseIncoming, SkipHandshake, ClientHello,
         ServerHello, ReadHello, ComputeSecret, ReadKey, WrongMessage, ReadRaises,
         HandleMessage, NextMessage, CleanupConnection
    <2>3. ASSUME NEW n \in Node, HealthCheck(n)
          PROVE  \/ closed' = closed
                 \/ \E l \in Link : closed' = [closed EXCEPT ![n][l] = TRUE]
      BY <2>1, <2>3 DEF HealthCheck, StartRound, Ping, StillAlive, Timeout
    <2>4. ASSUME NEW n \in Node, NEW k \in Key, DisconnectFromPeer(n, k)
          PROVE  \E l \in Link : closed' = [closed EXCEPT ![n][l] = TRUE]
      BY <2>1, <2>4 DEF DisconnectFromPeer
    <2>5. ASSUME NEW n \in Node,
                 \/ ConnectToPeer(n) \/ SendToPeer(n) \/ ReplyToPeer(n) \/ Freeze(n)
                 \/ Call(n) \/ \E l \in Link : Disconnected(n, l) \/ CutLink(l)
          PROVE  closed' = closed
      BY <2>5 DEF ConnectToPeer, SendToPeer, ReplyToPeer, Freeze, Call, OpenConnection, Connected,
         ConnectFails, Disconnected, CutLink
    <2>6. CASE UNCHANGED vars
      BY <2>6 DEF vars
    <2>7. "a" \in Node
      BY DEF Node
    <2>8. QED
      BY <2>2, <2>3, <2>4, <2>5, <2>6, <2>7 DEF Next
  <1>2. cut' = cut \/ \E l \in Link : CutLink(l)
    BY HandlerLeaves, CallLeaves, AskedLeaves DEF Next, vars, envVars
  <1>3. \A l \in Link : cut[l] => cut'[l]
    BY <1>2 DEF CutLink, TypeOK
  <1>4. \A n \in Node, l \in Link : closed[n][l] => closed'[n][l]
    <2>1. closed \in [Node -> [Link -> BOOLEAN]]
      BY DEF TypeOK
    <2>2. QED
      BY <1>1, <2>1
  <1>5. \A n \in Node : disconnects[n] > 0 => disconnects'[n] > 0
    <2>1. \/ disconnects' = disconnects
          \/ \E n \in Node : disconnects' = [disconnects EXCEPT ![n] = @ + 1]
      BY HandlerLeaves, CallLeaves, AskedLeaves DEF Next, vars, boundVars
    <2>2. disconnects \in [Node -> Nat]
      BY DEF TypeOK
    <2>3. QED
      BY <2>1, <2>2
  <1>6. \A n \in Node : replies'[n] \in Nat /\ replies[n] \in Nat /\ replies'[n] >= replies[n]
    <2>1. \/ replies' = replies
          \/ \E n \in Node : replies' = [replies EXCEPT ![n] = @ + 1]
      BY HandlerLeaves, CallLeaves, AskedLeaves DEF Next, vars, boundVars
    <2>2. replies \in [Node -> Nat]
      BY DEF TypeOK
    <2>3. QED
      BY <2>1, <2>2
  <1>7. QED
    BY <1>3, <1>4, <1>5, <1>6 DEF Peaceful, Disturbed

LEMMA IdsKeep ==
    ASSUME TypeOK, IdsFit, [Next]_vars
    PROVE  IdsFit'
  <1>1. \/ id' = id
        \/ \E n \in Node, l \in Link : id' = [id EXCEPT ![n][Obj(n, l)] = Real]
    BY HandlerLeaves, CallLeaves, AskedLeaves DEF Next, vars, tableVars
  <1>2. CASE \E n \in Node, l \in Link : id' = [id EXCEPT ![n][Obj(n, l)] = Real]
    <2>1. PICK n \in Node, l \in Link : id' = [id EXCEPT ![n][Obj(n, l)] = Real]
      BY <1>2
    <2>2. id \in [Node -> [PeerObject -> Key]] /\ Obj(n, l) \in PeerObject
      BY Ends DEF TypeOK
    <2>3. \A m \in Node, o \in PeerObject : id'[m][o] \in {Real, id[m][o]}
      BY <2>1, <2>2
    <2>4. 0 \in PeerObject /\ \A i \in Link : i \in PeerObject
      BY Ends
    <2>5. QED
      BY <2>3, <2>4 DEF IdsFit
  <1>3. QED
    BY <1>1, <1>2 DEF IdsFit

-----------------------------------------------------------------------------
\* Until a connection is closed or lost, every end reads the messages of the
\* handshake in the order it expects, finds its Peer object and its entry,
\* and leaves its peer in its table, whatever calls cross
\* (connection_manager.py:209-235, 264-306, 319-425).
THEOREM HandshakeInOrder == Spec => []PeaceInv
  <1>1. Init => PeaceInv
    <2> SUFFICES ASSUME Init PROVE PeaceInv
      OBVIOUS
    <2>1. /\ \A n \in Node : opening[n] = FALSE /\ tries[n] = 0
          /\ \A l \in Link : opener[l] = "none" /\ opener[l] \notin Node
          /\ \A n \in Node, l \in Link : /\ stage[n][l] = "none" /\ key[n][l] = NoKey
                                        /\ inbox[n][l] = <<>> /\ closing[n][l] = FALSE
      BY DEF Init, Node
    <2>2. IdsFit
      <3>1. /\ 0 \in PeerObject
            /\ \A l \in Link : l \in PeerObject /\ l # 0
        BY LinksAssumption DEF PeerObject, Link
      <3>2. QED
        BY <3>1 DEF Init, IdsFit
    <2>3. CallsFit /\ EndsFit
      BY <2>1 DEF CallsFit, EndsFit, EndFits
    <2>4. WiresFit
      <3> SUFFICES ASSUME NEW n \in Node, NEW l \in Link
                   PROVE  InTurn(inbox[n][l], Got(n, l), Sent(Other(n), l))
        BY DEF WiresFit
      <3>1. Got(n, l) = 0 /\ Sent(Other(n), l) = 0 /\ inbox[n][l] = <<>>
        BY <2>1, OtherIs DEF Got, Sent
      <3>2. QED
        BY <3>1 DEF InTurn
    <2>5. QED
      BY <2>2, <2>3, <2>4 DEF PeaceInv, Orderly
  <1>2. TypeOK /\ TableInv /\ PeaceInv /\ [Next]_vars => PeaceInv'
    <2> SUFFICES ASSUME TypeOK, TableInv, PeaceInv, [Next]_vars
                 PROVE  PeaceInv'
      OBVIOUS
    <2>1. IdsFit'
      BY IdsKeep DEF PeaceInv
    <2>2. ASSUME Peaceful'
          PROVE  Orderly'
      <3>1. Peaceful /\ Orderly /\ IdsFit /\ StageFits
        BY <2>2, EndsStay DEF PeaceInv, TableInv
      <3>2. QED
        BY <2>2, <3>1, AskedCalm, OthersCalm
    <2>3. QED
      BY <2>1, <2>2 DEF PeaceInv
  <1>3. QED
    BY <1>1, <1>2, TypeCorrect, TableSafe, PTL DEF Spec

\* The first connection to end is ended by a user, by the health check or by
\* the network: no crossed call, no rename, no message of a handshake and no
\* cleanup of another connection does (connection_manager.py:209-235, 264-306,
\* 319-351, 385-404, 427-452).
THEOREM FirstEndIsAsked == Spec => [][Peaceful /\ ~Peaceful' => Asked]_vars
  <1>1. TypeOK /\ TableInv /\ PeaceInv /\ [Next]_vars => [Peaceful /\ ~Peaceful' => Asked]_vars
    <2> SUFFICES ASSUME TypeOK, TableInv, PeaceInv, [Next]_vars, Peaceful, ~Asked
                 PROVE  Peaceful'
      OBVIOUS
    <2>1. UNCHANGED <<closed, cut, replies>>
      BY OthersCalm DEF PeaceInv, TableInv
    <2>2. QED
      BY <2>1 DEF Peaceful
  <1>2. QED
    BY <1>1, TypeCorrect, TableSafe, HandshakeInOrder, PTL DEF Spec

\* Until then messages are only read after the key exchange
\* (README.md:109): it takes a disconnect to skip it.
THEOREM SecureUntilClosed == Spec => [](Peaceful => LoopIsSecure)
  <1>1. PeaceInv => (Peaceful => LoopIsSecure)
    BY DEF PeaceInv, Orderly, EndsFit, EndFits, LoopIsSecure
  <1>2. QED
    BY <1>1, HandshakeInOrder, PTL

\* Until then, whoever is authenticated has its peer in its table.
THEOREM ReachableUntilClosed == Spec => [](Peaceful => Reachable)
  <1>1. PeaceInv => (Peaceful => Reachable)
    BY DEF PeaceInv, Orderly, EndsFit, EndFits, Reachable
  <1>2. QED
    BY <1>1, HandshakeInOrder, PTL
=============================================================================
