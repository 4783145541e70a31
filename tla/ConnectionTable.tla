-------------------------- MODULE ConnectionTable --------------------------
(***************************************************************************)
(* The connections between two peers and the table, _connections, in which *)
(* each of them looks the other up (network/connection_manager.py).  Either*)
(* user may call, so that connections cross; a connection is entered under *)
(* the peer id known at that moment, renamed by the handshake, and removed *)
(* by whoever ends.  One action is the code between two awaits.  Handshake *)
(* messages are small: their drain does not suspend.                       *)
(***************************************************************************)
EXTENDS Integers, Sequences

CONSTANTS
    MaxLinks,       \* bound: TCP connections ever opened
    MaxTries,       \* MAX_CONNECT_RETRIES
    AddressOnly,    \* users who call an address, not a peer of the list
    MaxCalls,       \* bound: node -> calls of connect_to_peer
    MaxDisconnects, \* bound: node -> calls of disconnect_from_peer
    MaxSends,       \* bound: node -> messages sent by other components
    MaxReplies,     \* bound: node -> of these, before the handshake is done
    MayRefuse,      \* whether opening a connection can fail
    MayCut,         \* links that may be lost
    MayFreeze,      \* nodes whose program may hang
    Checking        \* nodes whose health check is modelled

Node == {"a", "b"}
Other(n) == IF n = "a" THEN "b" ELSE "a"
Link == 1 .. MaxLinks
Half == Node \X Link

\* Peer ids as keys of a table: the peer's own, the one add_manual_peer made
\* up for an address, and one per incoming connection ("incoming_...").
Real == 0
Alias == -1
TempId(l) == l
Key == -1 .. MaxLinks

\* No connection under that key.
Absent == 0

\* Peer objects of a node: 0 is that of its peer list, shared by all connections
\* it opens, l the one made for the incoming connection l.
PeerObject == 0 .. MaxLinks

ASSUME LinksAssumption == MaxLinks \in Nat \ {0}
ASSUME TriesAssumption == MaxTries \in Nat \ {0}
ASSUME NodesAssumption ==
    /\ AddressOnly \subseteq Node /\ MayFreeze \subseteq Node
    /\ Checking \subseteq Node /\ MayCut \subseteq Link
    /\ MayRefuse \in BOOLEAN
ASSUME CallsAssumption ==
    /\ MaxCalls \in [Node -> Nat] /\ MaxDisconnects \in [Node -> Nat]
    /\ MaxSends \in [Node -> Nat] /\ MaxReplies \in [Node -> Nat]

VARIABLES
    entry,     \* node -> _connections: key -> link, or Absent
    id,        \* node -> Peer object -> peer_id
    fresh,     \* node -> Peer object -> its state is "connected"
    tries,     \* node -> attempt of the call in _pending_connections, or 0
    opening,   \* node -> suspended in open_connection
    opener,    \* link -> the node that opened it, or "none"
    stage,     \* node -> link -> where its coroutine is, see Stage
    pub,       \* node -> link -> whose public key it computed its secret with
    key,       \* node -> link -> its session key, or NoKey
    inbox,     \* node -> link -> messages on their way to it, in order
    closed,    \* node -> link -> it closed its writer
    closing,   \* node -> link -> disconnect_from_peer suspended in close
    cut,       \* link -> lost
    frozen,    \* nodes that hang
    idle,      \* node -> link -> rounds since last_activity, at most Dead
    round,     \* node -> entries the health check has still to see
    calls, disconnects, sends, replies   \* counters of the bounds

tableVars == <<entry, id, fresh>>
callVars  == <<tries, opening, opener>>
shakeVars == <<pub, key>>
envVars   == <<cut, frozen>>
checkVars == <<idle, round>>
boundVars == <<calls, disconnects, sends, replies>>
vars == <<tableVars, callVars, stage, shakeVars, inbox, closed, closing,
          envVars, checkVars, boundVars>>

\* _handle_incoming waits for HELLO ("reading"); the coroutine
\* _handle_connection is created, waits for HELLO, for KEY_EXCHANGE, for the
\* next message ("loop"), and is gone.
Stage == {"none", "reading", "created", "hello", "key", "loop", "gone"}

NoHalf == <<"none", 0>>
NoKey == <<{}, {}>>
SessionKeys == (SUBSET (Half \cup {NoHalf})) \X (SUBSET Half)
\* "clear" is a message of another component written without a key.
MsgType == {"hello", "key", "ping", "pong", "data", "clear", "disconnect"}
Message == [type : MsgType, of : Half]

\* The Peer object of a half.
Obj(n, l) == IF opener[l] = n THEN 0 ELSE l
PeerId(n, l) == id[n][Obj(n, l)]

Msg(type, n, l) == [type |-> type, of |-> <<n, l>>]
Head1(n, l) == Head(inbox[n][l]).type

\* A silent connection is given up after two or three rounds of the check.
Dead == 3

-----------------------------------------------------------------------------
(* Writing and ending.                                                     *)

\* Messages written into a connection that is lost or that the other end
\* has closed go nowhere.
Deliver(box, n, l, ms) ==
    IF cut[l] \/ closed[Other(n)][l] THEN box
    ELSE [box EXCEPT ![Other(n)][l] = @ \o ms]

Read(n, l) == [inbox EXCEPT ![n][l] = Tail(@)]

\* Writing may raise, and certainly does on a writer this end has closed.
WriteMayRaise(n, l) == closed[n][l] \/ cut[l] \/ closed[Other(n)][l]

\* Mutant of CleanupConnection: the writer stays open.
CleanupKeepsWriter(n, l, table, k) ==
    /\ entry' = [table EXCEPT ![n][k] = Absent]
    /\ fresh' = [fresh EXCEPT ![n][Obj(n, l)] = FALSE]
    /\ stage' = [stage EXCEPT ![n][l] = "gone"]
    /\ UNCHANGED closed

\* _cleanup_connection: the entry under this peer id is deleted, whichever
\* connection it is, and the writer closed.
CleanupConnection(n, l, table, k) ==
    /\ entry' = [table EXCEPT ![n][k] = Absent]
    /\ fresh' = [fresh EXCEPT ![n][Obj(n, l)] = FALSE]
    /\ closed' = [closed EXCEPT ![n][l] = TRUE]
    /\ stage' = [stage EXCEPT ![n][l] = "gone"]

\* The test of the loop: the peer id is in the table.
NextMessage(n, l) ==
    \/ /\ entry[n][PeerId(n, l)] # Absent
       /\ stage' = [stage EXCEPT ![n][l] = "loop"]
       /\ fresh' = [fresh EXCEPT ![n][Obj(n, l)] =
                       IF stage[n][l] = "key" THEN FALSE ELSE @]
       /\ UNCHANGED <<entry, closed>>
    \/ /\ entry[n][PeerId(n, l)] = Absent
       /\ CleanupConnection(n, l, entry, PeerId(n, l))

Touch(n, l) == idle' = [idle EXCEPT ![n][l] = 0]

-----------------------------------------------------------------------------
(* Calling.                                                                *)

\* connect_to_peer returns at once if the peer is in the table or called.
ConnectToPeer(n) ==
    /\ n \notin frozen /\ calls[n] < MaxCalls[n]
    /\ calls' = [calls EXCEPT ![n] = @ + 1]
    /\ entry[n][id[n][0]] = Absent /\ tries[n] = 0
    /\ tries' = [tries EXCEPT ![n] = 1]
    /\ UNCHANGED <<tableVars, opening, opener, stage, shakeVars, inbox, closed,
                   closing, envVars, checkVars, disconnects, sends, replies>>

\* A coroutine just created runs before anything the network has to answer.
OpenConnection(n) ==
    /\ n \notin frozen /\ tries[n] > 0 /\ ~opening[n]
    /\ \A l \in Link : opener[l] = n => stage[n][l] # "created"
    /\ opening' = [opening EXCEPT ![n] = TRUE]
    /\ fresh' = [fresh EXCEPT ![n][0] = FALSE]
    /\ UNCHANGED <<entry, id, tries, opener, stage, shakeVars, inbox, closed,
                   closing, envVars, checkVars, boundVars>>

\* The connection is entered under the peer id, over whatever is there.
Connected(n, l) ==
    /\ n \notin frozen /\ opening[n] /\ opener[l] = "none"
    /\ \A k \in 1 .. l - 1 : opener[k] # "none"
    /\ opener' = [opener EXCEPT ![l] = n]
    /\ entry' = [entry EXCEPT ![n][id[n][0]] = l]
    /\ fresh' = [fresh EXCEPT ![n][0] = TRUE]
    /\ stage' = [stage EXCEPT ![n][l] = "created",
                              ![Other(n)][l] = "reading"]
    /\ tries' = [tries EXCEPT ![n] = 0]
    /\ opening' = [opening EXCEPT ![n] = FALSE]
    /\ UNCHANGED <<id, shakeVars, inbox, closed, closing, envVars, checkVars,
                   boundVars>>

\* Mutants of Retry: no end, or one attempt too many.
RetryForEver(t) == IF t < MaxTries THEN t + 1 ELSE t
RetryOnceMore(t) == IF t <= MaxTries THEN t + 1 ELSE 0
Retry(t) == IF t < MaxTries THEN t + 1 ELSE 0

ConnectFails(n) ==
    /\ n \notin frozen /\ opening[n] /\ MayRefuse
    /\ opening' = [opening EXCEPT ![n] = FALSE]
    /\ tries' = [tries EXCEPT ![n] = Retry(@)]
    /\ UNCHANGED <<tableVars, opener, stage, shakeVars, inbox, closed, closing,
                   envVars, checkVars, boundVars>>

-----------------------------------------------------------------------------
(* Handshake.                                                              *)

\* _handle_incoming: a first message that is HELLO gets a temporary entry.
HandleIncoming(n, l) ==
    /\ n \notin frozen /\ stage[n][l] = "reading"
    /\ inbox[n][l] # <<>> /\ Head1(n, l) = "hello"
    /\ inbox' = Read(n, l)
    /\ pub' = [pub EXCEPT ![n][l] = Head(inbox[n][l]).of]
    /\ entry' = [entry EXCEPT ![n][TempId(l)] = l]
    /\ fresh' = [fresh EXCEPT ![n][l] = TRUE]
    /\ stage' = [stage EXCEPT ![n][l] = "created"]
    /\ Touch(n, l)
    /\ UNCHANGED <<id, callVars, key, closed, closing, envVars, round,
                   boundVars>>

\* Any other message, or the end of the stream, closes it.
RefuseIncoming(n, l) ==
    /\ n \notin frozen /\ stage[n][l] = "reading"
    /\ \/ inbox[n][l] # <<>> /\ Head1(n, l) # "hello"
       \/ inbox[n][l] = <<>> /\ closed[Other(n)][l]
       \/ cut[l]
    /\ stage' = [stage EXCEPT ![n][l] = "gone"]
    /\ closed' = [closed EXCEPT ![n][l] = TRUE]
    /\ UNCHANGED <<tableVars, callVars, shakeVars, inbox, closing, envVars,
                   checkVars, boundVars>>

Starting(n, l) == n \notin frozen /\ stage[n][l] = "created"

\* Not "connected" when first run: no handshake.
SkipHandshake(n, l) ==
    /\ Starting(n, l) /\ ~fresh[n][Obj(n, l)]
    /\ NextMessage(n, l)
    /\ UNCHANGED <<id, callVars, shakeVars, inbox, closing, envVars, checkVars,
                   boundVars>>

ClientHello(n, l) ==
    /\ Starting(n, l) /\ fresh[n][Obj(n, l)] /\ opener[l] = n
    /\ \/ /\ ~closed[n][l]
          /\ inbox' = Deliver(inbox, n, l, <<Msg("hello", n, l)>>)
          /\ fresh' = [fresh EXCEPT ![n][Obj(n, l)] = FALSE]
          /\ stage' = [stage EXCEPT ![n][l] = "hello"]
          /\ Touch(n, l)
          /\ UNCHANGED <<entry, closed>>
       \/ /\ WriteMayRaise(n, l)
          /\ CleanupConnection(n, l, entry, PeerId(n, l))
          /\ UNCHANGED <<inbox, idle>>
    /\ UNCHANGED <<id, callVars, shakeVars, closing, envVars, round, boundVars>>

\* The handshake learns the peer's id: the old entry goes, the connection is
\* entered under the new one.  Mutants: the old entry stays; it is deleted
\* last, though old and new may be the same.
RenamedTwice(n, l) == [entry EXCEPT ![n][Real] = l]
RenamedLate(n, l) == [entry EXCEPT ![n] = [@ EXCEPT ![Real] = l,
                                                    ![PeerId(n, l)] = Absent]]
Renamed(n, l) == [entry EXCEPT ![n] = [@ EXCEPT ![PeerId(n, l)] = Absent,
                                                ![Real] = l]]

\* Both ends: HELLO is there, KEY_EXCHANGE is sent after sent.
ComputeSecret(n, l, box, sent) ==
    /\ id' = [id EXCEPT ![n][Obj(n, l)] = Real]
    /\ \/ /\ ~closed[n][l]
          /\ entry' = Renamed(n, l)
          /\ inbox' = Deliver(box, n, l, sent \o <<Msg("key", n, l)>>)
          /\ fresh' = [fresh EXCEPT ![n][Obj(n, l)] = FALSE]
          /\ stage' = [stage EXCEPT ![n][l] = "key"]
          /\ UNCHANGED closed
       \/ /\ WriteMayRaise(n, l)
          /\ CleanupConnection(n, l, Renamed(n, l), Real)
          /\ inbox' = box
    /\ Touch(n, l)
    /\ UNCHANGED <<callVars, key, closing, envVars, round, boundVars>>

ServerHello(n, l) ==
    /\ Starting(n, l) /\ fresh[n][Obj(n, l)] /\ opener[l] # n
    /\ ComputeSecret(n, l, inbox, <<Msg("hello", n, l)>>)
    /\ UNCHANGED pub

ReadHello(n, l) ==
    /\ n \notin frozen /\ stage[n][l] = "hello"
    /\ inbox[n][l] # <<>> /\ Head1(n, l) = "hello"
    /\ pub' = [pub EXCEPT ![n][l] = Head(inbox[n][l]).of]
    /\ ComputeSecret(n, l, Read(n, l), <<>>)

\* The shared secret of two key pairs, and the hash of both salts, sorted.
\* Mutant: the salts are joined in the order own, peer's.
SessionKeyUnsorted(n, l, m) == <<{<<n, l>>, pub[n][l]}, {<<n, l>>}>>
SessionKey(n, l, m) == <<{<<n, l>>, pub[n][l]}, {<<n, l>>, m.of}>>

ReadKey(n, l) ==
    /\ n \notin frozen /\ stage[n][l] = "key"
    /\ inbox[n][l] # <<>> /\ Head1(n, l) = "key"
    /\ inbox' = Read(n, l)
    /\ key' = [key EXCEPT ![n][l] = SessionKey(n, l, Head(inbox[n][l]))]
    /\ NextMessage(n, l)
    /\ Touch(n, l)
    /\ UNCHANGED <<id, callVars, pub, closing, envVars, round, boundVars>>

-----------------------------------------------------------------------------
(* The loop, and how a connection ends.                                    *)

\* A message of the wrong type in the handshake raises.
WrongMessage(n, l) ==
    /\ n \notin frozen /\ stage[n][l] \in {"hello", "key"}
    /\ inbox[n][l] # <<>> /\ Head1(n, l) # stage[n][l]
    /\ inbox' = Read(n, l)
    /\ CleanupConnection(n, l, entry, PeerId(n, l))
    /\ Touch(n, l)
    /\ UNCHANGED <<id, callVars, shakeVars, closing, envVars, round, boundVars>>

\* The stream ends behind the last message; a lost connection raises at once.
Eof(n, l) ==
    \/ cut[l] \/ closed[n][l]
    \/ inbox[n][l] = <<>> /\ closed[Other(n)][l]
ReadRaises(n, l) ==
    /\ n \notin frozen /\ stage[n][l] \in {"hello", "key", "loop"}
    /\ Eof(n, l)
    /\ CleanupConnection(n, l, entry, PeerId(n, l))
    /\ UNCHANGED <<id, callVars, shakeVars, inbox, closing, envVars, checkVars,
                   boundVars>>

\* What is not encrypted with its key is an error an end cannot parse.
EndsLoop(n, l) ==
    Head1(n, l) = "disconnect" \/ (Head1(n, l) = "clear" /\ key[n][l] # NoKey)
HandleMessage(n, l) ==
    /\ n \notin frozen /\ stage[n][l] = "loop" /\ inbox[n][l] # <<>>
    /\ \/ /\ EndsLoop(n, l)
          /\ CleanupConnection(n, l, entry, PeerId(n, l))
          /\ inbox' = Read(n, l)
       \/ /\ Head1(n, l) = "ping" /\ ~closed[n][l]
          /\ inbox' = Deliver(Read(n, l), n, l, <<Msg("pong", n, l)>>)
          /\ NextMessage(n, l)
       \/ /\ Head1(n, l) = "ping" /\ WriteMayRaise(n, l)
          /\ CleanupConnection(n, l, entry, PeerId(n, l))
          /\ inbox' = Read(n, l)
       \/ /\ ~EndsLoop(n, l) /\ Head1(n, l) # "ping"
          /\ inbox' = Read(n, l)
          /\ NextMessage(n, l)
    /\ Touch(n, l)
    /\ UNCHANGED <<id, callVars, shakeVars, closing, envVars, round, boundVars>>

\* What disconnect_from_peer(k) does before it suspends.
Disconnect(n, k) ==
    LET l == entry[n][k]
    IN  /\ entry' = [entry EXCEPT ![n][k] = Absent]
        /\ inbox' = IF closed[n][l] THEN inbox
                    ELSE Deliver(inbox, n, l, <<Msg("disconnect", n, l)>>)
        /\ closed' = [closed EXCEPT ![n][l] = TRUE]
        /\ closing' = [closing EXCEPT ![n][l] = TRUE]

\* The user, or disconnect_all for one key after the other.
DisconnectFromPeer(n, k) ==
    /\ n \notin frozen /\ disconnects[n] < MaxDisconnects[n]
    /\ disconnects' = [disconnects EXCEPT ![n] = @ + 1]
    /\ entry[n][k] # Absent
    /\ Disconnect(n, k)
    /\ UNCHANGED <<id, fresh, callVars, stage, shakeVars, envVars, checkVars,
                   calls, sends, replies>>

\* Only now is the Peer object, perhaps in use again, marked disconnected.
Disconnected(n, l) ==
    /\ n \notin frozen /\ closing[n][l] /\ stage[n][l] # "created"
    /\ closing' = [closing EXCEPT ![n][l] = FALSE]
    /\ fresh' = [fresh EXCEPT ![n][Obj(n, l)] = FALSE]
    /\ UNCHANGED <<entry, id, callVars, stage, shakeVars, inbox, closed,
                   envVars, checkVars, boundVars>>

\* send_file asks for authentication; what a transfer writes later may meet
\* a connection that has its key as well.
SendToPeer(n) ==
    LET l == entry[n][Real]
    IN  /\ n \notin frozen /\ sends[n] < MaxSends[n]
        /\ sends' = [sends EXCEPT ![n] = @ + 1]
        /\ l # Absent /\ key[n][l] # NoKey /\ ~closed[n][l]
        /\ inbox' = Deliver(inbox, n, l, <<Msg("data", n, l)>>)
        /\ Touch(n, l)
        /\ UNCHANGED <<tableVars, callVars, stage, shakeVars, closed, closing,
                       envVars, round, calls, disconnects, replies>>

\* To accept, reject, pause, resume or cancel a transfer does not: while a
\* later connection to its peer shakes hands, that is written in the clear.
ReplyToPeer(n) ==
    LET l == entry[n][Real]
    IN  /\ n \notin frozen /\ replies[n] < MaxReplies[n]
        /\ replies' = [replies EXCEPT ![n] = @ + 1]
        /\ \E k \in Link : key[n][k] # NoKey
        /\ l # Absent /\ key[n][l] = NoKey /\ ~closed[n][l]
        /\ inbox' = Deliver(inbox, n, l, <<Msg("clear", n, l)>>)
        /\ Touch(n, l)
        /\ UNCHANGED <<tableVars, callVars, stage, shakeVars, closed, closing,
                       envVars, round, calls, disconnects, sends>>

-----------------------------------------------------------------------------
(* The health check: every 15 s a ping to each authenticated connection    *)
(* of a snapshot of the table, and the end of those silent for 30 s.       *)

StartRound(n) ==
    /\ n \in Checking \ frozen /\ round[n] = {}
    /\ \E k \in Key : entry[n][k] # Absent
    /\ round' = [round EXCEPT ![n] =
                    {<<k, entry[n][k]>> :
                        k \in {j \in Key : entry[n][j] # Absent}}]
    /\ idle' = [idle EXCEPT ![n] =
                   [l \in Link |-> IF @[l] < Dead THEN @[l] + 1 ELSE Dead]]
    /\ UNCHANGED <<tableVars, callVars, stage, shakeVars, inbox, closed,
                   closing, envVars, boundVars>>

\* Time to wait, in rounds: exactly two may be more or less than 30 s.
TimedOut(n, l) == idle[n][l] >= Dead - 1
Alive(n, l) == idle[n][l] < Dead

\* Bound: the check queues a ping only while fewer messages are under way.
PingQueue == 2

\* Mutant of Ping: also to a connection in its handshake.
PingAll(n, k, l) ==
    /\ n \notin frozen /\ <<k, l>> \in round[n]
    /\ round' = [round EXCEPT ![n] = @ \ {<<k, l>>}]
    /\ Touch(n, l)
    /\ UNCHANGED <<tableVars, callVars, stage, shakeVars, inbox, closed,
                   closing, envVars, boundVars>>

\* A ping counts as activity of the connection it is sent on.
Ping(n, k, l) ==
    /\ n \notin frozen /\ <<k, l>> \in round[n]
    /\ round' = [round EXCEPT ![n] = @ \ {<<k, l>>}]
    /\ key[n][l] # NoKey
    /\ \/ /\ ~closed[n][l]
          /\ inbox' = IF Len(inbox[Other(n)][l]) + Len(inbox[n][l]) < PingQueue
                      THEN Deliver(inbox, n, l, <<Msg("ping", n, l)>>)
                      ELSE inbox
          /\ Touch(n, l)
       \/ WriteMayRaise(n, l) /\ UNCHANGED <<inbox, idle>>
    /\ UNCHANGED <<tableVars, callVars, stage, shakeVars, closed, closing,
                   envVars, boundVars>>

StillAlive(n, k, l) ==
    /\ n \notin frozen /\ <<k, l>> \in round[n]
    /\ round' = [round EXCEPT ![n] = @ \ {<<k, l>>}]
    /\ key[n][l] = NoKey /\ Alive(n, l)
    /\ UNCHANGED <<tableVars, callVars, stage, shakeVars, inbox, closed,
                   closing, envVars, idle, boundVars>>

\* The connection disconnected is the one now under that key, if any.
Timeout(n, k, l) ==
    /\ n \notin frozen /\ <<k, l>> \in round[n]
    /\ round' = [round EXCEPT ![n] = @ \ {<<k, l>>}]
    /\ key[n][l] = NoKey /\ TimedOut(n, l)
    /\ \/ entry[n][k] # Absent /\ Disconnect(n, k)
       \/ entry[n][k] = Absent /\ UNCHANGED <<entry, inbox, closed, closing>>
    /\ UNCHANGED <<id, fresh, callVars, stage, shakeVars, envVars, idle,
                   boundVars>>

-----------------------------------------------------------------------------
(* The environment.                                                        *)

CutLink(l) ==
    /\ l \in MayCut /\ opener[l] # "none" /\ ~cut[l]
    /\ cut' = [cut EXCEPT ![l] = TRUE]
    /\ UNCHANGED <<tableVars, callVars, stage, shakeVars, inbox, closed,
                   closing, frozen, checkVars, boundVars>>

Freeze(n) ==
    /\ n \in MayFreeze \ frozen
    /\ frozen' = frozen \cup {n}
    /\ UNCHANGED <<tableVars, callVars, stage, shakeVars, inbox, closed,
                   closing, cut, checkVars, boundVars>>

-----------------------------------------------------------------------------
Init ==
    /\ entry = [n \in Node |-> [k \in Key |-> Absent]]
    /\ id = [n \in Node |-> [o \in PeerObject |->
               IF o # 0 THEN TempId(o)
               ELSE IF n \in AddressOnly THEN Alias ELSE Real]]
    /\ fresh = [n \in Node |-> [o \in PeerObject |-> FALSE]]
    /\ tries = [n \in Node |-> 0]
    /\ opening = [n \in Node |-> FALSE]
    /\ opener = [l \in Link |-> "none"]
    /\ stage = [n \in Node |-> [l \in Link |-> "none"]]
    /\ pub = [n \in Node |-> [l \in Link |-> NoHalf]]
    /\ key = [n \in Node |-> [l \in Link |-> NoKey]]
    /\ inbox = [n \in Node |-> [l \in Link |-> <<>>]]
    /\ closed = [n \in Node |-> [l \in Link |-> FALSE]]
    /\ closing = [n \in Node |-> [l \in Link |-> FALSE]]
    /\ cut = [l \in Link |-> FALSE]
    /\ frozen = {}
    /\ idle = [n \in Node |-> [l \in Link |-> 0]]
    /\ round = [n \in Node |-> {}]
    /\ calls = [n \in Node |-> 0]
    /\ disconnects = [n \in Node |-> 0]
    /\ sends = [n \in Node |-> 0]
    /\ replies = [n \in Node |-> 0]

\* The coroutine of one end of one connection.
Handler(n, l) ==
    \/ HandleIncoming(n, l) \/ RefuseIncoming(n, l) \/ SkipHandshake(n, l)
    \/ ClientHello(n, l) \/ ServerHello(n, l) \/ ReadHello(n, l)
    \/ ReadKey(n, l) \/ WrongMessage(n, l) \/ ReadRaises(n, l)
    \/ HandleMessage(n, l)

\* The coroutine of a call.
Call(n) ==
    \/ OpenConnection(n) \/ ConnectFails(n)
    \/ \E l \in Link : Connected(n, l)

HealthCheck(n) ==
    \/ StartRound(n)
    \/ \E k \in Key, l \in Link :
         Ping(n, k, l) \/ StillAlive(n, k, l) \/ Timeout(n, k, l)

Next ==
    \/ \E n \in Node : ConnectToPeer(n) \/ Freeze(n)
    \/ \E n \in Node : SendToPeer(n) \/ ReplyToPeer(n)
    \/ \E n \in Node : Call(n) \/ HealthCheck(n)
    \/ \E n \in Node, k \in Key : DisconnectFromPeer(n, k)
    \/ \E n \in Node, l \in Link : Handler(n, l) \/ Disconnected(n, l)
    \/ \E l \in Link : CutLink(l)

Fairness ==
    /\ \A n \in Node : WF_vars(Call(n))
    /\ \A n \in Checking : WF_vars(HealthCheck(n))
    /\ \A n \in Node, l \in Link :
         WF_vars(Handler(n, l)) /\ WF_vars(Disconnected(n, l))

Spec == Init /\ [][Next]_vars
FairSpec == Spec /\ Fairness

-----------------------------------------------------------------------------
TypeOK ==
    /\ entry \in [Node -> [Key -> 0 .. MaxLinks]]
    /\ id \in [Node -> [PeerObject -> Key]]
    /\ fresh \in [Node -> [PeerObject -> BOOLEAN]]
    /\ tries \in [Node -> 0 .. MaxTries]
    /\ opening \in [Node -> BOOLEAN]
    /\ opener \in [Link -> Node \cup {"none"}]
    /\ stage \in [Node -> [Link -> Stage]]
    /\ pub \in [Node -> [Link -> Half \cup {NoHalf}]]
    /\ key \in [Node -> [Link -> SessionKeys]]
    /\ inbox \in [Node -> [Link -> Seq(Message)]]
    /\ closed \in [Node -> [Link -> BOOLEAN]]
    /\ closing \in [Node -> [Link -> BOOLEAN]]
    /\ cut \in [Link -> BOOLEAN]
    /\ frozen \in SUBSET Node
    /\ idle \in [Node -> [Link -> 0 .. Dead]]
    /\ round \in [Node -> SUBSET (Key \X Link)]
    /\ calls \in [Node -> Nat]
    /\ disconnects \in [Node -> Nat]
    /\ sends \in [Node -> Nat]
    /\ replies \in [Node -> Nat]

\* The coroutine of an end runs.
Running == {"created", "hello", "key", "loop"}

(* An entry of the table leads to a connection whose coroutine still runs  *)
(* and will remove it: no entry is left behind by a handshake that renames *)
(* the peer, by a disconnect during the handshake, or by a cleanup         *)
(* (connection_manager.py:365-367, 399-401, 436-439).                      *)
EntryIsLive ==
    \A n \in Node, k \in Key :
      entry[n][k] # Absent => stage[n][entry[n][k]] \in Running

\* What makes it so.  A connection is only entered under the id its Peer
\* object has now; a link nobody opened has no ends; the ends of an open one
\* are its opener's and an incoming one, under its temporary id until named.
EntryIsOwn ==
    \A n \in Node, k \in Key :
      entry[n][k] # Absent => PeerId(n, entry[n][k]) = k
StageFits ==
    \A n \in Node, l \in Link :
      /\ opener[l] = "none" => stage[n][l] = "none"
      /\ stage[n][l] = "reading" => opener[l] # n
      /\ stage[n][l] \in {"none", "reading"} => id[n][l] = TempId(l)

(* The inductive invariant of the table (connection_manager.py:213, 293,   *)
(* 365-367, 399-401, 438): live entries, each under its own id.            *)
TableInv == EntryIsLive /\ EntryIsOwn /\ StageFits

\* The key of a connection, of both key pairs and both salts; an end that
\* has sent KEY_EXCHANGE, or has ended.
KeyOf(l) == <<Node \X {l}, Node \X {l}>>
Shook(n, l) == stage[n][l] \in {"key", "gone"} \/ key[n][l] # NoKey

(* Two ends of a connection that both have a session key have the same,    *)
(* and each made it with the other's public key and salt                   *)
(* (connection_manager.py:406-425).                                        *)
KeysAgree ==
    \A n \in Node, l \in Link :
      key[n][l] # NoKey => key[n][l] = KeyOf(l) /\ Shook(Other(n), l)

\* What makes it so: messages come from the other end of their connection,
\* KEY_EXCHANGE from one that has made its own key pair known, pings and data
\* from one with a key, and an answer goes to one with a key; an end has the
\* other's public key before it waits for KEY_EXCHANGE.
Known(type, n, l) ==
    /\ type = "key" => Shook(Other(n), l)
    /\ type \in {"ping", "data"} => key[Other(n)][l] # NoKey
    /\ type = "pong" => key[n][l] # NoKey
InboxFits ==
    \A n \in Node, l \in Link : \A i \in DOMAIN inbox[n][l] :
      /\ inbox[n][l][i].of = <<Other(n), l>>
      /\ Known(inbox[n][l][i].type, n, l)
HasPub(n, l) ==
    stage[n][l] = "key" \/ (stage[n][l] = "created" /\ opener[l] # n)
PubFits ==
    \A n \in Node, l \in Link : HasPub(n, l) => pub[n][l] = <<Other(n), l>>

(* The inductive invariant of the handshake                                *)
(* (connection_manager.py:354-425).                                        *)
HandshakeInv == KeysAgree /\ InboxFits /\ PubFits

Sound(l) == ~cut[l] /\ \A n \in Node : ~closed[n][l]

\* Somebody has disconnected or written too early, or a connection was lost.
Disturbed ==
    \/ \E n \in Node : disconnects[n] > 0 \/ replies[n] > 0
    \/ \E l \in Link : cut[l]

(* While a connection is authenticated and neither end has closed it, each *)
(* has its peer in its table: send_to_peer and the health check find it,   *)
(* whatever calls cross (connection_manager.py:128, "Manages all peer      *)
(* connections").  Once one of two connections to a peer ends, its cleanup *)
(* deletes whatever is entered under the peer's id, be it the other one.   *)
Reachable ==
    \A n \in Node, l \in Link :
      ~Disturbed /\ Sound(l) /\ stage[n][l] = "loop" /\ key[n][l] # NoKey
        => entry[n][Real] # Absent

(* Messages are only read after the key exchange                           *)
(* (README.md:109, "A secure encrypted session is established").           *)
LoopIsSecure ==
    \A n \in Node, l \in Link : stage[n][l] = "loop" => key[n][l] # NoKey

-----------------------------------------------------------------------------
\* Each end finds a connection with a session key.
Secure(n) == entry[n][Real] # Absent /\ key[n][entry[n][Real]] # NoKey

(* A call that gets through, crossed by one of the peer or not, leads to a *)
(* session both ends can use, unless somebody disconnects it or it is lost.*)
SessionForms ==
    (\E n \in Node : tries[n] > 0) ~> Disturbed \/ \A n \in Node : Secure(n)

(* A call is answered, by a connection or by None, and another may follow, *)
(* unless the program that called hangs (connection_manager.py:220-235).   *)
CallEnds == \A n \in Node : tries[n] > 0 ~> tries[n] = 0 \/ n \in frozen

(* A connection that is closed, lost or given up at one end ends at both,  *)
(* wherever their coroutines were (connection_manager.py:241-247, 337-346).*)
BothEndsEnd ==
    \A l \in Link :
      cut[l] \/ (\E n \in Node : closed[n][l] \/ stage[n][l] = "gone")
        ~> \A n \in Node : stage[n][l] = "gone"

(* An end with an entry in the table, and whose peer hangs in the          *)
(* handshake, gives the connection up (connection_manager.py:468-479).     *)
(* Excepted is the stage before, "reading": _handle_incoming waits for the *)
(* HELLO without a timeout and has entered nothing yet                     *)
(* (connection_manager.py:265, 293, 304-309), so that the health check     *)
(* does not see it, and it waits for as long as its caller hangs.          *)
HandshakeEnds ==
    \A n \in Node, l \in Link :
      n \notin frozen /\ stage[n][l] \in {"created", "hello", "key"}
        ~> n \in frozen \/ stage[n][l] \in {"loop", "gone"}

(* A peer that hangs is timed out (README.md:145, "Peer Timeout").         *)
HangNoticed ==
    \A n \in Node :
      n \in frozen ~> Other(n) \in frozen \/ entry[Other(n)][Real] = Absent
=============================================================================
