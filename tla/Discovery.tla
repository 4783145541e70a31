----------------------------- MODULE Discovery -----------------------------
(***************************************************************************)
(* Who is listed: PeerDiscovery (network/peer_discovery.py) and the peer   *)
(* list of the window (gui/main_window.py, gui/widgets.py).                *)
(*                                                                         *)
(* Three threads share the tables without a lock: zeroconf's browser       *)
(* thread calls the mDNS handlers, the event loop receives the multicast   *)
(* announcements, and the window's thread adds the peers the user types    *)
(* in.  The window learns of the first two through Qt signals, which wait  *)
(* in one queue.  A handler that lists a peer takes three steps: it looks  *)
(* the peer up, enters it in the tables, saves and announces it.           *)
(*                                                                         *)
(* A peer makes a new id when its program starts, so an id that has left   *)
(* never comes back; its mDNS record may lapse and be renewed meanwhile.   *)
(***************************************************************************)
EXTENDS Integers, Sequences, FiniteSets

CONSTANTS
    Peer,       \* ids of the programs on the network
    Typed,      \* ids made up by add_manual_peer
    Nobody,     \* no id
    MaxLapses   \* bound: times an mDNS record lapses and returns

ASSUME IdsAssumption == Peer \cap Typed = {} /\ Nobody \notin Peer \cup Typed
ASSUME LapsesAssumption == MaxLapses \in Nat

Id == Peer \cup Typed

VARIABLES
    presence,    \* peer -> "new", "here" or "gone": whether its program runs
    service,     \* peers whose mDNS record is on the network
    lapses,      \* counter of the bound
    air,         \* peers with an announcement waiting in our socket
    running,     \* _running
    browsing,    \* the service listener is registered
    listening,   \* the multicast listener is in its loop
    seen,        \* services the browser has reported and not taken back
    discovered,  \* keys of _discovered_peers
    known,       \* _known_peers
    stored,      \* rows of the peers table
    zc,          \* what the browser's thread is doing, and with which peer
    loop,        \* what the event loop is doing, and with which peer
    signals,     \* signals on their way to the window's thread
    rows,        \* keys of PeerListWidget._peers, one line of the list each
    unsaved,     \* history: entered in the tables, but save_peer raised
    crossed      \* history: see Crosses and ReceiveLate

netVars   == <<presence, service, lapses>>
modeVars  == <<running, browsing, listening>>
tableVars == <<discovered, known, stored>>
guiVars   == <<signals, rows>>
history   == <<unsaved, crossed>>
vars == <<netVars, air, modeVars, seen, tableVars, zc, loop, guiVars, history>>

Work == [step : {"idle", "enter", "save", "lost"}, peer : Id \cup {Nobody}]
Idle == [step |-> "idle", peer |-> Nobody]
Doing(s, p) == [step |-> s, peer |-> p]
Holds(thread, p) == thread.step # "idle" /\ thread.peer = p

Signal == [kind : {"found", "lost"}, peer : Peer]
Emit(k, p) == signals' = Append(signals, [kind |-> k, peer |-> p])

-----------------------------------------------------------------------------
(* The other programs and the network.                                     *)

Appear(p) ==
    /\ presence[p] = "new"
    /\ presence' = [presence EXCEPT ![p] = "here"]
    /\ service' \in {service, service \cup {p}}   \* its own mDNS may fail
    /\ UNCHANGED <<lapses, air, modeVars, seen, tableVars, zc, loop, guiVars,
                   history>>

Leave(p) ==
    /\ presence[p] = "here"
    /\ presence' = [presence EXCEPT ![p] = "gone"]
    /\ UNCHANGED <<service, lapses, air, modeVars, seen, tableVars, zc, loop,
                   guiVars, history>>

\* Unregistered, or expired after its program is gone.
RecordExpires(p) ==
    /\ presence[p] = "gone" /\ p \in service
    /\ service' = service \ {p}
    /\ UNCHANGED <<presence, lapses, air, modeVars, seen, tableVars, zc, loop,
                   guiVars, history>>

RecordLapses(p) ==
    /\ presence[p] = "here" /\ p \in service /\ lapses < MaxLapses
    /\ service' = service \ {p} /\ lapses' = lapses + 1
    /\ UNCHANGED <<presence, air, modeVars, seen, tableVars, zc, loop, guiVars,
                   history>>

RecordReturns(p) ==
    /\ presence[p] = "here" /\ lapses > 0 /\ p \notin service
    /\ service' = service \cup {p}
    /\ UNCHANGED <<presence, lapses, air, modeVars, seen, tableVars, zc, loop,
                   guiVars, history>>

\* One of the datagrams of _broadcast_loop arrives; others are lost.
Broadcast(p) ==
    /\ presence[p] = "here" /\ listening /\ p \notin air
    /\ air' = air \cup {p}
    /\ UNCHANGED <<netVars, modeVars, seen, tableVars, zc, loop, guiVars,
                   history>>

-----------------------------------------------------------------------------
(* The handlers of the two discovery threads.                              *)

\* mDNS reports the departure of p while the event loop has p in hand, or
\* the loop finds p before that departure is announced: either signal may be
\* the last.
Crosses(p) == Holds(loop, p) \/ zc = Doing("lost", p)

\* _handle_service_added up to the test of _known_peers.  The record may
\* fail to resolve (info is None).
ServiceAdded(p) ==
    /\ zc = Idle /\ browsing
    /\ p \in service \ seen
    /\ seen' = seen \cup {p}
    /\ \/ UNCHANGED zc
       \/ p \notin known /\ zc' = Doing("enter", p)
    /\ UNCHANGED <<netVars, air, modeVars, tableVars, loop, guiVars, history>>

\* _handle_service_removed pops the peer.  Mutants: it stays in the table;
\* its announcement that never happened is forgotten only with it.
KeepPeer(p) == UNCHANGED <<discovered, unsaved>>
PopOnly(p) == discovered' = discovered \ {p} /\ UNCHANGED unsaved
PopPeer(p) == discovered' = discovered \ {p} /\ unsaved' = unsaved \ {p}

ServiceRemoved(p) ==
    /\ zc = Idle /\ browsing
    /\ p \in seen \ service
    /\ seen' = seen \ {p}
    /\ IF p \in discovered THEN PopPeer(p) /\ zc' = Doing("lost", p)
                          ELSE UNCHANGED <<discovered, unsaved, zc>>
    /\ crossed' = IF Crosses(p) THEN crossed \cup {p} ELSE crossed
    /\ UNCHANGED <<netVars, air, modeVars, known, stored, loop, guiVars>>

\* The second half of _handle_service_removed.  The mutant drops the signal.
AnnounceNothing == UNCHANGED signals
AnnounceLost == Emit("lost", zc.peer)

PeerLost ==
    /\ zc.step = "lost"
    /\ AnnounceLost
    /\ zc' = Idle
    /\ UNCHANGED <<netVars, air, modeVars, seen, tableVars, loop, rows,
                   history>>

\* The test of _handle_multicast_message.  The mutant is the test of the
\* mDNS handler.
UnlistedAsMDNS(p) == p \notin known
Unlisted(p) == p \notin discovered

\* A datagram that outlived its program and the mDNS record: nothing will
\* take the peer off the list again.
ReceiveLate(p) == presence[p] = "gone" /\ p \notin seen

\* When _running is false the listener leaves its loop after this datagram.
ReceiveMulticast(p) ==
    /\ loop = Idle /\ listening
    /\ p \in air
    /\ air' = air \ {p}
    /\ IF Unlisted(p)
         THEN /\ loop' = Doing("enter", p)
              /\ crossed' = IF Crosses(p) \/ ReceiveLate(p)
                              THEN crossed \cup {p} ELSE crossed
         ELSE UNCHANGED <<loop, crossed>>    \* only last_seen changes
    /\ listening' = running
    /\ UNCHANGED <<netVars, running, browsing, seen, tableVars, zc, guiVars,
                   unsaved>>

SavePeer(p) == stored' = stored \cup {p}

Enter(p) == discovered' = discovered \cup {p} /\ known' = known \cup {p}

\* save_peer, then the callback; when it raises the handler's except clause
\* swallows the error and the callback is not called.  Mutant: it is.
AnnounceFirst(p) ==
    /\ Emit("found", p)
    /\ UNCHANGED unsaved
    /\ stored' \in {stored, stored \cup {p}}
SaveAndAnnounce(p) ==
    \/ SavePeer(p) /\ Emit("found", p) /\ UNCHANGED unsaved
    \/ unsaved' = unsaved \cup ({p} \cap discovered)
       /\ UNCHANGED <<stored, signals>>

ServiceEntered ==
    /\ zc.step = "enter"
    /\ Enter(zc.peer)
    /\ zc' = Doing("save", zc.peer)
    /\ UNCHANGED <<netVars, air, modeVars, seen, stored, loop, guiVars, history>>

ServiceFound ==
    /\ zc.step = "save"
    /\ SaveAndAnnounce(zc.peer)
    /\ zc' = Idle
    /\ UNCHANGED <<netVars, air, modeVars, seen, discovered, known, loop, rows,
                   crossed>>

MulticastEntered ==
    /\ loop.step = "enter"
    /\ Enter(loop.peer)
    /\ loop' = Doing("save", loop.peer)
    /\ UNCHANGED <<netVars, air, modeVars, seen, stored, zc, guiVars, history>>

MulticastFound ==
    /\ loop.step = "save"
    /\ SaveAndAnnounce(loop.peer)
    /\ loop' = Idle
    /\ UNCHANGED <<netVars, air, modeVars, seen, discovered, known, zc, rows,
                   crossed>>

-----------------------------------------------------------------------------
(* The window's thread.                                                    *)

\* PeerListWidget: one line for each peer, however often it is added.
AddPeer(p) == rows' = rows \cup {p}
RemovePeer(p) == rows' = rows \ {p}

\* _on_peer_found_gui and _on_peer_lost_gui.
HandleSignal ==
    /\ signals # <<>>
    /\ LET s == Head(signals)
       IN  IF s.kind = "found" THEN AddPeer(s.peer) ELSE RemovePeer(s.peer)
    /\ signals' = Tail(signals)
    /\ UNCHANGED <<netVars, air, modeVars, seen, tableVars, zc, loop, history>>

\* add_manual_peer: the signal is emitted in the window's own thread, so the
\* slot runs at once.  An error of save_peer ends the call.
AddManualPeer(p) ==
    /\ p \notin known
    /\ Enter(p)
    /\ \/ SavePeer(p) /\ AddPeer(p) /\ UNCHANGED unsaved
       \/ unsaved' = unsaved \cup {p} /\ UNCHANGED <<stored, rows>>
    /\ UNCHANGED <<netVars, air, modeVars, seen, zc, loop, signals, crossed>>

\* stop: zeroconf is closed; the listener waits for one more datagram.
Stop ==
    /\ running
    /\ running' = FALSE /\ browsing' = FALSE
    /\ UNCHANGED <<netVars, air, listening, seen, tableVars, zc, loop, guiVars,
                   history>>

-----------------------------------------------------------------------------
\* start: Zeroconf may fail, which leaves multicast only; the listener may
\* fail to set up its socket, or bind another port, where it hears nothing.
Init ==
    /\ presence = [p \in Peer |-> "new"]
    /\ service = {} /\ lapses = 0 /\ air = {}
    /\ running = TRUE /\ browsing \in BOOLEAN /\ listening \in BOOLEAN
    /\ seen = {} /\ discovered = {} /\ known = {} /\ stored = {}
    /\ zc = Idle /\ loop = Idle
    /\ signals = <<>> /\ rows = {}
    /\ unsaved = {} /\ crossed = {}

Network(p) == \/ Appear(p) \/ Leave(p) \/ Broadcast(p)
              \/ RecordExpires(p) \/ RecordLapses(p) \/ RecordReturns(p)
Browser == \/ \E p \in Peer : ServiceAdded(p) \/ ServiceRemoved(p)
           \/ ServiceEntered \/ ServiceFound \/ PeerLost
EventLoop == \/ \E p \in Peer : ReceiveMulticast(p)
             \/ MulticastEntered \/ MulticastFound
Window == HandleSignal \/ \E p \in Typed : AddManualPeer(p)

Next == (\E p \in Peer : Network(p)) \/ Browser \/ EventLoop \/ Window \/ Stop

Spec == Init /\ [][Next]_vars

\* The three threads run; records of programs that are gone expire, and of
\* the announcements a running program repeats one arrives again and again.
Fairness ==
    /\ WF_vars(Browser) /\ WF_vars(EventLoop) /\ WF_vars(HandleSignal)
    /\ \A p \in Peer : /\ WF_vars(RecordExpires(p)) /\ WF_vars(Broadcast(p))
                       /\ WF_vars(ServiceAdded(p) \/ ServiceRemoved(p))
                       /\ WF_vars(ReceiveMulticast(p))
FairSpec == Spec /\ Fairness

-----------------------------------------------------------------------------
(* Properties.                                                             *)

TypeOK ==
    /\ presence \in [Peer -> {"new", "here", "gone"}]
    /\ lapses \in 0 .. MaxLapses
    /\ service \subseteq Peer /\ air \subseteq Peer /\ seen \subseteq Peer
    /\ running \in BOOLEAN /\ browsing \in BOOLEAN /\ listening \in BOOLEAN
    /\ discovered \subseteq known /\ known \subseteq Id
    /\ stored \subseteq known /\ rows \subseteq known
    /\ zc \in Work /\ loop \in Work /\ loop.step # "lost"
    /\ \A t \in {zc, loop} : t.step # "idle" => t.peer \in Peer
    /\ signals \in Seq(Signal)
    /\ unsaved \subseteq discovered /\ crossed \subseteq Peer

\* Whether p is on the list once the window has handled every signal.
WillBeListed(p) ==
    IF \E i \in DOMAIN signals : signals[i].peer = p
      THEN \E i \in DOMAIN signals :
             /\ signals[i] = [kind |-> "found", peer |-> p]
             /\ \A j \in DOMAIN signals : j > i => signals[j].peer # p
      ELSE p \in rows

Announcing(p) == \E t \in {zc, loop} : t = Doing("save", p)

\* The list the user sees and the table Connect looks a peer up in agree:
\* when nothing is on its way, a peer has a line exactly if discovery has it
\* (peer_discovery.py:92-190, main_window.py:402-410, 492), whatever the two
\* discovery threads and the window did in between.  It is stated for every
\* moment: on the list after the signals on their way, or about to be
\* announced.  Excepted are a peer whose save failed, and one whose
\* departure crossed its discovery (crossed).
ListFollowsTable ==
    \A p \in Id \ (unsaved \cup crossed) :
      /\ p \in discovered => WillBeListed(p) \/ Announcing(p)
      /\ WillBeListed(p) => p \in discovered \/ zc = Doing("lost", p)

\* A listed peer has its row in the peers table, to which the row of every
\* transfer with it refers (database.py:92): a line never appears before the
\* save, nor after one that failed.
ListedIsStored ==
    /\ rows \subseteq stored
    /\ \A i \in DOMAIN signals : signals[i].kind = "found"
                                   => signals[i].peer \in stored

\* A program that runs is listed in the end, whichever way discovery hears
\* of it and however often its mDNS record lapses (README.md:102), as long
\* as the multicast socket works.
PresentIsListed ==
    \A p \in Peer :
      presence[p] = "here"
        ~> \/ p \in rows \/ p \in unsaved \cup crossed
           \/ presence[p] = "gone" \/ ~listening \/ ~running

\* A program that ends after mDNS has reported it leaves the list for good
\* (peer_discovery.py:124-133), also when multicast lists it once more.
LeaverIsUnlisted ==
    \A p \in Peer :
      presence[p] = "gone" /\ p \in seen
        ~> [](p \notin rows \/ p \in crossed \/ ~browsing)

=============================================================================
