-------------------------- MODULE DiscoveryProofs --------------------------
(***************************************************************************)
(* Proofs about Discovery for any number of programs on the network, any   *)
(* number of peers typed in and any number of lapses of their records.     *)
(***************************************************************************)
EXTENDS Discovery, TLAPS

\* What ListFollowsTable rests on: a thread that is about to save has its
\* peer in the tables, and a departure not yet announced is not undone,
\* unless the two discovery threads crossed.
HandsAgree ==
    /\ \A p \in Id : zc = Doing("save", p) => p \in discovered
    /\ \A p \in Id : loop = Doing("save", p) => p \in known
    /\ \A p \in Id \ crossed : loop = Doing("save", p) => p \in discovered
    /\ \A p \in Id \ crossed : zc = Doing("lost", p)
                                 => p \notin discovered /\ ~Holds(loop, p)

DiscoveryInv == TypeOK /\ HandsAgree /\ ListedIsStored /\ ListFollowsTable

LEMMA Appended ==
    ASSUME NEW S, NEW q \in Seq(S), NEW e, e \in S
    PROVE  /\ Len(q) \in Nat /\ DOMAIN q = 1 .. Len(q)
           /\ DOMAIN Append(q, e) = 1 .. Len(q) + 1
           /\ Append(q, e)[Len(q) + 1] = e
           /\ \A i \in 1 .. Len(q) : Append(q, e)[i] = q[i] /\ q[i] \in S
OBVIOUS

LEMMA Taken ==
    ASSUME NEW S, NEW q \in Seq(S), q # <<>>
    PROVE  /\ Len(q) \in Nat \ {0} /\ DOMAIN q = 1 .. Len(q)
           /\ Tail(q) \in Seq(S) /\ DOMAIN Tail(q) = 1 .. Len(q) - 1
           /\ Head(q) = q[1] /\ Head(q) \in S
           /\ \A i \in 1 .. Len(q) - 1 : Tail(q)[i] = q[i + 1]
OBVIOUS

\* Appending a signal decides whether its peer will be listed, and nothing
\* about the others.
LEMMA EmitDecides ==
    ASSUME signals \in Seq(Signal), NEW k \in {"found", "lost"},
           NEW q \in Peer, Emit(k, q), rows' = rows, NEW p \in Id
    PROVE  WillBeListed(p)' <=> IF p = q THEN k = "found" ELSE WillBeListed(p)
<1> DEFINE n == Len(signals)
<1>1. /\ n \in Nat /\ DOMAIN signals = 1 .. n /\ DOMAIN signals' = 1 .. n + 1
      /\ signals'[n + 1] = [kind |-> k, peer |-> q]
      /\ \A i \in 1 .. n : signals'[i] = signals[i] /\ signals[i] \in Signal
  <2> DEFINE e == [kind |-> k, peer |-> q]
  <2>1. e \in Signal /\ signals' = Append(signals, e)
    BY DEF Emit, Signal
  <2>2. /\ n \in Nat /\ DOMAIN signals = 1 .. n
        /\ DOMAIN signals' = 1 .. n + 1 /\ signals'[n + 1] = e
        /\ \A i \in 1 .. n : signals'[i] = signals[i] /\ signals[i] \in Signal
    <3> DEFINE q1 == Append(signals, e)
    <3> HIDE DEF e
    <3>1. /\ Len(signals) \in Nat /\ DOMAIN signals = 1 .. Len(signals)
          /\ DOMAIN q1 = 1 .. Len(signals) + 1 /\ q1[Len(signals) + 1] = e
          /\ \A i \in 1 .. Len(signals) :
               q1[i] = signals[i] /\ signals[i] \in Signal
      BY <2>1, Appended
    <3>2. signals' = q1
      BY <2>1
    <3> HIDE DEF q1
    <3> QED BY <3>1, <3>2
  <2> QED BY <2>2, Zenon
<1> HIDE DEF n
<1>2. CASE p = q
  <2>1. n + 1 \in DOMAIN signals' /\ signals'[n + 1].peer = p
    BY <1>1, <1>2
  <2>2. \A i \in DOMAIN signals' : i = n + 1 \/ n + 1 > i
    BY <1>1
  <2>3. WillBeListed(p)' <=> signals'[n + 1] = [kind |-> "found", peer |-> p]
    BY <2>1, <2>2, <1>1 DEF WillBeListed
  <2> QED BY <2>3, <1>1, <1>2
<1>3. CASE p # q
  <2>1. \A i \in DOMAIN signals' :
          signals'[i].peer = p => i \in DOMAIN signals
    BY <1>1, <1>3
  <2>2. \A i \in DOMAIN signals : i \in DOMAIN signals'
                                  /\ signals'[i] = signals[i]
    BY <1>1
  <2>3. [kind |-> "found", peer |-> p].peer = p
    OBVIOUS
  <2>4. (\E i \in DOMAIN signals' : signals'[i].peer = p)
          <=> (\E i \in DOMAIN signals : signals[i].peer = p)
    BY <2>1, <2>2
  <2>5. (\E i \in DOMAIN signals' :
           /\ signals'[i] = [kind |-> "found", peer |-> p]
           /\ \A j \in DOMAIN signals' : j > i => signals'[j].peer # p)
        <=> (\E i \in DOMAIN signals :
           /\ signals[i] = [kind |-> "found", peer |-> p]
           /\ \A j \in DOMAIN signals : j > i => signals[j].peer # p)
    BY <2>1, <2>2, <2>3
  <2> QED BY <2>4, <2>5, <1>3 DEF WillBeListed
<1> QED BY <1>2, <1>3

\* Handling the oldest signal does not change who will be listed.
LEMMA HandlingKeepsView ==
    ASSUME signals \in Seq(Signal), HandleSignal, NEW p \in Id
    PROVE  WillBeListed(p)' <=> WillBeListed(p)
<1> DEFINE n == Len(signals)
           s == Head(signals)
<1>1. /\ n \in Nat \ {0} /\ DOMAIN signals = 1 .. n
      /\ DOMAIN signals' = 1 .. n - 1 /\ s = signals[1] /\ s \in Signal
      /\ \A i \in 1 .. n - 1 : signals'[i] = signals[i + 1]
  BY Taken, Zenon DEF HandleSignal, AddPeer, RemovePeer
<1>2. rows' = IF s.kind = "found" THEN rows \cup {s.peer}
                                  ELSE rows \ {s.peer}
  BY DEF HandleSignal, AddPeer, RemovePeer
<1> HIDE DEF n, s
<1>3. \A i \in DOMAIN signals : i = 1 \/ (i - 1 \in DOMAIN signals'
                                          /\ signals'[i - 1] = signals[i])
  BY <1>1
<1>4. \A i \in DOMAIN signals' : i + 1 \in DOMAIN signals
                                 /\ signals[i + 1] = signals'[i]
  BY <1>1
<1>5. CASE \E i \in DOMAIN signals' : signals'[i].peer = p
  <2>1. PICK k \in DOMAIN signals' : signals'[k].peer = p
    BY <1>5
  <2>2. \E i \in DOMAIN signals : signals[i].peer = p
    BY <2>1, <1>4
  <2>3. ASSUME NEW i \in DOMAIN signals',
               signals'[i] = [kind |-> "found", peer |-> p],
               \A j \in DOMAIN signals' : j > i => signals'[j].peer # p
        PROVE  WillBeListed(p)
    <3>1. \A j \in DOMAIN signals : j > i + 1 => signals[j].peer # p
      <4> SUFFICES ASSUME NEW j \in DOMAIN signals, j > i + 1
                   PROVE  signals[j].peer # p
        OBVIOUS
      <4>1. j \in Nat /\ i \in Nat /\ j # 1 /\ j - 1 > i
        BY <1>1
      <4> QED BY <4>1, <1>3, <2>3
    <3> QED BY <3>1, <2>2, <2>3, <1>4 DEF WillBeListed
  <2>4. ASSUME NEW i \in DOMAIN signals,
               signals[i] = [kind |-> "found", peer |-> p],
               \A j \in DOMAIN signals : j > i => signals[j].peer # p
        PROVE  WillBeListed(p)'
    <3>1. i # 1
      <4>1. k \in Nat /\ k + 1 > 1 /\ k + 1 \in DOMAIN signals
            /\ signals[k + 1].peer = p
        BY <2>1, <1>1, <1>4
      <4> QED BY <4>1, <2>4
    <3>2. i - 1 \in DOMAIN signals' /\ signals'[i - 1] = signals[i]
      BY <3>1, <1>3
    <3>3. \A j \in DOMAIN signals' : j > i - 1 => signals'[j].peer # p
      <4> SUFFICES ASSUME NEW j \in DOMAIN signals', j > i - 1
                   PROVE  signals'[j].peer # p
        OBVIOUS
      <4>1. j \in Nat /\ i \in Nat /\ j + 1 > i
        BY <1>1
      <4> QED BY <4>1, <1>4, <2>4
    <3> QED BY <3>2, <3>3, <1>5, <2>4 DEF WillBeListed
  <2> QED BY <1>5, <2>2, <2>3, <2>4 DEF WillBeListed
<1>6. CASE ~\E i \in DOMAIN signals' : signals'[i].peer = p
  <2>1. WillBeListed(p)' <=> p \in rows'
    BY <1>6 DEF WillBeListed
  <2>2. \A i \in DOMAIN signals : signals[i].peer = p => i = 1
    BY <1>3, <1>6
  <2>3. CASE s.peer = p
    <3>1. 1 \in DOMAIN signals /\ signals[1].peer = p
      BY <1>1, <2>3
    <3>2. WillBeListed(p) <=> signals[1] = [kind |-> "found", peer |-> p]
      <4>1. \A j \in DOMAIN signals : j > 1 => signals[j].peer # p
        BY <2>2, <1>1
      <4>2. \A i \in DOMAIN signals :
              signals[i] = [kind |-> "found", peer |-> p] => i = 1
        BY <2>2
      <4> QED BY <3>1, <4>1, <4>2 DEF WillBeListed
    <3>3. signals[1] = [kind |-> "found", peer |-> p] <=> s.kind = "found"
      BY <1>1, <2>3 DEF Signal
    <3> QED BY <2>1, <2>3, <3>2, <3>3, <1>2
  <2>4. CASE s.peer # p
    <3>1. \A i \in DOMAIN signals : signals[i].peer # p
      BY <2>2, <2>4, <1>1
    <3> QED BY <3>1, <2>1, <2>4, <1>2 DEF WillBeListed
  <2> QED BY <2>3, <2>4
<1> QED BY <1>5, <1>6

\* The tables of the threads are as they were for every peer but one.
LEMMA NoSignalsSameView ==
    ASSUME UNCHANGED guiVars, NEW p \in Id
    PROVE  WillBeListed(p)' <=> WillBeListed(p)
BY DEF WillBeListed, guiVars

LEMMA IdleHolds == \A p : ~Holds(Idle, p) /\ Idle.step = "idle"
BY DEF Holds, Idle

LEMMA DoingIs ==
    ASSUME NEW s, NEW p
    PROVE  /\ Doing(s, p).step = s /\ Doing(s, p).peer = p
           /\ \A r, q : Doing(s, p) = Doing(r, q) <=> s = r /\ p = q
           /\ \A r, q : r # "idle" => Idle # Doing(r, q)
           /\ \A q : s # "idle" => (Holds(Doing(s, p), q) <=> p = q)
<1>1. Doing(s, p).step = s /\ Doing(s, p).peer = p
  BY DEF Doing
<1>2. ASSUME NEW r, NEW q PROVE Doing(r, q).step = r /\ Doing(r, q).peer = q
  BY DEF Doing
<1>3. ASSUME NEW r, NEW q PROVE Doing(s, p) = Doing(r, q) <=> s = r /\ p = q
  BY <1>1, <1>2
<1>4. \A r, q : r # "idle" => Idle # Doing(r, q)
  BY <1>2, IdleHolds
<1>5. \A q : s # "idle" => (Holds(Doing(s, p), q) <=> p = q)
  BY <1>1 DEF Holds
<1> QED BY <1>1, <1>3, <1>4, <1>5

LEMMA WorkIs ==
    ASSUME NEW w \in Work
    PROVE  w = Doing(w.step, w.peer)
BY DEF Work, Doing

LEMMA InitInv == Init => DiscoveryInv
<1> SUFFICES ASSUME Init PROVE DiscoveryInv
  OBVIOUS
<1>1. TypeOK
  <2>1. Idle \in Work
    BY DEF Idle, Work
  <2>2. <<>> \in Seq(Signal)
    OBVIOUS
  <2> QED BY <2>1, <2>2, IdleHolds, LapsesAssumption DEF Init, TypeOK
<1>2. HandsAgree
  BY DoingIs DEF Init, HandsAgree
<1>3. ListedIsStored
  BY DEF Init, ListedIsStored
<1>4. ListFollowsTable
  BY DEF Init, ListFollowsTable, WillBeListed
<1> QED BY <1>1, <1>2, <1>3, <1>4 DEF DiscoveryInv

LEMMA DoingTyped ==
    ASSUME NEW s \in {"enter", "save", "lost"}, NEW p \in Id
    PROVE  Doing(s, p) \in Work
BY DEF Doing, Work

LEMMA IdleTyped == Idle \in Work
BY DEF Idle, Work

LEMMA SignalTyped ==
    ASSUME signals \in Seq(Signal), NEW k \in {"found", "lost"},
           NEW q \in Peer, Emit(k, q)
    PROVE  signals' \in Seq(Signal)
<1>1. [kind |-> k, peer |-> q] \in Signal
  BY DEF Signal
<1> QED BY <1>1 DEF Emit

\* What the network, a lookup and stop do does not touch the tables.
LEMMA Untouched ==
    ASSUME HandsAgree, ListedIsStored, ListFollowsTable,
           UNCHANGED <<tableVars, zc, loop, guiVars, history>>
    PROVE  HandsAgree' /\ ListedIsStored' /\ ListFollowsTable'
<1>1. HandsAgree'
  BY DEF HandsAgree, tableVars, history, Holds
<1>2. ListedIsStored'
  BY DEF ListedIsStored, tableVars, guiVars
<1>3. ListFollowsTable'
  <2>1. UNCHANGED guiVars
    OBVIOUS
  <2>2. \A p \in Id : WillBeListed(p)' <=> WillBeListed(p)
    BY <2>1, NoSignalsSameView
  <2> QED BY <2>2 DEF ListFollowsTable, tableVars, history, Announcing
<1> QED BY <1>1, <1>2, <1>3

LEMMA NetworkStep ==
    ASSUME DiscoveryInv, (\E p \in Peer : Network(p)) \/ Stop
    PROVE  DiscoveryInv'
<1> USE DEF DiscoveryInv
<1>1. UNCHANGED <<seen, tableVars, zc, loop, guiVars, history>>
  BY DEF Network, Stop, Appear, Leave, Broadcast, RecordExpires,
         RecordLapses, RecordReturns
<1>2. /\ presence' \in [Peer -> {"new", "here", "gone"}]
      /\ lapses' \in 0 .. MaxLapses
      /\ service' \subseteq Peer /\ air' \subseteq Peer
      /\ running' \in BOOLEAN /\ browsing' \in BOOLEAN /\ listening' \in BOOLEAN
  <2>1. CASE Stop
    BY <2>1 DEF Stop, TypeOK, netVars
  <2>2. ASSUME NEW p \in Peer, Network(p)
        PROVE  <1>2!:
    <3>1. CASE Appear(p)
      BY <3>1 DEF Appear, TypeOK, modeVars
    <3>2. CASE Leave(p)
      BY <3>2 DEF Leave, TypeOK, modeVars
    <3>3. CASE Broadcast(p)
      BY <3>3 DEF Broadcast, TypeOK, modeVars, netVars
    <3>4. CASE RecordExpires(p)
      BY <3>4 DEF RecordExpires, TypeOK, modeVars
    <3>5. CASE RecordLapses(p)
      BY <3>5, LapsesAssumption DEF RecordLapses, TypeOK, modeVars
    <3>6. CASE RecordReturns(p)
      BY <3>6 DEF RecordReturns, TypeOK, modeVars
    <3> QED BY <2>2, <3>1, <3>2, <3>3, <3>4, <3>5, <3>6 DEF Network
  <2> QED BY <2>1, <2>2
<1>3. TypeOK'
  BY <1>1, <1>2 DEF TypeOK, tableVars, guiVars, history
<1> QED BY <1>1, <1>3, Untouched

\* A step of the browser's thread or of the event loop that enters p.
LEMMA EnterStep ==
    ASSUME DiscoveryInv,
           \/ ServiceEntered
           \/ MulticastEntered
    PROVE  DiscoveryInv'
<1> USE DEF DiscoveryInv
<1> DEFINE p == IF ServiceEntered THEN zc.peer ELSE loop.peer
<1>1. p \in Peer /\ p \in Id
  <2>1. CASE ServiceEntered
    <3>1. zc.step = "enter" /\ p = zc.peer
      BY <2>1 DEF ServiceEntered
    <3> QED BY <3>1 DEF TypeOK, Id
  <2>2. CASE ~ServiceEntered
    <3>1. loop.step = "enter" /\ p = loop.peer
      BY <2>2 DEF MulticastEntered
    <3> QED BY <3>1 DEF TypeOK, Id
  <2> QED BY <2>1, <2>2
<1>2. /\ discovered' = discovered \cup {p} /\ known' = known \cup {p}
      /\ UNCHANGED <<netVars, air, modeVars, seen, stored, guiVars, history>>
  BY DEF ServiceEntered, MulticastEntered, Enter
<1>3. \/ zc = Doing("enter", p) /\ zc' = Doing("save", p) /\ loop' = loop
      \/ loop = Doing("enter", p) /\ loop' = Doing("save", p) /\ zc' = zc
  <2>1. zc = Doing(zc.step, zc.peer) /\ loop = Doing(loop.step, loop.peer)
    BY WorkIs DEF TypeOK
  <2>2. CASE ServiceEntered
    <3>1. /\ zc.step = "enter" /\ p = zc.peer
          /\ zc' = Doing("save", zc.peer) /\ loop' = loop
      BY <2>2 DEF ServiceEntered
    <3> HIDE DEF p
    <3> QED BY <3>1, <2>1
  <2>3. CASE ~ServiceEntered
    <3>1. /\ loop.step = "enter" /\ p = loop.peer
          /\ loop' = Doing("save", loop.peer) /\ zc' = zc
      BY <2>3 DEF MulticastEntered
    <3> HIDE DEF p
    <3> QED BY <3>1, <2>1
  <2> QED BY <2>2, <2>3
<1> HIDE DEF p
<1>4. TypeOK'
  <2>1. Doing("save", p) \in Work
    BY <1>1, DoingTyped
  <2>2. /\ zc' \in Work /\ loop' \in Work /\ loop'.step # "lost"
        /\ zc'.step # "idle" => zc'.peer \in Peer
        /\ loop'.step # "idle" => loop'.peer \in Peer
    <3>1. Doing("save", p).step = "save" /\ Doing("save", p).peer = p
      BY DoingIs
    <3>2. /\ zc \in Work /\ loop \in Work /\ loop.step # "lost"
          /\ zc.step # "idle" => zc.peer \in Peer
          /\ loop.step # "idle" => loop.peer \in Peer
      BY DEF TypeOK
    <3>3. CASE zc' = Doing("save", p) /\ loop' = loop
      BY <1>1, <2>1, <3>1, <3>2, <3>3
    <3>4. CASE loop' = Doing("save", p) /\ zc' = zc
      BY <1>1, <2>1, <3>1, <3>2, <3>4
    <3> QED BY <1>3, <3>3, <3>4
  <2> QED BY <1>1, <1>2, <2>2
          DEF TypeOK, netVars, modeVars, guiVars, history
<1>5. HandsAgree'
  <2>1. \A q \in Id : zc' = Doing("save", q) => q \in discovered'
    BY <1>2, <1>3, DoingIs DEF HandsAgree
  <2>2. \A q \in Id : loop' = Doing("save", q) => q \in known'
    BY <1>2, <1>3, DoingIs DEF HandsAgree
  <2>3. \A q \in Id \ crossed' : loop' = Doing("save", q) => q \in discovered'
    BY <1>2, <1>3, DoingIs DEF HandsAgree, history
  <2>4. ASSUME NEW q \in Id \ crossed', zc' = Doing("lost", q)
        PROVE  q \notin discovered' /\ ~Holds(loop', q)
    <3>1. loop = Doing("enter", p) /\ loop' = Doing("save", p) /\ zc' = zc
      BY <2>4, <1>3, DoingIs
    <3>2. q \notin discovered /\ ~Holds(loop, q)
      BY <2>4, <3>1, <1>2 DEF HandsAgree, history
    <3>3. p # q
      BY <3>1, <3>2, DoingIs
    <3> QED BY <3>1, <3>2, <3>3, <1>2, DoingIs
  <2> QED BY <2>1, <2>2, <2>3, <2>4 DEF HandsAgree, Holds
<1>6. ListedIsStored'
  BY <1>2 DEF ListedIsStored, guiVars
<1>7. ListFollowsTable'
  <2> SUFFICES ASSUME NEW q \in Id \ (unsaved \cup crossed)
               PROVE  /\ q \in discovered' => WillBeListed(q)' \/ Announcing(q)'
                      /\ WillBeListed(q)' => \/ q \in discovered'
                                            \/ zc' = Doing("lost", q)
    BY <1>2 DEF ListFollowsTable, history
  <2>1. WillBeListed(q)' <=> WillBeListed(q)
    BY <1>2, NoSignalsSameView
  <2>2. CASE q = p
    BY <2>2, <1>2, <1>3 DEF Announcing
  <2>3. CASE q # p
    <3>1. Announcing(q) => Announcing(q)'
      BY <2>3, <1>3, DoingIs DEF Announcing
    <3>2. zc = Doing("lost", q) => zc' = Doing("lost", q)
      BY <1>3, DoingIs
    <3> QED BY <2>1, <2>3, <3>1, <3>2, <1>2 DEF ListFollowsTable
  <2> QED BY <2>2, <2>3
<1> QED BY <1>4, <1>5, <1>6, <1>7

\* The window handles a signal.
LEMMA WindowStep ==
    ASSUME DiscoveryInv, HandleSignal
    PROVE  DiscoveryInv'
<1> USE DEF DiscoveryInv
<1> DEFINE s == Head(signals)
<1>1. UNCHANGED <<netVars, air, modeVars, seen, tableVars, zc, loop, history>>
  BY DEF HandleSignal, AddPeer, RemovePeer
<1>2. /\ signals \in Seq(Signal) /\ signals # <<>>
      /\ signals' = Tail(signals)
      /\ rows' = IF s.kind = "found" THEN rows \cup {s.peer} ELSE rows \ {s.peer}
  BY DEF HandleSignal, AddPeer, RemovePeer, TypeOK
<1>3. /\ Len(signals) \in Nat \ {0} /\ DOMAIN signals = 1 .. Len(signals)
      /\ signals' \in Seq(Signal) /\ DOMAIN signals' = 1 .. Len(signals) - 1
      /\ s = signals[1]
      /\ \A i \in 1 .. Len(signals) - 1 : signals'[i] = signals[i + 1]
  BY <1>2, Taken
<1>4. s.kind = "found" => s.peer \in stored
  BY <1>3 DEF ListedIsStored
<1> HIDE DEF s
<1>5. ListedIsStored'
  <2>1. rows' \subseteq stored'
    BY <1>1, <1>2, <1>4 DEF ListedIsStored, tableVars
  <2>2. ASSUME NEW i \in DOMAIN signals', signals'[i].kind = "found"
        PROVE  signals'[i].peer \in stored'
    <3>1. i + 1 \in DOMAIN signals /\ signals[i + 1] = signals'[i]
      BY <1>3
    <3> QED BY <3>1, <2>2, <1>1 DEF ListedIsStored, tableVars
  <2> QED BY <2>1, <2>2 DEF ListedIsStored
<1>6. TypeOK'
  <2>1. rows' \subseteq known'
    BY <1>1, <1>5 DEF ListedIsStored, TypeOK, tableVars
  <2> QED BY <1>1, <1>3, <2>1 DEF TypeOK, netVars, modeVars, tableVars, history
<1>7. HandsAgree'
  BY <1>1 DEF HandsAgree, Holds, tableVars, history
<1>8. ListFollowsTable'
  <2>1. \A p \in Id : WillBeListed(p)' <=> WillBeListed(p)
    BY <1>2, HandlingKeepsView
  <2> QED BY <2>1, <1>1 DEF ListFollowsTable, Announcing, tableVars, history
<1> QED BY <1>5, <1>6, <1>7, <1>8

\* A departure is announced.
LEMMA LostStep ==
    ASSUME DiscoveryInv, PeerLost
    PROVE  DiscoveryInv'
<1> USE DEF DiscoveryInv
<1> DEFINE p == zc.peer
<1>1. /\ zc.step = "lost" /\ Emit("lost", p) /\ zc' = Idle
      /\ UNCHANGED <<netVars, air, modeVars, seen, tableVars, loop, rows, history>>
  BY DEF PeerLost, AnnounceLost
<1>2. p \in Peer /\ p \in Id /\ signals \in Seq(Signal) /\ zc = Doing("lost", p)
  BY <1>1, WorkIs DEF TypeOK, Id
<1> HIDE DEF p
<1>3. signals' \in Seq(Signal)
  BY <1>1, <1>2, SignalTyped
<1>4. \A q \in Id : WillBeListed(q)' <=> q # p /\ WillBeListed(q)
  BY <1>1, <1>2, EmitDecides
<1>5. TypeOK'
  BY <1>1, <1>3, IdleTyped, IdleHolds
  DEF TypeOK, netVars, modeVars, tableVars, history
<1>6. HandsAgree'
  BY <1>1, DoingIs DEF HandsAgree, Holds, tableVars, history
<1>7. ListedIsStored'
  <2> DEFINE e == [kind |-> "lost", peer |-> p]
  <2>1. e \in Signal /\ e.kind = "lost" /\ signals' = Append(signals, e)
    BY <1>1, <1>2 DEF Signal, Emit
  <2> HIDE DEF e
  <2>2. \A i \in DOMAIN signals' : signals'[i].kind = "found"
          => i \in DOMAIN signals /\ signals'[i] = signals[i]
    BY <2>1, <1>2, Appended
  <2> QED BY <2>2, <1>1 DEF ListedIsStored, tableVars
<1>8. ListFollowsTable'
  <2> SUFFICES ASSUME NEW q \in Id \ (unsaved \cup crossed)
               PROVE  /\ q \in discovered => WillBeListed(q)' \/ Announcing(q)'
                      /\ WillBeListed(q)' => q \in discovered
    BY <1>1 DEF ListFollowsTable, tableVars, history
  <2>1. CASE q = p
    BY <2>1, <1>2, <1>4 DEF HandsAgree
  <2>2. CASE q # p
    <3>1. Announcing(q) => Announcing(q)'
      BY <1>1, <1>2, DoingIs DEF Announcing
    <3>2. zc # Doing("lost", q)
      BY <1>2, <2>2, DoingIs
    <3> QED BY <1>4, <2>2, <3>1, <3>2 DEF ListFollowsTable
  <2> QED BY <2>1, <2>2
<1> QED BY <1>5, <1>6, <1>7, <1>8

\* The user types in a peer: its id is in nobody's hands.
LEMMA TypedStep ==
    ASSUME DiscoveryInv, NEW p \in Typed, AddManualPeer(p)
    PROVE  DiscoveryInv'
<1> USE DEF DiscoveryInv
<1>1. /\ p \notin known
      /\ discovered' = discovered \cup {p} /\ known' = known \cup {p}
      /\ UNCHANGED <<netVars, air, modeVars, seen, zc, loop, signals, crossed>>
  BY DEF AddManualPeer, SavePeer, AddPeer, Enter
<1>2. \/ stored' = stored \cup {p} /\ rows' = rows \cup {p} /\ UNCHANGED unsaved
      \/ unsaved' = unsaved \cup {p} /\ UNCHANGED <<stored, rows>>
  BY DEF AddManualPeer, SavePeer, AddPeer
<1>3. p \in Id /\ p \notin Peer
  BY IdsAssumption DEF Id
<1>4. TypeOK'
  BY <1>1, <1>2, <1>3 DEF TypeOK, netVars, modeVars
<1>5. HandsAgree'
  <2>1. zc # Doing("lost", p)
    BY <1>3, DoingIs DEF TypeOK
  <2> QED BY <1>1, <2>1, DoingIs DEF HandsAgree, Holds
<1>6. ListedIsStored'
  BY <1>1, <1>2 DEF ListedIsStored
<1>7. ListFollowsTable'
  <2>1. \A i \in DOMAIN signals : signals[i].peer # p
    <3>1. \A i \in DOMAIN signals : signals[i] \in Signal
      BY DEF TypeOK
    <3> QED BY <3>1, <1>3 DEF Signal
  <2>2. WillBeListed(p)' <=> p \in rows'
    BY <1>1, <2>1 DEF WillBeListed
  <2>3. \A q \in Id \ {p} : WillBeListed(q)' <=> WillBeListed(q)
    BY <1>1, <1>2 DEF WillBeListed
  <2>4. p \in rows' \/ p \in unsaved'
    BY <1>2
  <2> QED BY <1>1, <1>2, <2>2, <2>3, <2>4 DEF ListFollowsTable, Announcing
<1> QED BY <1>4, <1>5, <1>6, <1>7

\* A thread saves the peer it has entered, and announces it or fails.
LEMMA FoundStep ==
    ASSUME DiscoveryInv, ServiceFound \/ MulticastFound
    PROVE  DiscoveryInv'
<1> USE DEF DiscoveryInv
<1> DEFINE p == IF ServiceFound THEN zc.peer ELSE loop.peer
<1>1. /\ p \in Peer /\ p \in Id
      /\ SaveAndAnnounce(p)
      /\ \/ zc = Doing("save", p) /\ zc' = Idle /\ loop' = loop
         \/ loop = Doing("save", p) /\ loop' = Idle /\ zc' = zc
  <2>1. CASE ServiceFound
    <3>1. /\ zc.step = "save" /\ p = zc.peer /\ zc' = Idle /\ loop' = loop
          /\ SaveAndAnnounce(p)
      BY <2>1 DEF ServiceFound
    <3> HIDE DEF p
    <3> QED BY <3>1, WorkIs DEF TypeOK, Id
  <2>2. CASE ~ServiceFound
    <3>1. /\ loop.step = "save" /\ p = loop.peer /\ loop' = Idle /\ zc' = zc
          /\ SaveAndAnnounce(p)
      BY <2>2 DEF MulticastFound
    <3> HIDE DEF p
    <3> QED BY <3>1, WorkIs DEF TypeOK, Id
  <2> QED BY <2>1, <2>2
<1>2. UNCHANGED <<netVars, air, modeVars, seen, discovered, known, rows, crossed>>
  BY DEF ServiceFound, MulticastFound
<1> HIDE DEF p
<1>3. /\ stored' = stored \cup {p} /\ Emit("found", p) /\ UNCHANGED unsaved
      \/ /\ unsaved' = unsaved \cup ({p} \cap discovered)
         /\ UNCHANGED <<stored, signals>>
  BY <1>1 DEF SaveAndAnnounce, SavePeer
<1>k. p \in known /\ (p \in discovered \/ p \in crossed)
  BY <1>1 DEF HandsAgree, TypeOK
<1>v. /\ signals' \in Seq(Signal)
      /\ Emit("found", p) => \A q \in Id : WillBeListed(q)' <=> q = p \/ WillBeListed(q)
      /\ UNCHANGED signals => \A q \in Id : WillBeListed(q)' <=> WillBeListed(q)
  <2>1. signals \in Seq(Signal) /\ rows' = rows
    BY <1>2 DEF TypeOK
  <2>2. Emit("found", p) => signals' \in Seq(Signal)
    BY <2>1, <1>1, SignalTyped
  <2>3. Emit("found", p) => \A q \in Id : WillBeListed(q)' <=> q = p \/ WillBeListed(q)
    BY <2>1, <1>1, EmitDecides
  <2>4. UNCHANGED signals => \A q \in Id : WillBeListed(q)' <=> WillBeListed(q)
    BY <2>1 DEF WillBeListed
  <2> QED BY <1>3, <2>1, <2>2, <2>3, <2>4
<1>4. TypeOK'
  <2>1. /\ zc' \in Work /\ loop' \in Work /\ loop'.step # "lost"
        /\ zc'.step # "idle" => zc'.peer \in Peer
        /\ loop'.step # "idle" => loop'.peer \in Peer
    BY <1>1, IdleTyped, IdleHolds DEF TypeOK
  <2>2. stored' \subseteq known' /\ unsaved' \subseteq discovered'
    BY <1>2, <1>3, <1>k DEF TypeOK
  <2> QED BY <1>2, <1>v, <2>1, <2>2 DEF TypeOK, netVars, modeVars
<1>5. HandsAgree'
  BY <1>1, <1>2, DoingIs, IdleHolds DEF HandsAgree
<1>6. ListedIsStored'
  <2>1. CASE stored' = stored \cup {p} /\ Emit("found", p)
    <3> DEFINE e == [kind |-> "found", peer |-> p]
    <3>1. e \in Signal /\ e.peer = p /\ signals' = Append(signals, e)
      BY <2>1, <1>1 DEF Signal, Emit
    <3> HIDE DEF e
    <3>2. signals \in Seq(Signal)
      BY DEF TypeOK
    <3>3. \A i \in DOMAIN signals' :
            \/ signals'[i] = e
            \/ i \in DOMAIN signals /\ signals'[i] = signals[i]
      BY <3>1, <3>2, Appended
    <3> QED BY <3>1, <3>3, <2>1, <1>2 DEF ListedIsStored
  <2>2. CASE UNCHANGED <<stored, signals>>
    BY <2>2, <1>2 DEF ListedIsStored
  <2> QED BY <2>1, <2>2, <1>3
<1>7. ListFollowsTable'
  <2> SUFFICES ASSUME NEW q \in Id \ (unsaved' \cup crossed')
               PROVE  /\ q \in discovered' => WillBeListed(q)' \/ Announcing(q)'
                      /\ WillBeListed(q)' => \/ q \in discovered'
                                            \/ zc' = Doing("lost", q)
    BY DEF ListFollowsTable
  <2>1. q \notin unsaved /\ q \notin crossed /\ discovered' = discovered
    BY <1>2, <1>3
  <2>2. zc = Doing("lost", q) => zc' = Doing("lost", q)
    BY <1>1, DoingIs
  <2>3. CASE q = p
    <3>1. p \in discovered
      BY <1>k, <2>1, <2>3
    <3>2. Emit("found", p)
      BY <3>1, <2>3, <1>3
    <3>3. WillBeListed(q)'
      BY <3>2, <2>3, <1>v
    <3> QED BY <2>1, <2>3, <3>1, <3>3
  <2>4. CASE q # p
    <3>1. Announcing(q) => Announcing(q)'
      BY <2>4, <1>1, DoingIs DEF Announcing
    <3>2. WillBeListed(q)' <=> WillBeListed(q)
      BY <2>4, <1>v, <1>3
    <3> QED BY <2>1, <2>2, <2>4, <3>1, <3>2 DEF ListFollowsTable
  <2> QED BY <2>3, <2>4
<1> QED BY <1>4, <1>5, <1>6, <1>7

\* A handler looks its peer up: only the mDNS one changes the table.
LEMMA LookupStep ==
    ASSUME DiscoveryInv, NEW p \in Peer,
           ServiceAdded(p) \/ ServiceRemoved(p) \/ ReceiveMulticast(p)
    PROVE  DiscoveryInv'
<1> USE DEF DiscoveryInv
<1>i. p \in Id
  BY DEF Id
<1>t. /\ Doing("enter", p) \in Work /\ Doing("lost", p) \in Work
      /\ Doing("enter", p).peer = p /\ Doing("lost", p).peer = p
      /\ Doing("enter", p).step = "enter"
  BY <1>i, DoingTyped, DoingIs
<1>1. CASE ServiceAdded(p)
  <2>1. /\ seen' = seen \cup {p} /\ zc = Idle
        /\ zc' \in {zc, Doing("enter", p)}
        /\ UNCHANGED <<netVars, air, modeVars, tableVars, loop, guiVars, history>>
    BY <1>1 DEF ServiceAdded
  <2>2. TypeOK'
    BY <2>1, <1>t DEF TypeOK, netVars, modeVars, tableVars, guiVars, history
  <2>3. HandsAgree'
    BY <2>1, DoingIs DEF HandsAgree, Holds, tableVars, history
  <2>4. ListedIsStored'
    BY <2>1 DEF ListedIsStored, tableVars, guiVars
  <2>5. ListFollowsTable'
    <3>1. \A q \in Id : WillBeListed(q)' <=> WillBeListed(q)
      BY <2>1, NoSignalsSameView
    <3>2. \A q \in Id : Announcing(q) => Announcing(q)'
      BY <2>1, DoingIs DEF Announcing
    <3>3. \A q \in Id : zc # Doing("lost", q)
      BY <2>1, DoingIs
    <3> QED BY <2>1, <3>1, <3>2, <3>3 DEF ListFollowsTable, tableVars, history
  <2> QED BY <2>2, <2>3, <2>4, <2>5
<1>2. CASE ServiceRemoved(p)
  <2>1. /\ zc = Idle /\ seen' = seen \ {p}
        /\ crossed' = IF Crosses(p) THEN crossed \cup {p} ELSE crossed
        /\ UNCHANGED <<netVars, air, modeVars, known, stored, loop, guiVars>>
    BY <1>2 DEF ServiceRemoved
  <2>2. /\ discovered' = discovered \ {p} /\ unsaved' = unsaved \ {p}
        /\ \/ p \in discovered /\ zc' = Doing("lost", p)
           \/ p \notin discovered /\ zc' = zc
    BY <1>2 DEF ServiceRemoved, PopPeer, TypeOK
  <2>3. p \notin crossed' => ~Holds(loop, p)
    BY <2>1 DEF Crosses
  <2>4. TypeOK'
    BY <2>1, <2>2, <1>t DEF TypeOK, netVars, modeVars, guiVars
  <2>5. HandsAgree'
    <3>1. \A q \in Id : zc' # Doing("save", q)
      BY <2>1, <2>2, DoingIs
    <3>2. \A q \in Id : loop' = Doing("save", q) => q \in known'
      BY <2>1 DEF HandsAgree
    <3>3. \A q \in Id \ crossed' : loop' = Doing("save", q) => q \in discovered'
      BY <2>1, <2>2, <2>3, DoingIs DEF HandsAgree
    <3>4. \A q \in Id \ crossed' : zc' = Doing("lost", q)
            => q \notin discovered' /\ ~Holds(loop', q)
      BY <2>1, <2>2, <2>3, DoingIs
    <3> QED BY <3>1, <3>2, <3>3, <3>4 DEF HandsAgree, Holds
  <2>6. ListedIsStored'
    BY <2>1 DEF ListedIsStored, guiVars
  <2>7. ListFollowsTable'
    <3> SUFFICES ASSUME NEW q \in Id \ (unsaved' \cup crossed')
                 PROVE  /\ q \in discovered' => WillBeListed(q)' \/ Announcing(q)'
                        /\ WillBeListed(q)' => \/ q \in discovered'
                                              \/ zc' = Doing("lost", q)
      BY DEF ListFollowsTable
    <3>1. WillBeListed(q)' <=> WillBeListed(q)
      BY <2>1, NoSignalsSameView
    <3>2. CASE q = p
      <4>1. CASE p \in discovered
        BY <4>1, <3>2, <2>2
      <4>2. CASE p \notin discovered
        <5>1. p \notin unsaved /\ p \notin crossed
          BY <4>2, <3>2, <2>1 DEF TypeOK
        <5>2. zc # Doing("lost", p)
          BY <2>1, DoingIs
        <5> QED BY <4>2, <5>1, <5>2, <3>1, <3>2, <2>2, <1>i DEF ListFollowsTable
      <4> QED BY <4>1, <4>2
    <3>3. CASE q # p
      <4>1. q \notin unsaved /\ q \notin crossed
        BY <3>3, <2>1, <2>2
      <4>2. Announcing(q) => Announcing(q)'
        BY <2>1, <2>2, DoingIs DEF Announcing
      <4>3. zc # Doing("lost", q)
        BY <2>1, DoingIs
      <4> QED BY <4>1, <4>2, <4>3, <3>1, <3>3, <2>2 DEF ListFollowsTable
    <3> QED BY <3>2, <3>3
  <2> QED BY <2>4, <2>5, <2>6, <2>7
<1>3. CASE ReceiveMulticast(p)
  <2>1. /\ loop = Idle /\ air' = air \ {p} /\ listening' = running
        /\ UNCHANGED <<netVars, running, browsing, seen, tableVars, zc, guiVars,
                       unsaved>>
    BY <1>3 DEF ReceiveMulticast
  <2>2. /\ crossed \subseteq crossed' /\ crossed' \subseteq crossed \cup {p}
        /\ \/ /\ loop' = Doing("enter", p)
              /\ p \notin crossed' => zc # Doing("lost", p)
           \/ loop' = loop /\ crossed' = crossed
    BY <1>3 DEF ReceiveMulticast, Crosses
  <2>3. TypeOK'
    BY <2>1, <2>2, <1>t DEF TypeOK, netVars, tableVars, guiVars
  <2>4. HandsAgree'
    <3>1. \A q \in Id : loop' # Doing("save", q)
      BY <2>1, <2>2, DoingIs
    <3>2. \A q \in Id : zc' = Doing("save", q) => q \in discovered'
      BY <2>1 DEF HandsAgree, tableVars
    <3>3. ASSUME NEW q \in Id \ crossed', zc' = Doing("lost", q)
          PROVE  q \notin discovered' /\ ~Holds(loop', q)
      <4>1. q \notin discovered /\ ~Holds(loop, q) /\ zc = Doing("lost", q)
        BY <3>3, <2>1, <2>2 DEF HandsAgree
      <4>2. CASE loop' = loop
        BY <4>1, <4>2, <2>1 DEF tableVars
      <4>3. CASE loop' = Doing("enter", p) /\ q # p
        BY <4>1, <4>3, <2>1, DoingIs DEF tableVars
      <4> QED BY <4>1, <4>2, <4>3, <2>2
    <3> QED BY <3>1, <3>2, <3>3 DEF HandsAgree, Holds
  <2>5. ListedIsStored'
    BY <2>1 DEF ListedIsStored, tableVars, guiVars
  <2>6. ListFollowsTable'
    <3>1. \A q \in Id : WillBeListed(q)' <=> WillBeListed(q)
      BY <2>1, NoSignalsSameView
    <3>2. \A q \in Id : Announcing(q) => Announcing(q)'
      BY <2>1, DoingIs DEF Announcing
    <3> QED BY <2>1, <2>2, <3>1, <3>2 DEF ListFollowsTable, tableVars
  <2> QED BY <2>3, <2>4, <2>5, <2>6
<1> QED BY <1>1, <1>2, <1>3

THEOREM DiscoveryIsInvariant == Spec => []DiscoveryInv
<1>1. ASSUME DiscoveryInv, [Next]_vars
      PROVE  DiscoveryInv'
  <2>1. CASE UNCHANGED vars
    <3>1. UNCHANGED <<tableVars, zc, loop, guiVars, history>>
      BY <2>1 DEF vars
    <3>2. TypeOK'
      BY <1>1, <2>1 DEF DiscoveryInv, TypeOK, vars, netVars, modeVars, tableVars,
                        guiVars, history
    <3> QED BY <1>1, <3>1, <3>2, Untouched DEF DiscoveryInv
  <2>2. CASE Next
    BY <1>1, <2>2, NetworkStep, LookupStep, EnterStep, FoundStep, LostStep,
       WindowStep, TypedStep DEF Next, Browser, EventLoop, Window
  <2> QED BY <1>1, <2>1, <2>2
<1> QED BY <1>1, InitInv, PTL DEF Spec

\* Everything keeps its type, and every stored or listed peer is known.
THEOREM TypeCorrect == Spec => []TypeOK
<1>1. DiscoveryInv => TypeOK
  BY DEF DiscoveryInv
<1> QED BY <1>1, DiscoveryIsInvariant, PTL

\* The list of the window and the table of discovery agree once the signals
\* on their way are handled, for every interleaving of the three threads.
THEOREM ListAgrees == Spec => []ListFollowsTable
<1>1. DiscoveryInv => ListFollowsTable
  BY DEF DiscoveryInv
<1> QED BY <1>1, DiscoveryIsInvariant, PTL

\* No line of the list is without its row in the peers table.
THEOREM NoLineWithoutRow == Spec => []ListedIsStored
<1>1. DiscoveryInv => ListedIsStored
  BY DEF DiscoveryInv
<1> QED BY <1>1, DiscoveryIsInvariant, PTL

=============================================================================
