---------------------------- MODULE WindowProofs ----------------------------
(***************************************************************************)
(* Theorems about Window, for any transfers, in any number at once, and    *)
(* any number of events.                                                   *)
(*                                                                         *)
(* A row can only lag behind a transfer that had a row before: that needs  *)
(* that a transfer has a row, or a question, only once it has a state, and *)
(* that a file on its way to send_file has none.  WindowInv adds these and *)
(* is inductive.                                                           *)
(***************************************************************************)
EXTENDS Window, TLAPS

USE TransfersDiffer, BoundAssumption

\* A transfer without a state has no row, question or coroutine yet.
NewIsUntouched ==
    \A t \in Transfer :
      state[t] = "none" => /\ row[t] = "none" /\ t \notin pending
                           /\ fresh[t] = 0 /\ tasks[t] = 0
                           /\ \A c \in waits : c.t # t

\* Only files offered to us are announced as incoming.
SignalsFit ==
    \A i \in DOMAIN signals :
      signals[i].kind = "incoming" => signals[i].t \in Incoming

\* A file about to be sent has no state yet and is sent once.
SendsAreNew ==
    \A i \in DOMAIN calls :
      calls[i].op = "send" =>
        /\ state[calls[i].t] = "none"
        /\ \A j \in DOMAIN calls \ {i} :
             ~(calls[j].op = "send" /\ calls[j].t = calls[i].t)

WindowInv ==
    /\ TypeOK
    /\ NewIsUntouched
    /\ SignalsFit
    /\ SendsAreNew
    /\ RowFollowsState
    /\ AskedOnce

-----------------------------------------------------------------------------
(* Values that occur once, or never, in a sequence.                        *)

Once(s, v) == \E i \in DOMAIN s : s[i] = v /\ \A j \in DOMAIN s : s[j] = v => j = i
Never(s, v) == \A i \in DOMAIN s : s[i] # v

LEMMA TailOf ==
    ASSUME NEW S, NEW s \in Seq(S), s # <<>>
    PROVE  /\ Tail(s) \in Seq(S) /\ Head(s) \in S
           /\ 1 \in DOMAIN s /\ Head(s) = s[1]
           /\ \A i \in DOMAIN Tail(s) : /\ i + 1 \in DOMAIN s
                                        /\ Tail(s)[i] = s[i + 1]
                                        /\ i \in Nat /\ i > 0
           /\ \A i \in DOMAIN s : i # 1 => /\ i \in Int
                                           /\ i - 1 \in DOMAIN Tail(s)
                                           /\ Tail(s)[i - 1] = s[i]
<1>1. /\ Len(s) \in Nat /\ Len(s) > 0
      /\ DOMAIN s = 1 .. Len(s) /\ Head(s) = s[1]
      /\ \A i \in 1 .. Len(s) : s[i] \in S
  OBVIOUS
<1>2. /\ Tail(s) \in Seq(S)
      /\ DOMAIN Tail(s) = 1 .. (Len(s) - 1)
      /\ \A i \in 1 .. (Len(s) - 1) : Tail(s)[i] = s[i + 1]
  OBVIOUS
<1>3. \A i \in DOMAIN Tail(s) : i + 1 \in DOMAIN s /\ Tail(s)[i] = s[i + 1]
                                /\ i \in Nat /\ i > 0
  BY <1>1, <1>2
<1>4. ASSUME NEW i \in DOMAIN s, i # 1
      PROVE  i \in Int /\ i - 1 \in DOMAIN Tail(s) /\ Tail(s)[i - 1] = s[i]
  <2>1. i - 1 \in 1 .. (Len(s) - 1) /\ (i - 1) + 1 = i
    BY <1>1, <1>4
  <2> QED
    BY <1>1, <1>2, <2>1
<1> QED
  BY <1>1, <1>2, <1>3, <1>4

LEMMA AppendOf ==
    ASSUME NEW S, NEW s \in Seq(S), NEW x \in S
    PROVE  /\ Append(s, x) \in Seq(S)
           /\ DOMAIN Append(s, x) = DOMAIN s \cup {Len(s) + 1}
           /\ \A i \in DOMAIN s : Append(s, x)[i] = s[i]
           /\ Append(s, x)[Len(s) + 1] = x
           /\ Len(s) + 1 \notin DOMAIN s
  OBVIOUS

LEMMA PrependOf ==
    ASSUME NEW S, NEW s \in Seq(S), NEW x \in S
    PROVE  /\ <<x>> \o s \in Seq(S)
           /\ 1 \in DOMAIN (<<x>> \o s) /\ (<<x>> \o s)[1] = x
           /\ \A i \in DOMAIN s : /\ i \in Nat /\ i > 0
                                  /\ i + 1 \in DOMAIN (<<x>> \o s)
                                  /\ (<<x>> \o s)[i + 1] = s[i]
           /\ \A i \in DOMAIN (<<x>> \o s) :
                i # 1 => /\ i \in Int
                         /\ i - 1 \in DOMAIN s
                         /\ (<<x>> \o s)[i] = s[i - 1]
  OBVIOUS

LEMMA TailKeeps ==
    ASSUME NEW S, NEW s \in Seq(S), s # <<>>, NEW v, Head(s) # v
    PROVE  /\ Once(s, v) => Once(Tail(s), v)
           /\ Never(s, v) => Never(Tail(s), v)
<1>1. ASSUME Once(s, v) PROVE Once(Tail(s), v)
  <2>1. PICK i \in DOMAIN s : s[i] = v /\ \A j \in DOMAIN s : s[j] = v => j = i
    BY <1>1 DEF Once
  <2>2. i # 1
    BY <2>1, TailOf
  <2>3. i - 1 \in DOMAIN Tail(s) /\ Tail(s)[i - 1] = v /\ i \in Int
    BY <2>1, <2>2, TailOf
  <2>4. \A j \in DOMAIN Tail(s) : Tail(s)[j] = v => j = i - 1
    BY <2>1, <2>3, TailOf
  <2> QED
    BY <2>3, <2>4 DEF Once
<1> QED
  BY <1>1, TailOf DEF Never

LEMMA TailTakes ==
    ASSUME NEW S, NEW s \in Seq(S), s # <<>>, Once(s, Head(s))
    PROVE  Never(Tail(s), Head(s))
  BY TailOf DEF Once, Never

LEMMA AppendKeeps ==
    ASSUME NEW S, NEW s \in Seq(S), NEW x \in S, NEW v, x # v
    PROVE  /\ Once(s, v) => Once(Append(s, x), v)
           /\ Never(s, v) => Never(Append(s, x), v)
  BY AppendOf DEF Once, Never

LEMMA AppendAdds ==
    ASSUME NEW S, NEW s \in Seq(S), NEW x \in S, Never(s, x)
    PROVE  Once(Append(s, x), x)
  BY AppendOf DEF Once, Never

LEMMA PrependKeeps ==
    ASSUME NEW S, NEW s \in Seq(S), NEW x \in S, NEW v, x # v
    PROVE  /\ Once(s, v) => Once(<<x>> \o s, v)
           /\ Never(s, v) => Never(<<x>> \o s, v)
<1>1. ASSUME Once(s, v) PROVE Once(<<x>> \o s, v)
  <2>1. PICK i \in DOMAIN s : s[i] = v /\ \A j \in DOMAIN s : s[j] = v => j = i
    BY <1>1 DEF Once
  <2>2. i + 1 \in DOMAIN (<<x>> \o s) /\ (<<x>> \o s)[i + 1] = v /\ i \in Nat
    BY <2>1, PrependOf
  <2>3. ASSUME NEW j \in DOMAIN (<<x>> \o s), (<<x>> \o s)[j] = v
        PROVE  j = i + 1
    <3>1. j # 1
      BY <2>3, PrependOf
    <3>2. j \in Int /\ j - 1 \in DOMAIN s /\ s[j - 1] = v
      BY <2>3, <3>1, PrependOf
    <3> QED
      BY <2>1, <2>2, <3>2
  <2> QED
    BY <2>2, <2>3 DEF Once
<1> QED
  BY <1>1, PrependOf DEF Never

LEMMA PrependAdds ==
    ASSUME NEW S, NEW s \in Seq(S), NEW x \in S, Never(s, x)
    PROVE  Once(<<x>> \o s, x)
  BY PrependOf DEF Once, Never

-----------------------------------------------------------------------------
(* Types.                                                                  *)

LEMMA CallShape ==
    ASSUME NEW c \in Call
    PROVE  c.op \in Button \cup {"send", "accept", "reject"} /\ c.t \in Transfer
  BY DEF Call

LEMMA EmitType ==
    ASSUME TypeOK, NEW k \in {"update", "incoming"}, NEW t \in Transfer,
           Emit(k, t)
    PROVE  signals' \in Seq(Signal)
<1>1. [kind |-> k, t |-> t] \in Signal
  BY DEF Signal
<1> QED
  BY <1>1, AppendOf DEF TypeOK, Emit

LEMMA ScheduleType ==
    ASSUME TypeOK, NEW op \in Button \cup {"send", "accept", "reject"},
           NEW t \in Transfer, Schedule(op, t)
    PROVE  calls' \in Seq(Call)
<1>1. [op |-> op, t |-> t, n |-> events] \in Call
  BY DEF TypeOK, Call
<1> QED
  BY <1>1, AppendOf DEF TypeOK, Schedule

LEMMA RequestedIsState ==
    \A b \in Button : Requested[b] \in State \ {"none"}
BY DEF Requested, Button, State

LEMMA FinishType ==
    ASSUME TypeOK, NEW b \in Button, NEW t \in Transfer, FinishRequest(b, t),
           state' \in [Transfer -> State],
           \A u \in Transfer : state'[u] = state[u] \/ state'[u] # "none"
    PROVE  /\ active' \subseteq Transfer /\ replied' \subseteq active'
           /\ \A u \in active' : state'[u] # "none"
           /\ fresh' \in [Transfer -> Nat]
           /\ signals' \in Seq(Signal)
<1>1. signals' \in Seq(Signal)
  BY EmitType DEF FinishRequest
<1>2. fresh' \in [Transfer -> Nat]
  <2>1. fresh' = [fresh EXCEPT ![t] = @ + 1] \/ fresh' = fresh
    BY DEF FinishRequest, CreateTask
  <2>2. fresh \in [Transfer -> Nat]
    BY DEF TypeOK
  <2> QED
    BY <2>1, <2>2
<1>3. active' \subseteq active /\ replied' \subseteq active'
  BY DEF TypeOK, FinishRequest, Cleanup
<1> QED
  BY <1>1, <1>2, <1>3 DEF TypeOK

LEMMA RunCallType ==
    ASSUME TypeOK, RunCall
    PROVE  TypeOK'
<1> DEFINE c == Head(calls)
<1>1. c \in Call /\ calls' \in Seq(Call)
  BY TailOf DEF TypeOK, RunCall
<1>2. c.op \in Button \cup {"send", "accept", "reject"} /\ c.t \in Transfer
  BY <1>1, CallShape
<1> HIDE DEF c
<1>3. /\ waits' \subseteq Call
      /\ state' \in [Transfer -> State] /\ active' \subseteq Transfer
      /\ fresh' \in [Transfer -> Nat] /\ tasks' \in [Transfer -> Nat]
      /\ replied' \subseteq active'
      /\ \A t \in active' : state'[t] # "none"
      /\ signals' \in Seq(Signal)
      /\ unheard' \subseteq Transfer
  <2>1. CASE SendFile(c) /\ UNCHANGED unheard
    BY <1>1, <1>2, <2>1 DEF TypeOK, SendFile, SetState, Await, taskVars,
                            xferVars, State
  <2>2. CASE AcceptTransfer(c)
    BY <1>1, <1>2, <2>2 DEF TypeOK, AcceptTransfer, Await, taskVars, xferVars
  <2>3. CASE RejectTransfer(c) /\ UNCHANGED unheard
    BY <1>1, <1>2, <2>3 DEF TypeOK, RejectTransfer, SetState, Cleanup, Await,
                            taskVars, xferVars, State
  <2>4. CASE c.op \in Button /\ SteerTransfer(c) /\ UNCHANGED unheard
    <3>1. CASE UNCHANGED <<waits, xferVars, signals>>
      BY <2>4, <3>1 DEF TypeOK, xferVars, taskVars
    <3>2. CASE /\ c.t \in active /\ SetState(c.t, Requested[c.op])
               /\ Await(c) /\ UNCHANGED <<active, taskVars, replied, signals>>
      BY <1>1, <1>2, <2>4, <3>2, RequestedIsState
         DEF TypeOK, SetState, Await, taskVars
    <3>3. CASE /\ c.t \in active /\ SetState(c.t, Requested[c.op])
               /\ FinishRequest(c.op, c.t) /\ UNCHANGED <<waits, tasks>>
      <4>1. /\ state' \in [Transfer -> State]
            /\ \A u \in Transfer : state'[u] = state[u] \/ state'[u] # "none"
        BY <1>2, <2>4, <3>3, RequestedIsState DEF TypeOK, SetState
      <4> QED
        BY <1>2, <2>4, <3>3, <4>1, FinishType DEF TypeOK
    <3> QED
      BY <2>4, <3>1, <3>2, <3>3 DEF SteerTransfer
  <2> QED
    BY <2>1, <2>2, <2>3, <2>4 DEF RunCall, c
<1> QED
  BY <1>1, <1>3 DEF TypeOK, RunCall, loopVars, askVars

LEMMA SendReturnsType ==
    ASSUME TypeOK, NEW c \in waits, SendReturns(c)
    PROVE  TypeOK'
<1>1. c \in Call /\ c.t \in Transfer
  BY CallShape DEF TypeOK
<1>2. /\ state' \in [Transfer -> State] /\ active' \subseteq Transfer
      /\ fresh' \in [Transfer -> Nat] /\ tasks' \in [Transfer -> Nat]
      /\ replied' \subseteq active'
      /\ \A t \in active' : state'[t] # "none"
      /\ signals' \in Seq(Signal)
  <2>1. CASE Emit("update", c.t) /\ UNCHANGED xferVars
    BY <1>1, <2>1, EmitType DEF TypeOK, xferVars, taskVars
  <2>2. CASE UNCHANGED <<signals, xferVars>>
    BY <2>2 DEF TypeOK, xferVars, taskVars
  <2>3. CASE /\ SetState(c.t, "cancelled") /\ Cleanup(c.t)
             /\ UNCHANGED <<signals, taskVars>>
    BY <1>1, <2>3 DEF TypeOK, SetState, Cleanup, taskVars, State
  <2>4. CASE /\ c.op \in Button /\ FinishRequest(c.op, c.t)
             /\ UNCHANGED <<state, tasks>>
    BY <1>1, <2>4, FinishType DEF TypeOK
  <2> QED
    BY <2>1, <2>2, <2>3, <2>4 DEF SendReturns
<1> QED
  BY <1>2 DEF TypeOK, SendReturns, loopVars, askVars, histVars

LEMMA InitType == Init => TypeOK
  BY DEF Init, TypeOK, State

LEMMA NextType ==
    ASSUME WindowInv, [Next]_vars
    PROVE  TypeOK'
<1> USE DEF loopVars, coVars, taskVars, xferVars, askVars, histVars
<1>0. TypeOK /\ SignalsFit
  BY DEF WindowInv
<1>1. CASE HandleUpdate
  <2>1. signals' \in Seq(Signal)
    BY <1>0, <1>1, TailOf DEF TypeOK, HandleUpdate
  <2>2. Head(signals).t \in Transfer
    <3>1. Head(signals) \in Signal
      BY <1>0, <1>1, TailOf DEF TypeOK, HandleUpdate
    <3> QED
      BY <3>1 DEF Signal
  <2>3. row' \in [Transfer -> State]
    BY <1>0, <1>1, <2>2 DEF TypeOK, HandleUpdate, Show
  <2> QED
    BY <1>0, <1>1, <2>1, <2>3 DEF TypeOK, HandleUpdate
<1>2. CASE Refresh
  BY <1>0, <1>2 DEF TypeOK, Refresh
<1>3. CASE Ask
  <2>1. signals' \in Seq(Signal)
    BY <1>0, <1>3, TailOf DEF TypeOK, Ask
  <2>2. Head(signals).t \in Incoming
    BY <1>0, <1>3, TailOf DEF TypeOK, Ask, SignalsFit
  <2>3. dialogs' \in Seq(Incoming)
    BY <1>0, <1>3, <2>2, PrependOf DEF TypeOK, Ask
  <2> QED
    BY <1>0, <1>3, <2>1, <2>3 DEF TypeOK, Ask
<1>4. CASE \E reply \in {"accept", "reject"} : Answer(reply)
  <2> PICK reply \in {"accept", "reject"} : Answer(reply)
    BY <1>4
  <2>1. dialogs' \in Seq(Incoming) /\ Head(dialogs) \in Transfer
    BY <1>0, TailOf DEF TypeOK, Answer, Transfer
  <2>2. calls' \in Seq(Call)
    BY <1>0, <2>1, ScheduleType DEF TypeOK, Answer
  <2>3. pending' \subseteq Incoming
    BY <1>0 DEF TypeOK, Answer, TakeRequest
  <2> QED
    BY <1>0, <2>1, <2>2, <2>3 DEF TypeOK, Answer
<1>5. CASE \E t \in Transfer : \E b \in Button : Click(b, t)
  <2> PICK t \in Transfer, b \in Button : Click(b, t)
    BY <1>5
  <2>1. calls' \in Seq(Call)
    BY <1>0, ScheduleType DEF Click
  <2>2. events' \in 0 .. MaxEvents
    BY <1>0 DEF TypeOK, Click, Bounded
  <2> QED
    BY <1>0, <2>1, <2>2 DEF TypeOK, Click
<1>6. CASE \E t \in Outgoing : DropFile(t)
  <2> PICK t \in Outgoing : DropFile(t)
    BY <1>6
  <2>1. calls' \in Seq(Call)
    BY <1>0, ScheduleType DEF DropFile, Transfer
  <2> QED
    BY <1>0, <2>1 DEF TypeOK, DropFile
<1>7. CASE RunCall
  BY <1>0, <1>7, RunCallType
<1>8. CASE \E c \in waits : SendReturns(c)
  BY <1>0, <1>8, SendReturnsType
<1>9. CASE \E c \in waits : SendRaises(c)
  <2> PICK c \in waits : SendRaises(c)
    BY <1>9
  <2>1. c.t \in Transfer
    BY <1>0, CallShape DEF TypeOK
  <2> QED
    BY <1>0, <2>1 DEF TypeOK, SendRaises
<1>10. CASE \E t \in Incoming : HandleFileMeta(t)
  <2> PICK t \in Incoming : HandleFileMeta(t)
    BY <1>10
  <2>1. signals' \in Seq(Signal)
    BY <1>0, EmitType DEF HandleFileMeta, Transfer
  <2> QED
    BY <1>0, <2>1 DEF TypeOK, HandleFileMeta, SetState, State, Transfer
<1>11. CASE \E t \in Outgoing, a \in BOOLEAN : HandleFileRequest(t, a)
  <2> PICK t \in Outgoing, a \in BOOLEAN : HandleFileRequest(t, a)
    BY <1>11
  <2>1. signals' \in Seq(Signal)
    BY <1>0, EmitType DEF HandleFileRequest, Transfer
  <2>2. fresh' \in [Transfer -> Nat]
    <3>1. fresh' = [fresh EXCEPT ![t] = @ + 1] \/ fresh' = fresh
      BY DEF HandleFileRequest, CreateTask
    <3>2. fresh \in [Transfer -> Nat]
      BY <1>0 DEF TypeOK
    <3> QED
      BY <3>1, <3>2
  <2> QED
    BY <1>0, <2>1, <2>2 DEF TypeOK, HandleFileRequest, SetState, State
<1>12. CASE \E t \in Transfer, b \in Button : HandleData(b, t)
  <2> PICK t \in Transfer, b \in Button : HandleData(b, t)
    BY <1>12
  <2>1. signals' \in Seq(Signal)
    BY <1>0, EmitType DEF HandleData
  <2>2. /\ state' \in [Transfer -> State]
        /\ \A u \in Transfer : state'[u] = state[u] \/ state'[u] # "none"
    BY <1>0, RequestedIsState DEF TypeOK, HandleData, SetState
  <2>3. events' \in 0 .. MaxEvents
    BY <1>0 DEF TypeOK, HandleData, Bounded
  <2>4. active' \subseteq active /\ replied' \subseteq active'
    BY <1>0 DEF TypeOK, HandleData, Cleanup
  <2> QED
    BY <1>0, <2>1, <2>2, <2>3, <2>4 DEF TypeOK, HandleData
<1>13. CASE \E t \in Transfer : Progress(t)
  <2> PICK t \in Transfer : Progress(t)
    BY <1>13
  <2>1. signals' \in Seq(Signal)
    BY <1>0, EmitType DEF Progress
  <2>2. /\ state' \in [Transfer -> State]
        /\ \A u \in Transfer : state'[u] = state[u] \/ state'[u] # "none"
    BY <1>0 DEF TypeOK, Progress, SetState, State
  <2>3. events' \in 0 .. MaxEvents
    BY <1>0 DEF TypeOK, Progress, Bounded
  <2> QED
    BY <1>0, <2>1, <2>2, <2>3 DEF TypeOK, Progress
<1>14. CASE \E t \in Outgoing : TaskBegins(t)
  BY <1>0, <1>14 DEF TypeOK, TaskBegins, SetState, State, Transfer
<1>15. CASE \E t \in Outgoing : TaskEnds(t)
  <2> PICK t \in Outgoing : TaskEnds(t)
    BY <1>15
  <2>1. signals' \in Seq(Signal)
    BY <1>0, EmitType DEF TypeOK, TaskEnds, EndAs, Transfer
  <2>2. /\ state' \in [Transfer -> State]
        /\ \A u \in Transfer : state'[u] = state[u] \/ state'[u] # "none"
    BY <1>0 DEF TypeOK, TaskEnds, EndAs, SetState, State
  <2>3. tasks' \in [Transfer -> Nat]
    <3>1. /\ t \in Transfer /\ tasks \in [Transfer -> Nat] /\ tasks[t] > 0
          /\ tasks' = [tasks EXCEPT ![t] = @ - 1]
      BY <1>0 DEF TypeOK, TaskEnds, Transfer
    <3> QED
      BY <3>1
  <2>4. UNCHANGED <<alive, up, calls, waits, active, fresh, replied, pending,
                    dialogs, row, events, mute, unheard>>
    BY DEF TaskEnds
  <2>5. \A u \in active' : state'[u] # "none"
    BY <1>0, <2>2, <2>4 DEF TypeOK
  <2> QED
    BY <1>0, <2>1, <2>2, <2>3, <2>4, <2>5 DEF TypeOK
<1>16. CASE LoopEnds \/ LinkBreaks
  <2>1. events' \in 0 .. MaxEvents
    BY <1>0, <1>16 DEF TypeOK, LoopEnds, LinkBreaks, Bounded
  <2>2. alive' \in BOOLEAN /\ up' \in BOOLEAN
    BY <1>0, <1>16 DEF TypeOK, LoopEnds, LinkBreaks
  <2> QED
    BY <1>0, <1>16, <2>1, <2>2 DEF TypeOK, LoopEnds, LinkBreaks
<1>17. CASE UNCHANGED vars
  BY <1>0, <1>17 DEF TypeOK, vars
<1> QED
  BY <1>1, <1>2, <1>3, <1>4, <1>5, <1>6, <1>7, <1>8, <1>9, <1>10, <1>11,
     <1>12, <1>13, <1>14, <1>15, <1>16, <1>17
     DEF Next, Qt, User, Peer, Coroutine

-----------------------------------------------------------------------------
(* The steps of the loop's thread other than an offer of the peer: they    *)
(* leave the window alone, and add at most one update to the signals.      *)

Quiet ==
    /\ UNCHANGED <<pending, dialogs, row>>
    /\ signals' = signals \/ \E t \in Transfer : Emit("update", t)
    /\ \A t \in Transfer : state'[t] = state[t] \/ state'[t] # "none"

LEMMA FinishReports ==
    ASSUME NEW b \in Button, NEW t \in Transfer, FinishRequest(b, t)
    PROVE  Emit("update", t)
  BY DEF FinishRequest

LEMMA RunCallIsQuiet ==
    ASSUME TypeOK, RunCall
    PROVE  Quiet
<1> USE DEF loopVars, coVars, taskVars, xferVars, askVars, histVars
<1> DEFINE c == Head(calls)
<1>1. c \in Call
  BY TailOf DEF TypeOK, RunCall
<1>2. c.op \in Button \cup {"send", "accept", "reject"} /\ c.t \in Transfer
  BY <1>1, CallShape
<1> HIDE DEF c
<1>3. /\ signals' = signals \/ \E t \in Transfer : Emit("update", t)
      /\ \A t \in Transfer : state'[t] = state[t] \/ state'[t] # "none"
  <2>1. CASE SendFile(c)
    BY <1>2, <2>1 DEF TypeOK, SendFile, SetState
  <2>2. CASE AcceptTransfer(c)
    BY <2>2 DEF AcceptTransfer
  <2>3. CASE RejectTransfer(c)
    BY <1>2, <2>3 DEF TypeOK, RejectTransfer, SetState
  <2>4. CASE c.op \in Button /\ SteerTransfer(c)
    <3>1. \A t \in Transfer : state'[t] = state[t] \/ state'[t] # "none"
      BY <1>2, <2>4, RequestedIsState DEF TypeOK, SteerTransfer, SetState
    <3> QED
      BY <1>2, <2>4, <3>1, FinishReports DEF SteerTransfer
  <2> QED
    BY <2>1, <2>2, <2>3, <2>4 DEF RunCall, c
<1> QED
  BY <1>3 DEF RunCall, Quiet

LEMMA SendReturnsIsQuiet ==
    ASSUME TypeOK, NEW c \in waits, SendReturns(c)
    PROVE  Quiet
<1>1. c.t \in Transfer
  BY CallShape DEF TypeOK
<1>2. signals' = signals \/ \E t \in Transfer : Emit("update", t)
  BY <1>1, FinishReports DEF SendReturns
<1>3. \A t \in Transfer : state'[t] = state[t] \/ state'[t] # "none"
  BY <1>1 DEF TypeOK, SendReturns, SetState, xferVars
<1> QED
  BY <1>2, <1>3 DEF SendReturns, Quiet, askVars

LEMMA LoopIsQuiet ==
    ASSUME TypeOK,
           \/ RunCall
           \/ \E c \in waits : SendReturns(c) \/ SendRaises(c)
           \/ \E t \in Outgoing, a \in BOOLEAN : HandleFileRequest(t, a)
           \/ \E t \in Transfer : Progress(t) \/ \E b \in Button : HandleData(b, t)
           \/ \E t \in Outgoing : TaskBegins(t) \/ TaskEnds(t)
           \/ LoopEnds \/ LinkBreaks \/ UNCHANGED vars
    PROVE  Quiet
<1> USE DEF loopVars, coVars, taskVars, xferVars, askVars, histVars, Quiet
<1>1. CASE RunCall
  BY <1>1, RunCallIsQuiet
<1>2. CASE \E c \in waits : SendReturns(c)
  BY <1>2, SendReturnsIsQuiet
<1>3. CASE \E c \in waits : SendRaises(c)
  BY <1>3 DEF SendRaises
<1>4. CASE \E t \in Outgoing, a \in BOOLEAN : HandleFileRequest(t, a)
  BY <1>4 DEF TypeOK, HandleFileRequest, SetState, Transfer
<1>5. CASE \E t \in Transfer : Progress(t)
  BY <1>5 DEF TypeOK, Progress, SetState
<1>6. CASE \E t \in Transfer, b \in Button : HandleData(b, t)
  BY <1>6, RequestedIsState DEF TypeOK, HandleData, SetState
<1>7. CASE \E t \in Outgoing : TaskBegins(t)
  BY <1>7 DEF TypeOK, TaskBegins, SetState
<1>8. CASE \E t \in Outgoing : TaskEnds(t)
  BY <1>8 DEF TypeOK, TaskEnds, EndAs, SetState, Transfer
<1>9. CASE LoopEnds \/ LinkBreaks \/ UNCHANGED vars
  BY <1>9 DEF LoopEnds, LinkBreaks, vars
<1> QED
  BY <1>1, <1>2, <1>3, <1>4, <1>5, <1>6, <1>7, <1>8, <1>9

\* Every step: one of the window's, an offer, or a quiet one.
LEMMA NextShape ==
    ASSUME TypeOK, [Next]_vars
    PROVE  \/ HandleUpdate \/ Refresh \/ Ask
           \/ \E reply \in {"accept", "reject"} : Answer(reply)
           \/ \E t \in Transfer : \E b \in Button : Click(b, t)
           \/ \E t \in Outgoing : DropFile(t)
           \/ \E t \in Incoming : HandleFileMeta(t)
           \/ Quiet
  BY LoopIsQuiet DEF Next, Qt, User, Peer, Coroutine

\* What an update, or a question, does to the announcements.
LEMMA QuietNews ==
    ASSUME TypeOK, Quiet, NEW k \in {"update", "incoming"}, NEW t \in Transfer
    PROVE  /\ Announced(k, t) => Announced(k, t)'
           /\ k = "incoming" =>
                LET v == [kind |-> k, t |-> t]
                IN  /\ Once(signals, v) => Once(signals', v)
                    /\ Never(signals, v) => Never(signals', v)
<1>1. CASE signals' = signals
  BY <1>1 DEF Announced
<1>2. CASE \E u \in Transfer : Emit("update", u)
  <2> PICK u \in Transfer : Emit("update", u)
    BY <1>2
  <2>1. [kind |-> "update", t |-> u] \in Signal /\ signals \in Seq(Signal)
    BY DEF TypeOK, Signal
  <2>2. Announced(k, t) => Announced(k, t)'
    BY <2>1, AppendOf DEF Announced, Emit
  <2>3. k = "incoming" => [kind |-> "update", t |-> u] # [kind |-> k, t |-> t]
    OBVIOUS
  <2> QED
    BY <2>1, <2>2, <2>3, AppendKeeps DEF Emit
<1> QED
  BY <1>1, <1>2 DEF Quiet

-----------------------------------------------------------------------------
(* Transfers without a state, and what is announced and scheduled.         *)

LEMMA FreshOnlyGrowsFor ==
    ASSUME TypeOK, NEW u \in Transfer, NEW t \in Transfer, u # t,
           CreateTask(u) \/ fresh' = fresh
    PROVE  fresh'[t] = fresh[t]
  BY DEF TypeOK, CreateTask

LEMMA NextUntouched ==
    ASSUME WindowInv, [Next]_vars
    PROVE  NewIsUntouched'
<1> USE DEF loopVars, coVars, taskVars, xferVars, askVars, histVars
<1>0. TypeOK /\ NewIsUntouched /\ TypeOK'
  BY NextType DEF WindowInv
<1> SUFFICES ASSUME NEW t \in Transfer, state'[t] = "none"
             PROVE  /\ row'[t] = "none" /\ t \notin pending'
                    /\ fresh'[t] = 0 /\ tasks'[t] = 0
                    /\ \A c \in waits' : c.t # t
  BY DEF NewIsUntouched
<1>a. ASSUME state[t] = "none"
      PROVE  /\ row[t] = "none" /\ t \notin pending
             /\ fresh[t] = 0 /\ tasks[t] = 0
             /\ \A c \in waits : c.t # t
             /\ t \notin active /\ t \notin active'
  BY <1>0, <1>a DEF NewIsUntouched, TypeOK
<1>1. CASE HandleUpdate
  BY <1>0, <1>a, <1>1 DEF TypeOK, HandleUpdate, Show
<1>2. CASE Refresh
  BY <1>a, <1>2 DEF Refresh
<1>3. CASE Ask
  BY <1>a, <1>3 DEF Ask
<1>4. CASE \E reply \in {"accept", "reject"} : Answer(reply)
  BY <1>a, <1>4 DEF Answer, TakeRequest
<1>5. CASE \E u \in Transfer : \E b \in Button : Click(b, u)
  BY <1>a, <1>5 DEF Click
<1>6. CASE \E u \in Outgoing : DropFile(u)
  BY <1>a, <1>6 DEF DropFile
<1>7. CASE RunCall
  <2> DEFINE c == Head(calls)
  <2>1. c \in Call /\ c.op \in Button \cup {"send", "accept", "reject"}
        /\ c.t \in Transfer
    BY <1>0, <1>7, TailOf, CallShape DEF TypeOK, RunCall
  <2> HIDE DEF c
  <2>2. state[t] = "none"
    BY <1>0, <1>7, RunCallIsQuiet DEF Quiet
  <2>3. CASE SendFile(c)
    <3>1. CASE SetState(c.t, "pending") /\ Await(c) /\ UNCHANGED taskVars
      <4>1. c.t # t
        BY <1>0, <2>1, <3>1 DEF TypeOK, SetState
      <4> QED
        BY <1>a, <1>7, <2>2, <3>1, <4>1 DEF RunCall, Await
    <3>2. CASE UNCHANGED <<waits, xferVars>>
      BY <1>a, <1>7, <2>2, <3>2 DEF RunCall
    <3> QED
      BY <2>3, <3>1, <3>2 DEF SendFile
  <2>4. CASE AcceptTransfer(c)
    BY <1>a, <1>7, <2>2, <2>4 DEF RunCall, AcceptTransfer, Await
  <2>5. CASE RejectTransfer(c)
    BY <1>a, <1>7, <2>2, <2>5 DEF RunCall, RejectTransfer, Await
  <2>6. CASE c.op \in Button /\ SteerTransfer(c)
    <3>1. CASE UNCHANGED <<waits, xferVars>>
      BY <1>a, <1>7, <2>2, <3>1 DEF RunCall
    <3>2. CASE c.t \in active /\ Await(c) /\ UNCHANGED taskVars
      BY <1>a, <1>7, <2>2, <3>2 DEF RunCall, Await
    <3>3. CASE c.t \in active /\ FinishRequest(c.op, c.t)
               /\ UNCHANGED <<waits, tasks>>
      <4>1. c.t # t
        BY <1>a, <2>2, <3>3
      <4>2. fresh'[t] = fresh[t]
        BY <1>0, <2>1, <3>3, <4>1, FreshOnlyGrowsFor DEF FinishRequest
      <4> QED
        BY <1>a, <1>7, <2>2, <3>3, <4>2 DEF RunCall
    <3> QED
      BY <2>6, <3>1, <3>2, <3>3 DEF SteerTransfer
  <2> QED
    BY <1>7, <2>3, <2>4, <2>5, <2>6 DEF RunCall, c
<1>8. CASE \E c \in waits : SendReturns(c)
  <2> PICK c \in waits : SendReturns(c)
    BY <1>8
  <2>1. c.t \in Transfer
    BY <1>0, CallShape DEF TypeOK
  <2>2. state[t] = "none"
    BY <1>0, SendReturnsIsQuiet DEF Quiet
  <2>3. c.t # t
    BY <1>a, <2>2
  <2>4. fresh'[t] = fresh[t] /\ tasks' = tasks
    BY <1>0, <2>1, <2>3, FreshOnlyGrowsFor DEF SendReturns, FinishRequest
  <2> QED
    BY <1>a, <2>2, <2>4 DEF SendReturns
<1>9. CASE \E c \in waits : SendRaises(c)
  BY <1>a, <1>9 DEF SendRaises
<1>10. CASE \E u \in Incoming : HandleFileMeta(u)
  <2> PICK u \in Incoming : HandleFileMeta(u)
    BY <1>10
  <2>1. u # t /\ state[t] = "none"
    BY <1>0 DEF TypeOK, HandleFileMeta, SetState, Transfer
  <2> QED
    BY <1>a, <2>1 DEF HandleFileMeta
<1>11. CASE \E u \in Outgoing, a \in BOOLEAN : HandleFileRequest(u, a)
  <2> PICK u \in Outgoing, a \in BOOLEAN : HandleFileRequest(u, a)
    BY <1>11
  <2>1. u \in Transfer /\ state[t] = "none"
    BY <1>0, <1>11, LoopIsQuiet DEF Quiet, Transfer
  <2>2. u # t
    BY <1>a, <2>1 DEF HandleFileRequest
  <2>3. fresh'[t] = fresh[t]
    BY <1>0, <2>1, <2>2, FreshOnlyGrowsFor DEF HandleFileRequest
  <2> QED
    BY <1>a, <2>1, <2>3 DEF HandleFileRequest
<1>12. CASE \E u \in Transfer, b \in Button : HandleData(b, u)
  <2>1. state[t] = "none"
    BY <1>0, <1>12, LoopIsQuiet DEF Quiet
  <2> QED
    BY <1>a, <1>12, <2>1 DEF HandleData
<1>13. CASE \E u \in Transfer : Progress(u)
  <2>1. state[t] = "none"
    BY <1>0, <1>13, LoopIsQuiet DEF Quiet
  <2> QED
    BY <1>a, <1>13, <2>1 DEF Progress
<1>14. CASE \E u \in Outgoing : TaskBegins(u)
  <2> PICK u \in Outgoing : TaskBegins(u)
    BY <1>14
  <2>1. u \in Transfer /\ state[t] = "none"
    BY <1>0, <1>14, LoopIsQuiet DEF Quiet, Transfer
  <2>2. u # t
    BY <1>a, <2>1 DEF TaskBegins
  <2>3. fresh'[t] = fresh[t] /\ tasks'[t] = tasks[t]
    BY <1>0, <2>1, <2>2 DEF TypeOK, TaskBegins
  <2> QED
    BY <1>a, <2>1, <2>3 DEF TaskBegins
<1>15. CASE \E u \in Outgoing : TaskEnds(u)
  <2> PICK u \in Outgoing : TaskEnds(u)
    BY <1>15
  <2>1. u \in Transfer /\ state[t] = "none"
    BY <1>0, <1>15, LoopIsQuiet DEF Quiet, Transfer
  <2>2. u # t
    BY <1>a, <2>1 DEF TaskEnds
  <2>3. tasks'[t] = tasks[t]
    BY <1>0, <2>1, <2>2 DEF TypeOK, TaskEnds
  <2> QED
    BY <1>a, <2>1, <2>3 DEF TaskEnds
<1>16. CASE LoopEnds \/ LinkBreaks
  BY <1>a, <1>16 DEF LoopEnds, LinkBreaks
<1>17. CASE UNCHANGED vars
  BY <1>a, <1>17 DEF vars
<1> QED
  BY <1>1, <1>2, <1>3, <1>4, <1>5, <1>6, <1>7, <1>8, <1>9, <1>10, <1>11,
     <1>12, <1>13, <1>14, <1>15, <1>16, <1>17
     DEF Next, Qt, User, Peer, Coroutine

LEMMA NextSignalsFit ==
    ASSUME WindowInv, [Next]_vars
    PROVE  SignalsFit'
<1>0. TypeOK /\ SignalsFit /\ signals \in Seq(Signal)
  BY DEF WindowInv, TypeOK
<1>1. CASE signals' = signals
  BY <1>0, <1>1 DEF SignalsFit
<1>2. CASE signals # <<>> /\ signals' = Tail(signals)
  BY <1>0, <1>2, TailOf DEF SignalsFit
<1>3. CASE \E t \in Transfer : Emit("update", t)
  <2> PICK t \in Transfer : Emit("update", t)
    BY <1>3
  <2>1. [kind |-> "update", t |-> t] \in Signal
    BY DEF Signal
  <2> QED
    BY <1>0, <2>1, AppendOf DEF SignalsFit, Emit
<1>4. CASE \E t \in Incoming : Emit("incoming", t)
  <2> PICK t \in Incoming : Emit("incoming", t)
    BY <1>4
  <2>1. [kind |-> "incoming", t |-> t] \in Signal
    BY DEF Signal, Transfer
  <2> QED
    BY <1>0, <2>1, AppendOf DEF SignalsFit, Emit
<1> QED
  BY <1>0, <1>1, <1>2, <1>3, <1>4, NextShape
     DEF HandleUpdate, Refresh, Ask, Answer, Click, DropFile, HandleFileMeta,
         Quiet

\* Only send_file and an offer give a transfer its first state.
LEMMA StaysNew ==
    ASSUME WindowInv, [Next]_vars, ~RunCall, NEW t \in Transfer,
           state[t] = "none", ~(t \in Incoming /\ HandleFileMeta(t))
    PROVE  state'[t] = "none"
<1> USE DEF loopVars, coVars, taskVars, xferVars, askVars, histVars, SetState
<1>0. /\ TypeOK /\ t \notin active /\ fresh[t] = 0 /\ tasks[t] = 0
      /\ \A c \in waits : c.t # t
  BY DEF WindowInv, NewIsUntouched, TypeOK
<1>1. CASE Qt \/ User
  BY <1>1 DEF Qt, User, HandleUpdate, Ask, Refresh, Answer, Click, DropFile
<1>2. CASE \E c \in waits : SendReturns(c) \/ SendRaises(c)
  BY <1>0, <1>2 DEF TypeOK, SendReturns, SendRaises
<1>3. CASE Peer
  BY <1>0, <1>3 DEF TypeOK, Peer, HandleFileMeta, HandleFileRequest, Progress,
                    HandleData
<1>4. CASE \E u \in Outgoing : TaskBegins(u) \/ TaskEnds(u)
  BY <1>0, <1>4 DEF TypeOK, TaskBegins, TaskEnds, EndAs
<1>5. CASE LoopEnds \/ LinkBreaks \/ UNCHANGED vars
  BY <1>5 DEF LoopEnds, LinkBreaks, vars
<1> QED
  BY <1>1, <1>2, <1>3, <1>4, <1>5 DEF Next, Coroutine

LEMMA RunCallSends ==
    ASSUME WindowInv, RunCall
    PROVE  SendsAreNew'
<1> DEFINE c == Head(calls)
<1>1. calls \in Seq(Call) /\ calls # <<>> /\ calls' = Tail(calls)
  BY DEF WindowInv, TypeOK, RunCall
<1>2. /\ 1 \in DOMAIN calls /\ c = calls[1] /\ c \in Call
      /\ \A i \in DOMAIN calls' : /\ i + 1 \in DOMAIN calls
                                  /\ calls'[i] = calls[i + 1]
                                  /\ i \in Nat /\ i > 0
  BY <1>1, TailOf
<1>3. c.op \in Button \cup {"send", "accept", "reject"} /\ c.t \in Transfer
  BY <1>2, CallShape
<1>4. ASSUME NEW i \in DOMAIN calls', calls'[i].op = "send"
      PROVE  /\ state[calls'[i].t] = "none"
             /\ \A j \in DOMAIN calls' \ {i} :
                  ~(calls'[j].op = "send" /\ calls'[j].t = calls'[i].t)
             /\ ~(c.op = "send" /\ c.t = calls'[i].t)
  <2>1. i + 1 \in DOMAIN calls /\ calls[i + 1].op = "send" /\ i + 1 # 1
    BY <1>2, <1>4
  <2>2. \A j \in DOMAIN calls' \ {i} : j + 1 \in DOMAIN calls \ {i + 1}
    BY <1>2
  <2> QED
    BY <1>2, <2>1, <2>2 DEF WindowInv, SendsAreNew
<1>5. ASSUME NEW t \in Transfer, state[t] = "none", ~(c.op = "send" /\ c.t = t)
      PROVE  state'[t] = "none"
  <2>1. TypeOK /\ t \notin active
    BY <1>5 DEF WindowInv, TypeOK
  <2> HIDE DEF c
  <2>2. CASE c.op = "send" /\ SendFile(c)
    BY <1>3, <1>5, <2>1, <2>2 DEF TypeOK, SendFile, SetState, xferVars
  <2>3. CASE AcceptTransfer(c)
    BY <1>5, <2>3 DEF AcceptTransfer, xferVars
  <2>4. CASE RejectTransfer(c)
    BY <1>3, <1>5, <2>1, <2>4 DEF TypeOK, RejectTransfer, SetState, xferVars
  <2>5. CASE SteerTransfer(c)
    BY <1>3, <1>5, <2>1, <2>5 DEF TypeOK, SteerTransfer, SetState, xferVars
  <2> QED
    BY <2>2, <2>3, <2>4, <2>5 DEF RunCall, c
<1>6. \A i \in DOMAIN calls' : calls'[i].t \in Transfer
  BY <1>1, <1>2, CallShape
<1> HIDE DEF c
<1> QED
  BY <1>4, <1>5, <1>6 DEF SendsAreNew

LEMMA NextSends ==
    ASSUME WindowInv, [Next]_vars
    PROVE  SendsAreNew'
<1>0. TypeOK /\ SendsAreNew /\ calls \in Seq(Call)
      /\ \A i \in DOMAIN calls : calls[i] \in Call /\ calls[i].t \in Transfer
  BY CallShape DEF WindowInv, TypeOK
<1>1. CASE RunCall
  BY <1>1, RunCallSends
<1>2. CASE ~RunCall
  <2>1. ASSUME NEW i \in DOMAIN calls, calls[i].op = "send"
        PROVE  state'[calls[i].t] = "none"
    <3>1. state[calls[i].t] = "none" /\ calls[i].t \in Known
      BY <1>0, <2>1 DEF SendsAreNew, Known
    <3>2. ~HandleFileMeta(calls[i].t)
      BY <3>1 DEF HandleFileMeta, MayBegin
    <3> QED
      BY <1>0, <1>2, <3>1, <3>2, StaysNew
  <2>2. CASE calls' = calls
    BY <1>0, <2>1, <2>2 DEF SendsAreNew
  <2>3. CASE \E op \in Button \cup {"accept", "reject"}, t \in Transfer :
               Schedule(op, t)
    <3> PICK op \in Button \cup {"accept", "reject"}, t \in Transfer :
               Schedule(op, t)
      BY <2>3
    <3> DEFINE x == [op |-> op, t |-> t, n |-> events]
    <3>1. x \in Call /\ x.op # "send"
      BY <1>0 DEF TypeOK, Call, Button
    <3>2. CASE calls' = Append(calls, x)
      BY <1>0, <2>1, <3>1, <3>2, AppendOf DEF SendsAreNew
    <3> QED
      BY <2>2, <3>2 DEF Schedule
  <2>4. CASE \E t \in Outgoing : DropFile(t)
    <3> PICK t \in Outgoing : DropFile(t)
      BY <2>4
    <3> DEFINE x == [op |-> "send", t |-> t, n |-> events]
    <3>1. x \in Call /\ t \in Transfer
      BY <1>0 DEF TypeOK, Call, Transfer
    <3>2. /\ state'[t] = "none"
          /\ \A i \in DOMAIN calls : calls[i].t # t
      BY <3>1 DEF DropFile, MayBegin, Known, xferVars
    <3>3. CASE calls' = Append(calls, x)
      BY <1>0, <2>1, <3>1, <3>2, <3>3, AppendOf DEF SendsAreNew
    <3> QED
      BY <2>2, <3>3 DEF DropFile, Schedule
  <2>5. CASE \E reply \in {"accept", "reject"} : Answer(reply)
    <3> PICK reply \in {"accept", "reject"} : Answer(reply)
      BY <2>5
    <3>1. Head(dialogs) \in Transfer
      BY <1>0, TailOf DEF TypeOK, Answer, Transfer
    <3> QED
      BY <2>2, <2>3, <3>1 DEF Answer
  <2> QED
    BY <1>2, <2>2, <2>3, <2>4, <2>5
       DEF Next, Qt, User, Peer, Coroutine, HandleUpdate, Ask, Refresh, Click,
           SendReturns, SendRaises, HandleFileMeta, HandleFileRequest,
           Progress, HandleData, TaskBegins, TaskEnds, LoopEnds, LinkBreaks,
           coVars, vars
<1> QED
  BY <1>1, <1>2

-----------------------------------------------------------------------------
(* The row and its transfer.                                               *)

Follows(t) ==
    \/ row[t] = state[t] \/ state[t] = "in_progress"
    \/ Announced("update", t) \/ Reporting(t)

\* An update that is appended announces its transfer.
LEMMA EmitAnnounces ==
    ASSUME TypeOK, NEW k \in {"update", "incoming"}, NEW t \in Transfer,
           Emit(k, t)
    PROVE  /\ Announced(k, t)'
           /\ \A u \in Transfer : Announced("update", u) => Announced("update", u)'
<1>1. [kind |-> k, t |-> t] \in Signal /\ signals \in Seq(Signal)
  BY DEF TypeOK, Signal
<1> QED
  BY <1>1, AppendOf DEF Announced, Emit

\* The signal at the head, taken off, loses only its own news.
LEMMA TailAnnounces ==
    ASSUME TypeOK, signals # <<>>, signals' = Tail(signals),
           NEW u \in Transfer, Head(signals) # [kind |-> "update", t |-> u],
           Announced("update", u)
    PROVE  Announced("update", u)'
<1>1. signals \in Seq(Signal)
  BY DEF TypeOK
<1>2. PICK i \in DOMAIN signals : signals[i] = [kind |-> "update", t |-> u]
  BY DEF Announced
<1>3. i # 1
  BY <1>1, <1>2, TailOf
<1>4. i - 1 \in DOMAIN Tail(signals) /\ Tail(signals)[i - 1] = signals[i]
  BY <1>1, <1>3, TailOf
<1> QED
  BY <1>2, <1>4 DEF Announced

LEMMA RunCallFollows ==
    ASSUME WindowInv, RunCall, NEW t \in active' \ mute', row'[t] # "none",
           t \in Transfer
    PROVE  Follows(t)'
<1> USE DEF loopVars, coVars, taskVars, xferVars, askVars, histVars
<1> DEFINE c == Head(calls)
<1>0. TypeOK /\ row' = row /\ mute' = mute
  BY DEF WindowInv, RunCall, askVars
<1>1. /\ 1 \in DOMAIN calls /\ c = calls[1] /\ c \in Call
      /\ c.op \in Button \cup {"send", "accept", "reject"} /\ c.t \in Transfer
  BY <1>0, TailOf, CallShape DEF TypeOK, RunCall
<1>2. c.op = "send" => state[c.t] = "none" /\ row[c.t] = "none"
  BY <1>1 DEF WindowInv, SendsAreNew, NewIsUntouched
<1> HIDE DEF c
<1>3. Announced("update", t) => Announced("update", t)'
  BY <1>0, RunCallIsQuiet, QuietNews
<1>4. waits' = waits \cup {c} \/ waits' = waits
  BY DEF RunCall, SendFile, AcceptTransfer, RejectTransfer, SteerTransfer,
         Await, c
<1>5. Reporting(t) => Reporting(t)'
  BY <1>4 DEF Reporting
<1>6. CASE t # c.t
  <2>1. state'[t] = state[t] /\ t \in active
    BY <1>0, <1>1, <1>6 DEF TypeOK, RunCall, SendFile, AcceptTransfer,
       RejectTransfer, SteerTransfer, FinishRequest, SetState, Cleanup, c
  <2> QED
    BY <1>0, <1>3, <1>5, <2>1 DEF WindowInv, RowFollowsState, Follows
<1>7. CASE t = c.t
  <2>1. CASE UNCHANGED <<state, active>>
    BY <1>0, <1>3, <1>5, <2>1 DEF WindowInv, RowFollowsState, Follows
  <2>2. CASE SendFile(c) /\ c.op = "send"
    BY <1>0, <1>2, <1>7, <2>2
  <2>3. CASE RejectTransfer(c)
    BY <1>7, <2>1, <2>3 DEF RejectTransfer, Cleanup
  <2>4. CASE c.op \in Button /\ SteerTransfer(c)
    <3>1. CASE c.t \in active /\ Await(c)
      BY <1>7, <2>4, <3>1 DEF Await, Reporting, Follows
    <3>2. CASE FinishRequest(c.op, c.t)
      BY <1>0, <1>1, <1>7, <2>4, <3>2, EmitAnnounces, FinishReports
         DEF Follows
    <3> QED
      BY <2>1, <2>4, <3>1, <3>2 DEF SteerTransfer
  <2> QED
    BY <2>1, <2>2, <2>3, <2>4 DEF RunCall, AcceptTransfer, c
<1> QED
  BY <1>6, <1>7

LEMMA SendReturnsFollows ==
    ASSUME WindowInv, NEW c \in waits, SendReturns(c),
           NEW t \in active' \ mute', row'[t] # "none", t \in Transfer
    PROVE  Follows(t)'
<1> USE DEF loopVars, coVars, taskVars, xferVars, askVars, histVars
<1>0. TypeOK /\ row' = row /\ mute' = mute /\ waits' = waits \ {c}
  BY DEF WindowInv, SendReturns
<1>1. c \in Call /\ c.t \in Transfer
  BY <1>0, CallShape DEF TypeOK
<1>2. Announced("update", t) => Announced("update", t)'
  BY <1>0, SendReturnsIsQuiet, QuietNews
<1>3. /\ state'[t] = state[t] /\ t \in active
      /\ c.op \in Button => FinishRequest(c.op, c.t)
  <2>1. CASE c.op = "reject" /\ SetState(c.t, "cancelled") /\ Cleanup(c.t)
    BY <1>0, <1>1, <2>1 DEF TypeOK, SetState, Cleanup, Button
  <2>2. CASE UNCHANGED xferVars /\ c.op \in {"send", "accept"}
    BY <2>2 DEF Button
  <2>3. CASE c.op \in Button /\ FinishRequest(c.op, c.t) /\ UNCHANGED state
    BY <2>3 DEF FinishRequest, Cleanup
  <2> QED
    BY <2>1, <2>2, <2>3 DEF SendReturns
<1>4. CASE Announced("update", t)'
  BY <1>4 DEF Follows
<1>5. CASE \E d \in waits : d # c /\ d.t = t /\ d.op \in Button
  BY <1>0, <1>5 DEF Follows, Reporting
<1>6. CASE c.t = t /\ c.op \in Button
  BY <1>0, <1>1, <1>3, <1>6, EmitAnnounces, FinishReports DEF Follows
<1> QED
  BY <1>0, <1>2, <1>3, <1>4, <1>5, <1>6
     DEF WindowInv, RowFollowsState, Follows, Reporting

LEMMA NextFollows ==
    ASSUME WindowInv, [Next]_vars
    PROVE  RowFollowsState'
<1> USE DEF loopVars, coVars, taskVars, xferVars, askVars, histVars
<1>0. TypeOK /\ TypeOK' /\ RowFollowsState /\ NewIsUntouched
  BY NextType DEF WindowInv
<1> SUFFICES ASSUME NEW t \in active' \ mute', row'[t] # "none"
             PROVE  Follows(t)'
  BY DEF RowFollowsState, Follows
<1>t. t \in Transfer
  BY <1>0 DEF TypeOK
<1>a. ASSUME t \in active, t \notin mute, row[t] # "none"
      PROVE  Follows(t)
  BY <1>0, <1>a DEF RowFollowsState, Follows
<1>b. ASSUME waits' = waits, Reporting(t)
      PROVE  Reporting(t)'
  BY <1>b DEF Reporting
<1>1. CASE HandleUpdate
  <2>1. UNCHANGED <<state, active, waits, mute>>
    BY <1>1 DEF HandleUpdate
  <2>2. CASE Head(signals) = [kind |-> "update", t |-> t]
    BY <1>0, <1>t, <1>1, <2>1, <2>2 DEF TypeOK, HandleUpdate, Show, Follows
  <2>3. CASE Head(signals) # [kind |-> "update", t |-> t]
    <3>1. Head(signals) \in Signal
      BY <1>0, <1>1, TailOf DEF TypeOK, HandleUpdate
    <3>2. Head(signals).t # t
      BY <1>1, <2>3, <3>1 DEF HandleUpdate, Signal
    <3>3. row'[t] = row[t]
      BY <1>0, <1>t, <1>1, <3>2 DEF TypeOK, HandleUpdate, Show
    <3>4. Announced("update", t) => Announced("update", t)'
      BY <1>0, <1>t, <1>1, <2>3, TailAnnounces DEF HandleUpdate
    <3> QED
      BY <1>a, <1>b, <2>1, <3>3, <3>4 DEF Follows
  <2> QED
    BY <2>2, <2>3
<1>2. CASE Refresh
  <2>1. row'[t] = row[t] \/ state'[t] = "in_progress"
    BY <1>0, <1>t, <1>2 DEF Refresh
  <2>2. signals' = signals /\ UNCHANGED <<state, active, waits, mute>>
    BY <1>2 DEF Refresh
  <2> QED
    BY <1>a, <1>b, <2>1, <2>2 DEF Follows, Announced
<1>3. CASE Ask
  <2>1. Announced("update", t) => Announced("update", t)'
    <3>1. Head(signals) # [kind |-> "update", t |-> t] /\ signals # <<>>
          /\ signals' = Tail(signals)
      BY <1>3 DEF Ask
    <3> QED
      BY <1>0, <1>t, <3>1, TailAnnounces
  <2> QED
    BY <1>a, <1>b, <1>3, <2>1 DEF Ask, Follows
<1>4. CASE \/ \E reply \in {"accept", "reject"} : Answer(reply)
           \/ \E u \in Transfer : \E b \in Button : Click(b, u)
           \/ \E u \in Outgoing : DropFile(u)
           \/ LoopEnds \/ LinkBreaks \/ UNCHANGED vars
  <2>1. UNCHANGED <<state, active, waits, mute, row, signals>>
    BY <1>4 DEF Answer, Click, DropFile, LoopEnds, LinkBreaks, vars
  <2> QED
    BY <1>a, <1>b, <2>1 DEF Follows, Announced
<1>5. CASE RunCall
  BY <1>t, <1>5, RunCallFollows
<1>6. CASE \E c \in waits : SendReturns(c)
  BY <1>t, <1>6, SendReturnsFollows
<1>7. CASE \E c \in waits : SendRaises(c)
  <2> PICK c \in waits : SendRaises(c)
    BY <1>7
  <2>1. Reporting(t) => Reporting(t)'
    BY DEF SendRaises, Reporting
  <2> QED
    BY <1>a, <2>1 DEF SendRaises, Follows, Announced
<1>8. CASE \E u \in Incoming : HandleFileMeta(u)
  <2> PICK u \in Incoming : HandleFileMeta(u)
    BY <1>8
  <2>1. u \in Transfer /\ state[u] = "none" /\ row[u] = "none"
    BY <1>0 DEF HandleFileMeta, MayBegin, Known, NewIsUntouched, Transfer
  <2>2. u # t
    BY <2>1 DEF HandleFileMeta
  <2>3. Announced("update", t) => Announced("update", t)'
    BY <1>0, <1>t, <2>1, EmitAnnounces DEF HandleFileMeta
  <2> QED
    BY <1>0, <1>a, <1>b, <2>1, <2>2, <2>3
       DEF TypeOK, HandleFileMeta, SetState, Follows
<1>9. CASE \/ \E u \in Outgoing, a \in BOOLEAN : HandleFileRequest(u, a)
           \/ \E u \in Transfer, b \in Button : HandleData(b, u)
           \/ \E u \in Transfer : Progress(u)
  <2>1. PICK u \in Transfer :
            /\ Emit("update", u)
            /\ \A v \in Transfer : v # u => state'[v] = state[v]
            /\ row' = row /\ mute' = mute /\ waits' = waits
            /\ active' \subseteq active
    <3>0. Outgoing \subseteq Transfer /\ state \in [Transfer -> State]
      BY <1>0 DEF TypeOK, Transfer
    <3>1. CASE \E u \in Outgoing, a \in BOOLEAN : HandleFileRequest(u, a)
      BY <3>0, <3>1 DEF HandleFileRequest, SetState
    <3>2. CASE \E u \in Transfer, b \in Button : HandleData(b, u)
      BY <3>0, <3>2 DEF HandleData, SetState, Cleanup
    <3>3. CASE \E u \in Transfer : Progress(u)
      BY <3>0, <3>3 DEF Progress, SetState
    <3> QED
      BY <1>9, <3>1, <3>2, <3>3
  <2> QED
    BY <1>0, <1>t, <1>a, <1>b, <2>1, EmitAnnounces DEF Follows
<1>10. CASE \E u \in Outgoing : TaskBegins(u)
  <2> PICK u \in Outgoing : TaskBegins(u)
    BY <1>10
  <2>1. state'[t] = "in_progress" \/ state'[t] = state[t]
    BY <1>0, <1>t DEF TypeOK, TaskBegins, SetState
  <2> QED
    BY <1>a, <1>b, <2>1 DEF TaskBegins, Follows, Announced
<1>11. CASE \E u \in Outgoing : TaskEnds(u)
  <2>1. PICK u \in Transfer :
            /\ Emit("update", u) \/ UNCHANGED <<state, signals>>
            /\ \A v \in Transfer : v # u => state'[v] = state[v]
            /\ row' = row /\ mute' = mute /\ waits' = waits
            /\ active' = active
    <3>1. Outgoing \subseteq Transfer /\ state \in [Transfer -> State]
      BY <1>0 DEF TypeOK, Transfer
    <3> QED
      BY <1>11, <3>1 DEF TaskEnds, EndAs, SetState
  <2>2. CASE UNCHANGED <<state, signals>>
    BY <1>a, <1>b, <2>1, <2>2 DEF Follows, Announced
  <2>3. CASE Emit("update", u)
    BY <1>0, <1>t, <1>a, <1>b, <2>1, <2>3, EmitAnnounces DEF Follows
  <2> QED
    BY <2>1, <2>2, <2>3
<1> QED
  BY <1>1, <1>2, <1>3, <1>4, <1>5, <1>6, <1>7, <1>8, <1>9, <1>10, <1>11
     DEF Next, Qt, User, Peer, Coroutine

-----------------------------------------------------------------------------
(* The question about an offered file.                                     *)

Offer(t) == [kind |-> "incoming", t |-> t]

Asked(t) ==
    IF t \in pending
      THEN \/ Once(signals, Offer(t)) /\ Never(dialogs, t)
           \/ Once(dialogs, t) /\ Never(signals, Offer(t))
      ELSE Never(signals, Offer(t)) /\ Never(dialogs, t)

AllAsked == \A t \in Incoming : Asked(t)

LEMMA AskedOnceMeans == AskedOnce <=> AllAsked
<1>1. \A t \in Incoming :
        /\ (\E i \in SignalsOf(t) : SignalsOf(t) = {i}) <=> Once(signals, Offer(t))
        /\ (SignalsOf(t) = {}) <=> Never(signals, Offer(t))
  BY DEF SignalsOf, Once, Never, Offer
<1>2. \A t \in Incoming :
        /\ (\E i \in QuestionsOf(t) : QuestionsOf(t) = {i}) <=> Once(dialogs, t)
        /\ (QuestionsOf(t) = {}) <=> Never(dialogs, t)
  BY DEF QuestionsOf, Once, Never
<1> QED
  BY <1>1, <1>2 DEF AskedOnce, AllAsked, Asked

LEMMA NextAsked ==
    ASSUME WindowInv, [Next]_vars
    PROVE  AskedOnce'
<1> USE DEF loopVars, coVars, taskVars, xferVars, askVars, histVars
<1>0. /\ TypeOK /\ SignalsFit /\ NewIsUntouched
      /\ signals \in Seq(Signal) /\ dialogs \in Seq(Incoming)
      /\ Incoming \subseteq Transfer
  BY DEF WindowInv, TypeOK, Transfer
<1>a. \A t \in Incoming : Asked(t)
  BY AskedOnceMeans DEF WindowInv, AllAsked
<1>m. AskedOnce' <=> AllAsked'
  BY AskedOnceMeans, PTL
<1> SUFFICES ASSUME NEW t \in Incoming
             PROVE  Asked(t)'
  BY <1>m DEF AllAsked
<1>1. CASE HandleUpdate
  <2>1. Head(signals) # Offer(t)
    BY <1>1 DEF HandleUpdate, Offer
  <2>2. /\ Once(signals, Offer(t)) => Once(signals', Offer(t))
        /\ Never(signals, Offer(t)) => Never(signals', Offer(t))
    BY <1>0, <1>1, <2>1, TailKeeps DEF HandleUpdate
  <2> QED
    BY <1>a, <1>1, <2>2 DEF HandleUpdate, Asked, Offer
<1>2. CASE Ask
  <2> DEFINE u == Head(signals).t
  <2>1. u \in Incoming /\ Head(signals) = Offer(u) /\ signals # <<>>
    <3>1. Head(signals) \in Signal /\ Head(signals).kind = "incoming"
          /\ signals # <<>>
      BY <1>0, <1>2, TailOf DEF Ask
    <3>2. u \in Incoming
      BY <1>0, <3>1, TailOf DEF SignalsFit
    <3> QED
      BY <3>1, <3>2 DEF Signal, Offer
  <2>2. signals' = Tail(signals) /\ dialogs' = <<u>> \o dialogs
        /\ pending' = pending
    BY <1>2 DEF Ask
  <2> HIDE DEF u
  <2>3. CASE t = u
    <3>1. ~Never(signals, Offer(t))
      BY <1>0, <2>1, <2>3, TailOf DEF Never
    <3>2. t \in pending /\ Once(signals, Offer(t)) /\ Never(dialogs, t)
      BY <1>a, <3>1 DEF Asked
    <3>3. Never(Tail(signals), Offer(t)) /\ Once(<<t>> \o dialogs, t)
      BY <1>0, <2>1, <2>3, <3>2, TailTakes, PrependAdds
    <3> QED
      BY <2>2, <2>3, <3>2, <3>3 DEF Asked, Offer
  <2>4. CASE t # u
    <3>1. Head(signals) # Offer(t)
      BY <2>1, <2>4 DEF Offer
    <3>2. /\ Once(signals, Offer(t)) => Once(Tail(signals), Offer(t))
          /\ Never(signals, Offer(t)) => Never(Tail(signals), Offer(t))
      BY <1>0, <2>1, <3>1, TailKeeps
    <3>3. /\ Once(dialogs, t) => Once(<<u>> \o dialogs, t)
          /\ Never(dialogs, t) => Never(<<u>> \o dialogs, t)
      BY <1>0, <2>1, <2>4, PrependKeeps
    <3> QED
      BY <1>a, <2>2, <3>2, <3>3 DEF Asked, Offer
  <2> QED
    BY <2>3, <2>4
<1>3. CASE \E reply \in {"accept", "reject"} : Answer(reply)
  <2> PICK reply \in {"accept", "reject"} : Answer(reply)
    BY <1>3
  <2> DEFINE u == Head(dialogs)
  <2>1. dialogs # <<>> /\ dialogs' = Tail(dialogs) /\ signals' = signals
    BY DEF Answer
  <2>2. u \in Incoming /\ ~Never(dialogs, u)
    BY <1>0, <2>1, TailOf DEF Never
  <2>3. u \in pending /\ Once(dialogs, u) /\ Never(signals, Offer(u))
    BY <1>a, <2>2 DEF Asked
  <2>4. pending' = pending \ {u}
    BY <2>3 DEF Answer, TakeRequest
  <2> HIDE DEF u
  <2>5. CASE t = u
    <3>1. Never(Tail(dialogs), t)
      BY <1>0, <2>1, <2>3, <2>5, TailTakes DEF u
    <3> QED
      BY <2>1, <2>3, <2>4, <2>5, <3>1 DEF Asked, Offer
  <2>6. CASE t # u
    <3>1. /\ Once(dialogs, t) => Once(Tail(dialogs), t)
          /\ Never(dialogs, t) => Never(Tail(dialogs), t)
      BY <1>0, <2>1, <2>6, TailKeeps DEF u
    <3> QED
      BY <1>a, <2>1, <2>4, <2>6, <3>1 DEF Asked, Offer
  <2> QED
    BY <2>5, <2>6
<1>4. CASE \E u \in Incoming : HandleFileMeta(u)
  <2> PICK u \in Incoming : HandleFileMeta(u)
    BY <1>4
  <2>1. u \notin pending /\ pending' = pending \cup {u} /\ dialogs' = dialogs
        /\ signals' = Append(signals, Offer(u))
    BY <1>0 DEF HandleFileMeta, MayBegin, Known, NewIsUntouched, Emit, Offer
  <2>2. Offer(u) \in Signal
    BY <1>0 DEF Signal, Offer
  <2>3. CASE t = u
    <3>1. Never(signals, Offer(t)) /\ Never(dialogs, t)
      BY <1>a, <2>1, <2>3 DEF Asked
    <3>2. Once(Append(signals, Offer(u)), Offer(t))
      BY <1>0, <2>2, <2>3, <3>1, AppendAdds
    <3> QED
      BY <2>1, <2>3, <3>1, <3>2 DEF Asked, Offer
  <2>4. CASE t # u
    <3>1. Offer(u) # Offer(t)
      BY <2>4 DEF Offer
    <3>2. /\ Once(signals, Offer(t)) => Once(Append(signals, Offer(u)), Offer(t))
          /\ Never(signals, Offer(t)) => Never(Append(signals, Offer(u)), Offer(t))
      BY <1>0, <2>2, <3>1, AppendKeeps
    <3> QED
      BY <1>a, <2>1, <2>4, <3>2 DEF Asked, Offer
  <2> QED
    BY <2>3, <2>4
<1>5. CASE Refresh \/ (\E u \in Transfer : \E b \in Button : Click(b, u))
           \/ \E u \in Outgoing : DropFile(u)
  BY <1>a, <1>5 DEF Refresh, Click, DropFile, Asked, Offer
<1>6. CASE Quiet
  <2>1. /\ Once(signals, Offer(t)) => Once(signals', Offer(t))
        /\ Never(signals, Offer(t)) => Never(signals', Offer(t))
    BY <1>0, <1>6, QuietNews DEF Offer
  <2> QED
    BY <1>a, <1>6, <2>1 DEF Quiet, Asked, Offer
<1> QED
  BY <1>0, <1>1, <1>2, <1>3, <1>4, <1>5, <1>6, NextShape

-----------------------------------------------------------------------------
(* The theorems.                                                           *)

LEMMA InitInv == Init => WindowInv
<1> SUFFICES ASSUME Init PROVE WindowInv
  OBVIOUS
<1>1. TypeOK
  BY InitType
<1>2. signals = <<>> /\ calls = <<>> /\ dialogs = <<>> /\ pending = {}
      /\ active = {} /\ waits = {}
  BY DEF Init
<1>3. NewIsUntouched
  BY DEF Init, NewIsUntouched
<1>4. SignalsFit /\ SendsAreNew /\ RowFollowsState
  BY <1>2 DEF SignalsFit, SendsAreNew, RowFollowsState
<1>5. AskedOnce
  BY <1>2 DEF AskedOnce, SignalsOf, QuestionsOf
<1> QED
  BY <1>1, <1>3, <1>4, <1>5 DEF WindowInv

\* The inductive invariant of the window and the loop, for any transfers.
THEOREM WindowIsInvariant == Spec => []WindowInv
<1>1. WindowInv /\ [Next]_vars => WindowInv'
  BY NextType, NextUntouched, NextSignalsFit, NextSends, NextFollows, NextAsked
     DEF WindowInv
<1> QED
  BY <1>1, InitInv, PTL DEF Spec

\* Every variable keeps its type, and only a transfer in the table counts as
\* replied to.
THEOREM TypeCorrect == Spec => []TypeOK
<1>1. WindowInv => TypeOK
  BY DEF WindowInv
<1> QED
  BY <1>1, WindowIsInvariant, PTL

\* A transfer in the table whose messages could be sent has a row that agrees
\* with it, or will, though the slot reads the state in another thread than
\* the one that changes it (main_window.py:381-386, 440-450): for any number of
\* transfers and clicks.  Of a transfer that was cancelled or refused, and so
\* left the table, it says nothing: its row may keep its old state for ever.
THEOREM RowsFollow == Spec => []RowFollowsState
<1>1. WindowInv => RowFollowsState
  BY DEF WindowInv
<1> QED
  BY <1>1, WindowIsInvariant, PTL

\* A request of the peer is asked about once, however many questions are
\* stacked on one another (main_window.py:458-480).
THEOREM OneQuestionEach == Spec => []AskedOnce
<1>1. WindowInv => AskedOnce
  BY DEF WindowInv
<1> QED
  BY <1>1, WindowIsInvariant, PTL

=============================================================================
