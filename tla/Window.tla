------------------------------- MODULE Window -------------------------------
(***************************************************************************)
(* The transfers as the user sees and steers them: the window's thread     *)
(* (gui/main_window.py, TransferListWidget of gui/widgets.py) and the      *)
(* thread of the event loop, where the transfer controller runs            *)
(* (network/transfer_controller.py).                                       *)
(*                                                                         *)
(* Requests go from the window to the loop as coroutines, and are dropped  *)
(* when the loop does not run.  News goes back as signals; the slot does   *)
(* not use the state a signal carries but reads the transfer's when it     *)
(* runs, perhaps another.  A coroutine lets others run while it sends,     *)
(* and what follows the send is skipped when the send raises.  The         *)
(* question about an incoming file runs an event loop of its own, so that  *)
(* signals are handled, and further questions asked, on top of it.         *)
(*                                                                         *)
(* Chunks and their acknowledgements are in FileTransfer; here they only   *)
(* make news.  All transfers are with one peer.                            *)
(***************************************************************************)
EXTENDS Integers, Sequences, FiniteSets

CONSTANTS
    Outgoing, Incoming,  \* transfers we send, and those the peer offers
    Together,            \* bound: the sets of transfers there may be in a run
    MaxEvents            \* bound: clicks on Pause, Resume and Cancel here and
                         \* at the peer, chunks that make news, the end of
                         \* the session and of the loop

ASSUME TransfersDiffer == Outgoing \cap Incoming = {}
ASSUME BoundAssumption == MaxEvents \in Nat

Transfer == Outgoing \cup Incoming
State == {"none", "pending", "in_progress", "paused", "completed",
          "cancelled", "failed"}
Button == {"pause", "resume", "cancel"}
\* A coroutine; n tells the clicks on a button apart.
Call == [op : Button \cup {"send", "accept", "reject"}, t : Transfer, n : Nat]
Signal == [kind : {"update", "incoming"}, t : Transfer]

VARIABLES
    alive,     \* the event loop runs
    up,        \* the session holds; when it does not, the connection may be
               \* dead, which sends notice, or no longer in the table
    calls,     \* coroutines scheduled on the loop and not yet begun
    waits,     \* coroutines waiting for their send, as calls
    state,     \* Transfer.state
    active,    \* keys of _active_transfers
    fresh,     \* transfer -> tasks _send_file_chunks that have not begun
    tasks,     \* transfer -> those that have
    replied,   \* transfers to which their receiver has replied
    signals,   \* signals on their way to the window's thread
    pending,   \* keys of _pending_incoming
    dialogs,   \* open questions, the topmost first
    row,       \* state shown in the transfer's row, "none" without a row
    events,    \* counter of the bound
    mute,      \* history: a send raised after the state had changed
    unheard    \* history: accepting raised before the answer was sent

loopVars == <<alive, up>>
coVars == <<calls, waits>>
taskVars == <<fresh, tasks>>
xferVars == <<state, active, taskVars, replied>>
askVars == <<pending, dialogs>>
histVars == <<mute, unheard>>
vars == <<loopVars, coVars, xferVars, signals, askVars, row, events, histVars>>

SetState(t, s) == state' = [state EXCEPT ![t] = s]
Emit(k, t) == signals' = Append(signals, [kind |-> k, t |-> t])
Known == {t \in Transfer : \/ state[t] # "none"
                           \/ \E i \in DOMAIN calls : calls[i].t = t}
MayBegin(t) == t \notin Known /\ \E set \in Together : Known \cup {t} \subseteq set
Bounded == events < MaxEvents /\ events' = events + 1

-----------------------------------------------------------------------------
(* The window's thread.                                                    *)

\* _schedule_async.
Schedule(op, t) ==
    calls' = IF alive
               THEN Append(calls, [op |-> op, t |-> t, n |-> events])
               ELSE calls

\* _on_transfer_update_gui: a transfer no longer active is ignored.
Show(t) == IF t \in active THEN [row EXCEPT ![t] = state[t]] ELSE row

HandleUpdate ==
    /\ signals # <<>> /\ Head(signals).kind = "update"
    /\ row' = Show(Head(signals).t)
    /\ signals' = Tail(signals)
    /\ UNCHANGED <<loopVars, coVars, xferVars, askVars,
                   events, histVars>>

\* _update_ui.
Refresh ==
    /\ row' = [t \in Transfer |-> IF t \in active /\ state[t] = "in_progress"
                                    THEN state[t] ELSE row[t]]
    /\ row' # row
    /\ UNCHANGED <<loopVars, coVars, xferVars, signals, askVars, events, histVars>>

\* _on_incoming_transfer_gui up to the question.
Ask ==
    /\ signals # <<>> /\ Head(signals).kind = "incoming"
    /\ dialogs' = <<Head(signals).t>> \o dialogs
    /\ signals' = Tail(signals)
    /\ UNCHANGED <<loopVars, coVars, xferVars, pending, row, events, histVars>>

\* The answer takes its own request off _pending_incoming.  Mutants: all of
\* them, none.
TakeAllRequests(t) == {}
ReadRequest(t) == pending
TakeRequest(t) == pending \ {t}

\* _on_incoming_transfer_gui after the question: the topmost one closes.
Answer(reply) ==
    /\ dialogs # <<>>
    /\ dialogs' = Tail(dialogs)
    /\ LET t == Head(dialogs)
       IN  IF t \in pending
             THEN pending' = TakeRequest(t) /\ Schedule(reply, t)
             ELSE UNCHANGED <<pending, calls>>
    /\ UNCHANGED <<loopVars, waits, xferVars, signals, row, events, histVars>>

\* TransferListWidget._on_item_clicked: which buttons a click on a row enables.
Allowed(s) ==
    {b \in Button : \/ b = "pause" /\ s = "in_progress"
                    \/ b = "resume" /\ s = "paused"
                    \/ b = "cancel" /\ s \in {"pending", "in_progress", "paused"}}

\* A click on a row and then on a button.  The buttons stay as they are until
\* the next click on a row, so the state may be another one by then: that
\* time is part of the time the call waits.
Click(b, t) ==
    /\ dialogs = <<>> /\ row[t] # "none" /\ b \in Allowed(state[t])
    /\ Bounded
    /\ Schedule(b, t)
    /\ UNCHANGED <<loopVars, waits, xferVars, signals, askVars, row, histVars>>

\* _on_files_dropped.
DropFile(t) ==
    /\ dialogs = <<>>
    /\ MayBegin(t)
    /\ Schedule("send", t)
    /\ UNCHANGED <<loopVars, waits, xferVars, signals, askVars, row, events,
                   histVars>>

-----------------------------------------------------------------------------
(* The requests, in the loop's thread: run_coroutine_threadsafe keeps their *)
(* order.  A request for a transfer that is not active does nothing.       *)

Await(c) == waits' = waits \cup {c}
Cleanup(t) == active' = active \ {t} /\ replied' = replied \ {t}
CreateTask(t) == fresh' = [fresh EXCEPT ![t] = @ + 1]

\* Up to the send.  When the session is gone from the table there is nothing
\* to send: send_file and accept_transfer do nothing, the others go on.
SendFile(c) ==
    \/ /\ SetState(c.t, "pending") /\ active' = active \cup {c.t}
       /\ Await(c)
       /\ UNCHANGED <<taskVars, replied, signals>>
    \/ ~up /\ UNCHANGED <<waits, xferVars, signals>>

\* The download directory may fail to be made: the request is off
\* _pending_incoming by then, and nobody reads the error.  Mutant: the file is
\* not looked up.
AcceptUnknown(c) ==
    /\ replied' = replied \cup {c.t}
    /\ Await(c)
    /\ UNCHANGED <<state, active, taskVars, signals, unheard>>
AcceptTransfer(c) ==
    \/ /\ c.t \in active
       /\ replied' = replied \cup {c.t}
       /\ Await(c)
       /\ UNCHANGED <<state, active, taskVars, signals, unheard>>
    \/ /\ c.t \in active
       /\ unheard' = unheard \cup {c.t}
       /\ UNCHANGED <<waits, xferVars, signals>>
    \/ /\ c.t \notin active \/ ~up
       /\ UNCHANGED <<waits, xferVars, signals, unheard>>

RejectTransfer(c) ==
    \/ /\ c.t \in active
       /\ Await(c)
       /\ UNCHANGED <<xferVars, signals>>
    \/ /\ c.t \in active /\ ~up
       /\ SetState(c.t, "cancelled") /\ Cleanup(c.t)
       /\ UNCHANGED <<waits, taskVars, signals>>
    \/ c.t \notin active /\ UNCHANGED <<waits, xferVars, signals>>

Requested == [pause |-> "paused", resume |-> "in_progress",
              cancel |-> "cancelled"]

\* What pause_, resume_ and cancel_transfer do after their send.  Mutant: a
\* cancelled transfer is kept.
FinishKeepingActive(b, t) ==
    /\ Emit("update", t)
    /\ IF b = "resume" /\ t \in Outgoing THEN CreateTask(t) ELSE UNCHANGED fresh
    /\ UNCHANGED <<active, replied>>
FinishRequest(b, t) ==
    /\ Emit("update", t)
    /\ IF b = "resume" /\ t \in Outgoing THEN CreateTask(t) ELSE UNCHANGED fresh
    /\ IF b = "cancel" THEN Cleanup(t) ELSE UNCHANGED <<active, replied>>

SteerTransfer(c) ==
    \/ /\ c.t \in active
       /\ SetState(c.t, Requested[c.op])
       /\ \/ Await(c) /\ UNCHANGED <<active, taskVars, replied, signals>>
          \/ ~up /\ FinishRequest(c.op, c.t) /\ UNCHANGED <<waits, tasks>>
    \/ c.t \notin active /\ UNCHANGED <<waits, xferVars, signals>>

RunCall ==
    /\ alive /\ calls # <<>>
    /\ calls' = Tail(calls)
    /\ LET c == Head(calls)
       IN  \/ c.op = "send" /\ SendFile(c) /\ UNCHANGED unheard
           \/ c.op = "accept" /\ AcceptTransfer(c)
           \/ c.op = "reject" /\ RejectTransfer(c) /\ UNCHANGED unheard
           \/ c.op \in Button /\ SteerTransfer(c) /\ UNCHANGED unheard
    /\ UNCHANGED <<loopVars, askVars, row, events, mute>>

\* The send is done: the rest of the coroutine.
SendReturns(c) ==
    /\ alive /\ c \in waits
    /\ waits' = waits \ {c}
    /\ \/ /\ c.op = "send"
          /\ Emit("update", c.t) /\ UNCHANGED xferVars
       \/ c.op = "accept" /\ UNCHANGED <<signals, xferVars>>
       \/ /\ c.op = "reject"
          /\ SetState(c.t, "cancelled") /\ Cleanup(c.t)
          /\ UNCHANGED <<signals, taskVars>>
       \/ /\ c.op \in Button
          /\ FinishRequest(c.op, c.t) /\ UNCHANGED <<state, tasks>>
    /\ UNCHANGED <<loopVars, calls, askVars, row, events, histVars>>

\* The send raises: the rest does not happen, and nobody reads the error.
SendRaises(c) ==
    /\ alive /\ c \in waits /\ ~up
    /\ waits' = waits \ {c}
    /\ mute' = IF c.op \in Button THEN mute \cup {c.t} ELSE mute
    /\ UNCHANGED <<loopVars, calls, xferVars, signals, askVars, row, events,
                   unheard>>

-----------------------------------------------------------------------------
(* The peer, in the loop's thread.                                         *)

Hears == alive /\ up

\* _handle_file_meta and _on_incoming_transfer: there is no row yet.
HandleFileMeta(t) ==
    /\ Hears /\ MayBegin(t)
    /\ SetState(t, "pending") /\ active' = active \cup {t}
    /\ pending' = pending \cup {t}
    /\ Emit("incoming", t)
    /\ UNCHANGED <<loopVars, coVars, taskVars, replied, dialogs, row,
                   events, histVars>>

\* _handle_file_request: the peer replies once.
HandleFileRequest(t, accepted) ==
    /\ Hears /\ t \in active \ replied
    /\ replied' = replied \cup {t}
    /\ SetState(t, IF accepted THEN "in_progress" ELSE "cancelled")
    /\ IF accepted THEN CreateTask(t) ELSE UNCHANGED fresh
    /\ Emit("update", t)
    /\ UNCHANGED <<loopVars, coVars, active, tasks, askVars, row, events,
                   histVars>>

\* _handle_data: a cancelled transfer is reported and then removed.
HandleData(b, t) ==
    /\ Hears /\ t \in active
    /\ Bounded
    /\ SetState(t, Requested[b])
    /\ Emit("update", t)
    /\ IF b = "cancel" THEN Cleanup(t) ELSE UNCHANGED <<active, replied>>
    /\ UNCHANGED <<loopVars, coVars, taskVars, askVars, row, histVars>>

\* _handle_file_chunk and _handle_file_ack; the chunk that completes the file
\* does so whatever the state.
Progress(t) ==
    /\ Hears /\ t \in active \cap replied
    /\ Bounded
    /\ Emit("update", t)
    /\ \/ UNCHANGED state
       \/ t \in Incoming /\ SetState(t, "completed")
    /\ UNCHANGED <<loopVars, coVars, active, taskVars, replied, askVars, row,
                   histVars>>

\* The first step of _send_file_chunks overwrites the state and tells nobody.
TaskBegins(t) ==
    /\ alive /\ fresh[t] > 0
    /\ fresh' = [fresh EXCEPT ![t] = @ - 1]
    /\ tasks' = [tasks EXCEPT ![t] = @ + 1]
    /\ SetState(t, "in_progress")
    /\ UNCHANGED <<loopVars, coVars, active, replied, signals, askVars, row,
                   events, histVars>>

\* Its end.  A chunk on its way fails it even when it is paused or cancelled
\* by then.  Mutant: the end is not reported.
EndUnreported(t, s) == SetState(t, s) /\ UNCHANGED signals
EndAs(t, s) == SetState(t, s) /\ Emit("update", t)

TaskEnds(t) ==
    /\ alive /\ tasks[t] > 0
    /\ \/ state[t] = "cancelled" /\ UNCHANGED <<state, signals>>
       \/ state[t] \notin {"paused", "cancelled"} /\ EndAs(t, "completed")
       \/ /\ ~up \/ state[t] \notin {"paused", "cancelled"}
          /\ EndAs(t, "failed")
    /\ tasks' = [tasks EXCEPT ![t] = @ - 1]
    /\ UNCHANGED <<loopVars, coVars, active, fresh, replied, askVars, row,
                   events, histVars>>

-----------------------------------------------------------------------------
(* The thread of the loop and the session.                                 *)

\* start_server raises, or the window was closed: what waits is never run.
LoopEnds ==
    /\ alive /\ alive' = FALSE
    /\ Bounded
    /\ UNCHANGED <<up, coVars, xferVars, signals, askVars, row, histVars>>

LinkBreaks ==
    /\ up /\ up' = FALSE
    /\ Bounded
    /\ UNCHANGED <<alive, coVars, xferVars, signals, askVars, row, histVars>>

Init ==
    /\ alive = TRUE /\ up = TRUE
    /\ calls = <<>> /\ waits = {}
    /\ state = [t \in Transfer |-> "none"] /\ active = {}
    /\ fresh = [t \in Transfer |-> 0] /\ tasks = fresh /\ replied = {}
    /\ signals = <<>> /\ pending = {} /\ dialogs = <<>>
    /\ row = [t \in Transfer |-> "none"]
    /\ events = 0
    /\ mute = {} /\ unheard = {}

Qt == HandleUpdate \/ Ask \/ Refresh
User == \/ \E reply \in {"accept", "reject"} : Answer(reply)
        \/ \E t \in Transfer : \E b \in Button : Click(b, t)
        \/ \E t \in Outgoing : DropFile(t)
Peer == \/ \E t \in Incoming : HandleFileMeta(t)
        \/ \E t \in Outgoing, a \in BOOLEAN : HandleFileRequest(t, a)
        \/ \E t \in Transfer : Progress(t) \/ \E b \in Button : HandleData(b, t)
Coroutine == \/ RunCall
             \/ \E c \in waits : SendReturns(c) \/ SendRaises(c)
             \/ \E t \in Outgoing : TaskBegins(t) \/ TaskEnds(t)

Next == Qt \/ User \/ Peer \/ Coroutine \/ LoopEnds \/ LinkBreaks

Spec == Init /\ [][Next]_vars

\* Both threads run, sends return or raise, and the user answers questions.
FairSpec ==
    /\ Spec
    /\ WF_vars(HandleUpdate \/ Ask) /\ WF_vars(RunCall)
    /\ WF_vars(\E c \in waits : SendReturns(c) \/ SendRaises(c))
    /\ WF_vars(\E reply \in {"accept", "reject"} : Answer(reply))

-----------------------------------------------------------------------------
(* Properties.                                                             *)

TypeOK ==
    /\ alive \in BOOLEAN /\ up \in BOOLEAN
    /\ calls \in Seq(Call) /\ waits \subseteq Call
    /\ state \in [Transfer -> State] /\ active \subseteq Transfer
    /\ fresh \in [Transfer -> Nat] /\ tasks \in [Transfer -> Nat]
    /\ replied \subseteq active
    /\ \A t \in active : state[t] # "none"
    /\ signals \in Seq(Signal)
    /\ pending \subseteq Incoming /\ dialogs \in Seq(Incoming)
    /\ row \in [Transfer -> State]
    /\ events \in 0 .. MaxEvents
    /\ mute \subseteq Transfer /\ unheard \subseteq Transfer

Announced(k, t) == \E i \in DOMAIN signals : signals[i] = [kind |-> k, t |-> t]
Reporting(t) == \E c \in waits : c.t = t /\ c.op \in Button

\* While a transfer is in the table, its row shows its state, or news of it is
\* on its way, or it is in progress, which the timer sees: the slot ignores
\* the state a signal carries and reads the transfer's, later and in another
\* thread (main_window.py:381-386, 440-450, 587-597).  Excepted is a transfer
\* whose pause, resume or cancel could not be sent.  Nothing is said of a
\* transfer that left the table: one that is cancelled here or by the peer is
\* removed before the slot runs (transfer_controller.py:88-89, 434-435), which
\* then finds nothing, so that its row keeps its old state for ever.
RowFollowsState ==
    \A t \in active \ mute :
      row[t] # "none" => \/ row[t] = state[t] \/ state[t] = "in_progress"
                         \/ Announced("update", t) \/ Reporting(t)

\* A request of the peer is asked about once: it is in _pending_incoming
\* exactly while its one signal is on its way or its one question is open,
\* however the questions are stacked (main_window.py:393-398, 458-480).
SignalsOf(t) ==
    {i \in DOMAIN signals : signals[i] = [kind |-> "incoming", t |-> t]}
QuestionsOf(t) == {i \in DOMAIN dialogs : dialogs[i] = t}
AskedOnce ==
    \A t \in Incoming :
      IF t \in pending
        THEN \/ (\E i \in SignalsOf(t) : SignalsOf(t) = {i}) /\ QuestionsOf(t) = {}
             \/ (\E i \in QuestionsOf(t) : QuestionsOf(t) = {i}) /\ SignalsOf(t) = {}
        ELSE SignalsOf(t) = {} /\ QuestionsOf(t) = {}

\* An incoming transfer does not stay in the table unanswered, for lack of a
\* question or of a click (main_window.py:393-398, 458-480): it is accepted,
\* refused or cancelled, unless the session or the loop ends, or the yes was
\* lost because the download directory could not be made
\* (transfer_controller.py:377).
IsAnswered ==
    \A t \in Incoming :
      t \in active ~> \/ t \notin active \/ t \in replied \/ t \in unheard
                      \/ ~up \/ ~alive

\* A transfer the user cancels leaves _active_transfers (README.md:130),
\* whatever comes in between, unless its message could not be sent or the loop
\* ends.  Its row stays: the window never removes one.
CancelRemoves ==
    \A t \in Transfer :
      (alive /\ \E i \in DOMAIN calls :
                   calls[i].op = "cancel" /\ calls[i].t = t)
        ~> t \notin active \/ t \in mute \/ ~alive

=============================================================================
