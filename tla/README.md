# SecureP2P in TLA+

TLA+ models of SecureP2P, model-checked with TLC, with theorems checked by
TLAPS. Paths are relative to `src/SecureP2P/`.

## 1. The system

SecureP2P is a desktop program that sends files between two peers over an
encrypted TCP connection. Every peer runs the same program: a Qt thread for the
window and one asyncio event loop in a thread of its own. The window submits
coroutines to the loop (`gui/main_window.py:250-252`); callbacks go back as Qt
signals. On the loop the code between two `await`s runs undisturbed, and the
hazards are in what the awaits let in between.

| Component | State | Operations | Interacts with | What makes it correct |
|---|---|---|---|---|
| Transfer controller, `network/transfer_controller.py` | `_active_transfers`: id -> Transfer (state, progress) | `send_file`, `accept/reject/pause/resume/cancel_transfer`, one handler per message type, the coroutine `_send_file_chunks` | chunk manager (calls), connection manager (messages), database, window (callbacks) | a file is reported complete only when it is; nothing is written without consent; a user's decision is final; a transfer ends |
| Chunk manager, `transfer/chunk_manager.py` | `_chunks` (list with state and retry count), `_chunk_data` (received bytes), `_temp_files` | `init_send`, `init_receive`, `get_next_pending_chunk`, `receive_chunk`, `ack_chunk`, `mark_chunk_failed`, `assemble_file`, `cleanup` | called by the controller; writes chunk rows | what the list counts is what the map holds; retries are bounded |
| Connection manager, `network/connection_manager.py` | `_connections`: peer id -> connection, `_pending_connections`; per connection cipher, `last_activity`, `authenticated` | `connect_to_peer`, `disconnect_from_peer`, `_handle_incoming`, `_handle_connection`, `_perform_key_exchange`, `_cleanup_connection`, `health_check` | everything that sends | the entry of a peer is its live, authenticated connection; both ends derive one key; a dead peer is noticed |
| Scheduler, `transfer/scheduler.py` | heap of jobs, active jobs, lock | `add_job`, `process_queue`, `complete_job`, `remove_job`, `stop` | constructed by the controller, never started | capacity, no job lost, no deadlock on the lock |
| Resumable transfers, `transfer/resumable.py` | one JSON file per transfer | `save_state`, `load_state`, `get_resumable_transfers`, `delete_state` | database; called by nothing | what is loaded after a crash was true once and covers the file |
| Database, `storage/database.py` | tables peers, transfers, transfer_chunks, history, settings, logs; a connection per thread | save, update, get, delete | all | no chunk row without its transfer; the rows say what the list says |
| Peer discovery, `network/peer_discovery.py` | `_discovered_peers`, `_known_peers` | mDNS added/removed (a thread of zeroconf), multicast message (the loop), manual add (the window) | database, window | a peer that is there is listed, one that left is not, the list shown is the table |
| STUN, TURN, `network/stun_client.py`, `turn_client.py` | mapped address, NAT type; allocation | queries | - | the classification fits the NAT |
| Bandwidth estimator, `network/bandwidth_estimator.py` | windows of samples | record, recommend | controller | thresholds as documented |
| Cryptography, `crypto/` | key pair, salt, session key, nonce counter | exchange, derive, encrypt | connection manager | same key at both ends, no nonce twice |
| Window, `gui/main_window.py`, `gui/widgets.py` | peer list, transfer list and its buttons, `_pending_incoming`, questions | slots of signals, `_schedule_async`, clicks, dropped files | everything on the loop: coroutines there, signals back | a row shows the state of its transfer; every file offered is asked about once; a cancel removes |
| Compressor, utilities, logging | counters, configuration | - | - | - |

Hard behaviours: coroutines created now and run later (a pause, a cancel, a
second resume may come first); state read before an `await` and written after
it; calls of both users crossing on the wire; messages that arrive for a
transfer already left; loss of the connection with everything in it; an
exception half way through a handler; the empty file; the program ending between
two writes; three threads on one table without a lock; signals and requests that
are handled when what they are about has changed. `PROJECT.json` lists them
under "hazards", each at its line.

## 2. Modules

| Module | What it is |
|---|---|
| `FileTransfer` | one transfer between two peers: both controllers, both chunk managers, the connection between them |
| `ConnectionTable` | the connections between two peers: both tables, calls, handshake, ends, health check |
| `Scheduler` | the queue, the running jobs and the lock of one `TransferScheduler` |
| `Delivery` | abstract specification: what the receiving user is promised |
| `Recovery` | what is left of a transfer on disk: its rows, its chunk rows, its state file, and a program that may end at any moment |
| `Discovery` | who is on the peer list: the browser's thread, the loop and the window |
| `Window` | several transfers as the user sees and steers them: the window's thread against the loop |
| `MCFileTransfer` | instances for TLC: how many calls each user makes |
| `MCConnectionTable`, `MCScheduler`, `MCRecovery`, `MCDiscovery`, `MCWindow` | instances: who calls, disconnects, hangs; ids, loops, callers; states; peers; transfers |
| `FileTransferProofs`, `SenderProofs` | theorems about `FileTransfer`: the receiver's end, and that it implements `Delivery`; the sender's list of chunks |
| `ConnectionTableProofs`, `HandshakeProofs` | theorems about the tables, and about the handshake |
| `SchedulerProofs`, `RecoveryProofs`, `DiscoveryProofs`, `WindowProofs` | theorems about the module each extends |

`FileTransfer` sees of the connection what `ConnectionTable` makes of it: an
authenticated, ordered stream with one handler at a time, which may be lost and
made anew. That the second refines what the first assumes is not shown.

`FileTransfer` and `Window` model one controller at two grains: chunks, both ends
and the wire for one transfer; requests, signals and rows for several transfers
at one end, where of a chunk only the news it makes is left. `Recovery` keeps
what both leave out, the rows of the chunks.

### FileTransfer

Variables and the code's state:

| Variable | Code |
|---|---|
| `state`, `active` | `Transfer.state`; the id is in `_active_transfers`. The two differ: coroutines keep the Transfer after it is removed |
| `db`, `history` | the `state` column of the row, an entry in `transfer_history` |
| `listed`, `gen`, `chunkState`, `retry` | `_chunks[id]`; `gen` is the identity of the sender's list, which a coroutine suspended in a drain may outlive |
| `posted`, `dropped` | history: chunks of the newest list written to a connection, and chunks taken from it by a coroutine that raised before writing |
| `acked`, `data`, `file` | receiver: chunks "acked" in the list, keys of `_chunk_data[id]`, the output file (absent, lacking a chunk, whole) |
| `refused` | history: how often the receiver's disk refused |
| `dialog` | the question of `_on_incoming_transfer_gui`, answered once |
| `task` | the sender's coroutines: slot 0 for the accepted request, slot k for the k-th call of its user if that is a resume |
| `busy`, `leaving`, `rejecting` | suspended after a write in `_handle_file_chunk`, `cancel_transfer`, `reject_transfer` |
| `chan`, `up`, `epoch` | messages under way to each end, the connection and its number |
| `ops`, `damage` | counters of the bounds |

Every action is the code from one await to the next:

* `SendFile`, `HandleFileMeta`, `AcceptTransfer`, `RejectTransfer` (then
  `RejectSent` or `RejectFails`), `HandleFileRequest`: the offer and its answer.
* `StartSendFileChunks`, `SendNextChunk`, `StopSending`, `ChunkSent`,
  `DrainFails`: the coroutine `_send_file_chunks`. The write of a chunk and what
  follows it are two actions, because `drain` suspends; reading, writing and a
  dead connection can raise, and end in the `except` clause (`Fail`).
* `HandleFileChunk`, then `FileChunkAcked` or `FileChunkAckFails`;
  `HandleFileAck`.
* `PauseTransfer`, `ResumeTransfer` (`ResumeSent`, `ResumeFails`),
  `CancelTransfer` (`CancelSent`, `CancelFails`) at either end and `HandleData`
  at the other. `stop` is a cancel of every transfer.
* `ConnectionLost`, `Reconnect`.

Decisions:

* User calls are guarded by what the controller tests, not by the buttons. The
  buttons are enabled by the state at the last click on a row
  (`gui/widgets.py:264-274`) and act on the row current when pressed, so they
  do not constrain the call.
* A `drain` normally returns at once; it may suspend when the buffer is full.
  The second half is a separate action, taken at any later moment. When the
  connection is lost meanwhile, it may return or raise.
* An end handles a message to its end before it takes the next
  (`connection_manager.py:311-346`): while `busy`, the receiver takes none. A
  negative acknowledgement has nothing after its write and is one action.
* A paused coroutine that wakes and sleeps again changes nothing, and is no
  action.
* `hash_mismatch` does not arise on a sound connection: the hash is taken of
  the bytes sent, and AES-GCM rejects others. The branch is in the code and in
  the model, bounded by `MaxDamage`.
* `ConnectionLost` leaves a prefix of the messages under way to each end: what
  had reached an end is still read there, while what it writes goes nowhere.
  `Reconnect` waits until both have read it and whoever was suspended on the old
  connection has been released. Both ends count as down from the loss on: that
  one can go on writing into a dead connection without an error is left out.
* The receiver's disk may refuse (`Refuse`, bounded by `MaxRefusals`): the
  download directory cannot be made when the user says yes
  (`transfer_controller.py:377`), and the yes is lost; or the directory, the
  opening or a write of `assemble_file` raises (`chunk_manager.py:155-168`,
  `AssembleFails`), and the file stays as it was or is cut. A chunk sent again
  makes the receiver assemble again, so that this may happen to a file it has
  reported complete. Writes of the database are not refused.
* Contents, compression, speed and progress are abstracted.

### Delivery

The receiving user is asked, agrees, and may leave; chunks count only between
the two; the file is written only when all have come, and reported complete
(`done`) only when it was written whole. A disk that refuses leaves it absent or
cut, also after the report (`Spoil`). The refinement mapping
(`Consented`, end of `FileTransfer`) reads the phase from the receiver's list
and the dialog. `PROPERTY DeliveryPromise` checks it, `KeepsPromise` proves it.

### ConnectionTable

Two nodes, `a` and `b`, each with a connection manager. A link is a TCP
connection, a half one end of it.

| Variable | Code |
|---|---|
| `entry` | `_connections`: key -> link. Keys are the peer's own id (`Real`), the id `add_manual_peer` makes up for an address (`Alias`), one `incoming_...` id per incoming connection (`TempId`) |
| `id`, `fresh` | `peer_id` and `state == "connected"` of the Peer objects: one shared by all connections a node opens, one for each incoming connection |
| `tries`, `opening` | the attempt of the coroutine in `_pending_connections`, whether it waits in `open_connection` |
| `opener`, `stage` | who opened a link; where `_handle_incoming` or `_handle_connection` of a half is |
| `pub`, `key` | whose public key a half computed its secret with; its session key: which two key pairs, which salts |
| `inbox`, `cut` | messages under way to a half, whether the link is lost |
| `closed`, `closing` | the writer is closed; `disconnect_from_peer` is suspended in `close` |
| `frozen` | programs that hang: their sockets stay open and take no step |
| `idle`, `round` | rounds of the check since `last_activity`; what is left of the snapshot of this round |
| `calls`, `disconnects`, `sends`, `replies` | counters of the bounds |

Actions: `ConnectToPeer`, `OpenConnection`, `Connected`, `ConnectFails` are the
call with its retries; `HandleIncoming`, `RefuseIncoming` the server's first
message; `SkipHandshake`, `ClientHello`, `ServerHello`, `ReadHello`, `ReadKey`
the handshake; `HandleMessage` the loop; `WrongMessage` and `ReadRaises` the
exceptions, each with the cleanup it runs into; `DisconnectFromPeer` and
`Disconnected` the two halves of a disconnect; `StartRound`, `Ping`,
`StillAlive`, `Timeout` the health check; `SendToPeer` any other component,
`ReplyToPeer` the answers and decisions of a user about a transfer.

Decisions:

* Handshake messages and pings are small and their `drain` does not suspend.
  Writing can raise: when the link is lost or the other end is closed, perhaps;
  after this end has closed its writer, certainly.
* `_cleanup_connection` deletes the entry before its only await, and nothing is
  done after it: it is part of the step that ends the coroutine.
* A coroutine just created runs before the answer of anything asked of the
  network later (`OpenConnection`, `Disconnected` wait for it): asyncio runs
  tasks in the order they became ready.
* A message of a handshake carries whose half sent it, that is its key pair or
  its salt. `SessionKey` is what `derive_session_key` depends on: the unordered
  pair of key pairs, and the set of both salts, since the code sorts them.
* Between two looks of the health check at one connection, 15 s pass; silent for
  30 s means two rounds, or three when the clock is just short.
* Only `send_file` asks whether the connection is authenticated. Accept, reject,
  pause, resume and cancel (`transfer_controller.py:367-435`) write to whatever
  connection the table has: when the one of the transfer was replaced by a call
  since, to one still in its handshake, in the clear. The peer finds a message of
  the wrong type, or one it cannot decrypt, and ends the connection. `ReplyToPeer`
  asks that an earlier session has existed, without which there is no transfer.
* Ids that are empty, payloads that do not parse and wrong magic numbers do not
  come from this program and are left out.

### Scheduler

| Variable | Code |
|---|---|
| `jobs` | every job ever accepted; its place is its timestamp |
| `queue`, `active`, `running` | `_queue`, `_active`, `_running`, the first two as places in `jobs` |
| `holder`, `waiters` | the `asyncio.Lock`: granted in the order asked, and not past a line |
| `pc`, `told` | where each loop and caller is; the job whose start callback a loop awaits |
| `call`, `calls` | the method a caller is in; counter of the bound |

A method runs under the lock without an await, so it is one action with its
acquisition (`AddJob`, `RemoveJob`, `ClearQueue`, `Stop`), or two when it awaits
a callback (`CompleteJob`, then `CallbackDone`). `process_queue` keeps the lock
while it sleeps (`SleepHolding`, `Wake`) and in the start callback (`StartJob`,
`CallbackDone`); its last sleep is outside (`Unpause`). `start` creates a
further loop each time. Callbacks of one completion are one wait. A callback
that calls the scheduler waits for a lock its own caller holds (`CallBack`): that
loop never goes on. Time stamps are distinct and increasing. Nothing of the
program starts a scheduler, so the callers are any coroutines; only transfers
that run are reported complete.

### Recovery

| Variable | Code |
|---|---|
| `row`, `rows` | the `state` column of the transfers row; the chunk rows of each list that was ever built, since every list makes new chunk ids |
| `list`, `made`, `state` | the list in `_chunks`, lists built so far, `ChunkState.state` |
| `drain` | the chunk `_send_file_chunks` waits for in `send_message` |
| `file`, `saved`, `saving` | the state file (absent, torn, whole), its contents, where `save_state` is |
| `up`, `crashes`, `ever` | the program runs; counter of the bound; history: chunks ever acknowledged |

`SaveTransfer`, `UpdateTransferState`, `DeleteTransfer` are the database's
methods, each one transaction; `INSERT OR REPLACE` deletes the old row, and with
it the chunk rows (`storage/database.py:106`, `:218`). `InitList`,
`GetNextPendingChunk`, `ChunkSent`, `AckChunk`, `MarkChunkFailed`, `Cleanup` are
the chunk manager; `OpenStateFile`, `WriteStateFile`, `RecordTransfer`,
`SaveFails`, `DeleteState` the resumable transfers; `Crash` takes the memory and
what was not committed. `Loaded`, `CanResume` and `Resumable` are what the three
getters return. Decisions: callers of `ResumableTransfer` are any, since the
program has none; `InitList` writes the parent row and the chunk rows in one
step, two transactions with nothing in between but a crash that leaves a
transfer without rows, which `SaveTransfer` also leaves; retry counts are in
`FileTransfer`, so a failed chunk may be taken again for ever.

### Discovery

| Variable | Code |
|---|---|
| `presence`, `service`, `lapses`, `air` | the other programs, their mDNS records, the announcements waiting in our socket |
| `running`, `browsing`, `listening` | `_running`; the browser and the listener work |
| `seen` | services the browser has reported and not taken back |
| `discovered`, `known`, `stored` | `_discovered_peers`, `_known_peers`, the peers rows |
| `zc`, `loop` | what the browser's thread and the event loop are doing, with which peer |
| `signals`, `rows` | the window's queue of signals, its peer list |
| `unsaved`, `crossed` | history: a save raised; the two threads, or a late datagram, crossed a departure |

A handler that lists a peer is three steps, as others may run between its test,
its entries and its save: `ServiceAdded`, `ServiceEntered`, `ServiceFound` in the
browser's thread, `ReceiveMulticast`, `MulticastEntered`, `MulticastFound` on the
loop. A departure is two: `ServiceRemoved`, `PeerLost`. `AddManualPeer` runs in
the window's thread, whose signals to itself are handled at once. Decisions: a
program makes its id anew at every start (`gui/main_window.py:63`), so an id that
has left does not come back, but its record may lapse and return; datagrams are
lost, never duplicated; what two threads do to one dict at once is one step
after the other, as the interpreter's lock has it.

### Window

| Variable | Code |
|---|---|
| `alive`, `up` | the event loop runs; the session with the peer holds |
| `calls`, `waits` | coroutines scheduled and not begun, in order; those waiting for their send |
| `state`, `active`, `replied` | `Transfer.state`, `_active_transfers`, whether the receiver has replied |
| `fresh`, `tasks` | tasks `_send_file_chunks` created, and begun |
| `signals`, `row` | the window's queue of signals; the state a row shows |
| `pending`, `dialogs` | `_pending_incoming`; open questions, the topmost first |
| `events` | counter of the bound |
| `mute`, `unheard` | history: a send raised after the state had changed; accepting raised before the answer was sent |

The window: `HandleUpdate`, `Refresh` (the timer), `Ask` and `Answer` (the
question and its two halves), `Click`, `DropFile`. The loop: `RunCall` runs the
oldest request up to its send, `SendReturns` what follows, `SendRaises` skips it.
The peer: `HandleFileMeta`, `HandleFileRequest`, `HandleData`, `Progress`.
`TaskBegins` and `TaskEnds` are the ends of `_send_file_chunks`. `LoopEnds` and
`LinkBreaks` may come at any moment. Decisions: while a question is open no
button is pressed (it is modal), but signals are handled, and ask again; the
buttons stay as the last click on a row left them, so a request may run in any
state; a session that breaks may leave a connection that raises or none at all,
so each request may take either path. Accepting may also raise on a sound
session, when the download directory cannot be made
(`transfer_controller.py:377`): the question is off `_pending_incoming` by then,
the error is in a future nobody reads, and the file is never answered.

## 3. Runs

`CHECK_DEADLOCK FALSE` everywhere: a transfer ends, a user need not act, an
empty scheduler may be stopped for good, peers leave, the loop ends.

| Run | Instance | Shows |
|---|---|---|
| `BothEndsAct` | 2 chunks, one call at each end, a disk that may refuse once, connection holds | type invariant; `DeliveredWhole`, `Consent`, `LeftIsForgotten`, `AckedIsStored`, `CancelReachesPeer`; `Delivery` is implemented |
| `LostConnection` | 2 chunks; one call of the sender's user, a file that may become unreadable, a disk that may refuse once, a connection that may be lost once and come back; or up to four damaged transmissions and nothing else (`MayMix = FALSE`) | `ReceiverInv` (the inductive invariant), `CompletedSentAll`, `RetryCapped`, `SenderSettles`, `AcceptedIsSaved` |
| `Endings` | `a` calls twice, an address, and `b` once, two links, one disconnect of `a`, one answer of `a` that may meet a handshake, the first link may be lost | `EntryIsLive`, `KeysAgree`; `Reachable` and `SessionForms` until something ends; `BothEndsEnd` |
| `HangInHandshake` | one link, two attempts that may be refused, either program may hang, both check | type invariant, `CallEnds`, `HandshakeEnds` |
| `SchedulerProgress` | two loops, two callers, two ids, one of the higher priority, four calls, three places, two transfers at once | type invariant, `WithinLimits`, `StartIsUndisturbed`, `LockGranted`, `QueuedIsTaken` |
| `CrashAnywhere` | 2 chunks, two lists, one crash | type invariant, `RowsHaveParent`, `RowsFollow`, `LoadedIsTrue`, `RowsCanResume` |
| `PeersComeAndGo` | one peer and one typed in, two lapses of a record | type invariant, `ListFollowsTable`, `ListedIsStored`, `PresentIsListed`, `LeaverIsUnlisted` |
| `TwoThreads` | one file sent while one is offered, or two offered, two events | type invariant, `RowFollowsState`, `AskedOnce`, `IsAnswered`, `CancelRemoves` |

Bounds of `FileTransfer`: two chunks are the least with one before and one
after; with one call at each end every pair of pause, resume and cancel crosses,
and a resume puts two coroutines on one list. Four damages reach the cap of five,
because a chunk's count rises twice per failure. One loss suffices for a
coroutine to hold a dead connection while a new one is up. `MayMix` says whether
damage may come together with calls and losses: together they multiply, and
the properties that damage matters to speak of runs without calls. One refusal
of the disk suffices to spoil the file before or after it was reported.

Bounds of `ConnectionTable`: two links are the least that cross, in either
direction or one after the other; with an address on one side only, an entry is
renamed on that side and overwritten on the other. Two attempts show a retry and
the last failure. `PingQueue` (two messages of the check under way) and `Dead`
(three rounds) keep the state finite when a program hangs. Bounds of
`Scheduler`: with two loops and two callers the lock has a line of three; four
calls start a loop twice around a stop, or fill all places, or start a loop and
add three jobs: two run and the third waits at the limit for a completion. A job
of `t1` can be overtaken by one of `t2`, and a second job of an id that runs is
dropped. No symmetry is used, as the run checks liveness.

Bounds of `Recovery`: two lists are the least in which rows of an older list
stand beside those of the list in memory; one crash suffices for every state the
disk can be left in, as a restart forgets all else. Bounds of `Discovery`: one
program is met by all three threads at once, and peers touch one another nowhere
but in the order of signals, which the theorems cover for any number; two lapses
let a record return twice while the program runs. Bounds of `Window`: two
questions are the least that stack; two events are two clicks that overtake one
another, or a click and what makes it stale.

`Reachable` holds until something ends: it and `SessionForms` except a disconnect,
an answer written into a handshake, and a loss (`Disturbed`). Afterwards it fails:
two crossed connections share a key of the table, the end of one deletes it
(`connection_manager.py:438`, `:242`), and the other, open and authenticated, is
out of reach of `send_to_peer`. The health check also ends things: of two crossed
connections it sees the one in the table, so `Reachable` is stated of instances
without it.

`HandshakeEnds` is checked with one link: a connection whose entry another has
overwritten is not seen by the health check, and hangs with its peer. It speaks
of ends that are in the table. Excepted is a server end at stage `reading`, which
waits for the HELLO without a timeout and has entered nothing yet
(`connection_manager.py:265`, `:293`, `:304-309`): the health check does not see
it, and it waits for as long as its caller hangs.

`LockGranted` and `QueuedIsTaken` except a callback that waits for itself;
`QueuedIsTaken` also a job with a later one of higher priority, which a steady
supply of such jobs starves (`scheduler.py:67-70`). The run's calls are too few
to starve one, so that it does not need this exception; the code does.

`DeliveredWhole` says of a completed transfer that its file was put together,
and that a file lacks a chunk only where the disk refused: not that it is whole
for ever, as `assemble_file` opens it again when a chunk is sent again.
`AcceptedIsSaved` excepts a refusal. `CompletedSentAll` excepts a chunk that a
coroutine took and raised on before writing (`dropped`): `get_next_pending_chunk`
marks it sent first (`chunk_manager.py:97-99`), and when another coroutine is on
the list, that one passes it over and reports the transfer completed
(`transfer_controller.py:350`).
`AcceptedIsSaved` also excepts damage: a failure reported after the sender has
declared the transfer completed (`transfer_controller.py:350`, before any
acknowledgement, which docs/protocol.md:94-98 puts first) is never retried.

`AckedIsStored` is checked without a loss: when the acceptance is lost with the
connection the receiver has emptied its map and the sender, if a resume had made
it start before, never starts over. `RetryCapped` speaks of runs without calls:
two coroutines on overlapping lists can pass the cap.

`RowsCanResume` is stated of the chunk rows, not of a state file, which may say
"sent" of every chunk that is left: `get_resume_info` counts those neither as
done nor as pending, and the transfer it lists cannot be resumed.
`ListFollowsTable` excepts a peer whose save raised (`peer_discovery.py:117`) and
one whose departure crossed its discovery by the other thread (`:128-131`, `:170`):
there the table and the list may disagree for good. `PresentIsListed` needs the
multicast socket: mDNS alone forgets nobody it has known (`:98`), so a record that
returns is ignored. `RowFollowsState` and `CancelRemoves` except a transfer whose
message raised, `IsAnswered` and `CancelRemoves` a loop that has ended,
`IsAnswered` also a yes on which the directory could not be made (`unheard`).
`RowFollowsState` speaks of transfers in the table: one that is cancelled, here or
by the peer, is removed before the slot of its last news runs
(`transfer_controller.py:88-89`, `:434-435`; `gui/main_window.py:445-447`), and its
row keeps the old state for ever, as nothing removes rows. It also leaves
"in progress" to the timer. `CancelRemoves` speaks of the table, not of the row.

`RowsFollow` says that the rows of the list in memory are gone or agree with it.
They do go while the list is in use: `save_transfer` replaces the transfer's row,
which erases them (`storage/database.py:106`, `:218`), and a crash then loses the
acknowledgements. No property claims that they survive.

Runs that end in a violation, each against a line of the documents:

| Run | Document | What the code does |
|---|---|---|
| `CancelledRuns` | README.md:130 "Cancel and remove a transfer" | a coroutine that starts after the cancel sets the removed transfer in progress and sends it (`transfer_controller.py:310`) |
| `EmptyFile` | README.md:122 "Accepted files are saved to the download directory" | an empty file has no chunk and is never saved (`:177`) |
| `SkippedHandshake` | README.md:109 "A secure encrypted session is established automatically" | a disconnect still in `close` marks the Peer object (`:246`) that a new call has just set connected; the new coroutine finds it so (`:313`), skips the handshake and reads in the clear |
| `HangUnnoticed` | README.md:145 "Peer Timeout: Connection timeout in seconds" | `send_ping` sets `last_activity` (`:76`) just before `is_alive` is asked (`:474-475`) |

### Fairness

`WF` of every coroutine step, every message handler and every continuation of a
suspended call: an asyncio loop runs what is ready, a connection that holds
delivers, and a drain ends when the peer reads or the connection dies. None is
assumed of the users, of the loss of a connection or of its return. A paused
coroutine takes no step, so it is not forced on.

In `ConnectionTable`, `WF` of the coroutine of every half, of every call, of the
end of every disconnect and of the health check at each node: a node that hangs
disables its own. None of users, of loss or of hanging. `Endings` has no health
check and needs none: the stream's end is delivered. In `Scheduler`, `WF` of
loops, methods and callbacks, and that a transfer that runs is completed
(`Completed`); the lock's own order does the rest. In `Discovery`, `WF` of the
browser's thread, the loop and the window's queue, that a record whose program is
gone expires, and that of the announcements a running program repeats one
arrives again and again; none of who comes, leaves or is typed in. In `Window`,
`WF` of the window's signals, of requests and of their sends, and that a user
answers an open question: it is modal. None of clicks or of the peer. `Recovery`
claims safety only.

That an asyncio loop runs what is ready is true of the platform the documents
name (README.md:41, Windows), whose loop waits for completions. The multicast
socket has a timeout (`peer_discovery.py:144`), so on a selector loop the receive
at `:149` would block the thread without ever yielding.

## 4. Proofs

One theorem assumes more than the named assumptions of the modules:
`AckedStaysStored`, that a file once offered can be read (`~ReadMayFail`). It is
false without, as said below.

### FileTransfer

`FileTransferProofs` holds, for every `NumChunks`, `MaxOps`, `MaxDamage`,
`MaxDrops`, `MaxRefusals` and `ReadMayFail` (assumed only to be naturals and a
Boolean):

* `TypeCorrect`: `Spec => []TypeOK`.
* `ReceiverSafe`: `Spec => []ReceiverInv`. Corollaries `DeliveryWhole`,
  `ConsentKept`, `LeavingForgets`.
* `KeepsPromise`: `Spec => DeliveryPromise`, that is `Delivery`'s `Spec` under
  the mapping.

Argument. `DeliveredWhole` is not inductive: that a full list means a full map
needs `acked \subseteq data`, and that the list is not replaced by an empty one
after the file was written needs that the user is asked once. `ReceiverInv`
adds these: marks are a part of what is stored; the list exists only while the
receiver takes part and after its user agreed; there is at most one offer, none
once the dialog was opened (`AskedOnce`). Steps fall into three classes:
`ReceiverQuiet` (nothing the invariant speaks of changes but for the worse of no
one: states that are not "completed"), `ReceiverLeaves` (the cleanup), and six
steps that need an argument of their own (`OfferStep`). `NextShape` classifies
every step, and both the invariance and the refinement are proved from it.

`SenderProofs`, for the same constants:

* `CompletedHasSentAll`: `Spec => []CompletedSentAll`, by whichever
  coroutine the transfer was completed, by `SentInv`: a chunk marked sent was
  written or dropped, and a coroutine waiting in a drain on the newest list has
  written its chunk, so that what it marks after the wait was written too.
* `RetriesEnd`: `Spec => []RetryCapped`, by `CalmInv`. The cap is tested when a
  chunk is taken, but the count rises also when its failure is reported, so the
  cap holds only if each chunk fails once per round. That needs that one coroutine
  sends (`OneCoroutine`: one yes, ever, and no resume) and that a chunk or the
  answer to it is on the wire once, in one direction (`CountFits`).
* `AckedStaysStored`: on a connection that has held from the start (`Unbroken`),
  `AckedIsStored`. An acknowledgement under way, or marked, speaks of a chunk
  that is stored, or the acceptance that emptied the map travels behind it and
  will make the sender start over (`AckTrue`, `RestartDue`): the stream is
  ordered. After a loss the acceptance may be gone. When the file
  cannot be read as the acceptance arrives, no new list replaces the marked one.

### ConnectionTable

For any number of links, attempts, calls, disconnects, sends and replies, whoever may
refuse, hang or lose a link. `ConnectionTableProofs`: `TypeCorrect`;
`TableSafe`: `Spec => []TableInv`, with `EntriesLive` as corollary.

Argument. `EntryIsLive` (an entry leads to a coroutine that still runs) is kept
by a cleanup only if the entry it deletes is the only one of its connection:
`EntryIsOwn`, every entry stands under the id its connection's Peer object has
now. That holds across a rename only because the old entry is deleted, or, when
the old id belongs to the shared Peer object of outgoing connections, because
all of them stood under that id and had one entry between them. `StageFits` says
that a link nobody opened has no coroutine and that an incoming one keeps its
temporary id until its coroutine runs, so that two of them never share an entry.

`HandshakeProofs`: `HandshakeSafe`: `Spec => []HandshakeInv`, with `KeyAgreement`
as corollary. `KeysAgree` alone says nothing of what is under way: `InboxFits`
adds that a message comes from the other half of its link, KEY_EXCHANGE from one that
has finished its part, and what is encrypted is written with the session key of
an end that has sent its own (`Known`); `PubFits` that an end that waits for
KEY_EXCHANGE has the other's public key. Nothing is needed of the tables.
`EncryptedIsRead` follows: an encrypted message meets the same key, or an end
that is about to have it or is gone, never one that skipped the handshake.

The other theorems of the module speak of the time before the first end
(`Peaceful`: nothing closed, lost, or answered in a handshake), and need both
halves:

* `HandshakeInOrder`: `Spec => []PeaceInv`. `WiresFit`: what is under way to an
  end is, in order, what it has not read yet of HELLO, KEY_EXCHANGE and the rest.
  `CallsFit`: a node has one call at a time on its shared Peer object, which stays
  as the call left it. `EndsFit`: none has gone, one whose coroutine
  is new has a fresh Peer object, one that has read HELLO has its peer in the
  table under `Real`.
* `FirstEndIsAsked`: the step that ends the peace is a disconnect, an answer in a
  handshake, the health check, or the network. No crossing of calls, rename, or
  message of a handshake ends a connection by itself.
* `SecureUntilClosed`: no message is read by an end that skipped the handshake;
  `SkippedHandshake` shows what a disconnect does to that.
* `ReachableUntilClosed`: `Reachable` while nothing is closed, also with the
  health check, which may be what ends it.

### Scheduler

For any ids, jobs, loops, callers and limits. `SchedulerProofs`:
`TypeCorrect`; `SchedulerSafe`: `Spec => []SchedulerInv`, with `LimitsKept`,
`StartUndisturbed`, `OneJobAtATime` as corollaries. The limits and the ids would
be inductive alone, because test and change are one step; that a job stays
active through its callback is not: it needs that whoever sleeps or calls back
holds the lock and nobody else does (`OneInside`).

### Recovery

For any file, any number of lists and crashes. `RecoveryProofs`: `TypeCorrect`,
`NoOrphanRows`, `RowsMirrorList`, `ResumesFromTruth`, `ListedCanResume`, each from
`RecoveryIsInvariant`. `RowsFollow` is not inductive: a new list must find no rows
under its number (`FutureHasNoRows`), and rows come and go for all chunks of a
list at once (`RowsAllOrNone`), which is also why what is loaded covers the file.
`AckedWasAcked` extends the truth of "acked" to the memory, the file and the rows
of every list, whichever of them a crash leaves to be loaded.

### Discovery

For any peers and any number of lapses. `DiscoveryProofs`: `TypeCorrect`,
`ListAgrees`, `NoLineWithoutRow`, from `DiscoveryIsInvariant`. `ListFollowsTable`
speaks of the list after the signals under way; `EmitDecides` and its companions
say how each step moves that. It holds across a step of one thread only because of
where the other is: `HandsAgree`, a thread about to save has its peer in the
table, and a departure not yet announced is not undone, unless the threads
crossed.

### Window

For any transfers, in any number at once, and any number of events.
`WindowProofs`: `TypeCorrect`, `RowsFollow`, `OneQuestionEach`, from
`WindowIsInvariant`. A row can only lag behind a transfer that had one: so a
transfer without a state has no row, question, task or request under way
(`NewIsUntouched`), and a file about to be sent has no state and is sent once
(`SendsAreNew`). That a request is in `_pending_incoming` exactly while one signal
or one question is there is proved over the places of two sequences, one taken
from its front and one stacked on it (`Once`, `Never`). `NextShape` classifies the
steps; most leave rows and questions alone (`Quiet`).

### Only model-checked

All liveness properties, which are out of the prover's reach. `AckedIsStored`
with a file that may become unreadable, and `Reachable` with the health check,
are false and claimed nowhere.

## 5. Not modelled

Of the controller: the response messages nobody sends (`_handle_file_response`,
`_handle_data_ack`) and the statistics. Of the connection manager: `start_server`
and `stop` (the flag `_running` stays true), `broadcast`, more than two peers, the
callbacks to the window. Of discovery: `remove_peer`, which nothing calls. Of the
database: logs and settings, and the transaction a failed statement leaves open
in its thread. Of the window: settings, graphs, the log, the indicators of the
connection, the widgets `_load_history` fills from the loop's thread, and the
process's end after `closeEvent`. Drawing, formatting and logging.

Whole components, with status `not_modelled` in `PROJECT.json`: the STUN client,
a sequence of queries whose result is a label nothing tests; the TURN client,
which nothing calls; the bandwidth estimator, floating-point averages that choose
a chunk size before a transfer starts; the compressor; configuration, helpers,
firewall and logging, which keep no state that others race on. The nonce counter
reaches its four bytes after 2^32 messages of one session, beyond any run.

## 6. What could follow

1. A connection as `FileTransfer` assumes it, as an abstract specification of
   one link of `ConnectionTable`.
2. Several transfers with chunks over one connection, whose handlers share it.
   Messages of one transfer may go over two crossed connections, which is more
   than the ordered stream of `FileTransfer` allows.
