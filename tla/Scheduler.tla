----------------------------- MODULE Scheduler -----------------------------
(***************************************************************************)
(* TransferScheduler (transfer/scheduler.py): a queue of jobs, the jobs    *)
(* being run, and one asyncio lock, which process_queue keeps while it     *)
(* sleeps or awaits a callback.  The lock is granted in the order asked;   *)
(* who finds others waiting joins them, also when it is not held.  What    *)
(* runs under the lock without an await is one step with its acquisition.  *)
(***************************************************************************)
EXTENDS Integers, Sequences, FiniteSets

CONSTANTS
    Id,             \* transfer ids
    Jobs,           \* jobs there may be, with transfer id and priority
    Loop,           \* coroutines of process_queue, one for each start
    Caller,         \* coroutines that call the other methods
    MaxQueueSize,   \* MAX_QUEUE_SIZE
    MaxTransfers,   \* MAX_TRANSFERS
    MaxCalls,       \* bound: calls other than complete_job
    Nobody          \* holder of the lock when it is free

Proc == Loop \cup Caller

ASSUME ProcAssumption == Loop \cap Caller = {} /\ Nobody \notin Proc
ASSUME LimitsAssumption ==
    /\ MaxQueueSize \in Nat /\ MaxTransfers \in Nat
    /\ MaxCalls \in Nat
ASSUME JobsAssumption == Jobs \subseteq [id : Id, prio : Int]

VARIABLES
    jobs,       \* jobs ever accepted, in the order of their timestamps
    queue,      \* those in _queue, by their place in jobs
    active,     \* those in _active
    running,    \* _running
    holder,     \* who has the lock
    waiters,    \* who waits for it, in order
    pc,         \* coroutine -> where it is, see LoopPC
    told,       \* loop -> the job of its callback, or 0
    call,       \* caller -> the method it is in
    calls       \* counter of the bound

jobVars == <<jobs, queue, active>>
lockVars == <<holder, waiters, pc>>
vars == <<jobVars, running, lockVars, told, call, calls>>

Job == 1 .. MaxCalls

\* Not started or between calls; about to test _running; waiting for the
\* lock; asleep with it; in a callback with it; asleep without it.
LoopPC == {"off", "test", "wait", "asleep", "callback", "pause"}
CallerPC == {"off", "wait", "callback"}

Calls == [op : {"add"}, job : Jobs]
            \cup [op : {"complete", "remove"}, id : Id]
            \cup [op : {"clear", "stop"}]
NoCall == [op |-> "none"]

-----------------------------------------------------------------------------
(* The lock.                                                               *)

\* p may take the lock now: it is free, and p is first in line, or there is
\* no line.
FirstInLine(p) ==
    /\ holder = Nobody
    /\ IF pc[p] = "wait" THEN waiters # <<>> /\ Head(waiters) = p
                         ELSE waiters = <<>>

LeaveLine(p) == waiters' = IF pc[p] = "wait" THEN Tail(waiters) ELSE waiters

At(p, l) == pc' = [pc EXCEPT ![p] = l]

\* p leaves the lock free, or keeps it while suspended.  Mutant of Hold: p
\* awaits after the "async with".
Pass(p, l) == LeaveLine(p) /\ At(p, l) /\ UNCHANGED holder
HoldNot(p, l) == LeaveLine(p) /\ At(p, l) /\ UNCHANGED holder
Hold(p, l) == LeaveLine(p) /\ At(p, l) /\ holder' = p

Join(p) ==
    /\ pc[p] # "wait" /\ ~FirstInLine(p)
    /\ waiters' = Append(waiters, p)
    /\ At(p, "wait")
    /\ UNCHANGED holder

-----------------------------------------------------------------------------
(* process_queue.                                                          *)

Start ==
    /\ calls < MaxCalls /\ calls' = calls + 1
    /\ running' = TRUE
    /\ \E p \in Loop : pc[p] = "off" /\ At(p, "test")
    /\ UNCHANGED <<jobVars, holder, waiters, told, call>>

Stopped(p) ==
    /\ pc[p] = "test" /\ ~running /\ At(p, "off")
    /\ UNCHANGED <<jobVars, running, holder, waiters, told, call, calls>>

LoopWaits(p) ==
    /\ pc[p] = "test" /\ running /\ Join(p)
    /\ UNCHANGED <<jobVars, running, told, call, calls>>

\* The lock is granted; _running is not tested again after a wait for it.
LoopEnters(p) ==
    /\ \/ pc[p] = "test" /\ running
       \/ pc[p] = "wait"
    /\ FirstInLine(p)
    /\ UNCHANGED <<jobs, running, call, calls>>

Full == Cardinality(active) >= MaxTransfers

\* At the limit, or with nothing to do, it sleeps with the lock.
SleepHolding(p) ==
    /\ LoopEnters(p)
    /\ Full \/ queue = {}
    /\ Hold(p, "asleep")
    /\ UNCHANGED <<queue, active, told>>

\* heappop: the job of the lowest priority number, among them the oldest.
Before(i, j) ==
    \/ jobs[i].prio < jobs[j].prio
    \/ jobs[i].prio = jobs[j].prio /\ i < j
IsNext(j) == j \in queue /\ \A i \in queue \ {j} : Before(j, i)

ActiveIds == {jobs[j].id : j \in active}

\* A job of that id runs.
IsActive(j) == jobs[j].id \in ActiveIds

\* The start callback, if one is set, is awaited with the lock.
StartJob(p, j) ==
    /\ LoopEnters(p) /\ ~Full /\ IsNext(j) /\ ~IsActive(j)
    /\ queue' = queue \ {j}
    /\ active' = active \cup {j}
    /\ \/ Hold(p, "callback") /\ told' = [told EXCEPT ![p] = j]
       \/ Pass(p, "pause") /\ UNCHANGED told

\* A job whose id is active already is dropped.
DropJob(p, j) ==
    /\ LoopEnters(p) /\ ~Full /\ IsNext(j) /\ IsActive(j)
    /\ queue' = queue \ {j}
    /\ Pass(p, "pause")
    /\ UNCHANGED <<active, told>>

\* Mutant of Wake: the lock is not released.
WakeHolding(p) ==
    /\ pc[p] = "asleep" /\ At(p, "test")
    /\ UNCHANGED <<jobVars, running, holder, waiters, told, call, calls>>
Wake(p) ==
    /\ pc[p] = "asleep" /\ At(p, "test")
    /\ holder' = Nobody
    /\ UNCHANGED <<jobVars, running, waiters, told, call, calls>>

\* Mutant of Unpause: the loop is left after one job.
UnpauseEnds(p) ==
    /\ pc[p] = "pause" /\ At(p, "off")
    /\ UNCHANGED <<jobVars, running, holder, waiters, told, call, calls>>
Unpause(p) ==
    /\ pc[p] = "pause" /\ At(p, "test")
    /\ UNCHANGED <<jobVars, running, holder, waiters, told, call, calls>>

-----------------------------------------------------------------------------
(* Callbacks.                                                              *)

\* One that called the scheduler waits in line for the lock of its caller.
CalledBack(p) == \E i \in DOMAIN waiters : waiters[i] = p

CallBack(p) ==
    /\ pc[p] = "callback" /\ ~CalledBack(p)
    /\ waiters' = Append(waiters, p)
    /\ UNCHANGED <<jobVars, running, holder, pc, told, call, calls>>

\* Mutant of AfterCallback: complete_job sleeps as process_queue does.
AfterCallbackSleep(p) == "pause"
AfterCallback(p) == IF p \in Loop THEN "pause" ELSE "off"

\* It returns, or raises, which is caught.
CallbackDone(p) ==
    /\ pc[p] = "callback" /\ ~CalledBack(p)
    /\ holder' = Nobody
    /\ At(p, AfterCallback(p))
    /\ told' = IF p \in Loop THEN [told EXCEPT ![p] = 0] ELSE told
    /\ call' = IF p \in Caller THEN [call EXCEPT ![p] = NoCall] ELSE call
    /\ UNCHANGED <<jobVars, running, waiters, calls>>

-----------------------------------------------------------------------------
(* The other methods.                                                      *)

\* A coroutine is created; complete_job is called for transfers that run.
Invoke(p, c) ==
    /\ call[p] = NoCall
    /\ \/ c.op = "complete" /\ c.id \in ActiveIds /\ UNCHANGED calls
       \/ c.op # "complete" /\ calls < MaxCalls /\ calls' = calls + 1
    /\ call' = [call EXCEPT ![p] = c]
    /\ UNCHANGED <<jobVars, running, lockVars, told>>

\* stop clears _running before it asks for the lock.
Ask(p) ==
    running' = IF call[p].op = "stop" /\ pc[p] = "off" THEN FALSE ELSE running

CallerWaits(p) ==
    /\ call[p] # NoCall /\ pc[p] = "off" /\ Join(p)
    /\ Ask(p)
    /\ UNCHANGED <<jobVars, told, call, calls>>

Enter(p, op) ==
    /\ call[p].op = op /\ pc[p] \in {"off", "wait"} /\ FirstInLine(p)
    /\ Ask(p)
    /\ UNCHANGED <<told, calls>>

Return(p) == Pass(p, "off") /\ call' = [call EXCEPT ![p] = NoCall]

\* Mutant of HasRoom: one job too many.
HasRoomForOneMore == Cardinality(queue) + Cardinality(active) <= MaxQueueSize
HasRoom == Cardinality(queue) + Cardinality(active) < MaxQueueSize

AddJob(p) ==
    /\ Enter(p, "add")
    /\ \/ /\ HasRoom
          /\ jobs' = Append(jobs, call[p].job)
          /\ queue' = queue \cup {Len(jobs) + 1}
       \/ ~HasRoom /\ UNCHANGED <<jobs, queue>>
    /\ Return(p)
    /\ UNCHANGED active

WithId(S, t) == {j \in S : jobs[j].id = t}

\* Both callbacks, of the job and of the scheduler, if any is set.
CompleteJob(p) ==
    /\ Enter(p, "complete")
    /\ active' = active \ WithId(active, call[p].id)
    /\ \/ Hold(p, "callback") /\ UNCHANGED call
       \/ Return(p)
    /\ UNCHANGED <<jobs, queue>>

\* The active job of that id, else the first of that id in the heap's list.
RemoveJob(p) ==
    LET t == call[p].id
    IN  /\ Enter(p, "remove")
        /\ active' = active \ WithId(active, t)
        /\ IF WithId(active, t) = {} /\ WithId(queue, t) # {}
           THEN \E j \in WithId(queue, t) : queue' = queue \ {j}
           ELSE UNCHANGED queue
        /\ Return(p)
        /\ UNCHANGED jobs

ClearQueue(p) ==
    /\ Enter(p, "clear")
    /\ queue' = {}
    /\ Return(p)
    /\ UNCHANGED <<jobs, active>>

Stop(p) ==
    /\ Enter(p, "stop")
    /\ queue' = {} /\ active' = {}
    /\ Return(p)
    /\ UNCHANGED jobs

-----------------------------------------------------------------------------
Init ==
    /\ jobs = <<>> /\ queue = {} /\ active = {}
    /\ running = FALSE
    /\ holder = Nobody /\ waiters = <<>>
    /\ pc = [p \in Proc |-> "off"]
    /\ told = [p \in Loop |-> 0]
    /\ call = [p \in Caller |-> NoCall]
    /\ calls = 0

ProcessQueue(p) ==
    \/ Stopped(p) \/ LoopWaits(p) \/ SleepHolding(p) \/ Wake(p) \/ Unpause(p)
    \/ \E j \in queue : StartJob(p, j) \/ DropJob(p, j)

Method(p) ==
    \/ CallerWaits(p) \/ AddJob(p) \/ CompleteJob(p) \/ RemoveJob(p)
    \/ ClearQueue(p) \/ Stop(p)

Next ==
    \/ Start
    \/ \E p \in Loop : ProcessQueue(p)
    \/ \E p \in Proc : CallbackDone(p) \/ CallBack(p)
    \/ \E p \in Caller : Method(p) \/ (\E c \in Calls : Invoke(p, c))

\* Coroutines go on, callbacks return, and a transfer that runs is completed.
Completed(t) == \E p \in Caller : Invoke(p, [op |-> "complete", id |-> t])
Fairness ==
    /\ \A p \in Loop : WF_vars(ProcessQueue(p))
    /\ \A p \in Caller : WF_vars(Method(p))
    /\ \A p \in Proc : WF_vars(CallbackDone(p))
    /\ \A t \in Id : WF_vars(Completed(t))

Spec == Init /\ [][Next]_vars
FairSpec == Spec /\ Fairness

-----------------------------------------------------------------------------
TypeOK ==
    /\ jobs \in Seq(Jobs)
    /\ queue \subseteq 1 .. Len(jobs) /\ active \subseteq 1 .. Len(jobs)
    /\ running \in BOOLEAN
    /\ holder \in Proc \cup {Nobody}
    /\ waiters \in Seq(Proc)
    /\ pc \in [Proc -> LoopPC] /\ \A p \in Caller : pc[p] \in CallerPC
    /\ told \in [Loop -> Nat]
    /\ call \in [Caller -> Calls \cup {NoCall}]
    /\ calls \in Nat

(* With any number of loops (each start creates one, and one that sleeps   *)
(* through stop and start goes on) and any callers, the scheduler accepts  *)
(* and runs no more jobs than its limits (scheduler.py:45, 64).            *)
WithinLimits ==
    /\ Cardinality(queue) + Cardinality(active) <= MaxQueueSize
    /\ Cardinality(active) <= MaxTransfers

(* While the callback that starts a job runs, the job is active: nobody    *)
(* completes, removes or stops it before it has started (scheduler.py:63,  *)
(* 72-76).                                                                 *)
StartIsUndisturbed ==
    \A p \in Loop : pc[p] = "callback" => told[p] \in active

(* No two jobs run under one transfer id, though several may be queued:    *)
(* complete_job means one job (scheduler.py:71, 83).                       *)
OneJobPerId ==
    \A i, j \in active : jobs[i].id = jobs[j].id => i = j

\* What makes it so: who is inside has the lock, and nobody else.
Inside == {"asleep", "callback"}
OneInside == \A p \in Proc : pc[p] \in Inside <=> holder = p

(* The inductive invariant: the lock excludes, so that limits tested and   *)
(* ids looked up are still true when the tables are changed, and after the *)
(* callback too (scheduler.py:63-78).                                      *)
SchedulerInv ==
    OneInside /\ WithinLimits /\ StartIsUndisturbed /\ OneJobPerId

\* A callback that called the scheduler waits for the lock of its own caller.
SelfWait == \E p \in Proc : pc[p] = "callback" /\ CalledBack(p)

(* Who asks for the lock gets it, however often the loops sleep with it,   *)
(* unless a callback waits for itself (scheduler.py:63-69, 76).            *)
LockGranted ==
    \A p \in Proc : pc[p] = "wait" ~> pc[p] # "wait" \/ SelfWait

(* A queued job is taken by a loop, also when it has to wait at the limit  *)
(* for a completion, unless the scheduler stops or waits for itself        *)
(* (scheduler.py:61-79), or a later job has the higher priority: a steady  *)
(* supply of such jobs starves it, which the heap allows (scheduler.py:48, *)
(* 67).  Jobs that run are completed.                                      *)
Overtaken(j) ==
    \E i \in DOMAIN jobs : i > j /\ jobs[i].prio < jobs[j].prio
QueuedIsTaken ==
    \A j \in Job :
      j \in queue /\ running
        ~> j \notin queue \/ ~running \/ SelfWait \/ Overtaken(j)
=============================================================================
