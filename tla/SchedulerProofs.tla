-------------------------- MODULE SchedulerProofs --------------------------
(***************************************************************************)
(* Safety of Scheduler for any loops, callers, ids, priorities and limits, *)
(* also when callbacks call the scheduler.  A step of the lock is classed  *)
(* by what it does to it (Pass, Hold, Join), a step of the tables by what  *)
(* it does to the number of jobs; the theorems put the two together.       *)
(***************************************************************************)
EXTENDS Scheduler, FiniteSetTheorems, TLAPS

-----------------------------------------------------------------------------
(* Types.                                                                  *)

\* Pass, Hold and Join keep the types of the lock's variables.
LEMMA LockTyped ==
    ASSUME TypeOK, NEW p \in Proc, NEW l \in LoopPC,
           p \in Caller => l \in CallerPC,
           Pass(p, l) \/ Hold(p, l) \/ (l = "wait" /\ Join(p)),
           pc[p] = "wait" => FirstInLine(p)
    PROVE  /\ holder' \in Proc \cup {Nobody}
           /\ waiters' \in Seq(Proc)
           /\ pc' \in [Proc -> LoopPC] /\ \A q \in Caller : pc'[q] \in CallerPC
  <1>1. pc' = [pc EXCEPT ![p] = l]
    BY DEF Pass, Hold, Join, At
  <1>2. pc' \in [Proc -> LoopPC] /\ \A q \in Caller : pc'[q] \in CallerPC
    BY <1>1 DEF TypeOK, Proc
  <1>3. holder' \in Proc \cup {Nobody}
    BY DEF Pass, Hold, Join, TypeOK
  <1>4. waiters' \in Seq(Proc)
    <2>1. CASE Join(p)
      BY <2>1 DEF Join, TypeOK
    <2>2. CASE LeaveLine(p)
      BY <2>2 DEF LeaveLine, TypeOK, FirstInLine
    <2>3. QED
      BY <2>1, <2>2 DEF Pass, Hold
  <1>5. QED
    BY <1>2, <1>3, <1>4

\* The tables' part of TypeOK.
TablesOK ==
    /\ jobs \in Seq(Jobs)
    /\ queue \subseteq 1 .. Len(jobs) /\ active \subseteq 1 .. Len(jobs)

LEMMA NoCallIsTyped == NoCall \in Calls \cup {NoCall}
  OBVIOUS

\* A call of add carries a job.
LEMMA AddCall ==
    ASSUME NEW c \in Calls \cup {NoCall}, c.op = "add"
    PROVE  c.job \in Jobs
  BY DEF Calls, NoCall

LEMMA LoopStepTyped ==
    ASSUME TypeOK, NEW p \in Loop, ProcessQueue(p)
    PROVE  TypeOK'
  <1> USE ProcAssumption
  <1>0. p \in Proc /\ p \notin Caller
    BY DEF Proc
  <1>1. ASSUME Stopped(p) \/ Unpause(p) \/ Wake(p)
        PROVE  TypeOK'
    <2>1. PICK l \in LoopPC : pc' = [pc EXCEPT ![p] = l]
      BY <1>1 DEF Stopped, Unpause, Wake, At, LoopPC
    <2>2. /\ UNCHANGED <<jobVars, running, waiters, told, call, calls>>
          /\ holder' \in {holder, Nobody}
      BY <1>1 DEF Stopped, Unpause, Wake
    <2>3. pc' \in [Proc -> LoopPC] /\ \A q \in Caller : pc'[q] \in CallerPC
      BY <1>0, <2>1 DEF TypeOK, Proc
    <2>4. QED
      BY <2>2, <2>3 DEF TypeOK, jobVars
  <1>2. ASSUME LoopWaits(p)
        PROVE  TypeOK'
    <2>1. Join(p) /\ "wait" \in LoopPC /\ UNCHANGED <<jobVars, running, told, call, calls>>
      BY <1>2 DEF LoopWaits, LoopPC
    <2>2. pc[p] # "wait"
      BY <2>1 DEF Join
    <2>3. QED
      BY <1>0, <2>1, <2>2, LockTyped DEF TypeOK, jobVars
  <1>3. ASSUME SleepHolding(p)
        PROVE  TypeOK'
    <2>1. /\ Hold(p, "asleep") /\ "asleep" \in LoopPC /\ FirstInLine(p)
          /\ UNCHANGED <<jobVars, running, told, call, calls>>
      BY <1>3 DEF SleepHolding, LoopEnters, LoopPC, jobVars
    <2>2. QED
      BY <1>0, <2>1, LockTyped DEF TypeOK, jobVars
  <1>4. ASSUME NEW j \in queue, StartJob(p, j)
        PROVE  TypeOK'
    <2>1. /\ FirstInLine(p)
          /\ UNCHANGED <<jobs, running, call, calls>>
          /\ queue' = queue \ {j} /\ active' = active \cup {j}
      BY <1>4 DEF StartJob, LoopEnters
    <2>2. TablesOK'
      BY <2>1 DEF TypeOK, TablesOK
    <2>3. j \in Nat
      BY DEF TypeOK
    <2>4. told' \in [Loop -> Nat]
      BY <1>4, <2>3 DEF StartJob, TypeOK
    <2>5. Hold(p, "callback") \/ Pass(p, "pause")
      BY <1>4 DEF StartJob
    <2>6. "callback" \in LoopPC /\ "pause" \in LoopPC
      BY DEF LoopPC
    <2>7. QED
      BY <1>0, <2>1, <2>2, <2>4, <2>5, <2>6, LockTyped DEF TypeOK, TablesOK
  <1>5. ASSUME NEW j \in queue, DropJob(p, j)
        PROVE  TypeOK'
    <2>1. /\ FirstInLine(p) /\ Pass(p, "pause") /\ "pause" \in LoopPC
          /\ UNCHANGED <<jobs, running, told, call, calls, active>>
          /\ queue' = queue \ {j}
      BY <1>5 DEF DropJob, LoopEnters, LoopPC
    <2>2. QED
      BY <1>0, <2>1, LockTyped DEF TypeOK
  <1>6. QED
    BY <1>1, <1>2, <1>3, <1>4, <1>5 DEF ProcessQueue

\* What a method that enters leaves of the call and the lock.
LEMMA MethodLockTyped ==
    ASSUME TypeOK, NEW p \in Caller,
           pc[p] = "wait" => FirstInLine(p),
           Ask(p), UNCHANGED <<told, calls>>,
           Return(p) \/ (Hold(p, "callback") /\ UNCHANGED call),
           TablesOK'
    PROVE  TypeOK'
  <1>0. p \in Proc /\ {"off", "callback"} \subseteq LoopPC \cap CallerPC
    BY DEF Proc, LoopPC, CallerPC
  <1>1. Pass(p, "off") \/ Hold(p, "callback")
    BY DEF Return
  <1>2. call' \in [Caller -> Calls \cup {NoCall}]
    BY NoCallIsTyped DEF Return, TypeOK
  <1>3. running' \in BOOLEAN
    BY DEF Ask, TypeOK
  <1>4. QED
    BY <1>0, <1>1, <1>2, <1>3, LockTyped DEF TypeOK, TablesOK

LEMMA MethodTyped ==
    ASSUME TypeOK, NEW p \in Caller, Method(p)
    PROVE  TypeOK'
  <1>0. p \in Proc
    BY DEF Proc
  <1>1. ASSUME CallerWaits(p)
        PROVE  TypeOK'
    <2>1. /\ Join(p) /\ Ask(p) /\ pc[p] # "wait"
          /\ UNCHANGED <<jobVars, told, call, calls>>
      BY <1>1 DEF CallerWaits, Join
    <2>2. "wait" \in LoopPC \cap CallerPC
      BY DEF LoopPC, CallerPC
    <2>3. running' \in BOOLEAN
      BY <2>1 DEF Ask, TypeOK
    <2>4. QED
      BY <1>0, <2>1, <2>2, <2>3, LockTyped DEF TypeOK, jobVars
  <1>2. ASSUME AddJob(p)
        PROVE  TypeOK'
    <2>1. FirstInLine(p) /\ Ask(p) /\ UNCHANGED <<told, calls, active>> /\ Return(p)
      BY <1>2 DEF AddJob, Enter
    <2>3. call[p].job \in Jobs
      BY <1>2, AddCall DEF AddJob, Enter, TypeOK
    <2>4. TablesOK'
      <3>1. CASE UNCHANGED <<jobs, queue>>
        BY <2>1, <3>1 DEF TypeOK, TablesOK
      <3>2. CASE /\ jobs' = Append(jobs, call[p].job)
                 /\ queue' = queue \cup {Len(jobs) + 1}
        <4>1. jobs' \in Seq(Jobs) /\ Len(jobs') = Len(jobs) + 1 /\ Len(jobs) \in Nat
          BY <2>3, <3>2 DEF TypeOK
        <4>2. /\ queue \subseteq 1 .. Len(jobs) /\ active \subseteq 1 .. Len(jobs)
              /\ active' = active
          BY <2>1 DEF TypeOK
        <4>3. 1 .. Len(jobs) \subseteq 1 .. Len(jobs') /\ Len(jobs) + 1 \in 1 .. Len(jobs')
          BY <4>1
        <4>4. queue' \subseteq 1 .. Len(jobs') /\ active' \subseteq 1 .. Len(jobs')
          BY <3>2, <4>2, <4>3
        <4>5. QED
          BY <4>1, <4>4 DEF TablesOK
      <3>3. QED
        BY <1>2, <3>1, <3>2 DEF AddJob
    <2>5. QED
      BY <2>1, <2>4, MethodLockTyped
  <1>3. ASSUME CompleteJob(p)
        PROVE  TypeOK'
    <2>1. /\ FirstInLine(p) /\ Ask(p) /\ UNCHANGED <<told, calls, jobs, queue>>
          /\ Return(p) \/ (Hold(p, "callback") /\ UNCHANGED call)
          /\ active' \subseteq active
      BY <1>3 DEF CompleteJob, Enter
    <2>2. QED
      BY <2>1, MethodLockTyped DEF TypeOK, TablesOK
  <1>4. ASSUME RemoveJob(p) \/ ClearQueue(p) \/ Stop(p)
        PROVE  TypeOK'
    <2>1. /\ FirstInLine(p) /\ Ask(p) /\ UNCHANGED <<told, calls, jobs>>
          /\ Return(p)
          /\ active' \subseteq active /\ queue' \subseteq queue
      BY <1>4 DEF RemoveJob, ClearQueue, Stop, Enter
    <2>2. QED
      BY <2>1, MethodLockTyped DEF TypeOK, TablesOK
  <1>5. QED
    BY <1>1, <1>2, <1>3, <1>4 DEF Method

LEMMA OtherStepTyped ==
    ASSUME TypeOK,
           \/ Start
           \/ \E p \in Proc : CallbackDone(p) \/ CallBack(p)
           \/ \E p \in Caller, c \in Calls : Invoke(p, c)
    PROVE  TypeOK'
  <1> USE ProcAssumption
  <1>1. ASSUME Start
        PROVE  TypeOK'
    BY <1>1 DEF TypeOK, Start, At, LoopPC, jobVars, Proc
  <1>2. ASSUME NEW p \in Proc, CallbackDone(p)
        PROVE  TypeOK'
    <2>1. /\ UNCHANGED <<jobVars, running, waiters, calls>> /\ holder' = Nobody
          /\ pc' = [pc EXCEPT ![p] = AfterCallback(p)]
          /\ told' = told \/ (p \in Loop /\ told' = [told EXCEPT ![p] = 0])
          /\ call' = call \/ (p \in Caller /\ call' = [call EXCEPT ![p] = NoCall])
      BY <1>2 DEF CallbackDone, At
    <2>2. /\ pc' \in [Proc -> LoopPC]
          /\ \A q \in Caller : pc'[q] \in CallerPC
      BY <2>1 DEF TypeOK, AfterCallback, LoopPC, CallerPC, Proc
    <2>3. told' \in [Loop -> Nat]
      BY <2>1 DEF TypeOK
    <2>4. call' \in [Caller -> Calls \cup {NoCall}]
      BY <2>1, NoCallIsTyped DEF TypeOK
    <2>5. QED
      BY <2>1, <2>2, <2>3, <2>4 DEF TypeOK, jobVars
  <1>3. ASSUME NEW p \in Proc, CallBack(p)
        PROVE  TypeOK'
    BY <1>3 DEF TypeOK, CallBack, jobVars
  <1>4. ASSUME NEW p \in Caller, NEW c \in Calls, Invoke(p, c)
        PROVE  TypeOK'
    BY <1>4 DEF TypeOK, Invoke, jobVars, lockVars
  <1>5. QED
    BY <1>1, <1>2, <1>3, <1>4

\* Every variable keeps its type, whatever is called and in whatever order
\* the lock is asked for (scheduler.py).
THEOREM TypeCorrect == Spec => []TypeOK
  <1>1. Init => TypeOK
    <2> SUFFICES ASSUME Init
                 PROVE  TypeOK
      OBVIOUS
    <2>1. pc \in [Proc -> LoopPC] /\ \A p \in Caller : pc[p] \in CallerPC
      BY DEF Init, LoopPC, CallerPC, Proc
    <2>2. call \in [Caller -> Calls \cup {NoCall}]
      BY NoCallIsTyped DEF Init
    <2>3. TablesOK
      BY DEF Init, TablesOK
    <2>4. told \in [Loop -> Nat] /\ calls \in Nat
      BY DEF Init
    <2>5. running \in BOOLEAN /\ holder \in Proc \cup {Nobody}
      BY Zenon DEF Init
    <2>6. waiters \in Seq(Proc)
      BY DEF Init
    <2>7. QED
      BY <2>1, <2>2, <2>3, <2>4, <2>5, <2>6 DEF TypeOK, TablesOK
  <1>2. TypeOK /\ [Next]_vars => TypeOK'
    <2> SUFFICES ASSUME TypeOK, [Next]_vars
                 PROVE  TypeOK'
      OBVIOUS
    <2>1. CASE UNCHANGED vars
      BY <2>1 DEF TypeOK, vars, jobVars, lockVars
    <2>2. CASE Next
      BY <2>2, LoopStepTyped, MethodTyped, OtherStepTyped DEF Next
    <2>3. QED
      BY <2>1, <2>2
  <1>3. QED
    BY <1>1, <1>2, PTL DEF Spec

-----------------------------------------------------------------------------
(* The lock.                                                               *)

\* What a step of coroutine p does to the lock: it enters and stays or
\* leaves at once, it goes on outside, or it gives the lock back.
Enters(p) ==
    /\ holder = Nobody
    /\ \/ \E l \in LoopPC \cap Inside : Hold(p, l)
       \/ \E l \in LoopPC \ Inside : Pass(p, l)
StaysOut(p) ==
    /\ pc[p] \notin Inside /\ UNCHANGED holder
    /\ \E l \in LoopPC \ Inside : pc' = [pc EXCEPT ![p] = l]
GivesBack(p) ==
    /\ pc[p] \in Inside /\ holder' = Nobody
    /\ \E l \in LoopPC \ Inside : pc' = [pc EXCEPT ![p] = l]

LEMMA LockKept ==
    ASSUME TypeOK, OneInside, NEW p \in Proc,
           Enters(p) \/ StaysOut(p) \/ GivesBack(p)
    PROVE  OneInside'
  <1> USE ProcAssumption
  <1>1. pc \in [Proc -> LoopPC]
    BY DEF TypeOK
  <1>2. CASE Enters(p)
    <2>1. PICK l \in LoopPC : \/ Hold(p, l) /\ l \in Inside
                              \/ Pass(p, l) /\ l \notin Inside
      BY <1>2 DEF Enters
    <2>2. /\ holder = Nobody
          /\ pc' = [pc EXCEPT ![p] = l]
          /\ holder' = IF l \in Inside THEN p ELSE Nobody
      BY <1>2, <2>1 DEF Enters, Hold, Pass, At
    <2>3. QED
      BY <1>1, <2>2 DEF OneInside
  <1>3. CASE StaysOut(p)
    BY <1>1, <1>3 DEF StaysOut, OneInside
  <1>4. CASE GivesBack(p)
    BY <1>1, <1>4 DEF GivesBack, OneInside
  <1>5. QED
    BY <1>2, <1>3, <1>4

\* Every step that moves a coroutine does one of the three.
LEMMA LoopLock ==
    ASSUME TypeOK, NEW p \in Loop, ProcessQueue(p)
    PROVE  Enters(p) \/ StaysOut(p) \/ GivesBack(p)
  <1>1. CASE Stopped(p) \/ LoopWaits(p) \/ Unpause(p)
    BY <1>1 DEF Stopped, LoopWaits, Unpause, Join, At, StaysOut, Inside, LoopPC
  <1>2. CASE Wake(p)
    BY <1>2 DEF Wake, At, GivesBack, Inside, LoopPC
  <1>3. CASE SleepHolding(p)
    <2>1. holder = Nobody /\ Hold(p, "asleep")
      BY <1>3 DEF SleepHolding, LoopEnters, FirstInLine
    <2>2. "asleep" \in LoopPC /\ "asleep" \in Inside
      BY DEF LoopPC, Inside
    <2>3. QED
      BY <2>1, <2>2 DEF Enters
  <1>4. CASE \E j \in queue : StartJob(p, j) \/ DropJob(p, j)
    <2>1. holder = Nobody /\ (Hold(p, "callback") \/ Pass(p, "pause"))
      BY <1>4 DEF StartJob, DropJob, LoopEnters, FirstInLine
    <2>2. /\ "callback" \in LoopPC /\ "callback" \in Inside
          /\ "pause" \in LoopPC /\ "pause" \notin Inside
      BY DEF LoopPC, Inside
    <2>3. QED
      BY <2>1, <2>2 DEF Enters
  <1>5. QED
    BY <1>1, <1>2, <1>3, <1>4 DEF ProcessQueue

LEMMA MethodLock ==
    ASSUME TypeOK, NEW p \in Caller, Method(p)
    PROVE  Enters(p) \/ StaysOut(p)
  <1>1. CASE CallerWaits(p)
    BY <1>1 DEF CallerWaits, Join, At, StaysOut, Inside, LoopPC
  <1>2. CASE AddJob(p) \/ CompleteJob(p) \/ RemoveJob(p) \/ ClearQueue(p) \/ Stop(p)
    <2>1. holder = Nobody /\ (Hold(p, "callback") \/ Pass(p, "off"))
      BY <1>2 DEF AddJob, CompleteJob, RemoveJob, ClearQueue, Stop, Enter, Return,
                  FirstInLine
    <2>2. /\ "callback" \in LoopPC /\ "callback" \in Inside
          /\ "off" \in LoopPC /\ "off" \notin Inside
      BY DEF LoopPC, Inside
    <2>3. QED
      BY <2>1, <2>2 DEF Enters
  <1>3. QED
    BY <1>1, <1>2 DEF Method

LEMMA CallbackLock ==
    ASSUME TypeOK, NEW p \in Proc, CallbackDone(p)
    PROVE  GivesBack(p)
  <1>1. AfterCallback(p) \in LoopPC \ Inside
    BY DEF AfterCallback, LoopPC, Inside
  <1>2. QED
    BY <1>1 DEF CallbackDone, At, GivesBack, Inside

-----------------------------------------------------------------------------
(* The tables.                                                             *)

LEMMA Finite ==
    ASSUME TypeOK
    PROVE  /\ IsFiniteSet(queue) /\ Cardinality(queue) \in Nat
           /\ IsFiniteSet(active) /\ Cardinality(active) \in Nat
  <1>1. Len(jobs) \in Nat
    BY DEF TypeOK
  <1>2. IsFiniteSet(1 .. Len(jobs))
    BY <1>1, FS_Interval
  <1>3. IsFiniteSet(queue) /\ IsFiniteSet(active)
    BY <1>2, FS_Subset DEF TypeOK
  <1>4. QED
    BY <1>3, FS_CardinalityType

\* Tables that only lose jobs stay within the limits, with one per id.
LEMMA Shrink ==
    ASSUME TypeOK, WithinLimits, OneJobPerId, UNCHANGED jobs,
           queue' \subseteq queue, active' \subseteq active
    PROVE  WithinLimits' /\ OneJobPerId'
  <1> USE LimitsAssumption
  <1>1. /\ IsFiniteSet(queue') /\ Cardinality(queue') <= Cardinality(queue)
        /\ IsFiniteSet(active') /\ Cardinality(active') <= Cardinality(active)
    BY Finite, FS_Subset
  <1>2. Cardinality(queue') \in Nat /\ Cardinality(active') \in Nat
    BY <1>1, FS_CardinalityType
  <1>3. WithinLimits'
    BY <1>1, <1>2, Finite DEF WithinLimits
  <1>4. OneJobPerId'
    BY DEF OneJobPerId
  <1>5. QED
    BY <1>3, <1>4

LEMMA StartKeeps ==
    ASSUME TypeOK, WithinLimits, OneJobPerId,
           NEW p \in Loop, NEW j \in queue, StartJob(p, j)
    PROVE  WithinLimits' /\ OneJobPerId'
  <1> USE LimitsAssumption
  <1>1. /\ queue' = queue \ {j} /\ active' = active \cup {j} /\ jobs' = jobs
        /\ Cardinality(active) < MaxTransfers
        /\ jobs[j].id \notin ActiveIds
    BY Finite DEF StartJob, LoopEnters, Full, IsActive
  <1>2. j \notin active
    BY <1>1 DEF ActiveIds
  <1>3. Cardinality(queue') = Cardinality(queue) - 1
    BY <1>1, Finite, FS_RemoveElement
  <1>4. Cardinality(active') = Cardinality(active) + 1
    BY <1>1, <1>2, Finite, FS_AddElement
  <1>5. WithinLimits'
    BY <1>1, <1>3, <1>4, Finite DEF WithinLimits
  <1>6. OneJobPerId'
    BY <1>1 DEF OneJobPerId, ActiveIds
  <1>7. QED
    BY <1>5, <1>6

LEMMA AddKeeps ==
    ASSUME TypeOK, WithinLimits, OneJobPerId, NEW p \in Caller, AddJob(p)
    PROVE  WithinLimits' /\ OneJobPerId'
  <1> USE LimitsAssumption
  <1>1. CASE UNCHANGED <<jobs, queue>>
    BY <1>1, Shrink DEF AddJob
  <1>2. CASE /\ HasRoom
             /\ jobs' = Append(jobs, call[p].job)
             /\ queue' = queue \cup {Len(jobs) + 1}
    <2>1. active' = active
      BY DEF AddJob
    <2>2. Cardinality(queue') <= Cardinality(queue) + 1 /\ Cardinality(queue') \in Nat
      <3>1. IsFiniteSet(queue') /\ Cardinality(queue') <= Cardinality(queue) + 1
        <4>1. IsFiniteSet(queue) /\ Cardinality(queue) \in Nat
          BY Finite
        <4>2. PICK x : queue' = queue \cup {x}
          BY <1>2
        <4>3. /\ IsFiniteSet(queue \cup {x})
              /\ Cardinality(queue \cup {x}) =
                   IF x \in queue THEN Cardinality(queue) ELSE Cardinality(queue) + 1
          BY <4>1, FS_AddElement
        <4>4. QED
          BY <4>1, <4>2, <4>3
      <3>2. QED
        BY <3>1, FS_CardinalityType
    <2>3. WithinLimits'
      BY <1>2, <2>1, <2>2, Finite DEF WithinLimits, HasRoom
    <2>4. \A i \in active : jobs'[i] = jobs[i]
      BY <1>2 DEF TypeOK
    <2>5. OneJobPerId'
      BY <2>1, <2>4 DEF OneJobPerId
    <2>6. QED
      BY <2>3, <2>5
  <1>3. QED
    BY <1>1, <1>2 DEF AddJob

\* A method is only run by who can enter; then no start callback runs.
LEMMA AloneInside ==
    ASSUME TypeOK, OneInside, holder = Nobody, NEW p \in Loop
    PROVE  pc[p] # "callback"
  BY ProcAssumption DEF OneInside, Inside, Proc

-----------------------------------------------------------------------------
(* The inductive step.                                                     *)

LEMMA LoopKeeps ==
    ASSUME TypeOK, SchedulerInv, NEW p \in Loop, ProcessQueue(p)
    PROVE  SchedulerInv'
  <1>0. p \in Proc
    BY DEF Proc
  <1>1. OneInside'
    BY <1>0, LoopLock, LockKept DEF SchedulerInv
  <1>2. WithinLimits' /\ OneJobPerId'
    <2>1. CASE \E j \in queue : StartJob(p, j)
      BY <2>1, StartKeeps DEF SchedulerInv
    <2>2. CASE \E j \in queue : DropJob(p, j)
      BY <2>2, Shrink DEF SchedulerInv, DropJob, LoopEnters
    <2>3. CASE Stopped(p) \/ LoopWaits(p) \/ SleepHolding(p) \/ Wake(p) \/ Unpause(p)
      <3>1. UNCHANGED jobVars
        BY <2>3 DEF Stopped, LoopWaits, SleepHolding, LoopEnters, Wake, Unpause, jobVars
      <3>2. QED
        BY <3>1, Shrink DEF SchedulerInv, jobVars
    <2>4. QED
      BY <2>1, <2>2, <2>3 DEF ProcessQueue
  <1>3. StartIsUndisturbed'
    <2> SUFFICES ASSUME NEW q \in Loop, pc'[q] = "callback"
                 PROVE  told'[q] \in active'
      BY DEF StartIsUndisturbed
    <2>1. /\ active \subseteq active'
          /\ \/ \E l \in LoopPC \ {"callback"} : pc' = [pc EXCEPT ![p] = l] /\ told' = told
             \/ \E j \in active' : /\ pc' = [pc EXCEPT ![p] = "callback"]
                                   /\ told' = [told EXCEPT ![p] = j]
      BY DEF ProcessQueue, Stopped, LoopWaits, SleepHolding, LoopEnters, Wake, Unpause,
             StartJob, DropJob, Join, Hold, Pass, At, LoopPC, jobVars
    <2>2. pc \in [Proc -> LoopPC] /\ told \in [Loop -> Nat] /\ q \in Proc
      BY DEF TypeOK, Proc
    <2>3. pc[q] = "callback" => told[q] \in active
      BY DEF SchedulerInv, StartIsUndisturbed
    <2>4. QED
      BY <1>0, <2>1, <2>2, <2>3
  <1>4. QED
    BY <1>1, <1>2, <1>3 DEF SchedulerInv

LEMMA MethodKeeps ==
    ASSUME TypeOK, SchedulerInv, NEW p \in Caller, Method(p)
    PROVE  SchedulerInv'
  <1> USE ProcAssumption
  <1>0. p \in Proc /\ p \notin Loop
    BY DEF Proc
  <1>1. OneInside'
    BY <1>0, MethodLock, LockKept DEF SchedulerInv
  <1>2. WithinLimits' /\ OneJobPerId'
    <2>1. CASE AddJob(p)
      BY <2>1, AddKeeps DEF SchedulerInv
    <2>2. CASE CallerWaits(p)
      <3>1. UNCHANGED <<jobs, queue, active>>
        BY <2>2 DEF CallerWaits, jobVars
      <3>2. QED
        BY <3>1, Shrink DEF SchedulerInv
    <2>3. CASE CompleteJob(p) \/ RemoveJob(p) \/ ClearQueue(p) \/ Stop(p)
      <3>1. jobs' = jobs /\ queue' \subseteq queue /\ active' \subseteq active
        BY <2>3 DEF CompleteJob, RemoveJob, ClearQueue, Stop
      <3>2. QED
        BY <3>1, Shrink DEF SchedulerInv
    <2>4. QED
      BY <2>1, <2>2, <2>3 DEF Method
  <1>3. StartIsUndisturbed'
    <2> SUFFICES ASSUME NEW q \in Loop, pc'[q] = "callback"
                 PROVE  told'[q] \in active'
      BY DEF StartIsUndisturbed
    <2>1. q \in Proc /\ q # p
      BY <1>0 DEF Proc
    <2>2. told' = told /\ \E l : pc' = [pc EXCEPT ![p] = l]
      BY DEF Method, CallerWaits, AddJob, CompleteJob, RemoveJob, ClearQueue, Stop, Enter,
             Return, Hold, Pass, Join, At
    <2>3. pc[q] = "callback"
      BY <2>1, <2>2 DEF TypeOK
    <2>4. holder # Nobody
      BY <2>3, AloneInside DEF SchedulerInv
    <2>5. CallerWaits(p)
      BY <2>4 DEF Method, AddJob, CompleteJob, RemoveJob, ClearQueue, Stop, Enter, FirstInLine
    <2>6. active' = active
      BY <2>5 DEF CallerWaits, jobVars
    <2>7. QED
      BY <2>2, <2>3, <2>6 DEF SchedulerInv, StartIsUndisturbed
  <1>4. QED
    BY <1>1, <1>2, <1>3 DEF SchedulerInv

LEMMA OtherKeeps ==
    ASSUME TypeOK, SchedulerInv,
           \/ Start
           \/ \E p \in Proc : CallbackDone(p) \/ CallBack(p)
           \/ \E p \in Caller, c \in Calls : Invoke(p, c)
           \/ UNCHANGED vars
    PROVE  SchedulerInv'
  <1>0. UNCHANGED <<jobs, queue, active>>
    BY DEF Start, CallbackDone, CallBack, Invoke, vars, jobVars
  <1>1. WithinLimits' /\ OneJobPerId'
    BY <1>0, Shrink DEF SchedulerInv
  <1>2. CASE Start
    <2>1. PICK p \in Loop : pc[p] = "off" /\ pc' = [pc EXCEPT ![p] = "test"]
      BY <1>2 DEF Start, At
    <2>2. holder' = holder /\ told' = told
      BY <1>2 DEF Start
    <2>3. p \in Proc /\ StaysOut(p)
      BY <2>1, <2>2 DEF Proc, StaysOut, Inside, LoopPC
    <2>4. OneInside'
      BY <2>3, LockKept DEF SchedulerInv
    <2>5. \A q \in Loop : pc'[q] = "callback" => pc[q] = "callback"
      BY <2>1 DEF TypeOK, Proc
    <2>6. QED
      BY <1>0, <1>1, <2>2, <2>4, <2>5 DEF SchedulerInv, StartIsUndisturbed
  <1>3. ASSUME NEW p \in Proc, CallbackDone(p)
        PROVE  SchedulerInv'
    <2>1. OneInside'
      BY <1>3, CallbackLock, LockKept DEF SchedulerInv
    <2>2. AfterCallback(p) # "callback" /\ pc' = [pc EXCEPT ![p] = AfterCallback(p)]
      BY <1>3 DEF CallbackDone, At, AfterCallback
    <2>3. \A q \in Loop : q # p => told'[q] = told[q]
      BY <1>3 DEF CallbackDone, TypeOK
    <2>4. \A q \in Loop : pc'[q] = "callback" => q # p /\ pc[q] = "callback"
      BY <2>2 DEF TypeOK, Proc
    <2>5. QED
      BY <1>0, <1>1, <2>1, <2>3, <2>4 DEF SchedulerInv, StartIsUndisturbed
  <1>4. CASE \/ \E p \in Proc : CallBack(p)
             \/ \E p \in Caller, c \in Calls : Invoke(p, c)
             \/ UNCHANGED vars
    <2>1. UNCHANGED <<pc, holder, told>>
      BY <1>4 DEF CallBack, Invoke, vars, lockVars
    <2>2. QED
      BY <1>0, <1>1, <2>1 DEF SchedulerInv, OneInside, StartIsUndisturbed
  <1>5. QED
    BY <1>2, <1>3, <1>4

\* The inductive invariant (scheduler.py:63-78).
THEOREM SchedulerSafe == Spec => []SchedulerInv
  <1>1. Init => SchedulerInv
    <2> SUFFICES ASSUME Init
                 PROVE  SchedulerInv
      OBVIOUS
    <2>1. OneInside
      BY ProcAssumption DEF Init, OneInside, Inside
    <2>2. WithinLimits
      BY FS_EmptySet, LimitsAssumption DEF Init, WithinLimits
    <2>3. StartIsUndisturbed /\ OneJobPerId
      BY DEF Init, StartIsUndisturbed, OneJobPerId, Proc
    <2>4. QED
      BY <2>1, <2>2, <2>3 DEF SchedulerInv
  <1>2. TypeOK /\ SchedulerInv /\ [Next]_vars => SchedulerInv'
    BY LoopKeeps, MethodKeeps, OtherKeeps DEF Next
  <1>3. QED
    BY <1>1, <1>2, TypeCorrect, PTL DEF Spec

\* The limits hold for every value they may have, however many loops run
\* (scheduler.py:45, 64).
THEOREM LimitsKept == Spec => []WithinLimits
  <1>1. SchedulerInv => WithinLimits
    BY DEF SchedulerInv
  <1>2. QED
    BY <1>1, SchedulerSafe, PTL

\* A job's start callback runs to its end before anything ends the job
\* (scheduler.py:63, 72-76).
THEOREM StartUndisturbed == Spec => []StartIsUndisturbed
  <1>1. SchedulerInv => StartIsUndisturbed
    BY DEF SchedulerInv
  <1>2. QED
    BY <1>1, SchedulerSafe, PTL

\* One job at a time runs under a transfer id (scheduler.py:71).
THEOREM OneJobAtATime == Spec => []OneJobPerId
  <1>1. SchedulerInv => OneJobPerId
    BY DEF SchedulerInv
  <1>2. QED
    BY <1>1, SchedulerSafe, PTL
=============================================================================
