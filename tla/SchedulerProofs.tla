--------------------------- MODULE SchedulerProofs ---------------------------
(* Proofs about Scheduler, for any callers and tasks, and any number of starts. *)
EXTENDS Scheduler, TLAPS

\* Entries of a generation still to come have no goroutine; a live goroutine is
\* of the last one, and the scheduler is then started or Stop is waiting for it.
\* A registered entry is of the last generation and is not stopped.
LiveIsLatest ==
  \A e \in Entry :
    /\ e[2] > starts => routine[e] = "none"
    /\ Live(e) => e[2] = starts
    /\ Live(e) /\ ~crashed => started \/ ~MutexFree
    /\ e \in tasks => e[2] = starts /\ started /\ e \notin taskStop
    /\ e \in taskStop => e[2] <= starts

\* Only one caller can be in wg.Wait, with the mutex, and meanwhile the
\* scheduler is not started.
OneWaits ==
  /\ ~MutexFree => ~started
  /\ \A c, d \in Caller : pc[c] = "wait" /\ pc[d] = "wait" => c = d

IInv == TypeOK /\ LiveIsLatest /\ OneWaits

LEMMA EntryFields ==
  /\ \A e \in Entry : e[1] \in Task /\ e[2] \in 1..MaxStarts
  /\ \A e, f \in Entry : e[1] = f[1] /\ e[2] = f[2] => e = f
BY DEF Entry, Generation

LEMMA NextEntriesFields ==
  ASSUME starts \in 0..MaxStarts, starts < MaxStarts
  PROVE  /\ NextEntries \in SUBSET Entry
         /\ \A e \in Entry : e \in NextEntries <=> e[2] = starts + 1
<1>1. starts + 1 \in Generation
  BY SchedulerAssumption DEF Generation
<1> QED
  BY <1>1 DEF Entry, NextEntries

LEMMA InitInv == Init => IInv
<1> SUFFICES ASSUME Init PROVE IInv
  OBVIOUS
<1>1. TypeOK
  <2>1. 0 \in 0..MaxStarts
    BY SchedulerAssumption
  <2> QED
    BY <2>1 DEF Init, TypeOK
<1>2. LiveIsLatest
  BY EntryFields DEF Init, LiveIsLatest, Live
<1>3. OneWaits
  BY DEF Init, OneWaits, MutexFree
<1> QED
  BY <1>1, <1>2, <1>3 DEF IInv

\* A step that leaves every caller in or out of wg.Wait.
LEMMA SameWaiters ==
  ASSUME \A d \in Caller : pc'[d] = "wait" <=> pc[d] = "wait"
  PROVE  MutexFree' <=> MutexFree
BY DEF MutexFree

LEMMA CallInv ==
  ASSUME IInv, NEW c \in Caller, NEW method \in Method, Call(c, method)
  PROVE  IInv'
<1> USE DEF IInv
<1>1. TypeOK' /\ \A d \in Caller : pc'[d] = "wait" <=> pc[d] = "wait"
  BY DEF Call, Goto, TypeOK, Method, scheduler
<1>2. MutexFree' <=> MutexFree
  BY <1>1, SameWaiters
<1>3. UNCHANGED <<started, tasks, stopCh, taskStop, routine, starts, crashed>>
  BY DEF Call, scheduler
<1>4. LiveIsLatest'
  BY <1>2, <1>3 DEF LiveIsLatest, Live
<1>5. OneWaits'
  BY <1>1, <1>2, <1>3 DEF OneWaits
<1> QED
  BY <1>1, <1>4, <1>5

LEMMA StartInv ==
  ASSUME IInv, NEW c \in Caller, Start(c)
  PROVE  IInv'
<1> USE DEF IInv
<1>1. /\ pc' \in [Caller -> {"idle", "wait"} \cup Method]
      /\ \A d \in Caller : pc[d] # "wait" /\ pc'[d] # "wait"
      /\ ~crashed /\ crashed' = crashed
  BY DEF Start, Goto, TypeOK, MutexFree
<1>2. MutexFree /\ MutexFree' /\ OneWaits'
  BY <1>1 DEF MutexFree, OneWaits
<1>3. CASE started
  <2>1. UNCHANGED <<started, tasks, stopCh, taskStop, routine, starts, crashed>>
    BY <1>3 DEF Start, scheduler
  <2>2. TypeOK'
    BY <1>1, <2>1 DEF TypeOK
  <2>3. LiveIsLatest'
    BY <1>2, <2>1 DEF LiveIsLatest, Live
  <2> QED
    BY <1>2, <2>2, <2>3
<1>4. CASE ~started
  <2>1. /\ started' = TRUE /\ tasks' = NextEntries /\ starts' = starts + 1
        /\ starts < MaxStarts /\ starts \in 0..MaxStarts
        /\ routine' = [e \in Entry |-> IF e \in NextEntries THEN "body" ELSE routine[e]]
        /\ UNCHANGED <<stopCh, taskStop>>
    BY <1>4 DEF Start, RegisterTasks, TypeOK
  <2>2. starts' \in 0..MaxStarts /\ tasks' \in SUBSET Entry
    BY <2>1, NextEntriesFields, SchedulerAssumption
  <2>3. TypeOK'
    BY <1>1, <2>1, <2>2 DEF TypeOK
  <2>4. \A e \in Entry : ~Live(e)
    BY <1>1, <1>2, <1>4 DEF LiveIsLatest
  <2>5. ASSUME NEW e \in Entry
        PROVE  /\ e[2] \in Nat
               /\ e[2] = starts + 1 => routine'[e] = "body" /\ e \in tasks'
               /\ e[2] # starts + 1 => routine'[e] = routine[e] /\ e \notin tasks'
    BY <2>1, NextEntriesFields, EntryFields
  <2>6. LiveIsLatest'
    BY <2>1, <2>4, <2>5 DEF LiveIsLatest, Live
  <2> QED
    BY <1>2, <2>3, <2>6
<1> QED
  BY <1>3, <1>4

LEMMA StopInv ==
  ASSUME IInv, NEW c \in Caller, Stop(c)
  PROVE  IInv'
<1> USE DEF IInv
<1>1. /\ taskStop' = taskStop \cup tasks /\ tasks' = {} /\ started' = FALSE
      /\ UNCHANGED <<routine, starts>>
      /\ stopCh' \in BOOLEAN /\ crashed' \in BOOLEAN
      /\ ~crashed /\ MutexFree
      /\ Goto(c, IF stopCh /\ started THEN "idle" ELSE "wait")
      /\ crashed' = (stopCh /\ started)
  BY DEF Stop, TypeOK
<1>2. /\ pc' \in [Caller -> {"idle", "wait"} \cup Method]
      /\ ~crashed' => pc'[c] = "wait"
      /\ \A d \in Caller : d # c => pc'[d] # "wait"
  BY <1>1 DEF Goto, TypeOK, MutexFree
<1>3. TypeOK'
  BY <1>1, <1>2 DEF TypeOK
<1>4. ~crashed' => ~MutexFree'
  BY <1>2 DEF MutexFree
<1>5. LiveIsLatest'
  BY <1>1, <1>4, EntryFields DEF LiveIsLatest, Live
<1>6. OneWaits'
  BY <1>1, <1>2 DEF OneWaits
<1> QED
  BY <1>3, <1>5, <1>6

LEMMA AwaitTasksInv ==
  ASSUME IInv, NEW c \in Caller, AwaitTasks(c)
  PROVE  IInv'
<1> USE DEF IInv
<1>1. /\ UNCHANGED <<started, tasks, stopCh, taskStop, routine, starts, crashed>>
      /\ NoneLive
  BY DEF AwaitTasks, scheduler
<1>2. TypeOK' /\ \A d \in Caller : pc'[d] = "wait" => pc[d] = "wait"
  BY <1>1 DEF AwaitTasks, Goto, TypeOK
<1>3. LiveIsLatest'
  BY <1>1 DEF LiveIsLatest, Live, NoneLive
<1>4. OneWaits'
  BY <1>1, <1>2 DEF OneWaits, MutexFree
<1> QED
  BY <1>2, <1>3, <1>4

LEMMA GetTaskNamesInv ==
  ASSUME IInv, NEW c \in Caller, GetTaskNames(c)
  PROVE  IInv'
<1> USE DEF IInv
<1>1. UNCHANGED <<started, tasks, stopCh, taskStop, routine, starts, crashed>>
  BY DEF GetTaskNames, scheduler
<1>2. TypeOK' /\ \A d \in Caller : pc'[d] = "wait" <=> pc[d] = "wait"
  BY <1>1 DEF GetTaskNames, Goto, TypeOK
<1>3. MutexFree' <=> MutexFree
  BY <1>2, SameWaiters
<1>4. LiveIsLatest'
  BY <1>1, <1>3 DEF LiveIsLatest, Live
<1>5. OneWaits'
  BY <1>1, <1>2, <1>3 DEF OneWaits
<1> QED
  BY <1>2, <1>4, <1>5

LEMMA RoutineInv ==
  ASSUME IInv, NEW e \in Entry, FinishBody(e) \/ Tick(e) \/ Leave(e)
  PROVE  IInv'
<1> USE DEF IInv
<1>1. /\ UNCHANGED <<started, tasks, stopCh, taskStop, starts, pc, crashed>>
      /\ Live(e)
      /\ \E to \in {"body", "select", "done"} : routine' = [routine EXCEPT ![e] = to]
  BY DEF FinishBody, Tick, Leave, RoutineStep, Live, scheduler
<1>2. /\ TypeOK'
      /\ \A f \in Entry : Live(f)' => Live(f)
      /\ \A f \in Entry : ~Live(f) => routine'[f] = routine[f]
  BY <1>1 DEF TypeOK, Live
<1>3. MutexFree' <=> MutexFree
  BY <1>1 DEF MutexFree
<1>4. LiveIsLatest'
  BY <1>1, <1>2, <1>3, EntryFields DEF LiveIsLatest, Live, TypeOK
<1>5. OneWaits'
  BY <1>1, <1>3 DEF OneWaits
<1> QED
  BY <1>2, <1>4, <1>5

LEMMA StutterInv ==
  ASSUME IInv, UNCHANGED vars
  PROVE  IInv'
BY DEF IInv, TypeOK, LiveIsLatest, OneWaits, Live, MutexFree, vars, scheduler

LEMMA NextInv == IInv /\ [Next]_vars => IInv'
BY CallInv, StartInv, StopInv, AwaitTasksInv, GetTaskNamesInv, RoutineInv, StutterInv
DEF Next, Exited

LEMMA InvCorrect == Spec => []IInv
BY InitInv, NextInv, PTL DEF Spec

\* The scheduler's state keeps its type.
THEOREM TypeCorrect == Spec => []TypeOK
<1>1. IInv => TypeOK
  BY DEF IInv
<1> QED
  BY <1>1, InvCorrect, PTL

\* When Stop has returned no task goroutine is left: a live goroutine means that
\* the scheduler is started, or that Stop has not returned.
THEOREM StoppedMeansQuietCorrect == Spec => []StoppedMeansQuiet
<1>1. IInv => StoppedMeansQuiet
  BY DEF IInv, LiveIsLatest, StoppedMeansQuiet, NoneLive
<1> QED
  BY <1>1, InvCorrect, PTL

\* Live goroutines are all of the last registration, which made one per task.
THEOREM OneRoutinePerTaskCorrect == Spec => []OneRoutinePerTask
<1>1. IInv => OneRoutinePerTask
  BY EntryFields DEF IInv, LiveIsLatest, OneRoutinePerTask
<1> QED
  BY <1>1, InvCorrect, PTL

LEMMA ListedStep == IInv /\ ListedTasksRun /\ [Next]_vars => ListedTasksRun'
<1> SUFFICES ASSUME IInv, ListedTasksRun, [Next]_vars, ~stopCh', NEW e \in Entry, e \in tasks'
             PROVE  Live(e)'
  BY NextInv DEF ListedTasksRun, IInv, TypeOK
<1> USE DEF IInv, ListedTasksRun
<1>1. ASSUME UNCHANGED <<tasks, stopCh, routine>>
      PROVE  Live(e)'
  BY <1>1 DEF Live
<1>2. ASSUME NEW c \in Caller, Start(c), ~started
      PROVE  Live(e)'
  BY <1>2 DEF Start, RegisterTasks, Live
<1>3. ASSUME NEW c \in Caller, Stop(c)
      PROVE  Live(e)'
  BY <1>3 DEF Stop
<1>4. ASSUME NEW f \in Entry, FinishBody(f) \/ Tick(f) \/ Leave(f)
      PROVE  Live(e)'
  <2>1. /\ UNCHANGED <<tasks, taskStop, stopCh>>
        /\ Leave(f) => f \in taskStop \/ stopCh
    BY <1>4 DEF FinishBody, Tick, Leave, RoutineStep, scheduler
  <2>2. Live(e) /\ ~stopCh /\ e \notin taskStop
    BY <2>1 DEF LiveIsLatest
  <2>3. CASE f # e
    BY <1>4, <2>2, <2>3 DEF FinishBody, Tick, Leave, RoutineStep, Live, TypeOK
  <2>4. CASE f = e
    <3>1. FinishBody(e) \/ Tick(e)
      BY <1>4, <2>1, <2>2, <2>4
    <3> QED
      BY <3>1 DEF FinishBody, Tick, RoutineStep, Live, TypeOK
  <2> QED
    BY <2>3, <2>4
<1>5. ASSUME NEW c \in Caller, NEW method \in Method,
             \/ Call(c, method) \/ AwaitTasks(c) \/ GetTaskNames(c)
             \/ Start(c) /\ started
      PROVE  Live(e)'
  BY <1>1, <1>5 DEF Call, AwaitTasks, GetTaskNames, Start, scheduler
<1>6. CASE UNCHANGED vars
  BY <1>1, <1>6 DEF vars, scheduler
<1>7. "Stop" \in Method
  BY DEF Method
<1> QED
  BY <1>2, <1>3, <1>4, <1>5, <1>6, <1>7 DEF Next, Exited

\* Until the first Stop, what GetTaskNames lists is what runs: a goroutine
\* leaves only when its own channel or the scheduler's is closed.
THEOREM ListedTasksRunCorrect == Spec => []ListedTasksRun
<1>1. Init => ListedTasksRun
  BY DEF Init, ListedTasksRun
<1> QED
  BY <1>1, ListedStep, InvCorrect, PTL DEF Spec
===============================================================================
