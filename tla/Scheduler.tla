------------------------------ MODULE Scheduler ------------------------------
(***************************************************************************)
(* Background tasks (internal/service/scheduler.go): Start, Stop and       *)
(* GetTaskNames, called in any order, and the goroutine that runTask is    *)
(* for every registered task.                                              *)
(*                                                                         *)
(* s.mu is held from the first statement of a method to its last. Start    *)
(* and GetTaskNames do not block meanwhile and are one step; Stop blocks   *)
(* in wg.Wait and is two, with the mutex held between them.                *)
(***************************************************************************)
EXTENDS Naturals, FiniteSets

CONSTANTS Caller,     \* goroutines that call the scheduler's methods
          Task,       \* the names Start registers
          MaxStarts   \* bound: times that Start registers the tasks

ASSUME SchedulerAssumption == MaxStarts \in Nat

Generation == 1..MaxStarts

\* A taskEntry: its name, and the Start that made it.
Entry == Task \X Generation

VARIABLES started,
          tasks,      \* the entries in s.tasks
          stopCh,     \* s.stopCh is closed
          taskStop,   \* entries whose own stopCh is closed
          routine,    \* where the goroutine of each entry is
          starts,     \* times that Start has registered the tasks
          pc,         \* where each caller is
          crashed     \* closing a closed channel has ended the process

scheduler == <<started, tasks, stopCh, taskStop>>
vars == <<scheduler, routine, starts, pc, crashed>>

Method == {"Start", "Stop", "GetTaskNames"}

TypeOK ==
  /\ started \in BOOLEAN
  /\ tasks \in SUBSET Entry
  /\ stopCh \in BOOLEAN
  /\ taskStop \in SUBSET Entry
  /\ routine \in [Entry -> {"none", "body", "select", "done"}]
  /\ starts \in 0..MaxStarts
  /\ pc \in [Caller -> {"idle", "wait"} \cup Method]
  /\ crashed \in BOOLEAN

Init ==
  /\ started = FALSE
  /\ tasks = {}
  /\ stopCh = FALSE
  /\ taskStop = {}
  /\ routine = [e \in Entry |-> "none"]
  /\ starts = 0
  /\ pc = [c \in Caller |-> "idle"]
  /\ crashed = FALSE

Live(e) == routine[e] \in {"body", "select"}

\* The wait group's count is zero.
NoneLive == \A e \in Entry : ~Live(e)

MutexFree == \A c \in Caller : pc[c] # "wait"

Goto(c, label) == pc' = [pc EXCEPT ![c] = label]

-------------------------------------------------------------------------------
\* A caller calls a method; it goes on when it has the mutex.
Call(c, method) ==
  /\ ~crashed
  /\ pc[c] = "idle"
  /\ method = "Start" => starts < MaxStarts
  /\ Goto(c, method)
  /\ UNCHANGED <<scheduler, routine, starts, crashed>>

\* The entries of the next registration.
NextEntries == Task \X {starts + 1}

\* registerTask for every task: a new entry under its name, and its goroutine.
RegisterTasks ==
  /\ starts' = starts + 1
  /\ tasks' = NextEntries
  /\ routine' = [e \in Entry |-> IF e \in NextEntries THEN "body" ELSE routine[e]]

\* Mutant: Start registers the tasks whether or not they run already.
StartAgain(c) ==
  /\ ~crashed
  /\ pc[c] = "Start" /\ MutexFree
  /\ starts < MaxStarts
  /\ started' = TRUE
  /\ RegisterTasks
  /\ Goto(c, "idle")
  /\ UNCHANGED <<stopCh, taskStop, crashed>>

Start(c) ==
  /\ ~crashed
  /\ pc[c] = "Start" /\ MutexFree
  /\ IF started
     THEN UNCHANGED <<scheduler, routine, starts>>
     ELSE /\ starts < MaxStarts
          /\ started' = TRUE
          /\ RegisterTasks
          /\ UNCHANGED <<stopCh, taskStop>>
  /\ Goto(c, "idle")
  /\ UNCHANGED crashed

\* Mutant: Stop empties the map and closes nothing.
StopByForgetting(c) ==
  /\ ~crashed
  /\ pc[c] = "Stop" /\ MutexFree
  /\ tasks' = {}
  /\ started' = FALSE
  /\ Goto(c, "wait")
  /\ UNCHANGED <<stopCh, taskStop, crashed, routine, starts>>

\* Stop up to wg.Wait: every task's channel is closed and the map is emptied,
\* then s.stopCh is closed. Nothing makes a new s.stopCh: the Stop of a second
\* Start closes a closed channel.
Stop(c) ==
  /\ ~crashed
  /\ pc[c] = "Stop" /\ MutexFree
  /\ taskStop' = taskStop \cup tasks
  /\ tasks' = {}
  /\ started' = FALSE
  /\ stopCh' = (stopCh \/ started)
  /\ crashed' = (stopCh /\ started)
  /\ Goto(c, IF stopCh /\ started THEN "idle" ELSE "wait")
  /\ UNCHANGED <<routine, starts>>

\* Mutant: Stop does not wait for the tasks.
ReturnAtOnce(c) ==
  /\ ~crashed
  /\ pc[c] = "wait"
  /\ Goto(c, "idle")
  /\ UNCHANGED <<scheduler, routine, starts, crashed>>

\* wg.Wait returns, and Stop with it.
AwaitTasks(c) ==
  /\ ~crashed
  /\ pc[c] = "wait"
  /\ NoneLive
  /\ Goto(c, "idle")
  /\ UNCHANGED <<scheduler, routine, starts, crashed>>

GetTaskNames(c) ==
  /\ ~crashed
  /\ pc[c] = "GetTaskNames" /\ MutexFree
  /\ Goto(c, "idle")
  /\ UNCHANGED <<scheduler, routine, starts, crashed>>

-------------------------------------------------------------------------------
(* runTask *)

RoutineStep(e, from, to) ==
  /\ ~crashed
  /\ routine[e] = from
  /\ routine' = [routine EXCEPT ![e] = to]
  /\ UNCHANGED <<scheduler, starts, pc, crashed>>

\* task.fn returns.
FinishBody(e) == RoutineStep(e, "body", "select")

Tick(e) == RoutineStep(e, "select", "body")

\* Mutant: the goroutine ends after its first run.
LeaveAnyTime(e) == RoutineStep(e, "select", "done")

\* Either stop channel is closed.
Leave(e) ==
  /\ e \in taskStop \/ stopCh
  /\ RoutineStep(e, "select", "done")

-------------------------------------------------------------------------------
\* The process has ended and stays ended.
Exited == crashed /\ UNCHANGED vars

Next ==
  \/ \E c \in Caller :
       \/ \E method \in Method : Call(c, method)
       \/ Start(c) \/ Stop(c) \/ AwaitTasks(c) \/ GetTaskNames(c)
  \/ \E e \in Entry : FinishBody(e) \/ Tick(e) \/ Leave(e)
  \/ Exited

Spec == Init /\ [][Next]_vars

\* A sync.Mutex starves nobody; a task's body returns; select takes a stop
\* channel that stays ready although the ticker may be ready too.
Fairness ==
  /\ \A c \in Caller : SF_vars(Start(c) \/ Stop(c) \/ GetTaskNames(c))
                       /\ WF_vars(AwaitTasks(c))
  /\ \A e \in Entry : WF_vars(FinishBody(e)) /\ SF_vars(Leave(e))

FairSpec == Spec /\ Fairness

-------------------------------------------------------------------------------
(* Properties *)

\* Once Stop has returned, and until tasks are registered again, no task
\* goroutine is left, whatever it was doing when Stop was called.
StoppedMeansQuiet == ~crashed /\ MutexFree /\ ~started => NoneLive

\* No task ever has two goroutines: starting twice, and restarting while the
\* tasks of the previous run end, never overlap two runs of one task.
OneRoutinePerTask ==
  \A e, f \in Entry : Live(e) /\ Live(f) /\ e[1] = f[1] => e = f

\* What GetTaskNames lists is what runs, until the scheduler is restarted: the
\* goroutine of a task that is registered has not returned.
ListedTasksRun == ~stopCh => \A e \in tasks : Live(e)

\* A call returns: Stop is not held up by a task, nor Start and GetTaskNames by
\* a Stop that waits with the mutex held.
CallsReturn == \A c \in Caller : pc[c] # "idle" ~> pc[c] = "idle" \/ crashed

\* What Stop's documentation says ("gracefully shuts down the scheduler and all
\* tasks"): it does not panic.
StopIsGraceful == ~crashed
===============================================================================
