----------------------------- MODULE ThreadPool -----------------------------
(***************************************************************************)
(* vthread_pool.c: worker threads, a ring buffer of tasks, one mutex and    *)
(* three condition variables.                                               *)
(*                                                                          *)
(* A critical section (pthread_mutex_lock .. unlock) is one action: every   *)
(* path through each of them releases the one mutex.  The writes of         *)
(* Thread->State outside the mutex are actions of their own.  A thread in   *)
(* pthread_cond_wait has a "wait..." pc; a signal moves one of them to the  *)
(* matching "woken..." pc, from where it re-enters its critical section.    *)
(***************************************************************************)
EXTENDS Integers, FiniteSets, Sequences

CONSTANTS NumThreads,   \* the argument of VThreadPool_Init
          MaxTasks,     \* bound: how many times VThreadPool_AddTask is called
          Kinds,        \* the kinds of task that are submitted
          Producers,    \* the clients that call VThreadPool_AddTask
          Waiters,      \* the clients that call VThreadPool_Wait
          Destroyers    \* the clients that call VThreadPool_Destroy

(* "default" is PROC_DEFAULT, whose procedure returns; "infinity" is        *)
(* PROC_INFINITY, whose procedure never does; "null" has Procedure == 0.    *)
AllKinds == {"default", "infinity", "null"}

ASSUME NumThreadsAssumption == NumThreads \in Nat \ {0}
ASSUME MaxTasksAssumption   == MaxTasks \in Nat
ASSUME KindsAssumption      == Kinds \subseteq AllKinds
ASSUME ClientsAssumption    == IsFiniteSet(Producers \cup Waiters \cup Destroyers)

Clients    == Producers \cup Waiters \cup Destroyers
MaxThreads == NumThreads + MaxTasks   \* one AddTask adds at most one thread
Threads    == 1..MaxThreads
Capacity   == NumThreads              \* VTaskList_Init(TaskList, NumThreads)
Slots      == 0..(Capacity - 1)

Task   == [Id : 1..MaxTasks, Attr : AllKinds]
NoTask == [Id |-> 0, Attr |-> "null"] \* the zeroed vtask

VARIABLES
  Items, Count, WriteCursor, ReadCursor,   \* Pool->TaskList
  State,                                   \* Threads->Items[w].State
  TCount, TCapacity,                       \* Threads->Count, Threads->Capacity
  stale,        \* threads whose vthread* points into a block realloc has freed
  InfiniteThreadsWorking, NormalThreadsWorking, ThreadCount,
  Terminate,
  alive,        \* FALSE once VThreadPool_Destroy has freed the pool
  wpc, held,    \* where each worker is in VThread_Main, and its local Task
  cpc, arg,     \* where each client is in its call, and the task it submits
  cancelled,    \* threads pthread_cancel was called on
  dIdx,         \* the loop index of VThreadPool_Destroy
  submitted,    \* how many tasks were submitted: the last Id given out
  finished      \* history: the tasks whose procedure returned (or was null)

queueVars  == <<Items, Count, WriteCursor, ReadCursor>>
listVars   == <<State, TCount, TCapacity, stale>>
countVars  == <<InfiniteThreadsWorking, NormalThreadsWorking, ThreadCount>>
lifeVars   == <<Terminate, alive, cancelled, dIdx>>
workerVars == <<wpc, held>>
clientVars == <<cpc, arg>>
ghostVars  == <<submitted, finished>>
vars == <<queueVars, listVars, countVars, lifeVars, workerVars, clientVars,
          ghostVars>>

-----------------------------------------------------------------------------
(* Condition variables: a signal wakes one waiter, if there is one.         *)

SignalTaskAvaliable_Dropped == UNCHANGED wpc   \* mutant

SignalTaskAvaliable ==
  \/ /\ \A w \in Threads : wpc[w] # "waitTask"
     /\ UNCHANGED wpc
  \/ \E w \in Threads : /\ wpc[w] = "waitTask"
                        /\ wpc' = [wpc EXCEPT ![w] = "woken"]

SignalClient(waiting, woken) ==
  \/ /\ \A c \in Clients : cpc[c] # waiting
     /\ UNCHANGED cpc
  \/ \E c \in Clients : /\ cpc[c] = waiting
                        /\ cpc' = [cpc EXCEPT ![c] = woken]

SignalClient_Dropped == UNCHANGED cpc          \* mutant

SignalThreadDone     == SignalClient("waitDone", "wokenDone")
SignalAllThreadsDone == SignalClient("waitAll", "wokenAll")

-----------------------------------------------------------------------------
(* VTaskList: the ring buffer.                                              *)

Advance(cursor) == (cursor + 1) % Capacity

VTaskList_Put(task) ==
  /\ Items' = [Items EXCEPT ![WriteCursor] = task]
  /\ WriteCursor' = Advance(WriteCursor)
  /\ Count' = Count + 1
  /\ UNCHANGED ReadCursor

VTaskList_Dequeue_NoAdvance(w) ==              \* mutant
  /\ held' = [held EXCEPT ![w] = Items[ReadCursor]]
  /\ Count' = Count - 1
  /\ UNCHANGED <<Items, ReadCursor, WriteCursor>>

VTaskList_Dequeue(w) ==
  /\ held' = [held EXCEPT ![w] = Items[ReadCursor]]
  /\ ReadCursor' = Advance(ReadCursor)
  /\ Count' = Count - 1
  /\ UNCHANGED <<Items, WriteCursor>>

-----------------------------------------------------------------------------
(* VThreadList and the thread that VThreadPool_AddThread creates.           *)

IsAnyThreadInfinite == \E w \in 1..TCount : State[w] = "infinite"

IsAllThreadsInfinite == \A w \in 1..TCount : State[w] = "infinite"

(* realloc may move the block: the vthread* of every existing thread then   *)
(* points to freed memory.                                                  *)
VThreadList_Push ==
  /\ State' = [State EXCEPT ![TCount + 1] = "idle"]
  /\ TCount' = TCount + 1
  /\ IF TCount >= TCapacity
     THEN /\ TCapacity' = TCapacity * 2
          /\ \/ stale' = 1..TCount
             \/ UNCHANGED stale
     ELSE UNCHANGED <<TCapacity, stale>>

VThreadPool_AddThread ==
  /\ VThreadList_Push
  /\ wpc' = [wpc EXCEPT ![TCount + 1] = "start"]

-----------------------------------------------------------------------------
(* Clients: AddTask, Wait, Destroy.                                         *)

Idle(c) == cpc[c] \in {"idle", "waited"}

(* A client may call into the pool until some client destroys it.           *)
MayCall(c) == Idle(c) /\ alive /\ ~Terminate

Enqueue_NoFullCheck(c, task) ==                \* mutant
  /\ VTaskList_Put(task)
  /\ cpc' = [cpc EXCEPT ![c] = "signal"]
  /\ arg' = [arg EXCEPT ![c] = NoTask]

(* The wait loop of VTaskList_Enqueue, entered holding the mutex.           *)
Enqueue(c, task) ==
  \/ /\ Count = Capacity
     /\ cpc' = [cpc EXCEPT ![c] = "waitDone"]
     /\ arg' = [arg EXCEPT ![c] = task]
     /\ UNCHANGED queueVars
  \/ /\ Count # Capacity
     /\ VTaskList_Put(task)
     /\ cpc' = [cpc EXCEPT ![c] = "signal"]
     /\ arg' = [arg EXCEPT ![c] = NoTask]

(* VThreadPool_AddTask up to the end of VTaskList_Enqueue's first pass.     *)
AddTask(c, kind) ==
  /\ MayCall(c)
  /\ submitted < MaxTasks
  /\ submitted' = submitted + 1
  /\ \/ /\ IsAllThreadsInfinite
        /\ VThreadPool_AddThread
     \/ /\ ~IsAllThreadsInfinite
        /\ UNCHANGED <<listVars, wpc>>
  /\ Enqueue(c, [Id |-> submitted + 1, Attr |-> kind])
  /\ UNCHANGED <<countVars, lifeVars, held, finished>>

(* Back from pthread_cond_wait(ThreadDone): only Count is looked at again.  *)
EnqueueWoken(c) ==
  /\ alive
  /\ cpc[c] = "wokenDone"
  /\ Enqueue(c, arg[c])
  /\ UNCHANGED <<listVars, countVars, lifeVars, workerVars, ghostVars>>

(* pthread_cond_signal(TaskAvaliable), after the mutex is released.         *)
AddTaskSignal(c) ==
  /\ alive
  /\ cpc[c] = "signal"
  /\ cpc' = [cpc EXCEPT ![c] = "idle"]
  /\ SignalTaskAvaliable
  /\ UNCHANGED <<queueVars, listVars, countVars, lifeVars, held, arg, ghostVars>>

WorkLeft_NoQueue == NormalThreadsWorking > 0   \* mutant

WorkLeft == NormalThreadsWorking > 0 \/ Count > 0

WaitLoop(c) ==
  /\ cpc' = [cpc EXCEPT ![c] = IF WorkLeft THEN "waitAll" ELSE "waited"]
  /\ UNCHANGED <<queueVars, listVars, countVars, lifeVars, workerVars, arg,
                 ghostVars>>

Wait(c) == MayCall(c) /\ WaitLoop(c)

WaitWoken(c) == alive /\ cpc[c] = "wokenAll" /\ WaitLoop(c)

(* Nobody else may be inside the pool when it is destroyed.                 *)
DestroyBegin(c) ==
  /\ \A other \in Clients : Idle(other)
  /\ MayCall(c)
  /\ Terminate' = TRUE
  /\ dIdx' = 1
  /\ cpc' = [cpc EXCEPT ![c] = "destroy"]
  /\ UNCHANGED <<queueVars, listVars, countVars, alive, cancelled, workerVars,
                 arg, ghostVars>>

MustCancel_AnyBusy(w) == State[w] # "idle"     \* mutant

MustCancel(w) == State[w] = "infinite"

(* One turn of the loop that cancels the infinite threads.                  *)
DestroyCancel(c) ==
  /\ cpc[c] = "destroy"
  /\ dIdx <= TCount
  /\ IF MustCancel(dIdx)
     THEN /\ State' = [State EXCEPT ![dIdx] = "dead"]
          /\ cancelled' = cancelled \cup {dIdx}
     ELSE UNCHANGED <<State, cancelled>>
  /\ dIdx' = dIdx + 1
  /\ UNCHANGED <<queueVars, TCount, TCapacity, stale, countVars, Terminate,
                 alive, workerVars, clientVars, ghostVars>>

DestroyFree(c) ==
  /\ cpc[c] = "destroy"
  /\ dIdx > TCount
  /\ alive' = FALSE
  /\ cpc' = [cpc EXCEPT ![c] = "idle"]
  /\ UNCHANGED <<queueVars, listVars, countVars, Terminate, cancelled, dIdx,
                 workerVars, arg, ghostVars>>

-----------------------------------------------------------------------------
(* Workers: VThread_Main.                                                   *)

ThreadStart(w) ==
  /\ alive
  /\ wpc[w] = "start"
  /\ wpc' = [wpc EXCEPT ![w] = "take"]
  /\ ThreadCount' = ThreadCount + 1
  /\ UNCHANGED <<queueVars, listVars, InfiniteThreadsWorking,
                 NormalThreadsWorking, lifeVars, held, clientVars, ghostVars>>

(* Holding the mutex at the head of the loop "while(Count == 0)".           *)
AtQueue(w) == /\ alive
              /\ \/ wpc[w] = "take"
                 \/ wpc[w] = "woken" /\ ~Terminate

TakeTask(w) ==
  /\ AtQueue(w)
  /\ Count # 0
  /\ VTaskList_Dequeue(w)
  /\ wpc' = [wpc EXCEPT ![w] = "got"]
  /\ UNCHANGED <<listVars, countVars, lifeVars, clientVars, ghostVars>>

WaitForTask(w) ==
  /\ AtQueue(w)
  /\ Count = 0
  /\ State' = [State EXCEPT ![w] = "idle"]
  /\ wpc' = [wpc EXCEPT ![w] = "waitTask"]
  /\ UNCHANGED <<queueVars, TCount, TCapacity, stale, countVars, lifeVars, held,
                 clientVars, ghostVars>>

ThreadExit(w) ==
  /\ alive
  /\ wpc[w] = "woken"
  /\ Terminate
  /\ ThreadCount' = ThreadCount - 1
  /\ wpc' = [wpc EXCEPT ![w] = "exited"]
  /\ UNCHANGED <<queueVars, listVars, InfiniteThreadsWorking,
                 NormalThreadsWorking, lifeVars, held, clientVars, ghostVars>>

(* if(Task.Procedure != 0) fails: nothing is run and nobody is signalled.   *)
SkipNull(w) ==
  /\ alive
  /\ wpc[w] = "got"
  /\ held[w].Attr = "null"
  /\ wpc' = [wpc EXCEPT ![w] = "check"]
  /\ held' = [held EXCEPT ![w] = NoTask]
  /\ finished' = finished \cup {held[w]}
  /\ UNCHANGED <<queueVars, listVars, countVars, lifeVars, clientVars, submitted>>

(* The writes of Thread->State, without the mutex.  An infinite thread is   *)
(* RUNNING for an instant (line 137); no reader tells that from IDLE.       *)
MarkState(w) ==
  /\ alive
  /\ wpc[w] = "got"
  /\ held[w].Attr # "null"
  /\ State' = [State EXCEPT ![w] = IF held[w].Attr = "infinity"
                                   THEN "infinite" ELSE "running"]
  /\ wpc' = [wpc EXCEPT ![w] = "enter"]
  /\ UNCHANGED <<queueVars, TCount, TCapacity, stale, countVars, lifeVars, held,
                 clientVars, ghostVars>>

CountWorking_Both(attr) ==                     \* mutant: the "else" is lost
  /\ InfiniteThreadsWorking' =
       InfiniteThreadsWorking + (IF attr = "infinity" THEN 1 ELSE 0)
  /\ NormalThreadsWorking' = NormalThreadsWorking + 1

CountWorking(attr) ==
  IF attr = "infinity"
  THEN /\ InfiniteThreadsWorking' = InfiniteThreadsWorking + 1
       /\ UNCHANGED NormalThreadsWorking
  ELSE /\ NormalThreadsWorking' = NormalThreadsWorking + 1
       /\ UNCHANGED InfiniteThreadsWorking

CountIn(w) ==
  /\ alive
  /\ wpc[w] = "enter"
  /\ wpc' = [wpc EXCEPT ![w] = "run"]
  /\ CountWorking(held[w].Attr)
  /\ UNCHANGED <<queueVars, listVars, ThreadCount, lifeVars, held, clientVars,
                 ghostVars>>

(* Task.Procedure(Task.Arg) returns; an infinite one never does.            *)
RunTask(w) ==
  /\ wpc[w] = "run"
  /\ held[w].Attr = "default"
  /\ wpc' = [wpc EXCEPT ![w] = "done"]
  /\ held' = [held EXCEPT ![w] = NoTask]
  /\ finished' = finished \cup {held[w]}
  /\ UNCHANGED <<queueVars, listVars, countVars, lifeVars, clientVars, submitted>>

(* pthread_cancel is deferred: it acts inside the procedure.                *)
Cancelled(w) ==
  /\ wpc[w] = "run"
  /\ w \in cancelled
  /\ wpc' = [wpc EXCEPT ![w] = "cancelled"]
  /\ UNCHANGED <<queueVars, listVars, countVars, lifeVars, held, clientVars,
                 ghostVars>>

CountOut(w) ==
  /\ alive
  /\ wpc[w] = "done"
  /\ SignalThreadDone
  /\ State' = [State EXCEPT ![w] = "idle"]
  /\ NormalThreadsWorking' = NormalThreadsWorking - 1
  /\ wpc' = [wpc EXCEPT ![w] = "check"]
  /\ UNCHANGED <<queueVars, TCount, TCapacity, stale, InfiniteThreadsWorking,
                 ThreadCount, lifeVars, held, arg, ghostVars>>

CheckAllDone(w) ==
  /\ alive
  /\ wpc[w] = "check"
  /\ IF NormalThreadsWorking = 0 THEN SignalAllThreadsDone ELSE UNCHANGED cpc
  /\ wpc' = [wpc EXCEPT ![w] = "take"]
  /\ UNCHANGED <<queueVars, listVars, countVars, lifeVars, held, arg, ghostVars>>

-----------------------------------------------------------------------------
(* POSIX lets pthread_cond_wait return without a signal.                    *)
SpuriousWorker(w) ==
  /\ alive
  /\ wpc[w] = "waitTask"
  /\ wpc' = [wpc EXCEPT ![w] = "woken"]
  /\ UNCHANGED <<queueVars, listVars, countVars, lifeVars, held, clientVars,
                 ghostVars>>

SpuriousClient(c) ==
  /\ alive
  /\ \/ /\ cpc[c] = "waitDone"
        /\ cpc' = [cpc EXCEPT ![c] = "wokenDone"]
     \/ /\ cpc[c] = "waitAll"
        /\ cpc' = [cpc EXCEPT ![c] = "wokenAll"]
  /\ UNCHANGED <<queueVars, listVars, countVars, lifeVars, workerVars, arg,
                 ghostVars>>

-----------------------------------------------------------------------------
(* The state VThreadPool_Init returns in, its threads not yet scheduled.    *)
Init ==
  /\ Items = [i \in Slots |-> NoTask]
  /\ Count = 0 /\ WriteCursor = 0 /\ ReadCursor = 0
  /\ State = [w \in Threads |-> "idle"]
  /\ TCount = NumThreads /\ TCapacity = NumThreads
  /\ stale = {}
  /\ InfiniteThreadsWorking = 0 /\ NormalThreadsWorking = 0 /\ ThreadCount = 0
  /\ Terminate = FALSE /\ alive = TRUE /\ cancelled = {} /\ dIdx = 0
  /\ wpc = [w \in Threads |-> IF w <= NumThreads THEN "start" ELSE "none"]
  /\ held = [w \in Threads |-> NoTask]
  /\ cpc = [c \in Clients |-> "idle"]
  /\ arg = [c \in Clients |-> NoTask]
  /\ submitted = 0
  /\ finished = {}

WorkerStep(w) ==
  \/ ThreadStart(w) \/ TakeTask(w) \/ WaitForTask(w) \/ ThreadExit(w)
  \/ SkipNull(w) \/ MarkState(w) \/ CountIn(w) \/ RunTask(w) \/ Cancelled(w)
  \/ CountOut(w) \/ CheckAllDone(w)

ClientStep(c) ==
  \/ EnqueueWoken(c) \/ AddTaskSignal(c) \/ WaitWoken(c)
  \/ DestroyCancel(c) \/ DestroyFree(c)

ClientCall(c) ==
  \/ c \in Producers /\ \E k \in Kinds : AddTask(c, k)
  \/ c \in Waiters /\ Wait(c)
  \/ c \in Destroyers /\ DestroyBegin(c)

Next ==
  \/ \E w \in Threads : WorkerStep(w) \/ SpuriousWorker(w)
  \/ \E c \in Clients : ClientStep(c) \/ ClientCall(c) \/ SpuriousClient(c)

Spec == Init /\ [][Next]_vars

(* A runnable thread is eventually scheduled and gets the mutex, and a      *)
(* default procedure returns.  Clients need not call anything.              *)
Fairness == /\ \A w \in Threads : WF_vars(WorkerStep(w))
            /\ \A c \in Clients : WF_vars(ClientStep(c))

FairSpec == Spec /\ Fairness
-----------------------------------------------------------------------------
(* Type correctness of the pool's fields and of where the threads are.      *)
WorkerPCs == {"none", "start", "take", "waitTask", "woken", "got", "enter", "run",
              "done", "check", "exited", "cancelled"}
ClientPCs == {"idle", "waited", "waitDone", "wokenDone", "signal", "waitAll",
              "wokenAll", "destroy"}

FieldTypes ==
  /\ Items \in [Slots -> Task \cup {NoTask}]
  /\ Count \in 0..Capacity
  /\ WriteCursor \in Slots /\ ReadCursor \in Slots
  /\ State \in [Threads -> {"idle", "running", "infinite", "dead"}]
  /\ TCount \in Threads /\ TCapacity \in Nat /\ stale \subseteq Threads
  /\ Terminate \in BOOLEAN /\ alive \in BOOLEAN
  /\ cancelled \subseteq Threads /\ dIdx \in Nat
  /\ wpc \in [Threads -> WorkerPCs]
  /\ held \in [Threads -> Task \cup {NoTask}]
  /\ cpc \in [Clients -> ClientPCs]
  /\ arg \in [Clients -> Task \cup {NoTask}]
  /\ submitted \in 0..MaxTasks
  /\ finished \subseteq Task

TypeOK == /\ FieldTypes
          /\ InfiniteThreadsWorking \in Nat
          /\ NormalThreadsWorking \in Nat
          /\ ThreadCount \in Nat

-----------------------------------------------------------------------------
(* The counters VThreadPool_Wait and the shutdown code rely on are kept by  *)
(* separate critical sections, far from the code that changes the facts     *)
(* they count.  They are exact in every state: NormalThreadsWorking is the  *)
(* number of threads between lines 147 and 159 of VThread_Main, and so it   *)
(* never wraps below zero; InfiniteThreadsWorking counts the threads inside *)
(* an infinite procedure and ThreadCount the ones that started and did not  *)
(* leave through Terminate.                                                 *)
NormalWorkers   == {w \in Threads : \/ wpc[w] = "done"
                                    \/ wpc[w] = "run" /\ held[w].Attr = "default"}
InfiniteWorkers == {w \in Threads : \/ wpc[w] = "cancelled"
                                    \/ wpc[w] = "run" /\ held[w].Attr = "infinity"}
StartedWorkers  == {w \in Threads : wpc[w] \notin {"none", "start", "exited"}}

CountersExact ==
  /\ NormalThreadsWorking = Cardinality(NormalWorkers)
  /\ InfiniteThreadsWorking = Cardinality(InfiniteWorkers)
  /\ ThreadCount = Cardinality(StartedWorkers)

(* No wakeup is lost although AddTask signals TaskAvaliable after it has    *)
(* released the mutex: while some worker sleeps in pthread_cond_wait, every *)
(* queued task is matched by a signal still to come or by a worker already  *)
(* woken, so no task sits in the queue with all idle workers asleep.        *)
Sleeping   == {w \in Threads : wpc[w] = "waitTask"}
Awakened   == {w \in Threads : wpc[w] = "woken"}
Signalling == {c \in Clients : cpc[c] = "signal"}

NoLostWakeup ==
  (Sleeping # {} /\ ~Terminate) =>
     Count <= Cardinality(Awakened) + Cardinality(Signalling)

(* VThreadList_Push reallocates the array that the running threads hold     *)
(* pointers into.  A thread whose pointer may be dangling never uses it     *)
(* again: it is past its last write of Thread->State, inside an infinite    *)
(* procedure.                                                               *)
NoStaleThreadUse ==
  \A w \in stale : /\ wpc[w] \in {"enter", "run", "cancelled"}
                   /\ held[w].Attr = "infinity"

(* VThreadPool_Destroy reads Thread->State without the mutex while workers  *)
(* write it.  It still never cancels a thread in the middle of a default    *)
(* task: whoever it cancels runs an infinite one.                           *)
CancelOnlyInfinite ==
  \A w \in cancelled : /\ wpc[w] \in {"enter", "run", "cancelled"}
                       /\ held[w].Attr = "infinity"

(* What VThreadPool_Wait guarantees when it returns: the only tasks put in  *)
(* the queue before and not yet ended are infinite ones and the ones a      *)
(* worker has dequeued (line 132) but not yet counted (line 147).           *)
InGap(t) == \E w \in Threads : held[w] = t /\ wpc[w] \in {"got", "enter"}

WaitReturnsQuiescent ==
  [][\A c \in Clients :
       cpc[c] # "waited" /\ cpc'[c] = "waited" =>
         /\ Count = 0
         /\ \A w \in Threads :
              held[w] # NoTask => held[w].Attr = "infinity" \/ InGap(held[w])]_vars

(* The pool implements the abstract task pool: a bounded FIFO, each task    *)
(* taken once, by one thread, and ended at most once.                       *)
AbsQueue   == [i \in 1..Count |-> Items[(ReadCursor + i - 1) % Capacity]]
AbsRunning == {held[w] : w \in {v \in Threads : held[v] # NoTask}}

Abs == INSTANCE TaskPool WITH queue <- AbsQueue, running <- AbsRunning

ImplementsTaskPool == Abs!Spec

-----------------------------------------------------------------------------
(* Every task AddTask was given ends.                                       *)
EveryTaskEnds ==
  \A i \in 1..MaxTasks : submitted >= i ~> \E t \in finished : t.Id = i

(* A producer blocked on the full queue gets its task in and returns.       *)
AddTaskReturns ==
  \A c \in Clients : cpc[c] = "waitDone" ~> Idle(c)

(* A caller of VThreadPool_Wait gets out of it once no more tasks come.     *)
WaitReturns ==
  \A c \in Clients : cpc[c] = "waitAll" ~> cpc[c] = "waited"
=============================================================================
