-------------------------- MODULE ThreadPoolProofs --------------------------
(***************************************************************************)
(* Proofs about ThreadPool, for every number of threads, tasks and clients: *)
(* the inductive invariant LocalInv, the safety properties that rest on it, *)
(* and that ThreadPool implements TaskPool.                                 *)
(***************************************************************************)
EXTENDS ThreadPool, FiniteSetTheorems, SequenceTheorems, TLAPS

-----------------------------------------------------------------------------
(* The inductive invariant.                                                 *)

Wrap(x) == IF x < Capacity THEN x ELSE x - Capacity

(* Slot j of the ring holds a task that is still to be dequeued.            *)
Live(j) == IF j >= ReadCursor THEN j - ReadCursor < Count
                              ELSE j + Capacity - ReadCursor < Count

QueueInv == /\ WriteCursor = Wrap(ReadCursor + Count)
            /\ \A j \in Slots : Live(j) => Items[j] \in Task

Holding == {"got", "enter", "run", "cancelled"}

(* What a thread's place in the code says about its local Task, and which   *)
(* threads exist.                                                           *)
WorkerInv ==
  /\ TCount <= NumThreads + submitted
  /\ \A w \in Threads :
       /\ w > TCount => wpc[w] = "none"
       /\ wpc[w] \in Holding => held[w] \in Task
       /\ wpc[w] \notin Holding => held[w] = NoTask
       /\ wpc[w] \in {"enter", "run"} => held[w].Attr # "null"
       /\ wpc[w] = "cancelled" => held[w].Attr = "infinity"
       /\ State[w] = "infinite" => /\ wpc[w] \in {"enter", "run", "cancelled"}
                                   /\ held[w].Attr = "infinity"

ClientInv ==
  \A c \in Clients :
    /\ cpc[c] \in {"waitDone", "wokenDone"} => arg[c] \in Task
    /\ cpc[c] = "destroy" => dIdx >= 1

LocalInv == /\ FieldTypes /\ QueueInv /\ WorkerInv /\ ClientInv
            /\ NoStaleThreadUse /\ CancelOnlyInfinite

-----------------------------------------------------------------------------
(* Advance, the cursor arithmetic of the ring, without the modulus.         *)
LEMMA AdvanceWrap ==
  ASSUME NEW x \in Slots
  PROVE  Advance(x) = Wrap(x + 1) /\ Advance(x) \in Slots
  <1>1. NumThreads \in Nat /\ NumThreads > 0
    BY NumThreadsAssumption
  <1>2. CASE x + 1 = Capacity
    BY <1>1, <1>2 DEF Advance, Wrap, Slots, Capacity
  <1>3. CASE x + 1 < Capacity
    BY <1>1, <1>3 DEF Advance, Wrap, Slots, Capacity
  <1>. QED BY <1>1, <1>2, <1>3 DEF Slots, Capacity

(* The invariant holds initially.                                           *)
LEMMA LocalInvInit == Init => LocalInv
  <1> SUFFICES ASSUME Init PROVE LocalInv
    OBVIOUS
  <1>1. FieldTypes
    <2>1. Terminate \in BOOLEAN /\ alive \in BOOLEAN
      BY Zenon DEF Init
    <2>2. /\ Count \in 0..Capacity /\ WriteCursor \in Slots
          /\ ReadCursor \in Slots /\ TCount \in Threads /\ TCapacity \in Nat
          /\ submitted \in 0..MaxTasks /\ dIdx \in Nat
      BY NumThreadsAssumption, MaxTasksAssumption
         DEF Init, Slots, Capacity, Threads, MaxThreads
    <2>3. /\ wpc \in [Threads -> WorkerPCs]
          /\ State \in [Threads -> {"idle", "running", "infinite", "dead"}]
      BY DEF Init, WorkerPCs
    <2>. QED BY <2>1, <2>2, <2>3 DEF Init, FieldTypes, ClientPCs
  <1>2. QueueInv
    BY NumThreadsAssumption DEF Init, QueueInv, Wrap, Live, Slots, Capacity
  <1>3. WorkerInv
    BY NumThreadsAssumption, MaxTasksAssumption
       DEF Init, WorkerInv, Holding, Threads, MaxThreads
  <1>4. ClientInv /\ NoStaleThreadUse /\ CancelOnlyInfinite
    BY DEF Init, ClientInv, NoStaleThreadUse, CancelOnlyInfinite
  <1>. QED BY <1>1, <1>2, <1>3, <1>4 DEF LocalInv


(* A step that leaves the task list alone keeps QueueInv.                   *)
LEMMA QueueUntouched ==
  ASSUME QueueInv, UNCHANGED queueVars
  PROVE  QueueInv'
  BY DEF QueueInv, queueVars, Live

(* The first task of the ring is a real one.                                *)
LEMMA HeadIsTask ==
  ASSUME FieldTypes, QueueInv, Count # 0
  PROVE  Items[ReadCursor] \in Task
  BY NumThreadsAssumption DEF FieldTypes, QueueInv, Live, Slots, Capacity

(* Taking a task out keeps the ring consistent.                             *)
LEMMA DequeueQueue ==
  ASSUME FieldTypes, QueueInv, Count # 0, NEW w \in Threads,
         VTaskList_Dequeue(w)
  PROVE  QueueInv' /\ ReadCursor' \in Slots /\ Count' \in 0..Capacity
  <1>1. /\ NumThreads \in Nat /\ NumThreads > 0
        /\ Count \in 1..NumThreads /\ ReadCursor \in 0..(NumThreads - 1)
    BY NumThreadsAssumption DEF FieldTypes, Slots, Capacity
  <1>2. ReadCursor' = Wrap(ReadCursor + 1) /\ ReadCursor' \in Slots
    BY AdvanceWrap DEF VTaskList_Dequeue, FieldTypes
  <1>3. Count' = Count - 1 /\ UNCHANGED <<Items, WriteCursor>>
    BY DEF VTaskList_Dequeue
  <1>4. WriteCursor' = Wrap(ReadCursor' + Count')
    BY <1>1, <1>2, <1>3 DEF QueueInv, Wrap, Capacity
  <1>5. ASSUME NEW j \in Slots, Live(j)' PROVE Live(j)
    BY <1>1, <1>2, <1>3, <1>5 DEF Live, Wrap, Slots, Capacity
  <1>. QED BY <1>1, <1>2, <1>3, <1>4, <1>5 DEF QueueInv, Wrap, Slots, Capacity

(* Putting one in, where there is room, does too.                           *)
LEMMA PutQueue ==
  ASSUME FieldTypes, QueueInv, Count # Capacity, NEW t \in Task,
         VTaskList_Put(t)
  PROVE  /\ QueueInv' /\ WriteCursor' \in Slots /\ Count' \in 0..Capacity
         /\ Items' \in [Slots -> Task \cup {NoTask}]
  <1>1. /\ NumThreads \in Nat /\ NumThreads > 0
        /\ Count \in 0..(NumThreads - 1) /\ ReadCursor \in 0..(NumThreads - 1)
        /\ WriteCursor \in 0..(NumThreads - 1)
    BY NumThreadsAssumption DEF FieldTypes, Slots, Capacity
  <1>2. WriteCursor' = Wrap(WriteCursor + 1) /\ WriteCursor' \in Slots
    BY AdvanceWrap DEF VTaskList_Put, FieldTypes
  <1>3. Count' = Count + 1 /\ ReadCursor' = ReadCursor
    BY DEF VTaskList_Put
  <1>4. WriteCursor' = Wrap(ReadCursor' + Count')
    BY <1>1, <1>2, <1>3 DEF QueueInv, Wrap, Capacity
  <1>5. ASSUME NEW j \in Slots, Live(j)', j # WriteCursor PROVE Live(j)
    BY <1>1, <1>3, <1>5 DEF Live, QueueInv, Wrap, Slots, Capacity
  <1>6. \A j \in Slots : Items'[j] = IF j = WriteCursor THEN t ELSE Items[j]
    BY DEF VTaskList_Put, FieldTypes
  <1>7. Items' \in [Slots -> Task \cup {NoTask}]
    BY DEF VTaskList_Put, FieldTypes
  <1>8. \A j \in Slots : Live(j)' => Items'[j] \in Task
    BY <1>5, <1>6 DEF QueueInv
  <1>. QED BY <1>1, <1>2, <1>3, <1>4, <1>7, <1>8 DEF QueueInv, Wrap, Slots, Capacity

-----------------------------------------------------------------------------
(* Every worker step keeps LocalInv.                                        *)
LEMMA WorkerLocal ==
  ASSUME LocalInv, NEW w \in Threads, WorkerStep(w) \/ SpuriousWorker(w)
  PROVE  LocalInv'
  <1> USE DEF LocalInv, FieldTypes, WorkerInv, ClientInv, NoStaleThreadUse,
              CancelOnlyInfinite, Holding, NoTask, WorkerPCs, queueVars,
              listVars, countVars, lifeVars, workerVars, clientVars, ghostVars
  <1>1. CASE TakeTask(w)
    <2>1. /\ Count # 0 /\ VTaskList_Dequeue(w)
          /\ wpc[w] \in {"take", "woken"} /\ wpc' = [wpc EXCEPT ![w] = "got"]
          /\ UNCHANGED <<listVars, lifeVars, clientVars, ghostVars>>
      BY <1>1 DEF TakeTask, AtQueue
    <2>2. QueueInv' /\ ReadCursor' \in Slots /\ Count' \in 0..Capacity
      BY <2>1, DequeueQueue
    <2>3. /\ held' = [held EXCEPT ![w] = Items[ReadCursor]]
          /\ UNCHANGED <<Items, WriteCursor>>
      BY <2>1 DEF VTaskList_Dequeue
    <2>4. Items[ReadCursor] \in Task
      BY <2>1, HeadIsTask
    <2>. HIDE DEF NoTask
    <2>5. FieldTypes'
      BY <2>1, <2>2, <2>3, <2>4
    <2>6. WorkerInv'
      BY <2>1, <2>3, <2>4
    <2>7. ClientInv' /\ NoStaleThreadUse' /\ CancelOnlyInfinite'
      BY <2>1, <2>3
    <2>. QED BY <2>2, <2>5, <2>6, <2>7
  <1>2. CASE ThreadStart(w)
    <2>1. QueueInv'
      BY <1>2, QueueUntouched DEF ThreadStart
    <2>2. FieldTypes' /\ WorkerInv'
      BY <1>2 DEF ThreadStart
    <2>3. ClientInv' /\ NoStaleThreadUse' /\ CancelOnlyInfinite'
      BY <1>2 DEF ThreadStart
    <2>. QED BY <2>1, <2>2, <2>3
  <1>3. CASE WaitForTask(w)
    <2>1. QueueInv'
      BY <1>3, QueueUntouched DEF WaitForTask
    <2>2. FieldTypes' /\ WorkerInv'
      BY <1>3 DEF WaitForTask, AtQueue
    <2>3. ClientInv' /\ NoStaleThreadUse' /\ CancelOnlyInfinite'
      BY <1>3 DEF WaitForTask, AtQueue
    <2>. QED BY <2>1, <2>2, <2>3
  <1>4. CASE ThreadExit(w)
    <2>1. QueueInv'
      BY <1>4, QueueUntouched DEF ThreadExit
    <2>2. FieldTypes' /\ WorkerInv'
      BY <1>4 DEF ThreadExit
    <2>3. ClientInv' /\ NoStaleThreadUse' /\ CancelOnlyInfinite'
      BY <1>4 DEF ThreadExit
    <2>. QED BY <2>1, <2>2, <2>3
  <1>5. CASE SkipNull(w)
    <2>1. QueueInv'
      BY <1>5, QueueUntouched DEF SkipNull
    <2>2. FieldTypes' /\ WorkerInv'
      BY <1>5 DEF SkipNull
    <2>3. ClientInv' /\ NoStaleThreadUse' /\ CancelOnlyInfinite'
      BY <1>5 DEF SkipNull
    <2>. QED BY <2>1, <2>2, <2>3
  <1>6. CASE MarkState(w)
    <2>1. QueueInv'
      BY <1>6, QueueUntouched DEF MarkState
    <2>2. FieldTypes' /\ WorkerInv'
      BY <1>6 DEF MarkState
    <2>3. ClientInv' /\ NoStaleThreadUse' /\ CancelOnlyInfinite'
      BY <1>6 DEF MarkState
    <2>. QED BY <2>1, <2>2, <2>3
  <1>7. CASE CountIn(w)
    <2>1. QueueInv'
      BY <1>7, QueueUntouched DEF CountIn
    <2>2. FieldTypes' /\ WorkerInv'
      BY <1>7 DEF CountIn
    <2>3. ClientInv' /\ NoStaleThreadUse' /\ CancelOnlyInfinite'
      BY <1>7 DEF CountIn
    <2>. QED BY <2>1, <2>2, <2>3
  <1>8. CASE RunTask(w)
    <2>1. QueueInv'
      BY <1>8, QueueUntouched DEF RunTask
    <2>2. FieldTypes' /\ WorkerInv'
      BY <1>8 DEF RunTask
    <2>3. ClientInv' /\ NoStaleThreadUse' /\ CancelOnlyInfinite'
      BY <1>8 DEF RunTask
    <2>. QED BY <2>1, <2>2, <2>3
  <1>9. CASE Cancelled(w)
    <2>1. QueueInv'
      BY <1>9, QueueUntouched DEF Cancelled
    <2>2. FieldTypes' /\ WorkerInv'
      BY <1>9 DEF Cancelled
    <2>3. ClientInv' /\ NoStaleThreadUse' /\ CancelOnlyInfinite'
      BY <1>9 DEF Cancelled
    <2>. QED BY <2>1, <2>2, <2>3
  <1>10. CASE CountOut(w)
    <2>1. QueueInv'
      BY <1>10, QueueUntouched DEF CountOut
    <2>2. FieldTypes' /\ WorkerInv'
      BY <1>10 DEF CountOut, SignalThreadDone, SignalClient, ClientPCs
    <2>3. ClientInv' /\ NoStaleThreadUse' /\ CancelOnlyInfinite'
      BY <1>10 DEF CountOut, SignalThreadDone, SignalClient, ClientPCs
    <2>. QED BY <2>1, <2>2, <2>3
  <1>11. CASE CheckAllDone(w)
    <2>1. QueueInv'
      BY <1>11, QueueUntouched DEF CheckAllDone
    <2>2. FieldTypes' /\ WorkerInv'
      BY <1>11 DEF CheckAllDone, SignalAllThreadsDone, SignalClient, ClientPCs
    <2>3. ClientInv' /\ NoStaleThreadUse' /\ CancelOnlyInfinite'
      BY <1>11 DEF CheckAllDone, SignalAllThreadsDone, SignalClient, ClientPCs
    <2>. QED BY <2>1, <2>2, <2>3
  <1>12. CASE SpuriousWorker(w)
    <2>1. QueueInv'
      BY <1>12, QueueUntouched DEF SpuriousWorker
    <2>2. FieldTypes' /\ WorkerInv'
      BY <1>12 DEF SpuriousWorker
    <2>3. ClientInv' /\ NoStaleThreadUse' /\ CancelOnlyInfinite'
      BY <1>12 DEF SpuriousWorker
    <2>. QED BY <2>1, <2>2, <2>3
  <1>. QED BY <1>1, <1>2, <1>3, <1>4, <1>5, <1>6, <1>7, <1>8, <1>9, <1>10, <1>11, <1>12 DEF WorkerStep

(* The list of threads grows only when every thread is past its last use of *)
(* its vthread*.                                                            *)
LEMMA AddThreadLocal ==
  ASSUME LocalInv, submitted < MaxTasks, IsAllThreadsInfinite,
         VThreadPool_AddThread
  PROVE  /\ TCount + 1 \in Threads
         /\ State' = [State EXCEPT ![TCount + 1] = "idle"]
         /\ wpc' = [wpc EXCEPT ![TCount + 1] = "start"]
         /\ wpc[TCount + 1] = "none"
         /\ TCount' = TCount + 1 /\ TCapacity' \in Nat
         /\ stale' \subseteq 1..TCount
         /\ \A w \in 1..TCount : /\ wpc[w] \in {"enter", "run", "cancelled"}
                                 /\ held[w].Attr = "infinity"
  <1>1. TCount \in Nat /\ TCount + 1 \in Threads /\ 1..TCount \subseteq Threads
    BY NumThreadsAssumption, MaxTasksAssumption
       DEF LocalInv, FieldTypes, WorkerInv, Threads, MaxThreads
  <1>2. stale \subseteq 1..TCount
    <2>1. ASSUME NEW w \in stale PROVE w <= TCount
      <3>1. w \in Threads /\ wpc[w] # "none"
        BY DEF LocalInv, FieldTypes, NoStaleThreadUse
      <3>. QED BY <1>1, <3>1 DEF LocalInv, WorkerInv, Threads
    <2>. QED BY <1>1, <2>1, NumThreadsAssumption, MaxTasksAssumption
             DEF LocalInv, FieldTypes, Threads, MaxThreads
  <1>3. stale' \subseteq 1..TCount
    BY <1>2 DEF VThreadPool_AddThread, VThreadList_Push
  <1>4. \A w \in 1..TCount : /\ wpc[w] \in {"enter", "run", "cancelled"}
                             /\ held[w].Attr = "infinity"
    BY <1>1 DEF LocalInv, WorkerInv, IsAllThreadsInfinite
  <1>5. TCapacity' \in Nat
    BY DEF LocalInv, FieldTypes, VThreadPool_AddThread, VThreadList_Push
  <1>. QED BY <1>1, <1>3, <1>4, <1>5
           DEF LocalInv, WorkerInv, VThreadPool_AddThread, VThreadList_Push

(* VTaskList_Enqueue either puts the task in or blocks the client with it.  *)
LEMMA EnqueueLocal ==
  ASSUME LocalInv, NEW c \in Clients, NEW t \in Task, Enqueue(c, t)
  PROVE  /\ QueueInv' /\ WriteCursor' \in Slots /\ Count' \in 0..Capacity
         /\ Items' \in [Slots -> Task \cup {NoTask}]
         /\ UNCHANGED ReadCursor
         /\ \/ /\ cpc' = [cpc EXCEPT ![c] = "waitDone"]
               /\ arg' = [arg EXCEPT ![c] = t]
            \/ /\ cpc' = [cpc EXCEPT ![c] = "signal"]
               /\ arg' = [arg EXCEPT ![c] = NoTask]
  <1>1. CASE Count = Capacity
    BY <1>1, QueueUntouched DEF LocalInv, FieldTypes, Enqueue, queueVars
  <1>2. CASE Count # Capacity
    <2>1. VTaskList_Put(t)
      BY <1>2 DEF Enqueue
    <2>. QED BY <1>2, <2>1, PutQueue DEF LocalInv, Enqueue, VTaskList_Put
  <1>. QED BY <1>1, <1>2

(* VThreadPool_AddTask keeps the invariant.                                 *)
LEMMA AddTaskLocal ==
  ASSUME LocalInv, NEW c \in Clients, NEW k \in Kinds, AddTask(c, k)
  PROVE  LocalInv'
  <1> DEFINE t == [Id |-> submitted + 1, Attr |-> k]
  <1>1. /\ Idle(c) /\ submitted < MaxTasks /\ submitted' = submitted + 1
        /\ Enqueue(c, t)
        /\ UNCHANGED <<lifeVars, held, finished>>
    BY DEF AddTask, MayCall
  <1>2. submitted' \in 0..MaxTasks /\ t \in Task
    BY <1>1, KindsAssumption, MaxTasksAssumption
       DEF LocalInv, FieldTypes, Task
  <1> HIDE DEF t
  <1>3. /\ QueueInv' /\ WriteCursor' \in Slots /\ Count' \in 0..Capacity
        /\ Items' \in [Slots -> Task \cup {NoTask}]
        /\ UNCHANGED ReadCursor
        /\ \/ /\ cpc' = [cpc EXCEPT ![c] = "waitDone"]
              /\ arg' = [arg EXCEPT ![c] = t]
           \/ /\ cpc' = [cpc EXCEPT ![c] = "signal"]
              /\ arg' = [arg EXCEPT ![c] = NoTask]
    BY <1>1, <1>2, EnqueueLocal
  <1>4. ClientInv' /\ cpc' \in [Clients -> ClientPCs]
        /\ arg' \in [Clients -> Task \cup {NoTask}]
    BY <1>1, <1>2, <1>3 DEF LocalInv, FieldTypes, ClientInv, ClientPCs, lifeVars
  <1>5. CASE IsAllThreadsInfinite /\ VThreadPool_AddThread
    <2>1. /\ TCount + 1 \in Threads
          /\ State' = [State EXCEPT ![TCount + 1] = "idle"]
          /\ wpc' = [wpc EXCEPT ![TCount + 1] = "start"]
          /\ wpc[TCount + 1] = "none"
          /\ TCount' = TCount + 1 /\ TCapacity' \in Nat
          /\ stale' \subseteq 1..TCount
          /\ \A w \in 1..TCount : /\ wpc[w] \in {"enter", "run", "cancelled"}
                                  /\ held[w].Attr = "infinity"
      BY <1>1, <1>5, AddThreadLocal
    <2>2. TCount \in Nat /\ 1..TCount \subseteq Threads
      BY NumThreadsAssumption, MaxTasksAssumption
         DEF LocalInv, FieldTypes, Threads, MaxThreads
    <2>3. FieldTypes'
      BY <1>1, <1>2, <1>3, <1>4, <2>1, <2>2
         DEF LocalInv, FieldTypes, WorkerPCs, lifeVars
    <2>4. WorkerInv'
      BY <1>1, <2>1, <2>2, NumThreadsAssumption, MaxTasksAssumption
         DEF LocalInv, FieldTypes, WorkerInv, Holding, Threads, MaxThreads
    <2>5. NoStaleThreadUse' /\ CancelOnlyInfinite'
      BY <1>1, <2>1, <2>2
         DEF LocalInv, FieldTypes, NoStaleThreadUse, CancelOnlyInfinite, lifeVars
    <2>. QED BY <1>3, <1>4, <2>3, <2>4, <2>5 DEF LocalInv
  <1>6. CASE UNCHANGED <<listVars, wpc>>
    <2>1. FieldTypes'
      BY <1>1, <1>2, <1>3, <1>4, <1>6 DEF LocalInv, FieldTypes, listVars, lifeVars
    <2>2. WorkerInv'
      BY <1>1, <1>6, NumThreadsAssumption, MaxTasksAssumption
         DEF LocalInv, FieldTypes, WorkerInv, Threads, MaxThreads, listVars
    <2>3. NoStaleThreadUse' /\ CancelOnlyInfinite'
      BY <1>1, <1>6
         DEF LocalInv, NoStaleThreadUse, CancelOnlyInfinite, listVars, lifeVars
    <2>. QED BY <1>3, <1>4, <2>1, <2>2, <2>3 DEF LocalInv
  <1>. QED BY <1>5, <1>6 DEF AddTask

(* Every step of a client other than AddTask keeps LocalInv.                *)
LEMMA ClientLocal ==
  ASSUME LocalInv, NEW c \in Clients,
         \/ ClientStep(c) \/ Wait(c) \/ DestroyBegin(c) \/ SpuriousClient(c)
  PROVE  LocalInv'
  <1> USE DEF LocalInv, FieldTypes, WorkerInv, ClientInv, NoStaleThreadUse,
              CancelOnlyInfinite, WorkerPCs, ClientPCs, queueVars,
              listVars, countVars, lifeVars, workerVars, clientVars, ghostVars
  <1>1. CASE EnqueueWoken(c)
    <2>1. arg[c] \in Task
      BY <1>1 DEF EnqueueWoken
    <2>2. Enqueue(c, arg[c]) /\ UNCHANGED <<listVars, lifeVars, workerVars, ghostVars>>
      BY <1>1 DEF EnqueueWoken
    <2>3. /\ QueueInv' /\ WriteCursor' \in Slots /\ Count' \in 0..Capacity
          /\ Items' \in [Slots -> Task \cup {NoTask}]
          /\ UNCHANGED ReadCursor
          /\ \/ /\ cpc' = [cpc EXCEPT ![c] = "waitDone"]
                /\ arg' = [arg EXCEPT ![c] = arg[c]]
             \/ /\ cpc' = [cpc EXCEPT ![c] = "signal"]
                /\ arg' = [arg EXCEPT ![c] = NoTask]
      BY <2>1, <2>2, EnqueueLocal
    <2>4. FieldTypes' /\ ClientInv'
      BY <2>1, <2>2, <2>3
    <2>5. WorkerInv' /\ NoStaleThreadUse' /\ CancelOnlyInfinite'
      BY <2>2
    <2>. QED BY <2>3, <2>4, <2>5
  <1>2. CASE AddTaskSignal(c)
    <2>1. QueueInv'
      BY <1>2, QueueUntouched DEF AddTaskSignal
    <2>2. FieldTypes' /\ WorkerInv'
      BY <1>2 DEF AddTaskSignal, SignalTaskAvaliable, Holding
    <2>3. ClientInv' /\ NoStaleThreadUse' /\ CancelOnlyInfinite'
      BY <1>2 DEF AddTaskSignal, SignalTaskAvaliable, Holding
    <2>. QED BY <2>1, <2>2, <2>3
  <1>3. CASE Wait(c)
    <2>1. QueueInv'
      BY <1>3, QueueUntouched DEF Wait, WaitLoop
    <2>2. FieldTypes' /\ WorkerInv'
      BY <1>3 DEF Wait, WaitLoop, MayCall
    <2>3. ClientInv' /\ NoStaleThreadUse' /\ CancelOnlyInfinite'
      BY <1>3 DEF Wait, WaitLoop, MayCall
    <2>. QED BY <2>1, <2>2, <2>3
  <1>4. CASE WaitWoken(c)
    <2>1. QueueInv'
      BY <1>4, QueueUntouched DEF WaitWoken, WaitLoop
    <2>2. FieldTypes' /\ WorkerInv'
      BY <1>4 DEF WaitWoken, WaitLoop
    <2>3. ClientInv' /\ NoStaleThreadUse' /\ CancelOnlyInfinite'
      BY <1>4 DEF WaitWoken, WaitLoop
    <2>. QED BY <2>1, <2>2, <2>3
  <1>5. CASE DestroyBegin(c)
    <2>1. QueueInv'
      BY <1>5, QueueUntouched DEF DestroyBegin
    <2>2. FieldTypes' /\ WorkerInv'
      BY <1>5 DEF DestroyBegin, MayCall, Idle
    <2>3. ClientInv' /\ NoStaleThreadUse' /\ CancelOnlyInfinite'
      BY <1>5 DEF DestroyBegin, MayCall, Idle
    <2>. QED BY <2>1, <2>2, <2>3
  <1>6. CASE DestroyFree(c)
    <2>1. QueueInv'
      BY <1>6, QueueUntouched DEF DestroyFree
    <2>2. FieldTypes' /\ WorkerInv'
      BY <1>6 DEF DestroyFree
    <2>3. ClientInv' /\ NoStaleThreadUse' /\ CancelOnlyInfinite'
      BY <1>6 DEF DestroyFree
    <2>. QED BY <2>1, <2>2, <2>3
  <1>7. CASE SpuriousClient(c)
    <2>1. QueueInv'
      BY <1>7, QueueUntouched DEF SpuriousClient
    <2>2. FieldTypes' /\ WorkerInv'
      BY <1>7 DEF SpuriousClient
    <2>3. ClientInv' /\ NoStaleThreadUse' /\ CancelOnlyInfinite'
      BY <1>7 DEF SpuriousClient
    <2>. QED BY <2>1, <2>2, <2>3
  <1>8. CASE DestroyCancel(c)
    <2>1. QueueInv'
      BY <1>8, QueueUntouched DEF DestroyCancel
    <2>2. dIdx \in Threads
      BY <1>8, NumThreadsAssumption, MaxTasksAssumption
         DEF DestroyCancel, Threads, MaxThreads
    <2>3. CASE MustCancel(dIdx)
      <3>1. /\ wpc[dIdx] \in {"enter", "run", "cancelled"}
            /\ held[dIdx].Attr = "infinity"
        BY <2>2, <2>3 DEF MustCancel
      <3>2. FieldTypes'
        <4>1. /\ State' = [State EXCEPT ![dIdx] = "dead"]
              /\ cancelled' = cancelled \cup {dIdx} /\ dIdx' = dIdx + 1
          BY <1>8, <2>3 DEF DestroyCancel
        <4>2. /\ State' \in [Threads -> {"idle", "running", "infinite", "dead"}]
              /\ cancelled' \subseteq Threads /\ dIdx' \in Nat
          BY <2>2, <4>1
        <4>. QED BY <1>8, <4>2 DEF DestroyCancel
      <3>3. WorkerInv'
        BY <1>8, <2>2, <2>3 DEF DestroyCancel
      <3>4. ClientInv' /\ NoStaleThreadUse' /\ CancelOnlyInfinite'
        BY <1>8, <2>3, <3>1 DEF DestroyCancel
      <3>. QED BY <2>1, <3>2, <3>3, <3>4
    <2>4. CASE ~MustCancel(dIdx)
      BY <1>8, <2>1, <2>4 DEF DestroyCancel
    <2>. QED BY <2>3, <2>4
  <1>. QED BY <1>1, <1>2, <1>3, <1>4, <1>5, <1>6, <1>7, <1>8 DEF ClientStep

(* Every step keeps the invariant.                                          *)
LEMMA LocalInvStep == LocalInv /\ [Next]_vars => LocalInv'
  <1> SUFFICES ASSUME LocalInv, [Next]_vars PROVE LocalInv'
    OBVIOUS
  <1>1. CASE UNCHANGED vars
    BY <1>1, QueueUntouched
       DEF LocalInv, FieldTypes, WorkerInv, ClientInv, NoStaleThreadUse,
           CancelOnlyInfinite, vars, queueVars, listVars, countVars, lifeVars,
           workerVars, clientVars, ghostVars
  <1>2. ASSUME NEW w \in Threads, WorkerStep(w) \/ SpuriousWorker(w)
        PROVE  LocalInv'
    BY <1>2, WorkerLocal
  <1>3. ASSUME NEW c \in Clients,
               ClientStep(c) \/ ClientCall(c) \/ SpuriousClient(c)
        PROVE  LocalInv'
    BY <1>3, ClientLocal, AddTaskLocal DEF ClientCall
  <1>. QED BY <1>1, <1>2, <1>3 DEF Next

(* The inductive invariant holds in every reachable state.                  *)
THEOREM LocalInvAlways == Spec => []LocalInv
  BY LocalInvInit, LocalInvStep, PTL DEF Spec

-----------------------------------------------------------------------------
(* The safety properties that count: the working counters are exact, no     *)
(* wakeup is lost, and what VThreadPool_Wait has established when it        *)
(* returns.                                                                 *)

(* There are finitely many threads.                                         *)
LEMMA ThreadsFinite == IsFiniteSet(Threads)
  BY FS_Interval, NumThreadsAssumption, MaxTasksAssumption
     DEF Threads, MaxThreads

(* A set with one thread more has one more element.                         *)
LEMMA CountUp ==
  ASSUME NEW S \in SUBSET Threads, NEW x, x \notin S
  PROVE  Cardinality(S \cup {x}) = Cardinality(S) + 1
  BY ThreadsFinite, FS_Subset, FS_AddElement

(* A set with one thread less has one less.                                 *)
LEMMA CountDown ==
  ASSUME NEW S \in SUBSET Threads, NEW x \in S
  PROVE  Cardinality(S \ {x}) = Cardinality(S) - 1
  BY ThreadsFinite, FS_Subset, FS_RemoveElement

(* The sets that are counted are sets of threads.                           *)
LEMMA SetsOfThreads == /\ NormalWorkers \in SUBSET Threads
                       /\ InfiniteWorkers \in SUBSET Threads
                       /\ StartedWorkers \in SUBSET Threads
  BY DEF NormalWorkers, InfiniteWorkers, StartedWorkers

-----------------------------------------------------------------------------
(* A step that moves no thread into or out of the three sets and leaves the *)
(* three counters alone keeps them exact.                                   *)
LEMMA SameCounts ==
  ASSUME CountersExact, UNCHANGED countVars, NormalWorkers' = NormalWorkers,
         InfiniteWorkers' = InfiniteWorkers, StartedWorkers' = StartedWorkers
  PROVE  CountersExact'
  BY DEF CountersExact, countVars

(* A worker's step changes a counter and the set it counts together.        *)
LEMMA WorkerCounts ==
  ASSUME LocalInv, CountersExact, NEW w \in Threads,
         WorkerStep(w) \/ SpuriousWorker(w)
  PROVE  CountersExact'
  <1> USE DEF LocalInv, FieldTypes, WorkerInv, Holding, NoTask
  <1>1. CASE ThreadStart(w)
    <2>1. /\ NormalWorkers' = NormalWorkers
          /\ InfiniteWorkers' = InfiniteWorkers
          /\ StartedWorkers' = StartedWorkers \cup {w}
          /\ w \notin StartedWorkers
      BY <1>1 DEF ThreadStart, NormalWorkers, InfiniteWorkers, StartedWorkers
    <2>2. Cardinality(StartedWorkers') = Cardinality(StartedWorkers) + 1
      BY <2>1, CountUp, SetsOfThreads
    <2>. QED BY <1>1, <2>1, <2>2 DEF ThreadStart, CountersExact
  <1>2. CASE ThreadExit(w)
    <2>1. /\ NormalWorkers' = NormalWorkers
          /\ InfiniteWorkers' = InfiniteWorkers
          /\ StartedWorkers' = StartedWorkers \ {w}
          /\ w \in StartedWorkers
      BY <1>2 DEF ThreadExit, NormalWorkers, InfiniteWorkers, StartedWorkers
    <2>2. Cardinality(StartedWorkers') = Cardinality(StartedWorkers) - 1
      BY <2>1, CountDown, SetsOfThreads
    <2>. QED BY <1>2, <2>1, <2>2 DEF ThreadExit, CountersExact
  <1>3. CASE CountIn(w)
    <2>1. /\ StartedWorkers' = StartedWorkers
          /\ wpc' = [wpc EXCEPT ![w] = "run"] /\ wpc[w] = "enter"
          /\ UNCHANGED <<held, ThreadCount>>
      BY <1>3 DEF CountIn, StartedWorkers
    <2>2. CASE held[w].Attr = "infinity"
      <3>1. /\ NormalWorkers' = NormalWorkers
            /\ InfiniteWorkers' = InfiniteWorkers \cup {w}
            /\ w \notin InfiniteWorkers
        BY <2>1, <2>2 DEF NormalWorkers, InfiniteWorkers
      <3>2. Cardinality(InfiniteWorkers') = Cardinality(InfiniteWorkers) + 1
        BY <3>1, CountUp, SetsOfThreads
      <3>. QED BY <1>3, <2>1, <2>2, <3>1, <3>2
               DEF CountIn, CountWorking, CountersExact
    <2>3. CASE held[w].Attr # "infinity"
      <3>1. held[w].Attr = "default"
        BY <2>1, <2>3 DEF Task, AllKinds
      <3>2. /\ InfiniteWorkers' = InfiniteWorkers
            /\ NormalWorkers' = NormalWorkers \cup {w}
            /\ w \notin NormalWorkers
        BY <2>1, <3>1 DEF NormalWorkers, InfiniteWorkers
      <3>3. Cardinality(NormalWorkers') = Cardinality(NormalWorkers) + 1
        BY <3>2, CountUp, SetsOfThreads
      <3>. QED BY <1>3, <2>1, <2>3, <3>2, <3>3
               DEF CountIn, CountWorking, CountersExact
    <2>. QED BY <2>2, <2>3
  <1>4. CASE CountOut(w)
    <2>1. /\ InfiniteWorkers' = InfiniteWorkers
          /\ StartedWorkers' = StartedWorkers
          /\ NormalWorkers' = NormalWorkers \ {w}
          /\ w \in NormalWorkers
      BY <1>4 DEF CountOut, NormalWorkers, InfiniteWorkers, StartedWorkers
    <2>2. Cardinality(NormalWorkers') = Cardinality(NormalWorkers) - 1
      BY <2>1, CountDown, SetsOfThreads
    <2>. QED BY <1>4, <2>1, <2>2 DEF CountOut, CountersExact
  <1>5. CASE TakeTask(w)
    <2>1. /\ NormalWorkers' = NormalWorkers
          /\ InfiniteWorkers' = InfiniteWorkers
          /\ StartedWorkers' = StartedWorkers
      BY <1>5 DEF TakeTask, AtQueue, VTaskList_Dequeue, NormalWorkers, InfiniteWorkers, StartedWorkers
    <2>. QED BY <1>5, <2>1, SameCounts DEF TakeTask
  <1>6. CASE WaitForTask(w)
    <2>1. /\ NormalWorkers' = NormalWorkers
          /\ InfiniteWorkers' = InfiniteWorkers
          /\ StartedWorkers' = StartedWorkers
      BY <1>6 DEF WaitForTask, AtQueue, NormalWorkers, InfiniteWorkers, StartedWorkers
    <2>. QED BY <1>6, <2>1, SameCounts DEF WaitForTask
  <1>7. CASE SkipNull(w)
    <2>1. /\ NormalWorkers' = NormalWorkers
          /\ InfiniteWorkers' = InfiniteWorkers
          /\ StartedWorkers' = StartedWorkers
      BY <1>7 DEF SkipNull, NormalWorkers, InfiniteWorkers, StartedWorkers
    <2>. QED BY <1>7, <2>1, SameCounts DEF SkipNull
  <1>8. CASE MarkState(w)
    <2>1. /\ NormalWorkers' = NormalWorkers
          /\ InfiniteWorkers' = InfiniteWorkers
          /\ StartedWorkers' = StartedWorkers
      BY <1>8 DEF MarkState, NormalWorkers, InfiniteWorkers, StartedWorkers
    <2>. QED BY <1>8, <2>1, SameCounts DEF MarkState
  <1>9. CASE RunTask(w)
    <2>1. /\ NormalWorkers' = NormalWorkers
          /\ InfiniteWorkers' = InfiniteWorkers
          /\ StartedWorkers' = StartedWorkers
      BY <1>9 DEF RunTask, NormalWorkers, InfiniteWorkers, StartedWorkers
    <2>. QED BY <1>9, <2>1, SameCounts DEF RunTask
  <1>10. CASE Cancelled(w)
    <2>1. /\ NormalWorkers' = NormalWorkers
          /\ InfiniteWorkers' = InfiniteWorkers
          /\ StartedWorkers' = StartedWorkers
      BY <1>10 DEF Cancelled, CancelOnlyInfinite, NormalWorkers, InfiniteWorkers, StartedWorkers
    <2>. QED BY <1>10, <2>1, SameCounts DEF Cancelled
  <1>11. CASE CheckAllDone(w)
    <2>1. /\ NormalWorkers' = NormalWorkers
          /\ InfiniteWorkers' = InfiniteWorkers
          /\ StartedWorkers' = StartedWorkers
      BY <1>11 DEF CheckAllDone, NormalWorkers, InfiniteWorkers, StartedWorkers
    <2>. QED BY <1>11, <2>1, SameCounts DEF CheckAllDone
  <1>12. CASE SpuriousWorker(w)
    <2>1. /\ NormalWorkers' = NormalWorkers
          /\ InfiniteWorkers' = InfiniteWorkers
          /\ StartedWorkers' = StartedWorkers
      BY <1>12 DEF SpuriousWorker, NormalWorkers, InfiniteWorkers, StartedWorkers
    <2>. QED BY <1>12, <2>1, SameCounts DEF SpuriousWorker
  <1>. QED BY <1>1, <1>2, <1>3, <1>4, <1>5, <1>6, <1>7, <1>8, <1>9, <1>10, <1>11, <1>12 DEF WorkerStep

(* Clients leave the counters alone; the thread AddTask may create has not  *)
(* started yet.                                                             *)
LEMMA ClientCounts ==
  ASSUME LocalInv, CountersExact, NEW c \in Clients,
         ClientStep(c) \/ ClientCall(c) \/ SpuriousClient(c)
  PROVE  CountersExact'
  <1>1. /\ UNCHANGED <<countVars, held>>
        /\ \/ UNCHANGED wpc
           \/ \E w \in Threads : /\ wpc[w] = "waitTask"
                                 /\ wpc' = [wpc EXCEPT ![w] = "woken"]
           \/ /\ wpc[TCount + 1] = "none"
              /\ wpc' = [wpc EXCEPT ![TCount + 1] = "start"]
    <2>1. CASE AddTaskSignal(c)
      BY <2>1 DEF AddTaskSignal, SignalTaskAvaliable
    <2>2. ASSUME NEW k \in Kinds, AddTask(c, k)
          PROVE  /\ UNCHANGED <<countVars, held>>
                 /\ \/ UNCHANGED wpc
                    \/ /\ wpc[TCount + 1] = "none"
                       /\ wpc' = [wpc EXCEPT ![TCount + 1] = "start"]
      <3>1. submitted < MaxTasks /\ UNCHANGED <<countVars, held>>
        BY <2>2 DEF AddTask
      <3>. QED BY <2>2, <3>1, AddThreadLocal DEF AddTask
    <2>3. CASE EnqueueWoken(c)
      BY <2>3 DEF EnqueueWoken, workerVars
    <2>4. CASE Wait(c) \/ WaitWoken(c)
      BY <2>4 DEF Wait, WaitWoken, WaitLoop, workerVars
    <2>5. CASE DestroyBegin(c) \/ DestroyCancel(c) \/ DestroyFree(c)
      BY <2>5 DEF DestroyBegin, DestroyCancel, DestroyFree, workerVars
    <2>6. CASE SpuriousClient(c)
      BY <2>6 DEF SpuriousClient, workerVars
    <2>. QED BY <2>1, <2>2, <2>3, <2>4, <2>5, <2>6 DEF ClientStep, ClientCall
  <1>2. /\ NormalWorkers' = NormalWorkers
        /\ InfiniteWorkers' = InfiniteWorkers
        /\ StartedWorkers' = StartedWorkers
    BY <1>1 DEF LocalInv, FieldTypes, NormalWorkers, InfiniteWorkers,
                StartedWorkers
  <1>. QED BY <1>1, <1>2, SameCounts

(* The counters are exact initially.                                        *)
LEMMA CountersInit == Init => CountersExact
  <1> SUFFICES ASSUME Init PROVE CountersExact
    OBVIOUS
  <1>1. NormalWorkers = {} /\ InfiniteWorkers = {} /\ StartedWorkers = {}
    BY DEF Init, NormalWorkers, InfiniteWorkers, StartedWorkers
  <1>. QED BY <1>1, FS_EmptySet DEF Init, CountersExact

(* Every step keeps the counters exact.                                     *)
LEMMA CountersStep == LocalInv /\ CountersExact /\ [Next]_vars => CountersExact'
  <1> SUFFICES ASSUME LocalInv, CountersExact, [Next]_vars PROVE CountersExact'
    OBVIOUS
  <1>1. CASE UNCHANGED vars
    BY <1>1 DEF vars, countVars, workerVars, CountersExact, NormalWorkers,
                InfiniteWorkers, StartedWorkers
  <1>. QED BY <1>1, WorkerCounts, ClientCounts DEF Next

(* In every reachable state the three working counters are the numbers of   *)
(* threads they stand for (lines 107, 124, 142, 147 and 159).               *)
THEOREM CountersAlwaysExact == Spec => []CountersExact
  BY CountersInit, CountersStep, LocalInvAlways, PTL DEF Spec

(* Exact counters have the types the code gives them.                       *)
LEMMA CountersAreTyped == LocalInv /\ CountersExact => TypeOK
  BY ThreadsFinite, FS_Subset, FS_CardinalityType
     DEF LocalInv, CountersExact, TypeOK, NormalWorkers, InfiniteWorkers,
         StartedWorkers

(* Type correctness: no index leaves the ring or the thread list, and no    *)
(* working counter wraps below zero.                                        *)
THEOREM TypeCorrect == Spec => []TypeOK
  BY CountersAlwaysExact, LocalInvAlways, CountersAreTyped, PTL

-----------------------------------------------------------------------------
(* A thread list that moves in memory is never written through again, and   *)
(* Destroy cancels no thread inside a default task: both are parts of the   *)
(* inductive invariant.                                                     *)
THEOREM StaleNeverUsed == Spec => []NoStaleThreadUse
  BY LocalInvAlways, PTL DEF LocalInv

(* VThreadPool_Destroy cancels only threads that run an infinite task, even *)
(* though it reads Thread->State without the mutex (line 273).              *)
THEOREM CancelsOnlyInfinite == Spec => []CancelOnlyInfinite
  BY LocalInvAlways, PTL DEF LocalInv

-----------------------------------------------------------------------------
(* No lost wakeup.                                                          *)

(* A set with one client more has one more element.                         *)
LEMMA ClientsUp ==
  ASSUME NEW S \in SUBSET Clients, NEW x, x \notin S
  PROVE  Cardinality(S \cup {x}) = Cardinality(S) + 1
  BY ClientsAssumption, FS_Subset, FS_AddElement DEF Clients

(* A set with one client less has one less.                                 *)
LEMMA ClientsDown ==
  ASSUME NEW S \in SUBSET Clients, NEW x \in S
  PROVE  Cardinality(S \ {x}) = Cardinality(S) - 1
  BY ClientsAssumption, FS_Subset, FS_RemoveElement DEF Clients

(* The sets of threads and clients that wakeups are counted by.             *)
LEMMA WakeupTypes ==
  /\ Awakened \in SUBSET Threads /\ Signalling \in SUBSET Clients
  /\ Cardinality(Awakened) \in Nat /\ Cardinality(Signalling) \in Nat
  <1>1. Awakened \in SUBSET Threads /\ Signalling \in SUBSET Clients
    BY DEF Awakened, Signalling
  <1>. QED BY <1>1, ThreadsFinite, ClientsAssumption, FS_Subset,
              FS_CardinalityType DEF Clients

(* A step that neither queues a task nor puts a thread to sleep, and that   *)
(* takes nobody out of the woken threads or the signalling clients.         *)
LEMMA WakeupsKept ==
  ASSUME NoLostWakeup, Sleeping' \subseteq Sleeping, UNCHANGED <<Terminate, Count>>,
         Awakened' = Awakened, Signalling' = Signalling
  PROVE  NoLostWakeup'
  BY DEF NoLostWakeup

(* No step of a worker loses a wakeup.                                      *)
LEMMA WorkerWakeups ==
  ASSUME LocalInv, NoLostWakeup, NEW w \in Threads,
         WorkerStep(w) \/ SpuriousWorker(w)
  PROVE  NoLostWakeup'
  <1> USE DEF LocalInv, FieldTypes
  <1>1. CASE TakeTask(w)
    <2>1. /\ Sleeping' = Sleeping /\ Signalling' = Signalling
          /\ Awakened' = Awakened \ {w}
          /\ Count' = Count - 1 /\ UNCHANGED Terminate /\ Count \in Nat
      BY <1>1, NumThreadsAssumption
         DEF TakeTask, AtQueue, VTaskList_Dequeue, Sleeping, Awakened,
             Signalling, lifeVars, clientVars, Capacity
    <2>2. Cardinality(Awakened') >= Cardinality(Awakened) - 1
      <3>1. CASE w \in Awakened
        BY <2>1, <3>1, CountDown, WakeupTypes
      <3>2. CASE w \notin Awakened
        <4>1. Awakened' = Awakened
          BY <2>1, <3>2
        <4>. QED BY <4>1, WakeupTypes
      <3>. QED BY <3>1, <3>2
    <2>3. Cardinality(Awakened') \in Nat
      BY <2>1, WakeupTypes, ThreadsFinite, FS_Subset, FS_CardinalityType
    <2>. QED BY <2>1, <2>2, <2>3, WakeupTypes DEF NoLostWakeup
  <1>2. CASE WaitForTask(w)
    <2>1. /\ Signalling' = Signalling /\ Count' = 0
          /\ Awakened' \in SUBSET Threads
      BY <1>2 DEF WaitForTask, AtQueue, Awakened, Signalling, queueVars, clientVars
    <2>2. Cardinality(Awakened') \in Nat /\ Cardinality(Signalling') \in Nat
      BY <2>1, WakeupTypes, ThreadsFinite, FS_Subset, FS_CardinalityType
    <2>. QED BY <2>1, <2>2 DEF NoLostWakeup
  <1>3. CASE ThreadExit(w)
    BY <1>3 DEF ThreadExit, lifeVars, NoLostWakeup
  <1>4. CASE SpuriousWorker(w)
    <2>1. /\ Sleeping' \subseteq Sleeping /\ Signalling' = Signalling
          /\ Awakened' = Awakened \cup {w} /\ w \notin Awakened
          /\ UNCHANGED <<Count, Terminate>> /\ Count \in Nat
      BY <1>4, NumThreadsAssumption
         DEF SpuriousWorker, Sleeping, Awakened, Signalling, queueVars,
             lifeVars, clientVars, Capacity
    <2>2. Cardinality(Awakened') = Cardinality(Awakened) + 1
      BY <2>1, CountUp, WakeupTypes
    <2>. QED BY <2>1, <2>2, WakeupTypes DEF NoLostWakeup
  <1>5. CASE ThreadStart(w)
    BY <1>5, WakeupsKept
       DEF ThreadStart, Sleeping, Awakened, Signalling, queueVars,
           lifeVars, clientVars
  <1>6. CASE SkipNull(w)
    BY <1>6, WakeupsKept
       DEF SkipNull, Sleeping, Awakened, Signalling, queueVars,
           lifeVars, clientVars
  <1>7. CASE MarkState(w)
    BY <1>7, WakeupsKept
       DEF MarkState, Sleeping, Awakened, Signalling, queueVars,
           lifeVars, clientVars
  <1>8. CASE CountIn(w)
    BY <1>8, WakeupsKept
       DEF CountIn, Sleeping, Awakened, Signalling, queueVars,
           lifeVars, clientVars
  <1>9. CASE RunTask(w)
    BY <1>9, WakeupsKept
       DEF RunTask, Sleeping, Awakened, Signalling, queueVars,
           lifeVars, clientVars
  <1>10. CASE Cancelled(w)
    BY <1>10, WakeupsKept
       DEF Cancelled, Sleeping, Awakened, Signalling, queueVars,
           lifeVars, clientVars
  <1>11. CASE CountOut(w)
    BY <1>11, WakeupsKept
       DEF CountOut, SignalThreadDone, SignalClient, Sleeping, Awakened, Signalling, queueVars,
           lifeVars, clientVars
  <1>12. CASE CheckAllDone(w)
    BY <1>12, WakeupsKept
       DEF CheckAllDone, SignalAllThreadsDone, SignalClient, Sleeping, Awakened, Signalling, queueVars,
           lifeVars, clientVars
  <1>. QED BY <1>1, <1>2, <1>3, <1>4, <1>5, <1>6, <1>7, <1>8, <1>9, <1>10, <1>11, <1>12 DEF WorkerStep

(* AddTask and EnqueueWoken queue at most one task, and then have a signal  *)
(* to send.                                                                 *)
LEMMA EnqueueWakeups ==
  ASSUME LocalInv, NoLostWakeup, NEW c \in Clients, NEW t, Enqueue(c, t),
         cpc[c] # "signal", UNCHANGED Terminate,
         Sleeping' = Sleeping, Awakened' = Awakened
  PROVE  NoLostWakeup'
  <1> USE DEF LocalInv, FieldTypes
  <1>1. CASE Count = Capacity
    <2>1. UNCHANGED Count /\ Signalling' = Signalling
      BY <1>1 DEF Enqueue, Signalling, queueVars
    <2>. QED BY <2>1, WakeupsKept
  <1>2. CASE Count # Capacity
    <2>1. /\ Count' = Count + 1 /\ Count \in Nat
          /\ Signalling' = Signalling \cup {c} /\ c \notin Signalling
      BY <1>2, NumThreadsAssumption
         DEF Enqueue, VTaskList_Put, Signalling, Capacity
    <2>2. Cardinality(Signalling') = Cardinality(Signalling) + 1
      BY <2>1, ClientsUp, WakeupTypes
    <2>. QED BY <2>1, <2>2, WakeupTypes DEF NoLostWakeup
  <1>. QED BY <1>1, <1>2

(* No step of a client loses a wakeup.                                      *)
LEMMA ClientWakeups ==
  ASSUME LocalInv, NoLostWakeup, NEW c \in Clients,
         ClientStep(c) \/ ClientCall(c) \/ SpuriousClient(c)
  PROVE  NoLostWakeup'
  <1> USE DEF LocalInv, FieldTypes
  <1>1. ASSUME NEW k \in Kinds, AddTask(c, k) PROVE NoLostWakeup'
    <2>1. /\ submitted < MaxTasks /\ UNCHANGED Terminate /\ cpc[c] # "signal"
          /\ Enqueue(c, [Id |-> submitted + 1, Attr |-> k])
      BY <1>1 DEF AddTask, MayCall, Idle, lifeVars
    <2>2. \/ UNCHANGED wpc
          \/ /\ wpc[TCount + 1] = "none"
             /\ wpc' = [wpc EXCEPT ![TCount + 1] = "start"]
      BY <1>1, <2>1, AddThreadLocal DEF AddTask
    <2>3. Sleeping' = Sleeping /\ Awakened' = Awakened
      BY <2>2 DEF Sleeping, Awakened
    <2>. QED BY <2>1, <2>3, EnqueueWakeups
  <1>2. CASE EnqueueWoken(c)
    <2>1. /\ UNCHANGED Terminate /\ cpc[c] # "signal"
          /\ Enqueue(c, arg[c])
          /\ Sleeping' = Sleeping /\ Awakened' = Awakened
      BY <1>2 DEF EnqueueWoken, lifeVars, workerVars, Sleeping, Awakened
    <2>. QED BY <2>1, EnqueueWakeups
  <1>3. CASE AddTaskSignal(c)
    <2>1. /\ UNCHANGED <<Count, Terminate>> /\ Count \in Nat
          /\ Signalling' = Signalling \ {c} /\ c \in Signalling
      BY <1>3, NumThreadsAssumption
         DEF AddTaskSignal, Signalling, queueVars, lifeVars, Capacity
    <2>2. Cardinality(Signalling') = Cardinality(Signalling) - 1
      BY <2>1, ClientsDown, WakeupTypes
    <2>3. CASE Sleeping = {}
      <3>1. Sleeping' = {}
        BY <1>3, <2>3 DEF AddTaskSignal, SignalTaskAvaliable, Sleeping
      <3>. QED BY <3>1 DEF NoLostWakeup
    <2>4. CASE Sleeping # {}
      <3>1. PICK w \in Threads : /\ wpc[w] = "waitTask"
                                 /\ wpc' = [wpc EXCEPT ![w] = "woken"]
        BY <1>3, <2>4 DEF AddTaskSignal, SignalTaskAvaliable, Sleeping
      <3>2. Awakened' = Awakened \cup {w} /\ w \notin Awakened
        BY <3>1 DEF Awakened
      <3>3. Cardinality(Awakened') = Cardinality(Awakened) + 1
        BY <3>2, CountUp, WakeupTypes
      <3>. QED BY <2>1, <2>2, <2>4, <3>3, WakeupTypes DEF NoLostWakeup
    <2>. QED BY <2>3, <2>4
  <1>4. CASE Wait(c) \/ WaitWoken(c)
    BY <1>4, WakeupsKept
       DEF Wait, WaitWoken, WaitLoop, MayCall, Idle, Sleeping, Awakened,
           Signalling, queueVars, lifeVars, workerVars
  <1>5. CASE DestroyBegin(c)
    BY <1>5 DEF DestroyBegin, NoLostWakeup
  <1>6. CASE DestroyCancel(c) \/ DestroyFree(c) \/ SpuriousClient(c)
    BY <1>6, WakeupsKept
       DEF DestroyCancel, DestroyFree, SpuriousClient, Sleeping, Awakened,
           Signalling, queueVars, lifeVars, workerVars, clientVars
  <1>. QED BY <1>1, <1>2, <1>3, <1>4, <1>5, <1>6 DEF ClientStep, ClientCall

(* No wakeup is lost initially.                                             *)
LEMMA WakeupsInit == Init => NoLostWakeup
  BY DEF Init, NoLostWakeup, Sleeping

(* No step loses a wakeup.                                                  *)
LEMMA WakeupsStep == LocalInv /\ NoLostWakeup /\ [Next]_vars => NoLostWakeup'
  <1> SUFFICES ASSUME LocalInv, NoLostWakeup, [Next]_vars PROVE NoLostWakeup'
    OBVIOUS
  <1>1. CASE UNCHANGED vars
    BY <1>1 DEF vars, queueVars, lifeVars, workerVars, clientVars,
                NoLostWakeup, Sleeping, Awakened, Signalling
  <1>. QED BY <1>1, WorkerWakeups, ClientWakeups DEF Next

(* While a worker sleeps, every queued task is matched by a signal on its   *)
(* way or by a worker already woken, although AddTask signals outside the   *)
(* mutex (line 218).                                                        *)
THEOREM WakeupNeverLost == Spec => []NoLostWakeup
  BY WakeupsInit, WakeupsStep, LocalInvAlways, PTL DEF Spec

-----------------------------------------------------------------------------
(* VThreadPool_Wait.                                                        *)

(* Only Wait and WaitWoken bring a client to "waited".                      *)
LEMMA OnlyWaitReturns ==
  ASSUME LocalInv, [Next]_vars, NEW c \in Clients,
         cpc[c] # "waited", cpc'[c] = "waited"
  PROVE  Wait(c) \/ WaitWoken(c)
  <1> USE DEF LocalInv, FieldTypes
  <1>1. CASE UNCHANGED vars
    BY <1>1 DEF vars, clientVars
  <1>2. ASSUME NEW w \in Threads, WorkerStep(w) \/ SpuriousWorker(w)
        PROVE  FALSE
    <2>1. \/ UNCHANGED cpc \/ SignalThreadDone \/ SignalAllThreadsDone
      BY <1>2 DEF WorkerStep, ThreadStart, TakeTask, WaitForTask, ThreadExit,
                  SkipNull, MarkState, CountIn, RunTask, Cancelled, CountOut,
                  CheckAllDone, SpuriousWorker, clientVars
    <2>. QED BY <2>1 DEF SignalThreadDone, SignalAllThreadsDone, SignalClient
  <1>3. ASSUME NEW d \in Clients, \/ EnqueueWoken(d) \/ AddTaskSignal(d)
                                  \/ \E k \in Kinds : AddTask(d, k)
        PROVE  FALSE
    BY <1>3 DEF EnqueueWoken, AddTaskSignal, AddTask, Enqueue
  <1>4. ASSUME NEW d \in Clients, \/ DestroyBegin(d) \/ DestroyCancel(d)
                                  \/ DestroyFree(d) \/ SpuriousClient(d)
        PROVE  FALSE
    BY <1>4 DEF DestroyBegin, DestroyCancel, DestroyFree, SpuriousClient,
                clientVars
  <1>5. ASSUME NEW d \in Clients, Wait(d) \/ WaitWoken(d)
        PROVE  Wait(c) \/ WaitWoken(c)
    BY <1>5 DEF Wait, WaitWoken, WaitLoop
  <1>. QED BY <1>1, <1>2, <1>3, <1>4, <1>5 DEF Next, ClientStep, ClientCall

(* Where VThreadPool_Wait returns, nothing but infinite tasks and tasks     *)
(* between dequeue and count is left.                                       *)
LEMMA WaitStep ==
  ASSUME LocalInv, CountersExact, [Next]_vars
  PROVE  \A c \in Clients :
           cpc[c] # "waited" /\ cpc'[c] = "waited" =>
             /\ Count = 0
             /\ \A w \in Threads :
                  held[w] # NoTask => held[w].Attr = "infinity" \/ InGap(held[w])
  <1> SUFFICES ASSUME NEW c \in Clients, cpc[c] # "waited", cpc'[c] = "waited"
               PROVE  /\ Count = 0
                      /\ \A w \in Threads : held[w] # NoTask =>
                           held[w].Attr = "infinity" \/ InGap(held[w])
    OBVIOUS
  <1>1. WaitLoop(c)
    BY OnlyWaitReturns DEF Wait, WaitWoken
  <1>2. ~WorkLeft
    BY <1>1 DEF WaitLoop, LocalInv, FieldTypes
  <1>3. Count = 0
    BY <1>2, NumThreadsAssumption DEF WorkLeft, LocalInv, FieldTypes, Capacity
  <1>4. NormalWorkers = {}
    <2>1. IsFiniteSet(NormalWorkers) /\ Cardinality(NormalWorkers) \in Nat
      BY SetsOfThreads, ThreadsFinite, FS_Subset, FS_CardinalityType
    <2>2. Cardinality(NormalWorkers) = 0
      BY <1>2, <2>1 DEF WorkLeft, CountersExact
    <2>. QED BY <2>1, <2>2, FS_EmptySet
  <1>5. ASSUME NEW w \in Threads, held[w] # NoTask
        PROVE  held[w].Attr = "infinity" \/ InGap(held[w])
    <2>1. wpc[w] \in Holding /\ held[w] \in Task
      BY <1>5 DEF LocalInv, WorkerInv
    <2>2. CASE wpc[w] \in {"got", "enter"}
      BY <2>2 DEF InGap
    <2>3. CASE wpc[w] = "run"
      BY <1>4, <2>1, <2>3 DEF NormalWorkers, LocalInv, WorkerInv, Task, AllKinds
    <2>4. CASE wpc[w] = "cancelled"
      BY <2>4 DEF LocalInv, WorkerInv
    <2>. QED BY <2>1, <2>2, <2>3, <2>4 DEF Holding
  <1>. QED BY <1>3, <1>5

(* When VThreadPool_Wait returns, the queue is empty and every default task *)
(* has ended, but for those a worker has dequeued and not yet counted.      *)
THEOREM WaitQuiescence == Spec => WaitReturnsQuiescent
  BY WaitStep, LocalInvAlways, CountersAlwaysExact, PTL
     DEF Spec, WaitReturnsQuiescent

-----------------------------------------------------------------------------
(* ThreadPool implements TaskPool: the ring buffer is the abstract queue,   *)
(* the tasks in the workers' hands are the running ones.                    *)

(* A task is at one place only: in one slot of the ring, in one worker's    *)
(* hands, with one client that is blocked on the full queue, or finished.   *)
(* A task that is submitted next is at none of them.                        *)
Blocked == {c \in Clients : cpc[c] \in {"waitDone", "wokenDone"}}
Busy    == {w \in Threads : held[w] # NoTask}
Queued  == {j \in Slots : Live(j)}

GivenOut(t) == t.Id <= submitted

OnceInv ==
  /\ \A j \in Queued : GivenOut(Items[j]) /\ Items[j] \notin finished
  /\ \A w \in Busy : GivenOut(held[w]) /\ held[w] \notin finished
  /\ \A c \in Blocked : GivenOut(arg[c]) /\ arg[c] \notin finished
  /\ \A t \in finished : GivenOut(t)
  /\ \A i, j \in Queued : i # j => Items[i] # Items[j]
  /\ \A v, w \in Busy : v # w => held[v] # held[w]
  /\ \A b, c \in Blocked : b # c => arg[b] # arg[c]
  /\ \A j \in Queued, w \in Busy : Items[j] # held[w]
  /\ \A j \in Queued, c \in Blocked : Items[j] # arg[c]
  /\ \A w \in Busy, c \in Blocked : held[w] # arg[c]

-----------------------------------------------------------------------------
(* Which slots of the ring are in use after a task was taken out or put in. *)
LEMMA DequeueQueued ==
  ASSUME LocalInv, Count # 0, NEW w \in Threads, VTaskList_Dequeue(w)
  PROVE  Queued' = Queued \ {ReadCursor} /\ ReadCursor \in Queued
  <1>1. /\ NumThreads \in Nat /\ NumThreads > 0
        /\ Count \in 1..NumThreads /\ ReadCursor \in 0..(NumThreads - 1)
    BY NumThreadsAssumption DEF LocalInv, FieldTypes, Slots, Capacity
  <1>2. ReadCursor' = Wrap(ReadCursor + 1) /\ Count' = Count - 1
    BY AdvanceWrap DEF VTaskList_Dequeue, LocalInv, FieldTypes
  <1>3. \A j \in Slots : Live(j)' <=> Live(j) /\ j # ReadCursor
    BY <1>1, <1>2 DEF Live, Wrap, Slots, Capacity
  <1>4. ReadCursor \in Slots /\ Live(ReadCursor)
    BY <1>1 DEF Live, Slots, Capacity
  <1>. QED BY <1>3, <1>4 DEF Queued

(* A task that is put in takes one free slot.                               *)
LEMMA PutQueued ==
  ASSUME LocalInv, Count # Capacity, NEW t \in Task, VTaskList_Put(t)
  PROVE  /\ Queued' = Queued \cup {WriteCursor} /\ WriteCursor \notin Queued
         /\ WriteCursor \in Slots
         /\ \A j \in Queued : Items'[j] = Items[j]
         /\ Items'[WriteCursor] = t
  <1>1. /\ NumThreads \in Nat /\ NumThreads > 0
        /\ Count \in 0..(NumThreads - 1) /\ ReadCursor \in 0..(NumThreads - 1)
        /\ WriteCursor \in Slots /\ WriteCursor = Wrap(ReadCursor + Count)
    BY NumThreadsAssumption DEF LocalInv, FieldTypes, QueueInv, Slots, Capacity
  <1>2. Count' = Count + 1 /\ ReadCursor' = ReadCursor
    BY DEF VTaskList_Put
  <1>3. \A j \in Slots : Live(j)' <=> Live(j) \/ j = WriteCursor
    BY <1>1, <1>2 DEF Live, Wrap, Slots, Capacity
  <1>4. ~Live(WriteCursor)
    BY <1>1 DEF Live, Wrap, Slots, Capacity
  <1>5. \A j \in Slots : Items'[j] = IF j = WriteCursor THEN t ELSE Items[j]
    BY DEF VTaskList_Put, LocalInv, FieldTypes
  <1>. QED BY <1>1, <1>3, <1>4, <1>5 DEF Queued

-----------------------------------------------------------------------------
(* The invariant holds initially.                                           *)
LEMMA OnceInit == Init => OnceInv
  BY NumThreadsAssumption
     DEF Init, OnceInv, Blocked, Busy, Queued, Live, Slots, Capacity

(* A step that moves no task keeps OnceInv.                                 *)
LEMMA OnceKept ==
  ASSUME OnceInv, UNCHANGED <<queueVars, held, arg, ghostVars>>,
         Blocked' = Blocked
  PROVE  OnceInv'
  <1>1. Queued' = Queued /\ Busy' = Busy
    BY DEF Queued, Live, Busy, queueVars
  <1>. QED BY <1>1 DEF OnceInv, GivenOut, queueVars, ghostVars

(* The task t is nowhere, but perhaps with client c.                        *)
OnlyWith(c, t) ==
  /\ t \notin finished
  /\ \A j \in Queued : Items[j] # t
  /\ \A w \in Busy : held[w] # t
  /\ \A d \in Blocked : d # c => arg[d] # t

(* A task with one client only enters the queue, or waits with the client.  *)
LEMMA EnqueueOnce ==
  ASSUME LocalInv, OnceInv, NEW c \in Clients, NEW t \in Task, OnlyWith(c, t),
         Enqueue(c, t), submitted' \in Nat, submitted <= submitted',
         t.Id <= submitted', UNCHANGED <<held, finished>>
  PROVE  OnceInv'
  <1>1. Busy' = Busy
    BY DEF Busy
  <1>2. \A u \in Task : GivenOut(u) => GivenOut(u)'
    BY MaxTasksAssumption DEF GivenOut, Task, LocalInv, FieldTypes
  <1>3. /\ \A j \in Queued : Items[j] \in Task
        /\ \A w \in Busy : held[w] \in Task
        /\ \A d \in Blocked : arg[d] \in Task
        /\ \A u \in finished : u \in Task
    BY DEF LocalInv, QueueInv, Queued, WorkerInv, Holding, Busy, ClientInv,
           Blocked, FieldTypes
  <1>4. CASE Count = Capacity /\ UNCHANGED queueVars
    <2>1. /\ cpc' = [cpc EXCEPT ![c] = "waitDone"]
          /\ arg' = [arg EXCEPT ![c] = t]
      BY <1>4 DEF Enqueue
    <2>2. Queued' = Queued /\ Items' = Items
      BY <1>4 DEF Queued, Live, queueVars
    <2>3. Blocked' = Blocked \cup {c} /\ arg'[c] = t
      BY <2>1 DEF Blocked, LocalInv, FieldTypes
    <2>4. \A d \in Blocked : d # c => arg'[d] = arg[d]
      BY <2>1 DEF Blocked, LocalInv, FieldTypes
    <2>. QED BY <1>1, <1>2, <1>3, <2>2, <2>3, <2>4
             DEF OnceInv, OnlyWith, GivenOut
  <1>5. CASE Count # Capacity /\ VTaskList_Put(t)
    <2>1. /\ cpc' = [cpc EXCEPT ![c] = "signal"]
          /\ arg' = [arg EXCEPT ![c] = NoTask]
      BY <1>5 DEF Enqueue
    <2>2. /\ Queued' = Queued \cup {WriteCursor} /\ WriteCursor \notin Queued
          /\ \A j \in Queued : Items'[j] = Items[j]
          /\ Items'[WriteCursor] = t
      BY <1>5, PutQueued
    <2>3. Blocked' = Blocked \ {c}
      BY <2>1 DEF Blocked, LocalInv, FieldTypes
    <2>4. \A d \in Blocked' : arg'[d] = arg[d]
      BY <2>1, <2>3 DEF Blocked, LocalInv, FieldTypes
    <2>. QED BY <1>1, <1>2, <1>3, <2>2, <2>3, <2>4
             DEF OnceInv, OnlyWith, GivenOut
  <1>6. Enqueue(c, t) => \/ Count = Capacity /\ UNCHANGED queueVars
                         \/ Count # Capacity /\ VTaskList_Put(t)
    BY DEF Enqueue
  <1>. QED BY <1>4, <1>5, <1>6

(* A task a worker takes leaves the queue.                                  *)
LEMMA TakeOnce ==
  ASSUME LocalInv, OnceInv, NEW w \in Threads, TakeTask(w)
  PROVE  OnceInv'
  <1>1. /\ Count # 0 /\ VTaskList_Dequeue(w) /\ wpc[w] \in {"take", "woken"}
        /\ UNCHANGED <<clientVars, ghostVars>>
    BY DEF TakeTask, AtQueue
  <1>2. /\ held' = [held EXCEPT ![w] = Items[ReadCursor]]
        /\ Items' = Items
    BY <1>1 DEF VTaskList_Dequeue
  <1>3. Queued' = Queued \ {ReadCursor} /\ ReadCursor \in Queued
    BY <1>1, DequeueQueued
  <1>4. w \notin Busy /\ \A v \in Threads : v # w => held'[v] = held[v]
    BY <1>1, <1>2 DEF LocalInv, FieldTypes, WorkerInv, Holding, Busy
  <1>5. held'[w] = Items[ReadCursor]
    BY <1>2 DEF LocalInv, FieldTypes
  <1>6. Busy' \subseteq Busy \cup {w}
    BY <1>4 DEF Busy
  <1>7. Blocked' = Blocked /\ UNCHANGED <<arg, finished, submitted>>
    BY <1>1 DEF Blocked, clientVars, ghostVars
  <1>8. w \notin Busy /\ \A v \in Busy : held'[v] = held[v]
    BY <1>4 DEF Busy
  <1>. HIDE DEF Busy, Queued, Blocked
  <1>. QED BY <1>2, <1>3, <1>5, <1>6, <1>7, <1>8 DEF OnceInv, GivenOut

(* The task in w's hands ends.                                              *)
LEMMA FinishOnce ==
  ASSUME LocalInv, OnceInv, NEW w \in Threads, held[w] # NoTask,
         held' = [held EXCEPT ![w] = NoTask],
         finished' = finished \cup {held[w]},
         UNCHANGED <<queueVars, clientVars, submitted>>
  PROVE  OnceInv'
  <1>1. Queued' = Queued /\ Blocked' = Blocked /\ UNCHANGED <<Items, arg>>
    BY DEF Queued, Live, Blocked, queueVars, clientVars
  <1>2. w \in Busy /\ Busy' = Busy \ {w}
    BY DEF Busy, LocalInv, FieldTypes
  <1>3. \A v \in Busy' : held'[v] = held[v]
    BY <1>2 DEF Busy, LocalInv, FieldTypes
  <1>. QED BY <1>1, <1>2, <1>3 DEF OnceInv, GivenOut

(* The tasks that Enqueue is called with.                                   *)
LEMMA WokenOnly ==
  ASSUME LocalInv, OnceInv, NEW c \in Clients, cpc[c] = "wokenDone"
  PROVE  arg[c] \in Task /\ OnlyWith(c, arg[c]) /\ GivenOut(arg[c])
  <1>1. c \in Blocked /\ arg[c] \in Task
    BY DEF Blocked, LocalInv, ClientInv
  <1>. QED BY <1>1 DEF OnceInv, OnlyWith

(* A new task is with the client that submits it, and nowhere else.         *)
LEMMA NewTaskOnly ==
  ASSUME LocalInv, OnceInv, NEW c \in Clients, NEW k \in Kinds, AddTask(c, k)
  PROVE  LET t == [Id |-> submitted + 1, Attr |-> k]
         IN  t \in Task /\ OnlyWith(c, t)
  <1> DEFINE t == [Id |-> submitted + 1, Attr |-> k]
  <1>1. submitted \in Nat /\ submitted < MaxTasks
    BY MaxTasksAssumption DEF AddTask, LocalInv, FieldTypes
  <1>2. t \in Task
    BY <1>1, MaxTasksAssumption, KindsAssumption DEF Task
  <1>3. ~GivenOut(t)
    BY <1>1 DEF GivenOut
  <1>. HIDE DEF t
  <1>4. OnlyWith(c, t)
    BY <1>3 DEF OnceInv, OnlyWith
  <1>. QED BY <1>2, <1>4 DEF t

(* Every step keeps the invariant.                                          *)
LEMMA OnceStep == LocalInv /\ OnceInv /\ [Next]_vars => OnceInv'
  <1> SUFFICES ASSUME LocalInv, OnceInv, [Next]_vars PROVE OnceInv'
    OBVIOUS
  <1> USE DEF clientVars
  <1>1. CASE UNCHANGED vars
    BY <1>1, OnceKept DEF vars, workerVars, Blocked
  <1>2. ASSUME NEW w \in Threads, WorkerStep(w) \/ SpuriousWorker(w)
        PROVE  OnceInv'
    <2>1. CASE TakeTask(w)
      BY <2>1, TakeOnce
    <2>2. CASE SkipNull(w)
      <3>1. held[w] # NoTask
        BY <2>2 DEF SkipNull, LocalInv, WorkerInv, Holding, Task, NoTask
      <3>. QED BY <2>2, <3>1, FinishOnce DEF SkipNull
    <2>3. CASE RunTask(w)
      <3>1. held[w] # NoTask
        BY <2>3 DEF RunTask, NoTask
      <3>. QED BY <2>3, <3>1, FinishOnce DEF RunTask
    <2>4. CASE ThreadStart(w) \/ WaitForTask(w) \/ ThreadExit(w) \/ MarkState(w)
               \/ CountIn(w) \/ Cancelled(w) \/ SpuriousWorker(w)
      BY <2>4, OnceKept
         DEF Blocked, ThreadStart, WaitForTask, ThreadExit, MarkState, CountIn,
             Cancelled, SpuriousWorker
    <2>5. CASE CountOut(w)
      <3>1. Blocked' = Blocked
        BY <2>5 DEF CountOut, SignalThreadDone, SignalClient, Blocked, LocalInv,
                    FieldTypes
      <3>. QED BY <2>5, <3>1, OnceKept DEF CountOut
    <2>6. CASE CheckAllDone(w)
      <3>1. Blocked' = Blocked
        BY <2>6 DEF CheckAllDone, SignalAllThreadsDone, SignalClient, Blocked,
                    LocalInv, FieldTypes
      <3>. QED BY <2>6, <3>1, OnceKept DEF CheckAllDone
    <2>. QED BY <1>2, <2>1, <2>2, <2>3, <2>4, <2>5, <2>6 DEF WorkerStep
  <1>3. ASSUME NEW c \in Clients,
               ClientStep(c) \/ ClientCall(c) \/ SpuriousClient(c)
        PROVE  OnceInv'
    <2>1. CASE EnqueueWoken(c)
      <3>1. arg[c] \in Task /\ OnlyWith(c, arg[c]) /\ GivenOut(arg[c])
        BY <2>1, WokenOnly DEF EnqueueWoken
      <3>3. /\ submitted' \in Nat /\ submitted <= submitted'
            /\ arg[c].Id <= submitted' /\ UNCHANGED <<held, finished>>
        BY <2>1, <3>1, MaxTasksAssumption
           DEF EnqueueWoken, workerVars, ghostVars, GivenOut, LocalInv, FieldTypes
      <3>. QED BY <2>1, <3>1, <3>3, EnqueueOnce DEF EnqueueWoken
    <2>2. ASSUME NEW k \in Kinds, AddTask(c, k) PROVE OnceInv'
      <3> DEFINE t == [Id |-> submitted + 1, Attr |-> k]
      <3>1. t \in Task /\ OnlyWith(c, t)
        BY <2>2, NewTaskOnly
      <3>2. /\ submitted' \in Nat /\ submitted <= submitted'
            /\ t.Id <= submitted'
        BY <2>2, MaxTasksAssumption DEF AddTask, LocalInv, FieldTypes
      <3>3. Enqueue(c, t) /\ UNCHANGED <<held, finished>>
        BY <2>2 DEF AddTask
      <3>. HIDE DEF t
      <3>. QED BY <3>1, <3>2, <3>3, EnqueueOnce
    <2>3. CASE AddTaskSignal(c) \/ WaitWoken(c) \/ Wait(c) \/ DestroyBegin(c)
               \/ DestroyCancel(c) \/ DestroyFree(c) \/ SpuriousClient(c)
      <3>1. Blocked' = Blocked
        BY <2>3 DEF AddTaskSignal, WaitWoken, Wait, WaitLoop, DestroyBegin,
                    DestroyCancel, DestroyFree, SpuriousClient, Blocked,
                    MayCall, Idle, LocalInv, FieldTypes
      <3>2. UNCHANGED <<queueVars, held, arg, ghostVars>>
        BY <2>3 DEF AddTaskSignal, WaitWoken, Wait, WaitLoop, DestroyBegin,
                    DestroyCancel, DestroyFree, SpuriousClient, workerVars
      <3>. QED BY <3>1, <3>2, OnceKept
    <2>. QED BY <1>3, <2>1, <2>2, <2>3 DEF ClientStep, ClientCall
  <1>. QED BY <1>1, <1>2, <1>3 DEF Next

(* No task is at two places.                                                *)
LEMMA OnceAlways == Spec => [](LocalInv /\ OnceInv)
  <1>1. Init => LocalInv /\ OnceInv
    BY LocalInvInit, OnceInit
  <1>2. LocalInv /\ OnceInv /\ [Next]_vars => (LocalInv /\ OnceInv)'
    BY LocalInvStep, OnceStep
  <1>. QED BY <1>1, <1>2, PTL DEF Spec

-----------------------------------------------------------------------------
(* Cursors wrap around as in the remainder of the code.                     *)
LEMMA SlotWrap ==
  ASSUME NEW x \in 0..(2 * Capacity - 1)
  PROVE  x % Capacity = Wrap(x) /\ Wrap(x) \in Slots
  <1>1. NumThreads \in Nat /\ NumThreads > 0
    BY NumThreadsAssumption
  <1>2. CASE x < Capacity
    BY <1>1, <1>2 DEF Wrap, Slots, Capacity
  <1>3. CASE x >= Capacity
    BY <1>1, <1>3 DEF Wrap, Slots, Capacity
  <1>. QED BY <1>1, <1>2, <1>3 DEF Slots, Capacity

(* The abstract queue holds the slots of the ring from ReadCursor on.       *)
SlotAt(i) == Wrap(ReadCursor + i - 1)

QueueIsRing ==
  /\ AbsQueue \in Seq(Task) /\ Len(AbsQueue) = Count /\ Count \in Nat
  /\ \A i \in 1..Count : /\ AbsQueue[i] = Items[SlotAt(i)]
                         /\ SlotAt(i) \in Queued

(* The abstract queue, item by item: the ring from the read cursor on.      *)
LEMMA AbsQueueIsRing == LocalInv => QueueIsRing
  <1> SUFFICES ASSUME LocalInv PROVE QueueIsRing
    OBVIOUS
  <1>1. /\ NumThreads \in Nat /\ NumThreads > 0
        /\ Count \in 0..NumThreads /\ ReadCursor \in 0..(NumThreads - 1)
    BY NumThreadsAssumption DEF LocalInv, FieldTypes, Slots, Capacity
  <1>2. ASSUME NEW i \in 1..Count
        PROVE  /\ (ReadCursor + i - 1) % Capacity = SlotAt(i)
               /\ SlotAt(i) \in Queued
    <2>1. ReadCursor + i - 1 \in 0..(2 * Capacity - 1)
      BY <1>1 DEF Capacity
    <2>2. /\ (ReadCursor + i - 1) % Capacity = SlotAt(i)
          /\ SlotAt(i) \in Slots
      BY <2>1, SlotWrap DEF SlotAt
    <2>3. Live(SlotAt(i))
      BY <1>1 DEF Live, SlotAt, Wrap, Capacity
    <2>. QED BY <2>2, <2>3 DEF Queued
  <1>3. \A i \in 1..Count : Items[SlotAt(i)] \in Task
    BY <1>2 DEF LocalInv, QueueInv, Queued
  <1>4. \A i \in 1..Count : AbsQueue[i] = Items[SlotAt(i)]
    BY <1>2 DEF AbsQueue
  <1>5. AbsQueue \in [1..Count -> Task]
    BY <1>2, <1>3 DEF AbsQueue
  <1>. QED BY <1>1, <1>2, <1>4, <1>5 DEF QueueIsRing

(* The same of the next state.                                              *)
LEMMA AbsQueueIsRingNext == LocalInv' => QueueIsRing'
  BY AbsQueueIsRing, PTL

(* VTaskList_Put appends to the abstract queue, VTaskList_Dequeue takes its *)
(* head.                                                                    *)
LEMMA PutAppends ==
  ASSUME LocalInv, LocalInv', Count # Capacity, NEW t \in Task,
         VTaskList_Put(t)
  PROVE  AbsQueue' = Append(AbsQueue, t) /\ Len(AbsQueue) < Capacity
  <1>1. QueueIsRing /\ QueueIsRing'
    BY AbsQueueIsRing, AbsQueueIsRingNext
  <1>2. /\ Count' = Count + 1 /\ ReadCursor' = ReadCursor
        /\ WriteCursor = SlotAt(Count + 1)
        /\ Count \in 0..Capacity /\ Capacity \in Nat /\ ReadCursor \in Nat
    BY NumThreadsAssumption
       DEF VTaskList_Put, LocalInv, FieldTypes, QueueInv, SlotAt, Slots, Capacity
  <1>3. \A i \in 1..Count' : SlotAt(i)' = SlotAt(i)
    BY <1>2 DEF SlotAt, Wrap
  <1>4. /\ \A j \in Queued : Items'[j] = Items[j]
        /\ Items'[WriteCursor] = t
    BY PutQueued
  <1>5. \A i \in 1..Count : AbsQueue'[i] = AbsQueue[i]
    BY <1>1, <1>2, <1>3, <1>4 DEF QueueIsRing
  <1>6. AbsQueue'[Count + 1] = t
    BY <1>1, <1>2, <1>3, <1>4 DEF QueueIsRing
  <1>7. /\ Append(AbsQueue, t) \in Seq(Task)
        /\ Len(Append(AbsQueue, t)) = Count + 1
        /\ \A i \in 1..Count : Append(AbsQueue, t)[i] = AbsQueue[i]
        /\ Append(AbsQueue, t)[Count + 1] = t
    BY <1>1, AppendProperties DEF QueueIsRing
  <1>8. \A i \in 1..(Count + 1) : AbsQueue'[i] = Append(AbsQueue, t)[i]
    BY <1>1, <1>5, <1>6, <1>7 DEF QueueIsRing
  <1>9. AbsQueue' = Append(AbsQueue, t)
    BY <1>1, <1>2, <1>7, <1>8, SeqEqual DEF QueueIsRing
  <1>. QED BY <1>1, <1>2, <1>9 DEF QueueIsRing

(* VTaskList_Dequeue takes the head of the abstract queue.                  *)
LEMMA DequeueTakesHead ==
  ASSUME LocalInv, LocalInv', Count # 0, NEW w \in Threads,
         VTaskList_Dequeue(w)
  PROVE  /\ AbsQueue # <<>> /\ AbsQueue' = Tail(AbsQueue)
         /\ Head(AbsQueue) = Items[ReadCursor]
  <1>1. QueueIsRing /\ QueueIsRing'
    BY AbsQueueIsRing, AbsQueueIsRingNext
  <1>2. /\ Count' = Count - 1 /\ Items' = Items
        /\ ReadCursor' = Wrap(ReadCursor + 1)
        /\ Count \in 1..Capacity /\ Capacity \in Nat
        /\ ReadCursor \in 0..(Capacity - 1)
    BY NumThreadsAssumption, AdvanceWrap
       DEF VTaskList_Dequeue, LocalInv, FieldTypes, Slots, Capacity
  <1>3. \A i \in 1..Count' : SlotAt(i)' = SlotAt(i + 1)
    BY <1>2 DEF SlotAt, Wrap
  <1>4. SlotAt(1) = ReadCursor
    BY <1>2 DEF SlotAt, Wrap
  <1>5. AbsQueue # <<>>
    BY <1>1, <1>2 DEF QueueIsRing
  <1>6. /\ Tail(AbsQueue) \in Seq(Task) /\ Len(Tail(AbsQueue)) = Count - 1
        /\ \A i \in 1..(Count - 1) : Tail(AbsQueue)[i] = AbsQueue[i + 1]
    BY <1>1, <1>5, HeadTailProperties DEF QueueIsRing
  <1>7. \A i \in 1..(Count - 1) : AbsQueue'[i] = AbsQueue[i + 1]
    BY <1>1, <1>2, <1>3 DEF QueueIsRing
  <1>8. AbsQueue' = Tail(AbsQueue)
    BY <1>1, <1>2, <1>6, <1>7, SeqEqual DEF QueueIsRing
  <1>. QED BY <1>1, <1>2, <1>4, <1>5, <1>8 DEF QueueIsRing

-----------------------------------------------------------------------------
(* Each step of ThreadPool is a step of TaskPool, or changes nothing there. *)
LEMMA EnqueueSubmits ==
  ASSUME LocalInv, LocalInv', NEW c \in Clients, NEW t \in Task,
         OnlyWith(c, t), Enqueue(c, t), UNCHANGED <<held, finished>>
  PROVE  [Abs!Next]_(Abs!vars)
  <1>1. UNCHANGED <<AbsRunning, finished>>
    BY DEF AbsRunning
  <1>2. CASE UNCHANGED queueVars
    BY <1>1, <1>2 DEF AbsQueue, queueVars, Abs!vars
  <1>3. CASE Count # Capacity /\ VTaskList_Put(t)
    <2>1. AbsQueue' = Append(AbsQueue, t) /\ Len(AbsQueue) < Capacity
      BY <1>3, PutAppends
    <2>2. QueueIsRing
      BY AbsQueueIsRing
    <2>3. \A i \in 1..Len(AbsQueue) : AbsQueue[i] # t
      BY <2>2 DEF QueueIsRing, OnlyWith
    <2>4. t \notin AbsRunning /\ t \notin finished
      BY DEF AbsRunning, OnlyWith, Busy
    <2>5. Abs!Submit(t)
      BY <1>1, <2>1, <2>3, <2>4 DEF Abs!Submit, Abs!Known
    <2>. QED BY <2>5 DEF Abs!Next
  <1>4. UNCHANGED queueVars \/ (Count # Capacity /\ VTaskList_Put(t))
    BY DEF Enqueue
  <1>. QED BY <1>2, <1>3, <1>4

(* A worker whose procedure returned finishes its task.                     *)
LEMMA TaskFinishes ==
  ASSUME LocalInv, OnceInv, NEW w \in Threads, held[w] # NoTask,
         held' = [held EXCEPT ![w] = NoTask],
         finished' = finished \cup {held[w]}, UNCHANGED queueVars
  PROVE  [Abs!Next]_(Abs!vars)
  <1>1. held[w] \in Task /\ held[w] \in AbsRunning
    BY DEF LocalInv, WorkerInv, Holding, AbsRunning
  <1>2. \A v \in Threads : held'[v] = IF v = w THEN NoTask ELSE held[v]
    BY DEF LocalInv, FieldTypes
  <1>3. \A v \in Threads : held[v] # NoTask /\ v # w => held[v] # held[w]
    BY DEF OnceInv, Busy
  <1>4. AbsRunning' = AbsRunning \ {held[w]}
    BY <1>2, <1>3 DEF AbsRunning
  <1>5. UNCHANGED AbsQueue
    BY DEF AbsQueue, queueVars
  <1>6. Abs!Finish(held[w])
    BY <1>1, <1>4, <1>5 DEF Abs!Finish
  <1>. QED BY <1>1, <1>6 DEF Abs!Next

(* A worker that takes a task takes the head of the abstract queue.         *)
LEMMA TaskTaken ==
  ASSUME LocalInv, LocalInv', NEW w \in Threads, TakeTask(w)
  PROVE  [Abs!Next]_(Abs!vars)
  <1>1. /\ Count # 0 /\ VTaskList_Dequeue(w) /\ UNCHANGED finished
        /\ wpc[w] \in {"take", "woken"}
    BY DEF TakeTask, AtQueue, ghostVars
  <1>2. held' = [held EXCEPT ![w] = Items[ReadCursor]] /\ held[w] = NoTask
    BY <1>1 DEF VTaskList_Dequeue, LocalInv, WorkerInv, Holding
  <1>3. Items[ReadCursor] \in Task /\ Items[ReadCursor] # NoTask
    BY <1>1, HeadIsTask, MaxTasksAssumption DEF LocalInv, Task, NoTask
  <1>4. \A v \in Threads : held'[v] = IF v = w THEN Items[ReadCursor] ELSE held[v]
    BY <1>2 DEF LocalInv, FieldTypes
  <1>5. AbsRunning' = AbsRunning \cup {Items[ReadCursor]}
    BY <1>2, <1>3, <1>4 DEF AbsRunning
  <1>6. Abs!Take
    BY <1>1, <1>5, DequeueTakesHead DEF Abs!Take
  <1>. QED BY <1>6 DEF Abs!Next

(* Every step of the pool is one of TaskPool or leaves it unchanged.        *)
LEMMA AbsStep ==
  LocalInv /\ LocalInv' /\ OnceInv /\ [Next]_vars => [Abs!Next]_(Abs!vars)
  <1> SUFFICES ASSUME LocalInv, LocalInv', OnceInv, [Next]_vars
               PROVE  [Abs!Next]_(Abs!vars)
    OBVIOUS
  <1>0. ASSUME UNCHANGED <<queueVars, held, finished>>
        PROVE  [Abs!Next]_(Abs!vars)
    BY <1>0 DEF Abs!vars, AbsQueue, AbsRunning, queueVars
  <1>1. CASE UNCHANGED vars
    BY <1>0, <1>1 DEF vars, workerVars, ghostVars
  <1>2. ASSUME NEW w \in Threads, WorkerStep(w) \/ SpuriousWorker(w)
        PROVE  [Abs!Next]_(Abs!vars)
    <2>1. CASE TakeTask(w)
      BY <2>1, TaskTaken
    <2>2. CASE SkipNull(w)
      <3>1. held[w] # NoTask
        BY <2>2, MaxTasksAssumption
           DEF SkipNull, LocalInv, WorkerInv, Holding, Task, NoTask
      <3>. QED BY <2>2, <3>1, TaskFinishes DEF SkipNull
    <2>3. CASE RunTask(w)
      <3>1. held[w] # NoTask
        BY <2>3 DEF RunTask, NoTask
      <3>. QED BY <2>3, <3>1, TaskFinishes DEF RunTask
    <2>4. CASE ThreadStart(w) \/ WaitForTask(w) \/ ThreadExit(w) \/ MarkState(w)
               \/ CountIn(w) \/ Cancelled(w) \/ SpuriousWorker(w)
               \/ CountOut(w) \/ CheckAllDone(w)
      BY <1>0, <2>4
         DEF ThreadStart, WaitForTask, ThreadExit, MarkState, CountIn,
             Cancelled, SpuriousWorker, CountOut, CheckAllDone, ghostVars
    <2>. QED BY <1>2, <2>1, <2>2, <2>3, <2>4 DEF WorkerStep
  <1>3. ASSUME NEW c \in Clients,
               ClientStep(c) \/ ClientCall(c) \/ SpuriousClient(c)
        PROVE  [Abs!Next]_(Abs!vars)
    <2>1. CASE EnqueueWoken(c)
      <3>1. arg[c] \in Task /\ OnlyWith(c, arg[c])
        BY <2>1, WokenOnly DEF EnqueueWoken
      <3>. QED BY <2>1, <3>1, EnqueueSubmits
               DEF EnqueueWoken, workerVars, ghostVars
    <2>2. ASSUME NEW k \in Kinds, AddTask(c, k)
          PROVE  [Abs!Next]_(Abs!vars)
      <3> DEFINE t == [Id |-> submitted + 1, Attr |-> k]
      <3>1. t \in Task /\ OnlyWith(c, t)
        BY <2>2, NewTaskOnly
      <3>2. Enqueue(c, t) /\ UNCHANGED <<held, finished>>
        BY <2>2 DEF AddTask
      <3>. QED BY <3>1, <3>2, EnqueueSubmits
    <2>3. CASE AddTaskSignal(c) \/ WaitWoken(c) \/ Wait(c) \/ DestroyBegin(c)
               \/ DestroyCancel(c) \/ DestroyFree(c) \/ SpuriousClient(c)
      BY <1>0, <2>3
         DEF AddTaskSignal, WaitWoken, Wait, WaitLoop, DestroyBegin,
             DestroyCancel, DestroyFree, SpuriousClient, workerVars, ghostVars
    <2>. QED BY <1>3, <2>1, <2>2, <2>3 DEF ClientStep, ClientCall
  <1>. QED BY <1>1, <1>2, <1>3 DEF Next

(* The pool starts as an empty TaskPool.                                    *)
LEMMA AbsInit == Init => Abs!Init
  BY DEF Init, Abs!Init, AbsQueue, AbsRunning

(* The pool implements the abstract one: whatever the threads do, the tasks *)
(* form one bounded first-in-first-out queue, each is taken by one thread   *)
(* and ended at most once.                                                  *)
THEOREM PoolImplementsTaskPool == Spec => ImplementsTaskPool
  BY AbsInit, AbsStep, OnceAlways, PTL
     DEF Spec, ImplementsTaskPool, Abs!Spec
=============================================================================
