------------------------ MODULE DownloadJob_proofs -------------------------
(***************************************************************************)
(* Theorems about DownloadJob, for any number of jobs and of threads.      *)
(***************************************************************************)
EXTENDS DownloadJob, FiniteSetTheorems, TLAPS

-----------------------------------------------------------------------------
(***************************************************************************)
(* The operations of the pool                                              *)
(***************************************************************************)
(* The size of the pool is a number (TaskContainer.java:19).               *)
LEMMA CpuCount == CPU_COUNT \in Nat /\ CPU_COUNT >= 2
  BY WorkersAssumption, FS_CardinalityType DEF CPU_COUNT, CorePoolSize

(* execute keeps the pool's type, and the queue within its capacity        *)
(* (TaskContainer.java:43).                                                *)
LEMMA ExecuteType ==
  ASSUME PoolTypeOK, NEW t \in Tasks, execute(t)
  PROVE  PoolTypeOK'
<1>1. CASE /\ \E w \in Workers \ Alive : worker' = [worker EXCEPT ![w] = t]
           /\ UNCHANGED queue
  BY <1>1 DEF PoolTypeOK, CORE_POOL_SIZE, CPU_COUNT, Absent, Idle, Tasks
<1>2. CASE ~QueueFull /\ queue' = Append(queue, t) /\ UNCHANGED worker
  BY <1>2, CpuCount DEF PoolTypeOK, QueueFull, CORE_POOL_SIZE, CPU_COUNT, Absent, Idle, Tasks
<1> QED  BY <1>1, <1>2 DEF execute

(* The blocking put waits for a place (TaskContainer.java:47).             *)
LEMMA PutType ==
  ASSUME PoolTypeOK, NEW t \in Tasks, put(t)
  PROVE  PoolTypeOK'
BY CpuCount DEF put, PoolTypeOK, QueueFull, CORE_POOL_SIZE, CPU_COUNT, Absent, Idle, Tasks

(* A task's end frees its thread.                                          *)
LEMMA FreeType ==
  ASSUME PoolTypeOK, NEW t \in Tasks, FreeWorker(t), UNCHANGED queue
  PROVE  PoolTypeOK'
BY DEF FreeWorker, PoolTypeOK, CORE_POOL_SIZE, CPU_COUNT, Absent, Idle, Tasks

(* A worker takes the head of the queue.                                   *)
LEMMA TakeType ==
  ASSUME PoolTypeOK, NEW w \in Workers, TakeTask(w)
  PROVE  PoolTypeOK'
<1>1. Head(queue) \in Tasks /\ Tail(queue) \in Seq(Tasks) /\ Len(Tail(queue)) = Len(queue) - 1
  BY DEF TakeTask, PoolTypeOK
<1>2. Len(queue) \in Nat
  BY DEF PoolTypeOK
<1> QED  BY <1>1, <1>2, CpuCount DEF TakeTask, PoolTypeOK, CORE_POOL_SIZE, CPU_COUNT, Absent, Idle, Tasks

(* A surplus thread ends.                                                  *)
LEMMA KeepAliveType ==
  ASSUME PoolTypeOK, NEW w \in Workers, KeepAliveEnds(w)
  PROVE  PoolTypeOK'
BY DEF KeepAliveEnds, PoolTypeOK, CORE_POOL_SIZE, CPU_COUNT, Absent, Idle, Tasks

(* A job's two tasks are tasks.                                            *)
LEMMA TaskTypes == \A j \in Jobs : Client(j) \in Tasks /\ Stream(j) \in Tasks
  BY DEF Client, Stream, Tasks


-----------------------------------------------------------------------------
(***************************************************************************)
(* Type correctness                                                        *)
(***************************************************************************)

(* A step of a request's thread keeps the type.                            *)
LEMMA HttpThreadType ==
  ASSUME TypeOK, NEW j \in Jobs, HttpThread(j)
  PROVE  TypeOK'
<1> USE TaskTypes DEF TypeOK
<1>1. CASE Invoke(j)
  BY <1>1 DEF Invoke, PoolTypeOK, CORE_POOL_SIZE, CPU_COUNT, Absent, Idle
<1>2. CASE RejectPom(j)
  BY <1>2 DEF RejectPom, PoolTypeOK, CORE_POOL_SIZE, CPU_COUNT, Absent, Idle
<1>3. CASE Lock(j)
  BY <1>3 DEF Lock, PoolTypeOK, CORE_POOL_SIZE, CPU_COUNT, Absent, Idle
<1>4. CASE PrepareFails(j)
  BY <1>4 DEF PrepareFails, PoolTypeOK, CORE_POOL_SIZE, CPU_COUNT, Absent, Idle
<1>5. CASE Submit(j)
  BY <1>5, ExecuteType DEF Submit, Accepted, ClientStates
<1>6. CASE SubmitBlocks(j)
  BY <1>6 DEF SubmitBlocks, PoolTypeOK, CORE_POOL_SIZE, CPU_COUNT, Absent, Idle
<1>7. CASE SubmitUnblocks(j)
  BY <1>7, PutType DEF SubmitUnblocks, Accepted, ClientStates
<1> QED  BY <1>1, <1>2, <1>3, <1>4, <1>5, <1>6, <1>7 DEF HttpThread

(* A step of one of a job's tasks keeps the type.                          *)
LEMMA TaskType ==
  ASSUME TypeOK, NEW j \in Jobs, Task(j)
  PROVE  TypeOK'
<1> USE TaskTypes DEF TypeOK, ClientStates
<1>1. CASE putFlag(j)
  BY <1>1 DEF putFlag, PoolTypeOK, CORE_POOL_SIZE, CPU_COUNT, Absent, Idle
<1>2. CASE ExecFails(j)
  BY <1>2, FreeType DEF ExecFails
<1>3. CASE StartProcess(j)
  BY <1>3, ExecuteType DEF StartProcess
<1>4. CASE StartProcessBlocks(j)
  BY <1>4 DEF StartProcessBlocks, PoolTypeOK, CORE_POOL_SIZE, CPU_COUNT, Absent, Idle
<1>5. CASE StartProcessUnblocks(j)
  BY <1>5, PutType DEF StartProcessUnblocks
<1>6. CASE StopWaiting(j)
  BY <1>6, FreeType DEF StopWaiting
<1>7. CASE StreamEnds(j)
  BY <1>7, FreeType DEF StreamEnds
<1> QED  BY <1>1, <1>2, <1>3, <1>4, <1>5, <1>6, <1>7 DEF Task

(* Every reachable state of the download has its type, whatever faults     *)
(* happen: in particular the queue stays within its capacity.              *)
THEOREM TypeCorrect == Spec => []TypeOK
<1>1. Init => TypeOK
  <2> SUFFICES ASSUME Init PROVE TypeOK
    OBVIOUS
  <2>1. overtaken \in BOOLEAN /\ flag \in BOOLEAN
    BY DEF Init
  <2>2. PoolTypeOK
    BY CpuCount DEF Init, PoolInit, PoolTypeOK, CORE_POOL_SIZE
  <2> QED  BY <2>1, <2>2 DEF Init, TypeOK, ClientStates
<1>2. TypeOK /\ [Next]_vars => TypeOK'
  <2> SUFFICES ASSUME TypeOK, [Next]_vars PROVE TypeOK'
    OBVIOUS
  <2>1. ASSUME NEW j \in Jobs, ProcessExits(j) PROVE TypeOK'
    BY <2>1 DEF ProcessExits, TypeOK, PoolTypeOK, CORE_POOL_SIZE, CPU_COUNT, Absent, Idle
  <2>2. ASSUME NEW w \in Workers, RunNext(w) PROVE TypeOK'
    BY <2>2, TakeType DEF RunNext, TypeOK
  <2>3. ASSUME NEW w \in Workers, ShrinkPool(w) PROVE TypeOK'
    BY <2>3, KeepAliveType DEF ShrinkPool, TypeOK
  <2>4. CASE FlagExpires
    BY <2>4 DEF FlagExpires, TypeOK, PoolTypeOK, CORE_POOL_SIZE, CPU_COUNT, Absent, Idle
  <2>5. CASE Restart
    <3>1. overtaken' \in BOOLEAN /\ flag' \in BOOLEAN
      BY <2>5 DEF Restart, TypeOK
    <3>2. PoolTypeOK'
      BY <2>5, CpuCount DEF Restart, PoolTypeOK, CORE_POOL_SIZE, CPU_COUNT
    <3> QED  BY <2>5, <3>1, <3>2 DEF Restart, TypeOK, ClientStates
  <2>6. CASE UNCHANGED vars
    BY <2>6 DEF vars, TypeOK, PoolTypeOK, CORE_POOL_SIZE, CPU_COUNT, Absent, Idle
  <2> QED  BY <2>1, <2>2, <2>3, <2>4, <2>5, <2>6, HttpThreadType, TaskType DEF Next
<1> QED  BY <1>1, <1>2, PTL DEF Spec

-----------------------------------------------------------------------------
(***************************************************************************)
(* Where the pool's tasks are                                              *)
(***************************************************************************)

(* execute adds one task and moves no other.                               *)
LEMMA ExecutePlace ==
  ASSUME PoolTypeOK, OnePlace, NEW t \in Tasks, ~InPool(t), execute(t)
  PROVE  /\ OnePlace'
         /\ \A u \in Tasks : InPool(u)' <=> InPool(u) \/ u = t
         /\ \A u \in Tasks : OnWorker(u) => OnWorker(u)'
<1>1. CASE /\ \E w \in Workers \ Alive : worker' = [worker EXCEPT ![w] = t]
           /\ UNCHANGED queue
  <2>1. PICK w \in Workers \ Alive : worker' = [worker EXCEPT ![w] = t]
    BY <1>1
  <2>2. worker[w] = Absent /\ Absent \notin Tasks
    BY <2>1 DEF Alive, Absent, Tasks
  <2>3. worker' \in [Workers -> Tasks \union {Absent, Idle}] /\ queue' = queue
    BY <1>1, <2>1 DEF PoolTypeOK
  <2>4. OnePlace'
    BY <2>1, <2>2, <2>3 DEF PoolTypeOK, OnePlace, InPool, OnWorker, Queued
  <2> QED  BY <2>1, <2>2, <2>3, <2>4 DEF PoolTypeOK, InPool, OnWorker, Queued
<1>2. CASE ~QueueFull /\ queue' = Append(queue, t) /\ UNCHANGED worker
  BY <1>2 DEF PoolTypeOK, OnePlace, InPool, OnWorker, Queued
<1> QED  BY <1>1, <1>2 DEF execute

(* So does the blocking put.                                               *)
LEMMA PutPlace ==
  ASSUME PoolTypeOK, OnePlace, NEW t \in Tasks, ~InPool(t), put(t)
  PROVE  /\ OnePlace'
         /\ \A u \in Tasks : InPool(u)' <=> InPool(u) \/ u = t
         /\ \A u \in Tasks : OnWorker(u) => OnWorker(u)'
BY DEF put, PoolTypeOK, OnePlace, InPool, OnWorker, Queued

(* The end of a running task takes it, and only it, out of the pool.       *)
LEMMA FreePlace ==
  ASSUME PoolTypeOK, OnePlace, NEW t \in Tasks, OnWorker(t), FreeWorker(t), UNCHANGED queue
  PROVE  /\ OnePlace'
         /\ \A u \in Tasks : InPool(u)' <=> InPool(u) /\ u # t
         /\ \A u \in Tasks : OnWorker(u) /\ u # t => OnWorker(u)'
<1>1. Idle \notin Tasks
  BY DEF Idle, Tasks
<1> QED  BY <1>1 DEF FreeWorker, PoolTypeOK, OnePlace, InPool, OnWorker, Queued

(* Taking the head of the queue keeps every task in the pool.              *)
LEMMA TakePlace ==
  ASSUME PoolTypeOK, OnePlace, NEW w \in Workers, TakeTask(w)
  PROVE  /\ OnePlace'
         /\ \A u \in Tasks : InPool(u)' <=> InPool(u)
         /\ \A u \in Tasks : OnWorker(u) => OnWorker(u)'
<1>1. Idle \notin Tasks
  BY DEF Idle, Tasks
<1>2. /\ Head(queue) = queue[1]
      /\ Len(queue) \in Nat \ {0}
      /\ Len(Tail(queue)) = Len(queue) - 1
      /\ Tail(queue) \in Seq(Tasks)
      /\ \A i \in 1 .. Len(queue) - 1 : Tail(queue)[i] = queue[i + 1]
  BY DEF TakeTask, PoolTypeOK
<1>3. worker' = [worker EXCEPT ![w] = queue[1]] /\ worker[w] = Idle /\ queue' = Tail(queue)
  BY <1>2 DEF TakeTask
<1>4. DOMAIN queue = 1 .. Len(queue) /\ DOMAIN queue' = 1 .. Len(queue) - 1
  BY <1>2, <1>3 DEF PoolTypeOK
<1>5. \A i \in DOMAIN queue : queue[i] \in Tasks
  BY DEF PoolTypeOK
<1>6. OnePlace'
  <2>1. \A i \in DOMAIN queue' : queue'[i] = queue[i + 1] /\ i + 1 \in DOMAIN queue /\ i + 1 # 1
    BY <1>2, <1>3, <1>4
  <2>2. 1 \in DOMAIN queue
    BY <1>2, <1>4
  <2>3. \A i1, i2 \in DOMAIN queue' : queue'[i1] = queue'[i2] => i1 = i2
    BY <2>1, <1>4, <1>2 DEF OnePlace
  <2>4. \A v \in Workers, i \in DOMAIN queue' : worker'[v] # queue'[i]
    BY <2>1, <2>2, <1>3 DEF OnePlace, PoolTypeOK
  <2>5. \A v1, v2 \in Workers : worker'[v1] \in Tasks /\ worker'[v1] = worker'[v2] => v1 = v2
    BY <2>2, <1>3 DEF OnePlace, PoolTypeOK
  <2> QED  BY <2>3, <2>4, <2>5 DEF OnePlace
<1>7. ASSUME NEW u \in Tasks, OnWorker(u) PROVE OnWorker(u)'
  BY <1>7, <1>1, <1>3 DEF OnWorker, PoolTypeOK
<1>8. ASSUME NEW u \in Tasks, Queued(u) PROVE InPool(u)'
  <2>1. PICK i \in DOMAIN queue : queue[i] = u
    BY <1>8 DEF Queued
  <2>2. CASE i = 1
    BY <2>1, <2>2, <1>3 DEF InPool, OnWorker, PoolTypeOK
  <2>3. CASE i # 1
    <3>1. i - 1 \in DOMAIN queue' /\ queue'[i - 1] = queue[i]
      BY <2>1, <2>3, <1>2, <1>3, <1>4
    <3> QED  BY <2>1, <3>1 DEF InPool, Queued
  <2> QED  BY <2>2, <2>3
<1>9. ASSUME NEW u \in Tasks, InPool(u)' PROVE InPool(u)
  <2>1. CASE Queued(u)'
    <3>1. PICK i \in DOMAIN queue' : queue'[i] = u
      BY <2>1 DEF Queued
    <3>2. i + 1 \in DOMAIN queue /\ queue[i + 1] = u
      BY <3>1, <1>2, <1>3, <1>4
    <3> QED  BY <3>2 DEF InPool, Queued
  <2>2. CASE OnWorker(u)'
    <3>1. 1 \in DOMAIN queue
      BY <1>2, <1>4
    <3> QED  BY <2>2, <3>1, <1>3 DEF InPool, Queued, OnWorker, PoolTypeOK
  <2> QED  BY <1>9, <2>1, <2>2 DEF InPool
<1> QED  BY <1>6, <1>7, <1>8, <1>9 DEF InPool

(* The end of a surplus thread concerns no task.                           *)
LEMMA KeepAlivePlace ==
  ASSUME PoolTypeOK, OnePlace, NEW w \in Workers, KeepAliveEnds(w)
  PROVE  /\ OnePlace'
         /\ \A u \in Tasks : InPool(u)' <=> InPool(u)
         /\ \A u \in Tasks : OnWorker(u) => OnWorker(u)'
<1>1. Idle \notin Tasks /\ Absent \notin Tasks
  BY DEF Idle, Absent, Tasks
<1> QED  BY <1>1 DEF KeepAliveEnds, PoolTypeOK, OnePlace, InPool, OnWorker, Queued

-----------------------------------------------------------------------------
(***************************************************************************)
(* Every task is in one place                                              *)
(***************************************************************************)

(* TasksPlacedOnce with what makes it inductive: a request is only under   *)
(* way for a job without a ProcessClient, and no StreamHandler of a job is *)
(* in the pool before its process has been handed over.                    *)
PlaceInv ==
  /\ TasksPlacedOnce
  /\ \A j \in Jobs : http[j] # "idle" => client[j] = "none"
  /\ \A j \in Jobs :
       http[j] # "idle" \/ client[j] \in {"submitted", "flagged", "handing"}
         => ~InPool(Stream(j))

(* The tasks of two jobs, and the two tasks of one, are different records. *)
LEMMA TasksDiffer ==
  \A j, k \in Jobs : /\ Client(j) # Stream(k)
                     /\ Client(j) = Client(k) => j = k
                     /\ Stream(j) = Stream(k) => j = k
  BY DEF Client, Stream

(* A step that leaves the pool alone leaves every task where it is.        *)
LEMMA PoolUnchanged ==
  ASSUME OnePlace, UNCHANGED <<worker, queue>>
  PROVE  /\ OnePlace'
         /\ \A u \in Tasks : InPool(u)' <=> InPool(u)
         /\ \A u \in Tasks : OnWorker(u) => OnWorker(u)'
  BY DEF OnePlace, InPool, OnWorker, Queued

(* Every step keeps PlaceInv.                                              *)
LEMMA PlaceStep ==
  ASSUME TypeOK, PlaceInv, [Next]_vars
  PROVE  PlaceInv'
<1> USE TaskTypes, TasksDiffer DEF TypeOK, PlaceInv, TasksPlacedOnce, ClientPlaced
<1>1. ASSUME NEW j \in Jobs, HttpThread(j) PROVE PlaceInv'
  <2>1. CASE Invoke(j)
    BY <2>1, PoolUnchanged DEF Invoke, Gone
  <2>2. CASE RejectPom(j)
    BY <2>2, PoolUnchanged DEF RejectPom
  <2>3. CASE Lock(j)
    BY <2>3, PoolUnchanged DEF Lock
  <2>4. CASE PrepareFails(j)
    BY <2>4, PoolUnchanged DEF PrepareFails
  <2>5. CASE Submit(j)
    <3>1. ~InPool(Client(j))
      BY <2>5 DEF Submit
    <3> QED  BY <2>5, <3>1, ExecutePlace DEF Submit, Accepted
  <2>6. CASE SubmitBlocks(j)
    BY <2>6, PoolUnchanged DEF SubmitBlocks
  <2>7. CASE SubmitUnblocks(j)
    <3>1. ~InPool(Client(j))
      BY <2>7 DEF SubmitUnblocks
    <3> QED  BY <2>7, <3>1, PutPlace DEF SubmitUnblocks, Accepted
  <2> QED  BY <1>1, <2>1, <2>2, <2>3, <2>4, <2>5, <2>6, <2>7 DEF HttpThread
<1>2. ASSUME NEW j \in Jobs, Task(j) PROVE PlaceInv'
  <2>1. CASE putFlag(j)
    BY <2>1, PoolUnchanged DEF putFlag
  <2>2. CASE ExecFails(j)
    BY <2>2, FreePlace DEF ExecFails
  <2>3. CASE StartProcess(j)
    BY <2>3, ExecutePlace DEF StartProcess
  <2>4. CASE StartProcessBlocks(j)
    BY <2>4, PoolUnchanged DEF StartProcessBlocks
  <2>5. CASE StartProcessUnblocks(j)
    BY <2>5, PutPlace DEF StartProcessUnblocks
  <2>6. CASE StopWaiting(j)
    BY <2>6, FreePlace DEF StopWaiting
  <2>7. CASE StreamEnds(j)
    BY <2>7, FreePlace DEF StreamEnds
  <2> QED  BY <1>2, <2>1, <2>2, <2>3, <2>4, <2>5, <2>6, <2>7 DEF Task
<1>3. ASSUME NEW j \in Jobs, ProcessExits(j) PROVE PlaceInv'
  BY <1>3, PoolUnchanged DEF ProcessExits
<1>4. ASSUME NEW w \in Workers, RunNext(w) PROVE PlaceInv'
  BY <1>4, TakePlace DEF RunNext
<1>5. ASSUME NEW w \in Workers, ShrinkPool(w) PROVE PlaceInv'
  BY <1>5, KeepAlivePlace DEF ShrinkPool
<1>6. CASE FlagExpires
  BY <1>6, PoolUnchanged DEF FlagExpires
<1>7. CASE Restart
  <2>1. Absent \notin Tasks
    BY DEF Absent, Tasks
  <2>2. OnePlace' /\ \A u \in Tasks : ~InPool(u)'
    BY <1>7, <2>1 DEF Restart, OnePlace, InPool, OnWorker, Queued
  <2> QED  BY <1>7, <2>2 DEF Restart
<1>8. CASE UNCHANGED vars
  BY <1>8, PoolUnchanged DEF vars
<1> QED  BY <1>1, <1>2, <1>3, <1>4, <1>5, <1>6, <1>7, <1>8 DEF Next

(* PlaceInv holds at the start: the pool is empty.                         *)
LEMMA PlaceInit == Init => PlaceInv
<1>1. Absent \notin Tasks
  BY DEF Absent, Tasks
<1> QED  BY <1>1, TaskTypes DEF Init, PoolInit, PlaceInv, TasksPlacedOnce, OnePlace,
            ClientPlaced, InPool, OnWorker, Queued

(* PlaceInv holds of every reachable state.                                *)
LEMMA PlaceInvariant == Spec => []PlaceInv
<1>1. TypeOK /\ PlaceInv /\ [Next]_vars => PlaceInv'
  BY PlaceStep
<1> QED  BY <1>1, PlaceInit, TypeCorrect, PTL DEF Spec

(* TaskContainer: with any number of jobs and of threads, whatever faults  *)
(* happen, no task is lost or in two places, and a ProcessClient is in the *)
(* pool exactly while it has not ended.                                    *)
THEOREM TasksArePlacedOnce == Spec => []TasksPlacedOnce
<1>1. PlaceInv => TasksPlacedOnce
  BY DEF PlaceInv
<1> QED  BY <1>1, PlaceInvariant, PTL

-----------------------------------------------------------------------------
(***************************************************************************)
(* The lock                                                                *)
(***************************************************************************)

(* PomServiceImpl.locker is held by exactly the request between lock() and *)
(* the unlock of finally, a request that waits in put included.            *)
THEOREM LockIsHeld == Spec => []LockHeld
<1>1. Init => LockHeld
  BY JobsAssumption DEF Init, LockHeld
<1>2. TypeOK /\ LockHeld /\ [Next]_vars => LockHeld'
  <2> SUFFICES ASSUME TypeOK, LockHeld, [Next]_vars PROVE LockHeld'
    OBVIOUS
  <2> USE JobsAssumption DEF TypeOK, LockHeld
  <2>1. ASSUME NEW j \in Jobs, HttpThread(j) PROVE LockHeld'
    <3>1. CASE Invoke(j) \/ RejectPom(j)
      BY <3>1 DEF Invoke, Gone, RejectPom
    <3>2. CASE Lock(j)
      BY <3>2 DEF Lock
    <3>3. CASE PrepareFails(j)
      BY <3>3 DEF PrepareFails
    <3>4. CASE Submit(j)
      <4>1. locker = j /\ locker' = None /\ http' = [http EXCEPT ![j] = "idle"]
        BY <3>4 DEF Submit, Accepted
      <4> QED  BY <4>1
    <3>5. CASE SubmitBlocks(j)
      BY <3>5 DEF SubmitBlocks
    <3>6. CASE SubmitUnblocks(j)
      BY <3>6 DEF SubmitUnblocks, Accepted
    <3> QED  BY <2>1, <3>1, <3>2, <3>3, <3>4, <3>5, <3>6 DEF HttpThread
  <2>2. ASSUME NEW j \in Jobs, Task(j) PROVE LockHeld'
    BY <2>2 DEF Task, putFlag, ExecFails, StartProcess, StartProcessBlocks,
                StartProcessUnblocks, StopWaiting, StreamEnds
  <2>3. ASSUME NEW j \in Jobs, ProcessExits(j) PROVE LockHeld'
    BY <2>3 DEF ProcessExits
  <2>4. ASSUME NEW w \in Workers, RunNext(w) \/ ShrinkPool(w) PROVE LockHeld'
    BY <2>4 DEF RunNext, ShrinkPool
  <2>5. CASE FlagExpires \/ UNCHANGED vars
    BY <2>5 DEF FlagExpires, vars
  <2>6. CASE Restart
    BY <2>6 DEF Restart
  <2> QED  BY <2>1, <2>2, <2>3, <2>4, <2>5, <2>6 DEF Next
<1> QED  BY <1>1, <1>2, TypeCorrect, PTL DEF Spec

-----------------------------------------------------------------------------
(***************************************************************************)
(* The threads of the pool                                                 *)
(***************************************************************************)
CoreStarted == Cardinality(Alive) >= CorePoolSize

(* A queued task has a thread, with what makes that inductive: whoever     *)
(* waits in put has found every thread started.                            *)
SomeoneInPut == \E j \in Jobs : http[j] = "blocked" \/ client[j] = "handing"

ThreadsInv == queue # <<>> \/ SomeoneInPut => CoreStarted

(* Only KeepAliveEnds and Restart end a thread.                            *)
LEMMA AliveGrows ==
  ASSUME TypeOK, CoreStarted, Alive \subseteq Alive'
  PROVE  CoreStarted'
<1>1. IsFiniteSet(Alive')
  BY WorkersAssumption, FS_Subset DEF Alive
<1>2. Cardinality(Alive) <= Cardinality(Alive')
  BY <1>1, FS_Subset
<1>3. Cardinality(Alive) \in Nat /\ Cardinality(Alive') \in Nat
  BY <1>1, FS_Subset, FS_CardinalityType
<1> QED  BY <1>2, <1>3 DEF CoreStarted, CorePoolSize

(* Every step keeps ThreadsInv.                                            *)
LEMMA ThreadsStep ==
  ASSUME TypeOK, ThreadsInv, [Next]_vars
  PROVE  ThreadsInv'
<1> USE DEF TypeOK
<1>0. TypeOK
  OBVIOUS
<1>1. Absent # Idle /\ Absent \notin Tasks /\ Cardinality(Alive) \in Nat
  BY WorkersAssumption, FS_Subset, FS_CardinalityType DEF Absent, Idle, Tasks, Alive
<1>2. ASSUME NEW t \in Tasks, execute(t) PROVE Alive \subseteq Alive' /\ (queue' # <<>> => queue # <<>> \/ CoreStarted)
  BY <1>2, <1>1 DEF execute, StartsThread, Alive, CoreStarted, PoolTypeOK, CorePoolSize
<1>3. ASSUME NEW t \in Tasks, FreeWorker(t) PROVE Alive \subseteq Alive'
  BY <1>3, <1>1 DEF FreeWorker, Alive, PoolTypeOK
<1>4. ASSUME Rejected PROVE CoreStarted
  BY <1>4, WorkersAssumption DEF Rejected, CoreStarted, CPU_COUNT
<1>5. ASSUME NEW j \in Jobs, HttpThread(j) PROVE ThreadsInv'
  <2>1. CASE Submit(j)
    <3>1. ThreadsInv
      OBVIOUS
    <3>2. queue' # <<>> \/ SomeoneInPut' => CoreStarted
      BY <3>1, <2>1, <1>2, TaskTypes DEF Submit, Accepted, ThreadsInv, SomeoneInPut
    <3>3. Alive \subseteq Alive'
      BY <2>1, <1>2, TaskTypes DEF Submit
    <3> QED  BY <3>2, <3>3, <1>0, AliveGrows DEF ThreadsInv
  <2>2. CASE SubmitBlocks(j)
    BY <2>2, <1>4 DEF SubmitBlocks, ThreadsInv, SomeoneInPut, CoreStarted, Alive
  <2>3. CASE SubmitUnblocks(j)
    BY <2>3 DEF SubmitUnblocks, put, Accepted, ThreadsInv, SomeoneInPut, CoreStarted, Alive
  <2>4. CASE Invoke(j) \/ RejectPom(j) \/ Lock(j) \/ PrepareFails(j)
    BY <2>4 DEF Invoke, RejectPom, Lock, PrepareFails, ThreadsInv, SomeoneInPut, CoreStarted, Alive
  <2> QED  BY <1>5, <2>1, <2>2, <2>3, <2>4 DEF HttpThread
<1>6. ASSUME NEW j \in Jobs, Task(j) PROVE ThreadsInv'
  <2>1. CASE StartProcess(j)
    <3>1. ThreadsInv
      OBVIOUS
    <3>2. queue' # <<>> \/ SomeoneInPut' => CoreStarted
      BY <3>1, <2>1, <1>2, TaskTypes DEF StartProcess, ThreadsInv, SomeoneInPut
    <3>3. Alive \subseteq Alive'
      BY <2>1, <1>2, TaskTypes DEF StartProcess
    <3> QED  BY <3>2, <3>3, <1>0, AliveGrows DEF ThreadsInv
  <2>2. CASE StartProcessBlocks(j)
    BY <2>2, <1>4 DEF StartProcessBlocks, ThreadsInv, SomeoneInPut, CoreStarted, Alive
  <2>3. CASE StartProcessUnblocks(j)
    BY <2>3 DEF StartProcessUnblocks, put, ThreadsInv, SomeoneInPut, CoreStarted, Alive
  <2>4. CASE putFlag(j)
    BY <2>4 DEF putFlag, ThreadsInv, SomeoneInPut, CoreStarted, Alive
  <2>5. CASE ExecFails(j) \/ StopWaiting(j) \/ StreamEnds(j)
    <3>1. Alive \subseteq Alive'
      BY <2>5, <1>3, TaskTypes DEF ExecFails, StopWaiting, StreamEnds
    <3>2. ThreadsInv => (queue' # <<>> \/ SomeoneInPut' => CoreStarted)
      BY <2>5 DEF ExecFails, StopWaiting, StreamEnds, ThreadsInv, SomeoneInPut
    <3> QED  BY <3>1, <3>2, <1>0, AliveGrows DEF ThreadsInv
  <2> QED  BY <1>6, <2>1, <2>2, <2>3, <2>4, <2>5 DEF Task
<1>7. ASSUME NEW j \in Jobs, ProcessExits(j) PROVE ThreadsInv'
  BY <1>7 DEF ProcessExits, ThreadsInv, SomeoneInPut, CoreStarted, Alive
<1>8. ASSUME NEW w \in Workers, RunNext(w) PROVE ThreadsInv'
  <2>1. Head(queue) \in Tasks /\ queue # <<>>
    BY <1>8 DEF RunNext, TakeTask, PoolTypeOK
  <2>2. Alive \subseteq Alive'
    BY <2>1, <1>8, <1>1 DEF RunNext, TakeTask, Alive, PoolTypeOK
  <2> QED  BY <2>1, <2>2, <1>0, <1>8, AliveGrows DEF RunNext, ThreadsInv, SomeoneInPut
<1>9. ASSUME NEW w \in Workers, ShrinkPool(w) PROVE ThreadsInv'
  <2>1. Alive' = Alive \ {w} /\ w \in Alive
    BY <1>9, <1>1 DEF ShrinkPool, KeepAliveEnds, Alive, PoolTypeOK
  <2>2. Cardinality(Alive') = Cardinality(Alive) - 1
    <3>1. IsFiniteSet(Alive)
      BY WorkersAssumption, FS_Subset DEF Alive
    <3>2. Cardinality(Alive \ {w}) = Cardinality(Alive) - 1
      BY <3>1, <2>1, FS_RemoveElement
    <3> QED  BY <3>2, <2>1
  <2>3. Cardinality(Alive) > CorePoolSize
    BY <1>9 DEF ShrinkPool, KeepAliveEnds
  <2>4. CoreStarted'
    BY <2>2, <2>3, <1>1 DEF CoreStarted, CorePoolSize
  <2> QED  BY <2>4 DEF ThreadsInv
<1>10. CASE FlagExpires \/ UNCHANGED vars
  BY <1>10 DEF FlagExpires, vars, ThreadsInv, SomeoneInPut, CoreStarted, Alive
<1>11. CASE Restart
  BY <1>11 DEF Restart, ThreadsInv, SomeoneInPut
<1> QED  BY <1>5, <1>6, <1>7, <1>8, <1>9, <1>10, <1>11 DEF Next

(* ThreadsInv holds of every reachable state.                              *)
LEMMA ThreadsInvariant == Spec => []ThreadsInv
<1>1. Init => ThreadsInv
  BY DEF Init, PoolInit, ThreadsInv, SomeoneInPut
<1>2. TypeOK /\ ThreadsInv /\ [Next]_vars => ThreadsInv'
  BY ThreadsStep
<1> QED  BY <1>1, <1>2, TypeCorrect, PTL DEF Spec

-----------------------------------------------------------------------------
(***************************************************************************)
(* The pool implements Executor                                            *)
(***************************************************************************)
Running == {worker[w] : w \in Workers} \cap Tasks

(* The tasks that Executor holds are those on a worker and in the queue.   *)
LEMMA HeldIsInPool ==
  \A t \in Tasks : /\ t \in Running <=> OnWorker(t)
                   /\ Pool!Held(t) <=> InPool(t)
  BY DEF Running, OnWorker, Pool!Held, InPool, Queued

(* While a thread runs no task, one more may run.                          *)
LEMMA ThreadFree ==
  ASSUME NEW v \in Workers, worker[v] \notin Tasks
  PROVE  Cardinality(Running) < MAXIMUM_POOL_SIZE
<1> DEFINE Others == Workers \ {v}
           f == [t \in Running |-> CHOOSE w \in Workers : worker[w] = t]
<1>1. \A t \in Running : f[t] \in Workers /\ worker[f[t]] = t /\ t \in Tasks
  BY DEF Running
<1>2. \A t \in Running : f[t] \in Others
  BY <1>1
<1>3. f \in Injection(Running, Others)
  BY <1>1, <1>2 DEF Injection, IsInjective
<1>4. IsFiniteSet(Others) /\ Cardinality(Others) = CPU_COUNT - 1
  BY WorkersAssumption, FS_RemoveElement DEF CPU_COUNT
<1>5. IsFiniteSet(Running) /\ Cardinality(Running) <= Cardinality(Others)
  BY <1>3, <1>4, FS_Injection
<1>6. Cardinality(Running) \in Nat
  BY <1>5, FS_CardinalityType
<1> QED  BY <1>4, <1>5, <1>6, CpuCount DEF MAXIMUM_POOL_SIZE

(* Executor counts as the pool does.                                       *)
LEMMA SameCount == \A S : Pool!Cardinality(S) = Cardinality(S)
  BY DEF Cardinality, Pool!Cardinality

(* execute hands a task over: it waits, or it runs at once, and then none  *)
(* waits or the queue is full.                                             *)
LEMMA ExecuteServes ==
  ASSUME PoolTypeOK, ThreadsInv, NEW t \in Tasks, ~InPool(t), execute(t)
  PROVE  Pool!Next
<1>1. CASE /\ StartsThread
           /\ \E w \in Workers \ Alive : worker' = [worker EXCEPT ![w] = t]
           /\ UNCHANGED queue
  <2>1. PICK w \in Workers \ Alive : worker' = [worker EXCEPT ![w] = t]
    BY <1>1
  <2>2. worker[w] = Absent /\ Absent \notin Tasks
    BY <2>1 DEF Alive, Absent, Tasks
  <2>3. Running' = Running \union {t}
    BY <2>1, <2>2 DEF Running, PoolTypeOK
  <2>4. Cardinality(Running) < MAXIMUM_POOL_SIZE
    BY <2>2, ThreadFree
  <2>5. queue = <<>> \/ Len(queue) = CORE_POOL_SIZE
    <3>1. CASE QueueFull
      BY <3>1, CpuCount DEF QueueFull, PoolTypeOK, CORE_POOL_SIZE
    <3>2. CASE Cardinality(Alive) < CorePoolSize
      <4>1. Cardinality(Alive) \in Nat
        BY WorkersAssumption, FS_Subset, FS_CardinalityType DEF Alive
      <4> QED  BY <3>2, <4>1 DEF ThreadsInv, CoreStarted, CorePoolSize
    <3> QED  BY <1>1, <3>1, <3>2 DEF StartsThread
  <2>6. ~Pool!Held(t)
    BY HeldIsInPool
  <2>7. Pool!StartAtOnce(t)
    BY <1>1, <2>3, <2>4, <2>5, <2>6, SameCount DEF Running, Pool!StartAtOnce
  <2> QED  BY <2>7 DEF Pool!Next
<1>2. CASE ~QueueFull /\ queue' = Append(queue, t) /\ UNCHANGED worker
  <2>1. Len(queue) < CORE_POOL_SIZE
    BY <1>2, CpuCount DEF QueueFull, PoolTypeOK, CORE_POOL_SIZE
  <2>2. ~Pool!Held(t)
    BY HeldIsInPool
  <2>3. Running' = Running
    BY <1>2 DEF Running
  <2>4. Pool!Enqueue(t)
    BY <1>2, <2>1, <2>2, <2>3 DEF Running, Pool!Enqueue
  <2> QED  BY <2>4 DEF Pool!Next
<1> QED  BY <1>1, <1>2 DEF execute

(* The put that has waited hands it over, too, behind all that wait.       *)
LEMMA PutServes ==
  ASSUME PoolTypeOK, NEW t \in Tasks, ~InPool(t), put(t)
  PROVE  Pool!Next
<1>1. Len(queue) < CORE_POOL_SIZE
  BY CpuCount DEF put, QueueFull, PoolTypeOK, CORE_POOL_SIZE
<1>2. ~Pool!Held(t)
  BY HeldIsInPool
<1>3. Running' = Running
  BY DEF put, Running
<1>4. Pool!Enqueue(t)
  BY <1>1, <1>2, <1>3 DEF put, Running, Pool!Enqueue
<1> QED  BY <1>4 DEF Pool!Next

(* A worker begins the task that has waited longest, and no other worker   *)
(* has it.                                                                 *)
LEMMA TakeServes ==
  ASSUME PoolTypeOK, OnePlace, NEW w \in Workers, TakeTask(w)
  PROVE  Pool!Next
<1>1. Idle \notin Tasks
  BY DEF Idle, Tasks
<1>2. Head(queue) = queue[1] /\ 1 \in DOMAIN queue /\ Head(queue) \in Tasks
  BY DEF TakeTask, PoolTypeOK
<1>3. Head(queue) \notin Running
  BY <1>2 DEF Running, OnePlace
<1>4. worker[w] = Idle /\ worker' = [worker EXCEPT ![w] = Head(queue)]
  BY DEF TakeTask
<1>5. Running' = Running \union {Head(queue)}
  BY <1>1, <1>2, <1>4 DEF Running, PoolTypeOK
<1>6. Cardinality(Running) < MAXIMUM_POOL_SIZE
  BY <1>1, <1>4, ThreadFree
<1>7. Pool!Begin
  BY <1>3, <1>5, <1>6, SameCount DEF TakeTask, Running, Pool!Begin
<1> QED  BY <1>7 DEF Pool!Next

(* The end of a run ends the task.                                         *)
LEMMA FreeServes ==
  ASSUME PoolTypeOK, NEW t \in Tasks, OnWorker(t), FreeWorker(t), UNCHANGED queue
  PROVE  Pool!Next
<1>1. Idle \notin Tasks
  BY DEF Idle, Tasks
<1>2. t \in Running
  BY HeldIsInPool
<1>3. Running' = Running \ {t}
  BY <1>1 DEF FreeWorker, Running, PoolTypeOK
<1>4. Pool!End(t)
  BY <1>2, <1>3 DEF Running, Pool!End
<1> QED  BY <1>4 DEF Pool!Next

(* Every step of the download, of whichever thread, is one step of         *)
(* Executor or none: neither the rejection handler's put nor a task that   *)
(* hands over another from within the pool can drop a task, run it twice   *)
(* or let it pass those in a queue that has a place left.                  *)
THEOREM PoolServesTasks == Spec => ServesTasks
<1>1. Init => Pool!Init
  <2>1. Absent \notin Tasks
    BY DEF Absent, Tasks
  <2>2. Init => Running = {} /\ queue = <<>>
    BY <2>1 DEF Init, PoolInit, Running
  <2> QED  BY <2>2 DEF Running, Pool!Init
<1>2. TypeOK /\ PlaceInv /\ ThreadsInv /\ [Next]_vars => [Pool!Next]_(Pool!taskVars)
  <2> SUFFICES ASSUME TypeOK, PlaceInv, ThreadsInv, [Next]_vars
               PROVE  [Pool!Next]_(Pool!taskVars)
    OBVIOUS
  <2> USE TaskTypes
  <2>1. PoolTypeOK /\ OnePlace
    BY DEF TypeOK, PlaceInv, TasksPlacedOnce
  <2>2. ASSUME UNCHANGED <<worker, queue>> PROVE UNCHANGED Pool!taskVars
    BY <2>2 DEF Pool!taskVars
  <2>3. ASSUME NEW j \in Jobs, HttpThread(j) PROVE [Pool!Next]_(Pool!taskVars)
    <3>1. http[j] # "idle" => ~InPool(Client(j))
      BY DEF PlaceInv, TasksPlacedOnce, ClientPlaced
    <3>2. CASE Submit(j)
      BY <2>1, <3>1, <3>2, ExecuteServes DEF Submit
    <3>3. CASE SubmitUnblocks(j)
      BY <2>1, <3>1, <3>3, PutServes DEF SubmitUnblocks
    <3>4. CASE UNCHANGED <<worker, queue>>
      BY <2>2, <3>4
    <3> QED  BY <2>3, <3>2, <3>3, <3>4 DEF HttpThread, Invoke, RejectPom, Lock, PrepareFails, SubmitBlocks
  <2>4. ASSUME NEW j \in Jobs, Task(j) PROVE [Pool!Next]_(Pool!taskVars)
    <3>1. client[j] \in {"flagged", "handing"} => ~InPool(Stream(j))
      BY DEF PlaceInv
    <3>2. client[j] \in {"flagged", "handing", "waiting"} => OnWorker(Client(j))
      BY DEF PlaceInv, TasksPlacedOnce, ClientPlaced
    <3>3. CASE StartProcess(j)
      BY <2>1, <3>1, <3>3, ExecuteServes DEF StartProcess
    <3>4. CASE StartProcessUnblocks(j)
      BY <2>1, <3>1, <3>4, PutServes DEF StartProcessUnblocks
    <3>5. CASE ExecFails(j)
      BY <2>1, <3>2, <3>5, FreeServes DEF ExecFails
    <3>6. CASE StopWaiting(j)
      BY <2>1, <3>2, <3>6, FreeServes DEF StopWaiting
    <3>7. CASE StreamEnds(j)
      BY <2>1, <3>7, FreeServes DEF StreamEnds
    <3>8. CASE UNCHANGED <<worker, queue>>
      BY <2>2, <3>8
    <3> QED  BY <2>4, <3>3, <3>4, <3>5, <3>6, <3>7, <3>8 DEF Task, putFlag, StartProcessBlocks
  <2>5. ASSUME NEW w \in Workers, RunNext(w) PROVE Pool!Next
    BY <2>1, <2>5, TakeServes DEF RunNext
  <2>6. ASSUME NEW w \in Workers, ShrinkPool(w) PROVE UNCHANGED Pool!taskVars
    <3>1. Idle \notin Tasks /\ Absent \notin Tasks
      BY DEF Idle, Absent, Tasks
    <3>2. Running' = Running /\ queue' = queue
      BY <2>1, <2>6, <3>1 DEF ShrinkPool, KeepAliveEnds, Running, PoolTypeOK
    <3> QED  BY <3>2 DEF Running, Pool!taskVars
  <2>7. CASE Restart
    <3>1. Absent \notin Tasks
      BY DEF Absent, Tasks
    <3>2. Running' = {} /\ queue' = <<>> /\ Has("restart")
      BY <2>7, <3>1 DEF Restart, Running
    <3>3. Pool!Stop
      BY <3>2 DEF Running, Pool!Stop
    <3> QED  BY <3>3 DEF Pool!Next
  <2>8. CASE FlagExpires \/ UNCHANGED vars \/ \E j \in Jobs : ProcessExits(j)
    BY <2>2, <2>8 DEF FlagExpires, vars, ProcessExits
  <2> QED  BY <2>3, <2>4, <2>5, <2>6, <2>7, <2>8 DEF Next
<1> QED  BY <1>1, <1>2, TypeCorrect, PlaceInvariant, ThreadsInvariant, PTL
         DEF Spec, ServesTasks, Pool!Spec

-----------------------------------------------------------------------------
(***************************************************************************)
(* One download at a time, when no request overtakes another               *)
(***************************************************************************)

(* What users who take turns and a redis that answers give.  The flag is   *)
(* up while a ProcessClient is at work, so that no request is let in; the  *)
(* queue is empty when a ProcessClient starts, so that it is never held up *)
(* in put and its key never expires under it.                              *)
SerialInv ==
  /\ \A j, k \in Jobs : InWindow(j) /\ InWindow(k) => j = k
  /\ \A j, k \in Jobs : Downloading(j) => ~InWindow(k)
  /\ \A j \in Jobs : Downloading(j) => flag /\ j \in fresh /\ client[j] # "handing"
  /\ OneTask
  /\ \A j \in Jobs, i \in DOMAIN queue : queue[i] = Client(j) => i = Len(queue)
  /\ \A j \in Jobs : client[j] \in {"submitted", "flagged"} /\ OnWorker(Client(j)) => queue = <<>>
  /\ Len(queue) > 1 => \E j \in Jobs : Queued(Client(j)) /\ Len(queue) = 2
  /\ \A j \in Jobs : http[j] # "blocked"

(* No ProcessClient is about when a request submits its own, so that the   *)
(* queue has room for it.                                                  *)
LEMMA SerialRoom ==
  ASSUME TypeOK, PlaceInv, SerialInv, NEW j \in Jobs, http[j] # "idle"
  PROVE  /\ \A k \in Jobs : client[k] = "none"
         /\ \A k \in Jobs : ~InPool(Client(k))
         /\ Len(queue) <= 1
         /\ ~QueueFull
<1>1. ASSUME NEW k \in Jobs PROVE client[k] = "none"
  <2>1. InWindow(j) /\ client[j] = "none"
    BY DEF InWindow, PlaceInv
  <2>2. ~Downloading(k)
    BY <2>1 DEF SerialInv
  <2>3. client[k] # "submitted"
    BY <2>1 DEF SerialInv, InWindow
  <2> QED  BY <2>2, <2>3 DEF Downloading, TypeOK, ClientStates
<1>2. \A k \in Jobs : ~InPool(Client(k))
  BY <1>1 DEF PlaceInv, TasksPlacedOnce, ClientPlaced
<1>3. Len(queue) \in Nat
  BY DEF TypeOK, PoolTypeOK
<1>4. Len(queue) <= 1
  BY <1>2, <1>3 DEF SerialInv, InPool
<1> QED  BY <1>1, <1>2, <1>3, <1>4, CpuCount DEF QueueFull, CORE_POOL_SIZE

(* Every step that lets no request overtake another keeps SerialInv.       *)
LEMMA SerialStep ==
  ASSUME ~overtaken', TypeOK, PlaceInv, PlaceInv', ThreadsInv, SerialInv, [Next]_vars
  PROVE  SerialInv'
<1> USE TaskTypes, TasksDiffer DEF SerialInv, OneTask, InWindow, Downloading
<1>0. Len(queue) \in Nat /\ DOMAIN queue = 1 .. Len(queue)
  BY DEF TypeOK, PoolTypeOK
<1>1. ASSUME NEW j \in Jobs, HttpThread(j) PROVE SerialInv'
  <2>1. CASE Invoke(j)
    BY <2>1 DEF Invoke, TypeOK, OnWorker, Queued
  <2>2. CASE RejectPom(j) \/ Lock(j) \/ PrepareFails(j)
    BY <2>2 DEF RejectPom, Lock, PrepareFails, TypeOK, OnWorker, Queued
  <2>3. CASE Submit(j)
    <3>1. /\ http[j] # "idle"
          /\ http' = [http EXCEPT ![j] = "idle"]
          /\ client' = [client EXCEPT ![j] = "submitted"]
          /\ flag' = flag /\ fresh' = fresh
      BY <2>3 DEF Submit, Accepted
    <3>2. /\ \A k \in Jobs : client[k] = "none" /\ ~InPool(Client(k))
          /\ Len(queue) <= 1
          /\ ~QueueFull
      BY <3>1, SerialRoom
    <3>3. \/ queue = <<>> /\ queue' = queue
          \/ queue' = Append(queue, Client(j)) /\ worker' = worker
      <4>1. CASE queue # <<>>
        <5>1. Cardinality(Alive) \in Nat /\ Cardinality(Alive) >= CorePoolSize
          BY <4>1, WorkersAssumption, FS_Subset, FS_CardinalityType
             DEF ThreadsInv, CoreStarted, Alive
        <5> QED  BY <5>1, <2>3, <3>2 DEF Submit, execute, StartsThread, CorePoolSize
      <4>2. CASE queue = <<>>
        BY <4>2, <2>3 DEF Submit, execute
      <4> QED  BY <4>1, <4>2
    <3>4. \A k \in Jobs, i \in DOMAIN queue' : queue'[i] = Client(k) => i = Len(queue')
      BY <3>2, <3>3, <1>0 DEF TypeOK, PoolTypeOK, InPool, Queued
    <3>5. Len(queue') > 1 => Queued(Client(j))' /\ Len(queue') = 2
      <4>1. CASE queue' = Append(queue, Client(j))
        <5>1. /\ Len(queue') = Len(queue) + 1
              /\ Len(queue') \in DOMAIN queue'
              /\ queue'[Len(queue')] = Client(j)
          BY <4>1, <1>0 DEF TypeOK, PoolTypeOK
        <5> QED  BY <5>1, <3>2, <1>0 DEF Queued
      <4> QED  BY <3>3, <4>1
    <3>6. \A k \in Jobs : OnWorker(Client(k))' => queue' = <<>>
      BY <3>2, <3>3 DEF InPool, OnWorker
    <3> QED  BY <3>1, <3>2, <3>4, <3>5, <3>6 DEF TypeOK
  <2>4. CASE SubmitBlocks(j)
    <3>1. http[j] # "idle" /\ QueueFull
      BY <2>4 DEF SubmitBlocks, Rejected
    <3> QED  BY <3>1, SerialRoom
  <2>5. CASE SubmitUnblocks(j)
    BY <2>5 DEF SubmitUnblocks
  <2> QED  BY <1>1, <2>1, <2>2, <2>3, <2>4, <2>5 DEF HttpThread
<1>2. ASSUME NEW j \in Jobs, Task(j) PROVE SerialInv'
  <2>1. CASE putFlag(j)
    <3>1. flag' = TRUE /\ fresh' = fresh \union {j}
      BY <2>1 DEF putFlag
    <3>2. /\ client[j] = "submitted" /\ OnWorker(Client(j))
          /\ client' = [client EXCEPT ![j] = "flagged"]
          /\ UNCHANGED <<http, worker, queue>>
      BY <2>1 DEF putFlag
    <3>3. \A k \in Jobs : ~Downloading(k) /\ (InWindow(k) => k = j)
      BY <3>2
    <3>4. http[j] = "idle"
      BY <3>2 DEF PlaceInv, TypeOK
    <3>5. \A k \in Jobs : ~InWindow(k)' /\ (Downloading(k)' => k = j)
      BY <3>2, <3>3, <3>4 DEF TypeOK
    <3>6. queue = <<>> /\ queue' = <<>>
      BY <3>2
    <3> QED  BY <3>1, <3>2, <3>5, <3>6 DEF TypeOK, Queued
  <2>2. CASE ExecFails(j)
    <3>1. \A u \in Tasks : OnWorker(u)' => OnWorker(u)
      BY <2>2 DEF ExecFails, FreeWorker, OnWorker, TypeOK, PoolTypeOK, Idle, Tasks
    <3> QED  BY <2>2, <3>1 DEF ExecFails, TypeOK, Queued
  <2>3. CASE StartProcess(j)
    <3>1. client[j] = "flagged" /\ OnWorker(Client(j)) /\ queue = <<>>
      BY <2>3 DEF StartProcess, PlaceInv, TasksPlacedOnce, ClientPlaced
    <3>2. queue' = <<>> \/ queue' = <<Stream(j)>>
      BY <2>3, <3>1 DEF StartProcess, execute
    <3>3. client' = [client EXCEPT ![j] = "waiting"] /\ UNCHANGED <<http, flag, fresh>>
      BY <2>3 DEF StartProcess
    <3>4. \A k \in Jobs : client'[k] \notin {"submitted", "flagged"}
      BY <3>1, <3>3 DEF TypeOK
    <3>5. \A k \in Jobs : Downloading(k) => k = j
      BY <3>1
    <3>6. \A k \in Jobs : ~InWindow(k)' /\ (Downloading(k)' => k = j)
      BY <3>1, <3>3, <3>4, <3>5 DEF TypeOK
    <3>7. flag' /\ j \in fresh' /\ client'[j] = "waiting"
      BY <3>1, <3>3 DEF TypeOK
    <3>8. Len(queue') <= 1 /\ \A k \in Jobs, i \in DOMAIN queue' : queue'[i] # Client(k)
      <4>1. CASE queue' = <<>>
        BY <4>1
      <4>2. CASE queue' = <<Stream(j)>>
        <5>1. Len(queue') = 1 /\ DOMAIN queue' = {1} /\ queue'[1] = Stream(j)
          BY <4>2
        <5> QED  BY <5>1
      <4> QED  BY <3>2, <4>1, <4>2
    <3>9. \A k \in Jobs : http'[k] # "blocked"
      BY <3>3
    <3>10. Len(queue') \in Nat
      BY <3>2
    <3> QED  BY <3>4, <3>6, <3>7, <3>8, <3>9, <3>10
  <2>4. CASE StartProcessBlocks(j)
    <3>1. client[j] = "flagged" /\ OnWorker(Client(j)) /\ queue = <<>>
      BY <2>4 DEF StartProcessBlocks, PlaceInv, TasksPlacedOnce, ClientPlaced
    <3>2. ~QueueFull
      BY <3>1, CpuCount DEF QueueFull, CORE_POOL_SIZE
    <3> QED  BY <2>4, <3>2 DEF StartProcessBlocks, Rejected
  <2>5. CASE StartProcessUnblocks(j)
    BY <2>5 DEF StartProcessUnblocks
  <2>6. CASE StopWaiting(j)
    <3>1. \A u \in Tasks : OnWorker(u)' => OnWorker(u)
      BY <2>6 DEF StopWaiting, FreeWorker, OnWorker, TypeOK, PoolTypeOK, Idle, Tasks
    <3> QED  BY <2>6, <3>1 DEF StopWaiting, TypeOK, Queued
  <2>7. CASE StreamEnds(j)
    <3>1. \A u \in Tasks : OnWorker(u)' => OnWorker(u)
      BY <2>7 DEF StreamEnds, FreeWorker, OnWorker, TypeOK, PoolTypeOK, Idle, Tasks
    <3> QED  BY <2>7, <3>1 DEF StreamEnds, TypeOK, Queued
  <2> QED  BY <1>2, <2>1, <2>2, <2>3, <2>4, <2>5, <2>6, <2>7 DEF Task
<1>3. ASSUME NEW j \in Jobs, ProcessExits(j) PROVE SerialInv'
  BY <1>3 DEF ProcessExits, OnWorker, Queued
<1>4. ASSUME NEW w \in Workers, RunNext(w) PROVE SerialInv'
  <2>1. /\ queue # <<>>
        /\ worker' = [worker EXCEPT ![w] = queue[1]]
        /\ queue' = Tail(queue)
        /\ UNCHANGED <<http, client, flag, fresh>>
    BY <1>4 DEF RunNext, TakeTask, TypeOK, PoolTypeOK
  <2>2. /\ Len(queue') = Len(queue) - 1 /\ Len(queue) > 0
        /\ DOMAIN queue' = 1 .. Len(queue) - 1
        /\ \A i \in 1 .. Len(queue) - 1 : queue'[i] = queue[i + 1]
    BY <2>1, <1>0 DEF TypeOK, PoolTypeOK
  <2>3. \A j \in Jobs, i \in DOMAIN queue' : queue'[i] = Client(j) => i = Len(queue')
    BY <2>2, <1>0
  <2>4. Len(queue') <= 1
    BY <2>2, <1>0
  <2>5. ASSUME NEW j \in Jobs, client[j] \in {"submitted", "flagged"}, OnWorker(Client(j))'
        PROVE  queue' = <<>>
    <3>1. ~OnWorker(Client(j))
      BY <2>1, <2>5
    <3>2. queue[1] = Client(j)
      BY <3>1, <2>5, <2>1 DEF OnWorker, TypeOK, PoolTypeOK
    <3>3. Len(queue) = 1
      BY <3>2, <2>2, <1>0
    <3> QED  BY <3>3, <2>1, <2>2 DEF TypeOK, PoolTypeOK
  <2> QED  BY <2>1, <2>3, <2>4, <2>5, <2>2, <1>0
<1>5. ASSUME NEW w \in Workers, ShrinkPool(w) PROVE SerialInv'
  <2>1. queue' = queue /\ queue = <<>> /\ UNCHANGED <<http, client, flag, fresh>>
    BY <1>5 DEF ShrinkPool, KeepAliveEnds
  <2> QED  BY <2>1 DEF Queued
<1>6. CASE FlagExpires
  BY <1>6 DEF FlagExpires, OnWorker, Queued
<1>7. CASE Restart
  BY <1>7 DEF Restart, Queued
<1>8. CASE UNCHANGED vars
  BY <1>8 DEF vars, OnWorker, Queued
<1> QED  BY <1>1, <1>2, <1>3, <1>4, <1>5, <1>6, <1>7, <1>8 DEF Next

(* A restart leaves no request and no task.                                *)
LEMMA RestartSerial == TypeOK /\ Restart => SerialInv'
  BY DEF Restart, SerialInv, OneTask, InWindow, Downloading, TypeOK

(* "just can only invoke one task" (PomServiceImpl.java:73) holds as long  *)
(* as no request is let in while another is between its look at the flag   *)
(* and its task's putFlag, and redis answers: the look outside the lock is *)
(* the only way in for a second task.                                      *)
THEOREM OneTaskWhenInTurn == Spec => []OneTaskInTurn
<1> DEFINE InTurn == ~overtaken => SerialInv
<1>1. Init => InTurn
  BY DEF Init, PoolInit, SerialInv, OneTask, InWindow, Downloading, OnWorker, Absent, Client
<1>2. InTurn => OneTaskInTurn
  BY DEF SerialInv, OneTaskInTurn
<1>3. ASSUME TypeOK, PlaceInv, PlaceInv', ThreadsInv, InTurn, [Next]_vars
      PROVE  InTurn'
  <2> SUFFICES ASSUME ~overtaken' PROVE SerialInv'
    OBVIOUS
  <2>1. CASE Restart
    BY <1>3, <2>1, RestartSerial
  <2>2. CASE ~Restart
    <3>1. ~overtaken
      BY <1>3, <2>2 DEF Next, vars, HttpThread, Invoke, RejectPom, Lock, PrepareFails, Submit,
         SubmitBlocks, SubmitUnblocks, Accepted, Task, putFlag, ExecFails, StartProcess,
         StartProcessBlocks, StartProcessUnblocks, StopWaiting, StreamEnds, ProcessExits,
         RunNext, ShrinkPool, FlagExpires, TypeOK
    <3> QED  BY <1>3, <3>1, SerialStep
  <2> QED  BY <2>1, <2>2
<1>4. TypeOK /\ PlaceInv /\ PlaceInv' /\ ThreadsInv /\ InTurn /\ [Next]_vars => InTurn'
  BY <1>3
<1> HIDE DEF InTurn
<1> QED  BY <1>1, <1>2, <1>4, PlaceInvariant, ThreadsInvariant, TypeCorrect, PTL DEF Spec

-----------------------------------------------------------------------------
(***************************************************************************)
(* When the pool can come to a stand                                       *)
(***************************************************************************)

(* A stuck pool takes a job for each thread it has, and another for each   *)
(* place of the queue: the jobs whose ProcessClient waits in put have nothing in    *)
(* the queue, and no job has two tasks there.                              *)
LEMMA StuckNeedsJobs ==
  ASSUME TypeOK, PlaceInv, PoolStuck
  PROVE  Cardinality(Jobs) >= Cardinality(Alive) + CPU_COUNT
<1> DEFINE Handing == {j \in Jobs : client[j] = "handing"}
           Waiting == {j \in Jobs : (InPool(Client(j)) /\ client[j] # "handing") \/ InPool(Stream(j))}
           Places == 1 .. CPU_COUNT
<1> USE TaskTypes, TasksDiffer DEF TypeOK
<1>1. Places = DOMAIN queue /\ Len(queue) = CPU_COUNT
  BY CpuCount DEF PoolStuck, QueueFull, PoolTypeOK, CORE_POOL_SIZE
<1>2. Cardinality(Alive) <= Cardinality(Handing)
  <2> DEFINE f == [w \in Alive |-> worker[w].job]
  <2>1. \A w \in Alive : \E j \in Jobs : worker[w] = Client(j) /\ client[j] = "handing"
    BY DEF PoolStuck
  <2>2. \A w \in Alive : f[w] \in Handing /\ worker[w] = Client(f[w])
    <3> SUFFICES ASSUME NEW w \in Alive
                 PROVE  f[w] \in Handing /\ worker[w] = Client(f[w])
      OBVIOUS
    <3>1. PICK j \in Jobs : worker[w] = Client(j) /\ client[j] = "handing"
      BY <2>1
    <3>2. f[w] = j
      BY <3>1 DEF Client
    <3> QED  BY <3>1, <3>2
  <2>3. \A v, w \in Alive : f[v] = f[w] => v = w
    <3>1. \A w \in Alive : w \in Workers /\ worker[w] \in Tasks
      <4> SUFFICES ASSUME NEW w \in Alive
                   PROVE  w \in Workers /\ worker[w] \in Tasks
        OBVIOUS
      <4> HIDE DEF f
      <4>1. PICK j \in Jobs : worker[w] = Client(j)
        BY <2>1
      <4>2. Client(j) \in Tasks
        BY TaskTypes
      <4>3. w \in Workers
        BY DEF Alive
      <4> QED  BY <4>1, <4>2, <4>3
    <3>2. \A v, w \in Alive : f[v] = f[w] => worker[v] = worker[w]
      BY <2>2
    <3> QED  BY <3>1, <3>2 DEF PlaceInv, TasksPlacedOnce, OnePlace
  <2>4. f \in Injection(Alive, Handing)
    BY <2>2, <2>3 DEF Injection, IsInjective
  <2>5. IsFiniteSet(Handing)
    BY JobsAssumption, FS_Subset
  <2> QED  BY <2>4, <2>5, FS_Injection
<1>3. \A i \in Places : queue[i] \in Tasks /\ InPool(queue[i])
  BY <1>1 DEF PoolTypeOK, InPool, Queued
<1>4. \A i \in Places, j \in Jobs : queue[i] = Client(j) =>
          client[j] = "submitted" /\ ~OnWorker(Client(j))
  <2> SUFFICES ASSUME NEW i \in Places, NEW j \in Jobs, queue[i] = Client(j)
               PROVE  client[j] = "submitted" /\ ~OnWorker(Client(j))
    OBVIOUS
  <2>1. ~OnWorker(Client(j))
    BY <1>1 DEF PlaceInv, TasksPlacedOnce, OnePlace, OnWorker
  <2> QED  BY <2>1, <1>3 DEF PlaceInv, TasksPlacedOnce, ClientPlaced, ClientStates
<1>5. \A t \in Tasks : t = Client(t.job) \/ t = Stream(t.job)
  BY DEF Tasks, Client, Stream
<1>6. \A t \in Tasks : t.job \in Jobs
  BY DEF Tasks
<1>7. CPU_COUNT <= Cardinality(Waiting \ Handing)
  <2> DEFINE g == [i \in Places |-> queue[i].job]
  <2>1. \A i \in Places : /\ g[i] \in Jobs
                          /\ queue[i] = Client(g[i]) \/ queue[i] = Stream(g[i])
    BY <1>3, <1>5, <1>6
  <2>2. \A i \in Places : g[i] \in Waiting \ Handing
    BY <2>1, <1>3, <1>4 DEF PlaceInv
  <2>3. \A h, i \in Places : g[h] = g[i] => queue[h] = queue[i]
    BY <2>1, <1>3, <1>4 DEF PlaceInv
  <2>4. \A h, i \in Places : g[h] = g[i] => h = i
    BY <2>3, <1>1 DEF PlaceInv, TasksPlacedOnce, OnePlace
  <2>5. g \in Injection(Places, Waiting \ Handing)
    BY <2>2, <2>4 DEF Injection, IsInjective
  <2>6. IsFiniteSet(Waiting \ Handing)
    BY JobsAssumption, FS_Subset
  <2>7. Cardinality(Places) = CPU_COUNT
    BY CpuCount, FS_Interval
  <2> QED  BY <2>5, <2>6, <2>7, FS_Injection
<1>8. Cardinality(Handing) + Cardinality(Waiting \ Handing) <= Cardinality(Jobs)
  <2> DEFINE Rest == Waiting \ Handing
  <2>1. Handing \subseteq Jobs /\ Rest \subseteq Jobs /\ Handing \cap Rest = {}
    OBVIOUS
  <2>2. IsFiniteSet(Handing) /\ IsFiniteSet(Rest) /\ IsFiniteSet(Handing \union Rest)
    BY <2>1, JobsAssumption, FS_Subset
  <2>3. /\ Cardinality(Handing) \in Nat /\ Cardinality(Rest) \in Nat
        /\ Cardinality(Jobs) \in Nat /\ Cardinality({}) = 0
    BY <2>2, JobsAssumption, FS_CardinalityType, FS_EmptySet
  <2> HIDE DEF Handing, Rest
  <2>4. Cardinality(Handing \union Rest) = Cardinality(Handing) + Cardinality(Rest) - Cardinality({})
    BY <2>1, <2>2, FS_Union
  <2>5. Cardinality(Handing \union Rest) <= Cardinality(Jobs)
    BY <2>1, JobsAssumption, FS_Subset
  <2>6. Cardinality(Handing) + Cardinality(Rest) <= Cardinality(Jobs)
    BY <2>3, <2>4, <2>5
  <2> QED  BY <2>6 DEF Rest
<1>9. /\ Cardinality(Handing) \in Nat
      /\ Cardinality(Waiting \ Handing) \in Nat
      /\ Cardinality(Jobs) \in Nat
      /\ Cardinality(Alive) \in Nat
  BY JobsAssumption, WorkersAssumption, FS_Subset, FS_CardinalityType DEF Alive
<1> QED  BY <1>2, <1>7, <1>8, <1>9, CpuCount

(* When nobody can go on, a download that has begun has filled the queue,  *)
(* or waits in it.                                                         *)
LEMMA StandstillFillsQueue ==
  ASSUME TypeOK, PlaceInv, LockHeld, ~CanGoOn, NEW j \in Jobs, ~Gone(j)
  PROVE  queue # <<>>
<1> USE TaskTypes DEF TypeOK
<1>1. QueueFull => queue # <<>>
  BY CpuCount DEF QueueFull, CORE_POOL_SIZE, PoolTypeOK
<1>2. \A t \in Tasks : InPool(t) => queue # <<>> \/ OnWorker(t)
  BY DEF InPool, Queued
<1>3. CASE http[j] # "idle"
  <2>1. http[j] \in {"checked", "blocked"}
    BY <1>3 DEF CanGoOn
  <2>2. PICK k \in Jobs : http[k] = "blocked"
    <3>1. CASE http[j] = "blocked"
      BY <3>1
    <3>2. CASE http[j] = "checked"
      <4>1. locker \in Jobs
        BY <3>2 DEF CanGoOn
      <4>2. http[locker] \in {"locked", "blocked"}
        BY <4>1 DEF LockHeld
      <4>3. http[locker] # "locked"
        BY <4>1 DEF CanGoOn
      <4> QED  BY <4>1, <4>2, <4>3
    <3> QED  BY <2>1, <3>1, <3>2
  <2> QED  BY <1>1, <2>2 DEF CanGoOn
<1>4. CASE client[j] # "none"
  <2>1. client[j] \in {"submitted", "handing"}
    BY <1>4 DEF CanGoOn, ClientStates
  <2>2. CASE client[j] = "handing"
    BY <1>1, <2>2 DEF CanGoOn
  <2>3. CASE client[j] = "submitted"
    <3>1. InPool(Client(j)) /\ ~OnWorker(Client(j))
      BY <2>3 DEF CanGoOn, PlaceInv, TasksPlacedOnce, ClientPlaced
    <3> QED  BY <1>2, <3>1
  <2> QED  BY <2>1, <2>2, <2>3
<1>5. CASE InPool(Stream(j))
  BY <1>2, <1>5 DEF CanGoOn
<1>6. ~alive[j]
  BY DEF CanGoOn
<1> QED  BY <1>3, <1>4, <1>5, <1>6 DEF Gone

(* Every thread there is then waits in put.                                *)
LEMMA StandstillIsStuck ==
  ASSUME TypeOK, PlaceInv, ThreadsInv, ~CanGoOn, queue # <<>>
  PROVE  PoolStuck
<1> USE TaskTypes DEF TypeOK
<1>1. ASSUME NEW w \in Alive
      PROVE  \E j \in Jobs : worker[w] = Client(j) /\ client[j] = "handing"
  <2>1. w \in Workers /\ worker[w] \in Tasks
    BY DEF Alive, CanGoOn, PoolTypeOK
  <2>2. PICK j \in Jobs : worker[w] = Client(j) \/ worker[w] = Stream(j)
    BY <2>1 DEF Tasks, Client, Stream
  <2>3. worker[w] = Client(j)
    BY <2>1, <2>2 DEF CanGoOn, OnWorker
  <2>4. OnWorker(Client(j)) /\ client[j] # "none"
    BY <2>1, <2>3 DEF OnWorker, PlaceInv, TasksPlacedOnce, ClientPlaced, InPool
  <2>5. client[j] = "handing"
    BY <2>4 DEF CanGoOn, ClientStates
  <2> QED  BY <2>3, <2>5
<1>2. PICK w \in Alive : TRUE
  <2>1. Cardinality(Alive) >= 2
    BY DEF ThreadsInv, CoreStarted, CorePoolSize
  <2>2. Alive = {} => Cardinality(Alive) = Cardinality({})
    BY Zenon
  <2>3. Alive # {}
    BY <2>1, <2>2, FS_EmptySet
  <2> QED  BY <2>3
<1>3. QueueFull
  BY <1>1, <1>2 DEF CanGoOn
<1> QED  BY <1>1, <1>3 DEF PoolStuck

(* ThreadPoolExecutor starts its core threads before it queues anything,   *)
(* and the blocking put (TaskContainer.java:47) does not get around that.  *)
(* And that put is the only way for downloads to come to a stand, for any  *)
(* number of jobs and of processors: somebody else can always go on, as    *)
(* long as there are fewer jobs than threads and places of the queue.  The *)
(* run with as many jobs shows that the bound is sharp.                    *)
THEOREM DownloadsAlwaysGoOn == Spec => []DownloadsGoOn
<1>1. TypeOK /\ PlaceInv /\ ThreadsInv /\ LockHeld => DownloadsGoOn
  <2> SUFFICES ASSUME TypeOK, PlaceInv, ThreadsInv, LockHeld PROVE DownloadsGoOn
    OBVIOUS
  <2>1. queue # <<>> => Cardinality(Alive) >= CorePoolSize
    BY DEF ThreadsInv, CoreStarted
  <2>2. ASSUME ~CanGoOn, NEW j \in Jobs, ~Gone(j)
        PROVE  PoolStuck /\ Cardinality(Jobs) >= Cardinality(Alive) + CPU_COUNT
    <3>1. PoolStuck
      BY <2>2, StandstillFillsQueue, StandstillIsStuck
    <3> QED  BY <3>1, StuckNeedsJobs
  <2> QED  BY <2>1, <2>2 DEF DownloadsGoOn
<1> QED  BY <1>1, PlaceInvariant, ThreadsInvariant, LockIsHeld, TypeCorrect, PTL

-----------------------------------------------------------------------------
(***************************************************************************)
(* The flag is not left behind                                             *)
(***************************************************************************)

(* However many downloads overlap and remove each other's key: only a      *)
(* failure to start maven, a failure of redis or a restart leaves the key  *)
(* behind with nobody to remove it.                                        *)
THEOREM FlagIsNotAbandoned == Spec => FlagNotAbandoned
<1>1. TypeOK /\ PlaceInv /\ [Next]_vars => [Stray' => Stray \/ LeavesFlag]_vars
  <2> SUFFICES ASSUME TypeOK, PlaceInv, [Next]_vars, Stray', ~LeavesFlag PROVE Stray
    OBVIOUS
  <2> USE DEF Stray, Downloading, TypeOK
  <2>1. ASSUME NEW j \in Jobs, HttpThread(j) PROVE Stray
    <3>1. flag' = flag
      BY <2>1 DEF HttpThread, Invoke, RejectPom, Lock, PrepareFails, Submit, SubmitBlocks,
                  SubmitUnblocks, Accepted
    <3>2. CASE client' = client
      BY <3>1, <3>2
    <3>3. CASE Submit(j) \/ SubmitUnblocks(j)
      <4>1. client' = [client EXCEPT ![j] = "submitted"] /\ http[j] # "idle"
        BY <3>3 DEF Submit, SubmitUnblocks, Accepted
      <4>2. ~Downloading(j)
        BY <4>1 DEF PlaceInv
      <4> QED  BY <3>1, <4>1, <4>2
    <3> QED  BY <2>1, <3>2, <3>3 DEF HttpThread, Invoke, RejectPom, Lock, PrepareFails, SubmitBlocks
  <2>2. ASSUME NEW j \in Jobs, Task(j) PROVE Stray
    <3>1. CASE putFlag(j)
      BY <3>1 DEF putFlag
    <3>2. CASE StartProcess(j)
      BY <3>2 DEF StartProcess
    <3>3. CASE StartProcessBlocks(j)
      BY <3>3 DEF StartProcessBlocks
    <3>4. CASE StartProcessUnblocks(j)
      BY <3>4 DEF StartProcessUnblocks
    <3>5. CASE StopWaiting(j)
      <4>1. ~Has("redis")
        BY <3>5 DEF LeavesFlag
      <4> QED  BY <3>5, <4>1 DEF StopWaiting
    <3>6. CASE StreamEnds(j)
      BY <3>6 DEF StreamEnds
    <3>7. ~ExecFails(j)
      BY DEF LeavesFlag
    <3> QED  BY <2>2, <3>1, <3>2, <3>3, <3>4, <3>5, <3>6, <3>7 DEF Task
  <2>3. CASE \/ \E j \in Jobs : ProcessExits(j)
             \/ \E w \in Workers : RunNext(w) \/ ShrinkPool(w)
             \/ FlagExpires
             \/ UNCHANGED vars
    BY <2>3 DEF ProcessExits, RunNext, ShrinkPool, FlagExpires, vars
  <2>4. ~Restart
    BY DEF LeavesFlag
  <2> QED  BY <2>1, <2>2, <2>3, <2>4 DEF Next
<1> QED  BY <1>1, TypeCorrect, PlaceInvariant, PTL DEF Spec, FlagNotAbandoned
=============================================================================
