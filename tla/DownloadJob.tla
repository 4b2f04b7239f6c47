---------------------------- MODULE DownloadJob ----------------------------
(***************************************************************************)
(* The jar download: PomServiceImpl.invoke (both overloads) on the HTTP    *)
(* threads, ProcessClient.run and StreamHandler.run on the task pool, the  *)
(* maven process they start, and the running flag in redis that is meant   *)
(* to keep a second download out.                                          *)
(*                                                                         *)
(* A job is one PomDTO: one request, the ProcessClient it submits, the     *)
(* maven process and the StreamHandler that reads it.  A job's identity is *)
(* used again once nothing of it is left, so Jobs bounds how many are      *)
(* going on at a time and not how many there ever are.  A request that     *)
(* finds the flag set is answered with an error and changes nothing, which *)
(* is a stuttering step.                                                   *)
(***************************************************************************)
EXTENDS TaskContainer

CONSTANTS
  Jobs,      \* the jobs that may exist at the same time
  Faults     \* what may go wrong in this model: a subset of FaultKinds

FaultKinds ==
  {"pom",       \* parsePom or checkModels rejects the request
   "prepare",   \* deleteJars or appendPom throws under the lock
   "exec",      \* Runtime.exec throws IOException
   "slow",      \* maven outlives the 20 minutes of waitFor
   "redis",     \* a redis call fails
   "restart"}   \* the tool is stopped and started again

ASSUME JobsAssumption == IsFiniteSet(Jobs) /\ None \notin Jobs
ASSUME FaultsAssumption == Faults \subseteq FaultKinds

VARIABLES
  http,      \* where the HTTP thread of each request is
  locker,    \* PomServiceImpl.locker: the job whose thread holds it, or None
  client,    \* where ProcessClient.run of each job is
  alive,     \* is the job's maven process running
  flag,      \* does the key DUBBO_DOWNLOAD_JAR_TASK exist
  fresh,     \* the jobs whose putFlag wrote the key so short a time ago
             \* that its hour cannot be over
  overtaken  \* history: since the start, has a request been let in while
             \* another was on its way, or redis failed to keep one out

vars == <<http, locker, client, alive, flag, fresh, overtaken, worker, queue>>

Client(j) == [kind |-> "client", job |-> j]     \* the ProcessClient
Stream(j) == [kind |-> "stream", job |-> j]     \* the StreamHandler

Has(fault) == fault \in Faults

Init == /\ http = [j \in Jobs |-> "idle"]
        /\ locker = None
        /\ client = [j \in Jobs |-> "none"]
        /\ alive = [j \in Jobs |-> FALSE]
        /\ flag \in BOOLEAN                    \* redis outlives the tool
        /\ fresh = {}
        /\ overtaken = FALSE
        /\ PoolInit

(* Nothing of the job is left.                                             *)
Gone(j) == /\ http[j] = "idle"
           /\ client[j] = "none"
           /\ ~alive[j]
           /\ ~InPool(Stream(j))

(* Between the look at the flag and the putFlag that the look allowed.     *)
InWindow(j) == http[j] # "idle" \/ client[j] = "submitted"

(* Mutant of Invoke: isRunning is not asked.                               *)
InvokeUnchecked(j) ==
  /\ Gone(j)
  /\ overtaken' = (overtaken \/ \E k \in Jobs : InWindow(k))
  /\ http' = [http EXCEPT ![j] = "checked"]
  /\ UNCHANGED <<locker, client, alive, flag, fresh, worker, queue>>

(* invoke: isRunning() finds no key.  hasKey answers false when redis      *)
(* cannot be asked.                                                        *)
Invoke(j) == /\ Gone(j)
             /\ \/ /\ ~flag
                   /\ overtaken' = (overtaken \/ \E k \in Jobs : InWindow(k))
                \/ /\ flag
                   /\ Has("redis")
                   /\ overtaken' = TRUE
             /\ http' = [http EXCEPT ![j] = "checked"]
             /\ UNCHANGED <<locker, client, alive, flag, fresh, worker, queue>>

(* parsePom and checkModels throw before the lock is asked for.            *)
RejectPom(j) == /\ Has("pom")
                /\ http[j] = "checked"
                /\ http' = [http EXCEPT ![j] = "idle"]
                /\ UNCHANGED <<locker, client, alive, flag, fresh, overtaken, worker, queue>>

Lock(j) == /\ http[j] = "checked"
           /\ locker = None
           /\ locker' = j
           /\ http' = [http EXCEPT ![j] = "locked"]
           /\ UNCHANGED <<client, alive, flag, fresh, overtaken, worker, queue>>

(* Mutant of PrepareFails: unlock is not in a finally block.               *)
PrepareFailsLocked(j) ==
  /\ Has("prepare")
  /\ http[j] = "locked"
  /\ http' = [http EXCEPT ![j] = "idle"]
  /\ UNCHANGED <<locker, client, alive, flag, fresh, overtaken, worker, queue>>

(* deleteJars or appendPom throws: finally unlocks, the task is not        *)
(* submitted.                                                              *)
PrepareFails(j) == /\ Has("prepare")
                   /\ http[j] = "locked"
                   /\ http' = [http EXCEPT ![j] = "idle"]
                   /\ locker' = None
                   /\ UNCHANGED <<client, alive, flag, fresh, overtaken, worker, queue>>

Accepted(j) == /\ http' = [http EXCEPT ![j] = "idle"]
               /\ locker' = None
               /\ client' = [client EXCEPT ![j] = "submitted"]
               /\ UNCHANGED <<alive, flag, fresh, overtaken>>

(* execute(processClient) returns, finally unlocks.                        *)
Submit(j) == /\ http[j] = "locked"
             /\ execute(Client(j))
             /\ Accepted(j)

(* execute rejects the task: the HTTP thread waits in put, with the lock.  *)
SubmitBlocks(j) == /\ http[j] = "locked"
                   /\ Rejected
                   /\ http' = [http EXCEPT ![j] = "blocked"]
                   /\ UNCHANGED <<locker, client, alive, flag, fresh, overtaken, worker, queue>>

SubmitUnblocks(j) == /\ http[j] = "blocked"
                     /\ put(Client(j))
                     /\ Accepted(j)

(* A worker takes the next task from the queue.                            *)
RunNext(w) == /\ TakeTask(w)
              /\ UNCHANGED <<http, locker, client, alive, flag, fresh, overtaken>>

ShrinkPool(w) == /\ KeepAliveEnds(w)
                 /\ UNCHANGED <<http, locker, client, alive, flag, fresh, overtaken>>

(* ProcessClient.putFlag.  DubboRedisResolver.set swallows its exceptions. *)
putFlag(j) == /\ client[j] = "submitted"
              /\ OnWorker(Client(j))
              /\ client' = [client EXCEPT ![j] = "flagged"]
              /\ \/ /\ flag' = TRUE
                    /\ fresh' = fresh \union {j}
                    /\ UNCHANGED overtaken
                 \/ /\ Has("redis")
                    /\ overtaken' = TRUE
                    /\ UNCHANGED <<flag, fresh>>
              /\ UNCHANGED <<http, locker, alive, worker, queue>>

(* Runtime.exec throws: run() returns at once, and leaves the key behind.  *)
ExecFails(j) == /\ Has("exec")
                /\ client[j] = "flagged"
                /\ client' = [client EXCEPT ![j] = "none"]
                /\ FreeWorker(Client(j))
                /\ fresh' = fresh \ {j}
                /\ UNCHANGED <<http, locker, alive, flag, overtaken, queue>>

(* exec succeeds and the StreamHandler is handed to the same pool.         *)
StartProcess(j) == /\ client[j] = "flagged"
                   /\ alive' = [alive EXCEPT ![j] = TRUE]
                   /\ execute(Stream(j))
                   /\ client' = [client EXCEPT ![j] = "waiting"]
                   /\ UNCHANGED <<http, locker, flag, fresh, overtaken>>

(* As StartProcess, but the pool is full: the worker itself waits in put,  *)
(* for a time nothing bounds.                                              *)
StartProcessBlocks(j) == /\ client[j] = "flagged"
                         /\ Rejected
                         /\ alive' = [alive EXCEPT ![j] = TRUE]
                         /\ client' = [client EXCEPT ![j] = "handing"]
                         /\ fresh' = fresh \ {j}
                         /\ UNCHANGED <<http, locker, flag, overtaken, worker, queue>>

StartProcessUnblocks(j) == /\ client[j] = "handing"
                           /\ put(Stream(j))
                           /\ client' = [client EXCEPT ![j] = "waiting"]
                           /\ UNCHANGED <<http, locker, alive, flag, fresh, overtaken>>

(* The maven process exits (external).                                     *)
ProcessExits(j) == /\ alive[j]
                   /\ alive' = [alive EXCEPT ![j] = FALSE]
                   /\ UNCHANGED <<http, locker, client, flag, fresh, overtaken, worker, queue>>

(* Mutant of StopWaiting: run() returns at a timeout without removeFlag.   *)
StopWaitingFlagged(j) ==
  /\ client[j] = "waiting"
  /\ ~alive[j] \/ Has("slow")
  /\ client' = [client EXCEPT ![j] = "none"]
  /\ FreeWorker(Client(j))
  /\ fresh' = fresh \ {j}
  /\ flag' = (flag /\ alive[j])
  /\ UNCHANGED <<http, locker, alive, overtaken, queue>>

(* waitFor returns: maven is done, or 20 minutes are over and maven is     *)
(* left running.  removeFlag deletes the key whoever wrote it; del does    *)
(* not swallow its exceptions, so a failure ends the thread.               *)
StopWaiting(j) == /\ client[j] = "waiting"
                  /\ ~alive[j] \/ Has("slow")
                  /\ client' = [client EXCEPT ![j] = "none"]
                  /\ FreeWorker(Client(j))
                  /\ fresh' = fresh \ {j}
                  /\ \/ flag' = FALSE
                     \/ Has("redis") /\ UNCHANGED flag
                  /\ UNCHANGED <<http, locker, alive, overtaken, queue>>

(* StreamHandler.run reads until both ends of the process are closed.      *)
StreamEnds(j) == /\ OnWorker(Stream(j))
                 /\ ~alive[j]
                 /\ FreeWorker(Stream(j))
                 /\ UNCHANGED <<http, locker, client, alive, flag, fresh, overtaken, queue>>

(* Mutant of FlagExpires: putFlag sets the key without a time.             *)
FlagStays == FALSE

(* The key's hour is over.  exec and the wait take at most 20 minutes, so  *)
(* this does not happen while a job that wrote the key is still at them.   *)
FlagExpires == /\ flag
               /\ fresh = {}
               /\ flag' = FALSE
               /\ UNCHANGED <<http, locker, client, alive, fresh, overtaken, worker, queue>>

(* The tool stops and starts: the lock, the pool and every thread are      *)
(* gone, the key and the maven processes are not.                          *)
Restart == /\ Has("restart")
           /\ http' = [j \in Jobs |-> "idle"]
           /\ locker' = None
           /\ client' = [j \in Jobs |-> "none"]
           /\ worker' = [w \in Workers |-> Absent]
           /\ queue' = <<>>
           /\ fresh' = {}
           /\ overtaken' = FALSE
           /\ UNCHANGED <<alive, flag>>

HttpThread(j) == \/ Invoke(j)       \/ RejectPom(j)
                 \/ Lock(j)         \/ PrepareFails(j)
                 \/ Submit(j)       \/ SubmitBlocks(j)
                 \/ SubmitUnblocks(j)

Task(j) == \/ putFlag(j)            \/ ExecFails(j)
           \/ StartProcess(j)       \/ StartProcessBlocks(j)
           \/ StartProcessUnblocks(j)
           \/ StopWaiting(j)        \/ StreamEnds(j)

Next == \/ \E j \in Jobs : HttpThread(j) \/ Task(j) \/ ProcessExits(j)
        \/ \E w \in Workers : RunNext(w) \/ ShrinkPool(w)
        \/ FlagExpires
        \/ Restart

Spec == Init /\ [][Next]_vars

(***************************************************************************)
(* What the scheduler, the pool and the clocks owe.  A thread that can go  *)
(* on does, and a waiter of the lock or of the queue is not passed over    *)
(* for ever (strong fairness: what it waits for comes and goes); an idle   *)
(* worker takes a task; a key's hour passes; and maven ends, though it may *)
(* take longer than the 20 minutes.  Nobody owes a request, a fault or a   *)
(* restart.                                                                *)
(***************************************************************************)
HttpGoesOn(j) == Lock(j) \/ Submit(j) \/ SubmitBlocks(j) \/ SubmitUnblocks(j)

ClientGoesOn(j) == \/ putFlag(j)
                   \/ StartProcess(j)
                   \/ StartProcessBlocks(j)
                   \/ StartProcessUnblocks(j)
                   \/ StopWaiting(j)

Fairness ==
  /\ \A j \in Jobs : /\ SF_vars(HttpGoesOn(j))
                     /\ SF_vars(ClientGoesOn(j))
                     /\ WF_vars(StreamEnds(j))
                     /\ WF_vars(ProcessExits(j))
  /\ WF_vars(\E w \in Workers : RunNext(w))
  /\ WF_vars(FlagExpires)

FairSpec == Spec /\ Fairness

-----------------------------------------------------------------------------
(***************************************************************************)
(* Properties                                                              *)
(***************************************************************************)
ClientStates == {"none", "submitted", "flagged", "handing", "waiting"}
Tasks == [kind : {"client", "stream"}, job : Jobs]

PoolTypeOK == /\ worker \in [Workers -> Tasks \union {Absent, Idle}]
              /\ queue \in Seq(Tasks)
              /\ Len(queue) <= CORE_POOL_SIZE

(* The state has its type; the queue never holds more than its capacity,   *)
(* put and offer included (TaskContainer).                                 *)
TypeOK == /\ http \in [Jobs -> {"idle", "checked", "locked", "blocked"}]
          /\ locker \in Jobs \union {None}
          /\ client \in [Jobs -> ClientStates]
          /\ alive \in [Jobs -> BOOLEAN]
          /\ flag \in BOOLEAN
          /\ fresh \in SUBSET Jobs
          /\ overtaken \in BOOLEAN
          /\ PoolTypeOK

(* No task is lost or run twice on its way through execute, the blocking   *)
(* put and the workers: a task is in one place at most, and a job's        *)
(* ProcessClient is in the pool exactly while its run() is not over, on a  *)
(* worker from putFlag on.                                                 *)
OnePlace ==
  /\ \A w1, w2 \in Workers :
       worker[w1] \in Tasks /\ worker[w1] = worker[w2] => w1 = w2
  /\ \A i1, i2 \in DOMAIN queue : queue[i1] = queue[i2] => i1 = i2
  /\ \A w \in Workers, i \in DOMAIN queue : worker[w] # queue[i]

ClientPlaced ==
  \A j \in Jobs :
    /\ client[j] # "none" <=> InPool(Client(j))
    /\ client[j] \in {"flagged", "handing", "waiting"} => OnWorker(Client(j))

TasksPlacedOnce == OnePlace /\ ClientPlaced

(* The lock is held by exactly the request that is between lock() and the  *)
(* unlock of its finally block, whichever way it leaves: the lock does not *)
(* stay behind when a step under it throws, nor do two requests edit the   *)
(* pom and the jars at once.                                               *)
LockHeld == \A j \in Jobs : locker = j <=> http[j] \in {"locked", "blocked"}

(* The pool keeps the promise of Executor to the two kinds of tasks that   *)
(* go through it, be they handed over by a request, by the thread of       *)
(* another task, or late, by a put that waited: each is run once, none is  *)
(* dropped but by a restart, and none overtakes those in the queue while   *)
(* the queue has a place.                                                  *)
Pool == INSTANCE Executor WITH
  Tasks   <- Tasks,
  Threads <- MAXIMUM_POOL_SIZE,
  Places  <- CORE_POOL_SIZE,
  Stops   <- Has("restart"),
  waiting <- queue,
  running <- {worker[w] : w \in Workers} \cap Tasks

ServesTasks == Pool!Spec

(* Somebody can go on who owes it (Fairness), or an idle thread or a maven *)
(* can.  A client that waits does, whether or not its maven has ended.     *)
CanGoOn ==
  \/ \E j \in Jobs :
       \/ http[j] = "checked" /\ locker = None
       \/ http[j] = "locked"
       \/ http[j] = "blocked" /\ ~QueueFull
       \/ client[j] = "submitted" /\ OnWorker(Client(j))
       \/ client[j] \in {"flagged", "waiting"}
       \/ client[j] = "handing" /\ ~QueueFull
       \/ alive[j] \/ OnWorker(Stream(j))
  \/ queue # <<>> /\ \E w \in Workers : worker[w] = Idle

(* Every thread there is waits in put for a place that only they could     *)
(* make.                                                                   *)
PoolStuck == /\ QueueFull
             /\ \A w \in Alive : \E j \in Jobs :
                   worker[w] = Client(j) /\ client[j] = "handing"

(* A task in the queue is never without a thread: the core threads exist,  *)
(* so that none has to be started for it.  And downloads that have begun   *)
(* only come to a stand in one way, whatever goes wrong: between the lock, *)
(* the requests and tasks that wait in put, and the maven processes there  *)
(* is no other circle than PoolStuck, and that takes one job for each      *)
(* thread and one for each place of the queue.                             *)
DownloadsGoOn ==
  /\ queue # <<>> => Cardinality(Alive) >= CorePoolSize
  /\ \/ \A j \in Jobs : Gone(j)
     \/ CanGoOn
     \/ PoolStuck /\ Cardinality(Jobs) >= Cardinality(Alive) + CPU_COUNT

Downloading(j) == client[j] \in {"flagged", "handing", "waiting"}

(* "just can only invoke one task to downloaded the jars"                  *)
(* (PomServiceImpl.java:73): one ProcessClient at a time between its       *)
(* putFlag and its removeFlag.                                             *)
OneTask == \A j, k \in Jobs : Downloading(j) /\ Downloading(k) => j = k

(* The same for users who take turns: until a request is let in between    *)
(* another's look at the flag and its task's putFlag, or redis fails to    *)
(* hold or to show the flag, the flag keeps a second ProcessClient out,    *)
(* whatever else goes wrong and however late maven ends.                   *)
OneTaskInTurn == ~overtaken => OneTask

(* The flag is set, and no ProcessClient is going to remove it.            *)
Stray == flag /\ \A j \in Jobs : ~Downloading(j)

(* The steps that may leave the flag behind: a failure to start maven, a   *)
(* failure of redis to delete the key, a restart.                          *)
LeavesFlag == \/ \E j \in Jobs : ExecFails(j) \/ (Has("redis") /\ StopWaiting(j))
              \/ Restart

(* No other step does: with several downloads going on, each of which      *)
(* removes the key of all, the last one to end leaves none.                *)
FlagNotAbandoned == [][Stray' => Stray \/ LeavesFlag]_vars

(* Whatever goes wrong, a user who is told "please try again for a few     *)
(* minutes later" is accepted some day: the flag does not stay for ever.   *)
FlagRecedes == []<>~flag

(* Every accepted download comes to its end: the request is answered, its  *)
(* task run, its process reaped and its output read to the end.            *)
EveryJobEnds == \A j \in Jobs : []<>Gone(j)

(* An accepted task, of which the user is told that it "is running at      *)
(* background" (PomServiceImpl.java:98), is run to its end.                *)
AcceptedEnds == \A j \in Jobs : client[j] # "none" ~> client[j] = "none"
=============================================================================
