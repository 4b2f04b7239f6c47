--------------------------- MODULE TaskContainer ---------------------------
(***************************************************************************)
(* context/TaskContainer.java: the one thread pool of the tool, a          *)
(* java.util.concurrent.ThreadPoolExecutor(2, CPU_COUNT, 1 hour,           *)
(* ArrayBlockingQueue(CPU_COUNT)) whose rejection handler puts the task    *)
(* into the full queue with a blocking `put` on the submitting thread.     *)
(*                                                                         *)
(* This module holds the pool's state and its operations; the modules that *)
(* submit tasks extend it.  A task is a record [kind, job].                *)
(***************************************************************************)
EXTENDS Naturals, Sequences, FiniteSets

CONSTANTS
  Workers,   \* the worker slots: one per thread the pool may create
  None       \* the job of a slot that holds no task

VARIABLES
  worker,    \* what each slot holds: absent, idle, or the task it runs
  queue      \* the ArrayBlockingQueue

poolVars == <<worker, queue>>

CPU_COUNT == Cardinality(Workers)
CorePoolSize == 2
MAXIMUM_POOL_SIZE == CPU_COUNT

(* Mutant of CORE_POOL_SIZE: a queue of one place.                         *)
OnePlaceQueue == 1

CORE_POOL_SIZE == CPU_COUNT          \* the name notwithstanding: the queue's capacity

(* `new ThreadPoolExecutor(2, 1, ...)` throws IllegalArgumentException: on *)
(* a host of one processor the class does not initialise.                  *)
ASSUME WorkersAssumption == /\ IsFiniteSet(Workers)
                            /\ CPU_COUNT >= CorePoolSize

Absent == [kind |-> "absent", job |-> None]
Idle   == [kind |-> "idle",   job |-> None]

PoolInit == /\ worker = [w \in Workers |-> Absent]
            /\ queue = <<>>

Alive == {w \in Workers : worker[w] # Absent}
QueueFull == Len(queue) >= CORE_POOL_SIZE
OnWorker(t) == \E w \in Workers : worker[w] = t
Queued(t) == \E i \in DOMAIN queue : queue[i] = t
InPool(t) == Queued(t) \/ OnWorker(t)

(* Neither a thread nor a place in the queue is left: the handler runs.    *)
Rejected == /\ QueueFull
            /\ Alive = Workers

(* The order in which ThreadPoolExecutor.execute tries: a new core thread, *)
(* the queue, a thread above the core size.                                *)
StartsThread == \/ Cardinality(Alive) < CorePoolSize
                \/ QueueFull /\ Alive # Workers

execute(t) ==
  \/ /\ StartsThread
     /\ \E w \in Workers \ Alive : worker' = [worker EXCEPT ![w] = t]
     /\ UNCHANGED queue
  \/ /\ ~StartsThread
     /\ ~QueueFull
     /\ queue' = Append(queue, t)
     /\ UNCHANGED worker

(* Mutant of put: the handler adds to a full queue.                        *)
UnboundedPut(t) == /\ queue' = Append(queue, t)
                   /\ UNCHANGED worker

(* The rejected task enters the queue once a place is free.                *)
put(t) == /\ ~QueueFull
          /\ queue' = Append(queue, t)
          /\ UNCHANGED worker

(* A task's run() returns, or throws: then the pool replaces the thread.   *)
FreeWorker(t) == worker' = [w \in Workers |-> IF worker[w] = t THEN Idle ELSE worker[w]]

(* Mutant of TakeTask: the worker peeks, and the task stays in the queue.  *)
PeekTask(w) == /\ worker[w] = Idle
               /\ queue # <<>>
               /\ worker' = [worker EXCEPT ![w] = Head(queue)]
               /\ UNCHANGED queue

TakeTask(w) == /\ worker[w] = Idle
               /\ queue # <<>>
               /\ worker' = [worker EXCEPT ![w] = Head(queue)]
               /\ queue' = Tail(queue)

(* A thread above the core size ends after an idle hour.                   *)
KeepAliveEnds(w) == /\ worker[w] = Idle
                    /\ queue = <<>>
                    /\ Cardinality(Alive) > CorePoolSize
                    /\ worker' = [worker EXCEPT ![w] = Absent]
                    /\ UNCHANGED queue

=============================================================================
