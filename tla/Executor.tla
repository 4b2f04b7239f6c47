------------------------------ MODULE Executor ------------------------------
(***************************************************************************)
(* What TaskContainer promises to whoever hands it a task, without the     *)
(* threads, when they are started and end, and the put that blocks: a task *)
(* is run once; those that have to wait are begun in the order in which    *)
(* they came; no more than Places wait and no more than Threads run; and a *)
(* task only overtakes others when no place to wait is left.               *)
(***************************************************************************)
EXTENDS Naturals, Sequences, FiniteSets

CONSTANTS
  Tasks,     \* the tasks; one may be handed over again when it has ended
  Threads,   \* how many may run at the same time
  Places,    \* how many may wait
  Stops      \* may the tool be stopped

VARIABLES
  waiting,   \* the tasks that wait, in the order in which they came
  running    \* the tasks that run

taskVars == <<waiting, running>>

Init == /\ waiting = <<>>
        /\ running = {}

Held(t) == t \in running \/ \E i \in DOMAIN waiting : waiting[i] = t

(* A task is handed over, and waits.                                       *)
Enqueue(t) == /\ ~Held(t)
              /\ Len(waiting) < Places
              /\ waiting' = Append(waiting, t)
              /\ UNCHANGED running

(* Or it runs at once.                                                     *)
StartAtOnce(t) == /\ ~Held(t)
                  /\ waiting = <<>> \/ Len(waiting) = Places
                  /\ Cardinality(running) < Threads
                  /\ running' = running \union {t}
                  /\ UNCHANGED waiting

Begin == /\ waiting # <<>>
         /\ Head(waiting) \notin running
         /\ Cardinality(running) < Threads
         /\ running' = running \union {Head(waiting)}
         /\ waiting' = Tail(waiting)

End(t) == /\ t \in running
          /\ running' = running \ {t}
          /\ UNCHANGED waiting

(* The tool stops, and its tasks with it.                                  *)
Stop == /\ Stops
        /\ waiting' = <<>>
        /\ running' = {}

Next == \/ \E t \in Tasks : Enqueue(t) \/ StartAtOnce(t) \/ End(t)
        \/ Begin
        \/ Stop

Spec == Init /\ [][Next]_taskVars
=============================================================================
