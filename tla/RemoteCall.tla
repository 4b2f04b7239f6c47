---------------------------- MODULE RemoteCall -----------------------------
(***************************************************************************)
(* What ConnectServiceImpl.send promises of one remote call, without the   *)
(* connection, the netty threads and the table of futures behind it: the   *)
(* provider answers a request at most once, and only a result arrives, at  *)
(* any time or never; the caller is told once how the call went: SUCCESS   *)
(* of a call whose result has arrived, and a failure of one whose result   *)
(* has not, whatever the provider did or is still going to do.  There is   *)
(* one result that arrives and is a failure all the same: a value that     *)
(* fastjson cannot print.                                                  *)
(***************************************************************************)
CONSTANTS
  Calls      \* the requests, by their id

VARIABLES
  outcome,   \* what the caller has been told: "open", "SUCCESS" or "failure"
  executed,  \* the provider's answer, "none" before there is one
  arrived    \* has its result come to where the caller looks for it

callVars == <<outcome, executed, arrived>>

(* A result is a value that can be printed as JSON or one that cannot, or  *)
(* the exception of the service's method; the rest are the statuses of a   *)
(* Response that carries none.                                             *)
Results == {"value", "unprintable", "exception"}
Answers == Results \union {"SERVER_TIMEOUT", "SERVICE_ERROR"}

Init == /\ outcome = [c \in Calls |-> "open"]
        /\ executed = [c \in Calls |-> "none"]
        /\ arrived = [c \in Calls |-> FALSE]

Execute(c) == /\ executed[c] = "none"
              /\ \E a \in Answers : executed' = [executed EXCEPT ![c] = a]
              /\ UNCHANGED <<outcome, arrived>>

(* Early, in time, or when the caller has been told of a failure already.  *)
Arrive(c) == /\ executed[c] \in Results
             /\ arrived' = [arrived EXCEPT ![c] = TRUE]
             /\ UNCHANGED <<outcome, executed>>

Succeed(c) == /\ outcome[c] = "open"
              /\ arrived[c] /\ executed[c] # "unprintable"
              /\ outcome' = [outcome EXCEPT ![c] = "SUCCESS"]
              /\ UNCHANGED <<executed, arrived>>

Fail(c) == /\ outcome[c] = "open"
           /\ ~arrived[c] \/ executed[c] = "unprintable"
           /\ outcome' = [outcome EXCEPT ![c] = "failure"]
           /\ UNCHANGED <<executed, arrived>>

Next == \E c \in Calls : Execute(c) \/ Arrive(c) \/ Succeed(c) \/ Fail(c)

Spec == Init /\ [][Next]_callVars
=============================================================================
