------------------------- MODULE RpcExchange_proofs ------------------------
(***************************************************************************)
(* Theorems about RpcExchange, for any number of calls.                    *)
(***************************************************************************)
EXTENDS RpcExchange, TLAPS

-----------------------------------------------------------------------------
(* A step of the HTTP thread keeps the type.                               *)
LEMMA HttpThreadType ==
  ASSUME TypeOK, NEW c \in Calls, HttpThread(c)
  PROVE  TypeOK'
<1> USE DEF TypeOK, Goto, CallerStates
<1>1. CASE NotConnected(c)
  BY <1>1 DEF NotConnected
<1>2. CASE doConnect(c)
  BY <1>2 DEF doConnect
<1>3. CASE TakeChannel(c)
  BY <1>3 DEF TakeChannel, getOrAddChannel
<1>4. CASE Write(c)
  BY <1>4 DEF Write, getOrAddChannel, removeChannelIfDisconnected
<1>5. CASE register(c)
  BY <1>5 DEF register
<1>6. CASE CheckCause(c)
  BY <1>6 DEF CheckCause
<1>7. CASE Return(c)
  BY <1>7 DEF Return, Printed
<1>8. CASE TimeOut(c)
  BY <1>8 DEF TimeOut
<1> QED  BY <1>1, <1>2, <1>3, <1>4, <1>5, <1>6, <1>7, <1>8 DEF HttpThread

(* Every reachable state of the exchange has its type.                     *)
THEOREM TypeCorrect == Spec => []TypeOK
<1>1. Init => TypeOK
  BY DEF Init, TypeOK, CallerStates
<1>2. TypeOK /\ [Next]_vars => TypeOK'
  <2> SUFFICES ASSUME TypeOK, [Next]_vars PROVE TypeOK'
    OBVIOUS
  <2> USE DEF TypeOK
  <2>1. ASSUME NEW c \in Calls, Flush(c) PROVE TypeOK'
    BY <2>1 DEF Flush
  <2>2. ASSUME NEW c \in Calls, received(c) PROVE TypeOK'
    BY <2>2 DEF received, dispatch, getOrAddChannel, removeChannelIfDisconnected
  <2>3. ASSUME NEW c \in Calls, Answer(c) PROVE TypeOK'
    BY <2>3 DEF Answer
  <2>4. ASSUME NEW c \in Calls, Disconnect(c) PROVE TypeOK'
    BY <2>4 DEF Disconnect
  <2>5. CASE UNCHANGED vars
    BY <2>5 DEF vars
  <2> QED  BY <2>1, <2>2, <2>3, <2>4, <2>5, HttpThreadType DEF Next, IoThread, AllEnded
<1> QED  BY <1>1, <1>2, PTL DEF Spec

-----------------------------------------------------------------------------
(* FuturesExplained with what makes it inductive: a request is written     *)
(* before its future is registered, a future is there as long as the call  *)
(* waits for it, and an answer received is an answer given.                *)
FuturesInv ==
  /\ FuturesExplained
  /\ \A c \in Calls :
       /\ caller[c] \in {"written", "registered", "waiting", "returned"} => write[c] # "none"
       /\ caller[c] \in {"idle", "connected", "sending"} => write[c] = "none"
       /\ caller[c] \in {"idle", "connected", "sending", "written"} => futures[c] = "none"
       /\ caller[c] \in {"registered", "waiting"} => futures[c] # "none"
       /\ caller[c] = "returned" => answer[c] \in Results
       /\ reply[c] \in {"flying", "received"} => answer[c] # "none"

(* Every step keeps FuturesInv.                                            *)
LEMMA FuturesStep ==
  ASSUME TypeOK, FuturesInv, [Next]_vars
  PROVE  FuturesInv'
<1> USE DEF TypeOK, FuturesInv, FuturesExplained, Goto, CallerStates
<1>1. ASSUME NEW c \in Calls, HttpThread(c) PROVE FuturesInv'
  <2>1. CASE NotConnected(c)
    BY <2>1 DEF NotConnected
  <2>2. CASE doConnect(c)
    BY <2>2 DEF doConnect
  <2>3. CASE TakeChannel(c)
    BY <2>3 DEF TakeChannel
  <2>4. CASE Write(c)
    BY <2>4 DEF Write
  <2>5. CASE register(c)
    BY <2>5 DEF register
  <2>6. CASE CheckCause(c)
    BY <2>6 DEF CheckCause
  <2>7. CASE Return(c)
    BY <2>7 DEF Return, Printed
  <2>8. CASE TimeOut(c)
    BY <2>8 DEF TimeOut
  <2> QED  BY <1>1, <2>1, <2>2, <2>3, <2>4, <2>5, <2>6, <2>7, <2>8 DEF HttpThread
<1>2. ASSUME NEW c \in Calls, Flush(c) PROVE FuturesInv'
  BY <1>2 DEF Flush
<1>3. ASSUME NEW c \in Calls, received(c) PROVE FuturesInv'
  BY <1>3 DEF received, dispatch
<1>4. ASSUME NEW c \in Calls, Answer(c) PROVE FuturesInv'
  BY <1>4 DEF Answer, Answers, Results
<1>5. ASSUME NEW c \in Calls, Disconnect(c) PROVE FuturesInv'
  BY <1>5 DEF Disconnect
<1>6. CASE UNCHANGED vars
  BY <1>6 DEF vars
<1> QED  BY <1>1, <1>2, <1>3, <1>4, <1>5, <1>6 DEF Next, IoThread, AllEnded

(* FuturesInv holds of every reachable state.                              *)
LEMMA FuturesInvariant == Spec => []FuturesInv
<1>1. Init => FuturesInv
  BY DEF Init, FuturesInv, FuturesExplained
<1>2. TypeOK /\ FuturesInv /\ [Next]_vars => FuturesInv'
  BY FuturesStep
<1> QED  BY <1>1, <1>2, TypeCorrect, PTL DEF Spec

(* ResponseDispatcher.futures: which calls leave an entry behind, and that *)
(* an entry only ever holds the provider's result for its own request.     *)
THEOREM FuturesAreExplained == Spec => []FuturesExplained
<1>1. FuturesInv => FuturesExplained
  BY DEF FuturesInv
<1> QED  BY <1>1, FuturesInvariant, PTL

-----------------------------------------------------------------------------
(* NettyChannel.channelMap never loses the channel of a live connection.   *)
(* A connection is up before the request is written, and does not come     *)
(* back.                                                                   *)
THEOREM LiveChannelsAreCached == Spec => []LiveChannelsCached
<1>1. Init => LiveChannelsCached
  BY DEF Init, LiveChannelsCached
<1>2. TypeOK /\ FuturesInv /\ LiveChannelsCached /\ [Next]_vars => LiveChannelsCached'
  <2> SUFFICES ASSUME TypeOK, FuturesInv, LiveChannelsCached, [Next]_vars
               PROVE  LiveChannelsCached'
    OBVIOUS
  <2> USE DEF TypeOK, LiveChannelsCached
  <2>1. ASSUME NEW c \in Calls, HttpThread(c) PROVE LiveChannelsCached'
    <3>1. CASE UNCHANGED <<connection, write, channelMap>>
      BY <3>1
    <3>2. CASE doConnect(c)
      <4>1. write[c] = "none"
        BY <3>2 DEF doConnect, Goto, FuturesInv
      <4> QED  BY <3>2, <4>1 DEF doConnect
    <3>3. CASE TakeChannel(c)
      BY <3>3 DEF TakeChannel, getOrAddChannel
    <3>4. CASE Write(c)
      BY <3>4 DEF Write, getOrAddChannel, removeChannelIfDisconnected
    <3> QED  BY <2>1, <3>1, <3>2, <3>3, <3>4
             DEF HttpThread, NotConnected, register, CheckCause, Return, TimeOut
  <2>2. ASSUME NEW c \in Calls, IoThread(c) \/ Answer(c) \/ Disconnect(c)
        PROVE  LiveChannelsCached'
    BY <2>2 DEF IoThread, Flush, received, Answer, Disconnect, getOrAddChannel,
                removeChannelIfDisconnected
  <2>3. CASE UNCHANGED vars
    BY <2>3 DEF vars
  <2> QED  BY <2>1, <2>2, <2>3 DEF Next, AllEnded
<1> QED  BY <1>1, <1>2, TypeCorrect, FuturesInvariant, PTL DEF Spec

-----------------------------------------------------------------------------
(***************************************************************************)
(* The exchange implements RemoteCall                                      *)
(***************************************************************************)
Outcome == [c \in Calls |-> CASE caller[c] = "returned" -> "SUCCESS"
                              [] caller[c] = "failed"   -> "failure"
                              [] OTHER                  -> "open"]

Arrived == [c \in Calls |-> futures[c] = "complete" \/ Took(c)]

(* Where the caller's thread goes is all that shows in its outcome.        *)
LEMMA OutcomeAfter ==
  ASSUME TypeOK, NEW c \in Calls, NEW to, caller' = [caller EXCEPT ![c] = to]
  PROVE  Outcome' = [Outcome EXCEPT ![c] = CASE to = "returned" -> "SUCCESS"
                                             [] to = "failed"   -> "failure"
                                             [] OTHER           -> "open"]
  BY DEF Outcome, TypeOK

(* The caller's outcome as RemoteCall has it, from where its thread is.    *)
LEMMA OutcomeNow ==
  ASSUME NEW c \in Calls
  PROVE  ~Ended(c) => Outcome[c] = "open"
  BY DEF Outcome, Ended

(* As long as a call does not take its future from the table, its result   *)
(* has arrived if and only if that future is complete.                     *)
LEMMA ArrivedAfter ==
  ASSUME TypeOK, NEW c \in Calls, ~Took(c), ~Took(c)',
         \A d \in Calls : futures'[d] = "complete" <=> futures[d] = "complete",
         \A d \in Calls : d # c => /\ caller'[d] = caller[d] /\ write'[d] = write[d]
                                  /\ futures'[d] = futures[d]
  PROVE  Arrived' = Arrived
  BY DEF Arrived, Took, Ended

(* A complete future belongs to a request that reached its provider: its   *)
(* write has not failed.  With FuturesInv this keeps CheckCause from       *)
(* reporting a failure of a call whose result is there.                    *)
DeliveredInv ==
  \A c \in Calls : answer[c] # "none" => write[c] = "delivered"

(* DeliveredInv holds of every reachable state: only a request that has    *)
(* come to the provider is answered, and it is written once.               *)
LEMMA DeliveredInvariant == Spec => []DeliveredInv
<1>1. Init => DeliveredInv
  BY DEF Init, DeliveredInv
<1>2. TypeOK /\ FuturesInv /\ DeliveredInv /\ [Next]_vars => DeliveredInv'
  <2> SUFFICES ASSUME TypeOK, FuturesInv, DeliveredInv, [Next]_vars
               PROVE  DeliveredInv'
    OBVIOUS
  <2> USE DEF TypeOK, DeliveredInv
  <2>1. ASSUME NEW c \in Calls, HttpThread(c) PROVE DeliveredInv'
    <3>1. CASE UNCHANGED <<write, answer>>
      BY <3>1
    <3>2. CASE Write(c)
      <4>1. write[c] = "none"
        BY <3>2 DEF Write, Goto, FuturesInv
      <4> QED  BY <3>2, <4>1 DEF Write
    <3> QED  BY <2>1, <3>1, <3>2 DEF HttpThread, NotConnected, doConnect, TakeChannel,
                register, CheckCause, Return, TimeOut
  <2>2. ASSUME NEW c \in Calls, IoThread(c) \/ Answer(c) \/ Disconnect(c)
        PROVE  DeliveredInv'
    BY <2>2 DEF IoThread, Flush, received, Answer, Disconnect
  <2>3. CASE UNCHANGED vars
    BY <2>3 DEF vars
  <2> QED  BY <2>1, <2>2, <2>3 DEF Next, AllEnded
<1> QED  BY <1>1, <1>2, TypeCorrect, FuturesInvariant, PTL DEF Spec

(* Every step of the exchange is a step of RemoteCall or none: what the    *)
(* two threads, the network and the provider do together keeps the promise *)
(* of ConnectServiceImpl.send.                                             *)
THEOREM ExchangeKeepsPromise == Spec => KeepsPromise
<1> USE DEF Promise!Results, Promise!Answers, Results, Answers
<1>1. Init => Promise!Init
  BY DEF Init, Promise!Init, Took, Ended
<1>2. TypeOK /\ FuturesInv /\ DeliveredInv /\ [Next]_vars => [Promise!Next]_(Promise!callVars)
  <2> SUFFICES ASSUME TypeOK, FuturesInv, DeliveredInv, [Next]_vars
               PROVE  [Promise!Next]_(Promise!callVars)
    OBVIOUS
  <2> USE DEF Promise!callVars, Goto
  <2>1. ASSUME NEW c \in Calls, NEW from, NEW to, Goto(c, from, to), UNCHANGED answer,
               {from, to} \cap {"returned", "failed"} = {},
               \A d \in Calls : futures'[d] = "complete" <=> futures[d] = "complete",
               \A d \in Calls : d # c => write'[d] = write[d] /\ futures'[d] = futures[d]
        PROVE  UNCHANGED Promise!callVars
    <3>1. Outcome' = [Outcome EXCEPT ![c] = "open"] /\ Outcome[c] = "open"
      BY <2>1, OutcomeAfter, OutcomeNow DEF Ended
    <3>2. Arrived' = Arrived
      <4>1. ~Took(c) /\ ~Took(c)' /\ \A d \in Calls : d # c => caller'[d] = caller[d]
        BY <2>1 DEF Took, Ended, TypeOK
      <4> QED  BY <2>1, <4>1, ArrivedAfter
    <3> QED  BY <2>1, <3>1, <3>2 DEF Outcome, Arrived
  <2>2. ASSUME NEW c \in Calls, NEW from, Goto(c, from, "failed"),
               UNCHANGED <<write, answer, futures>>,
               from \notin {"returned", "failed"}, futures[c] # "complete",
               write[c] = "none" \/ futures[c] # "none"
        PROVE  Promise!Next
    <3>1. Outcome' = [Outcome EXCEPT ![c] = "failure"] /\ Outcome[c] = "open"
      BY <2>2, OutcomeAfter, OutcomeNow DEF Ended
    <3>2. Arrived' = Arrived
      <4>1. ~Took(c) /\ ~Took(c)' /\ \A d \in Calls : d # c => caller'[d] = caller[d]
        BY <2>2 DEF Took, Ended, TypeOK
      <4> QED  BY <2>2, <4>1, ArrivedAfter
    <3>3. ~Arrived[c]
      BY <2>2 DEF Arrived, Took, Ended
    <3>4. Promise!Fail(c)
      BY <2>2, <3>1, <3>2, <3>3 DEF Outcome, Arrived, Promise!Fail
    <3> QED  BY <3>4 DEF Promise!Next
  <2>3. ASSUME NEW c \in Calls, HttpThread(c)
        PROVE  [Promise!Next]_(Promise!callVars)
    <3>1. CASE NotConnected(c)
      <4>1. futures[c] # "complete" /\ write[c] = "none"
        BY <3>1 DEF NotConnected, FuturesInv
      <4> QED  BY <3>1, <4>1, <2>2 DEF NotConnected
    <3>2. CASE doConnect(c)
      BY <3>2, <2>1 DEF doConnect
    <3>3. CASE TakeChannel(c)
      BY <3>3, <2>1 DEF TakeChannel
    <3>4. CASE Write(c)
      <4>1. Goto(c, "sending", "written") /\ UNCHANGED answer
        BY <3>4 DEF Write
      <4>2. \A d \in Calls : d # c => write'[d] = write[d] /\ futures'[d] = futures[d]
        BY <3>4 DEF Write, TypeOK
      <4>3. \A d \in Calls : futures'[d] = "complete" <=> futures[d] = "complete"
        BY <3>4 DEF Write
      <4> HIDE DEF Goto
      <4>4. {"sending", "written"} \cap {"returned", "failed"} = {}
        OBVIOUS
      <4> QED  BY <4>1, <4>2, <4>3, <4>4, <2>1, Zenon
    <3>5. CASE register(c)
      <4>1. Goto(c, "written", "registered") /\ UNCHANGED answer
        BY <3>5 DEF register
      <4>2. \A d \in Calls : d # c => write'[d] = write[d] /\ futures'[d] = futures[d]
        BY <3>5 DEF register, TypeOK
      <4>3. \A d \in Calls : futures'[d] = "complete" <=> futures[d] = "complete"
        BY <3>5 DEF register, FuturesInv, TypeOK
      <4> HIDE DEF Goto
      <4>4. {"written", "registered"} \cap {"returned", "failed"} = {}
        OBVIOUS
      <4> QED  BY <4>1, <4>2, <4>3, <4>4, <2>1, Zenon
    <3>6. CASE CheckCause(c)
      <4>1. CASE write[c] = "failed"
        <5>1. futures[c] # "complete" /\ futures[c] # "none"
          BY <3>6, <4>1 DEF CheckCause, FuturesInv, FuturesExplained, DeliveredInv
        <5> QED  BY <3>6, <4>1, <5>1, <2>2 DEF CheckCause
      <4>2. CASE write[c] # "failed"
        BY <3>6, <4>2, <2>1 DEF CheckCause
      <4> QED  BY <4>1, <4>2
    <3>7. CASE Return(c)
      <4>1. answer' = answer /\ futures[c] = "complete" /\ caller' = [caller EXCEPT ![c] = Printed(c)]
        BY <3>7 DEF Return
      <4>2. Arrived[c] /\ Arrived' = Arrived
        BY <3>7 DEF Return, Printed, Arrived, Took, Ended, FuturesInv, TypeOK
      <4>3. CASE answer[c] = "unprintable"
        <5>1. Outcome' = [Outcome EXCEPT ![c] = "failure"] /\ Outcome[c] = "open"
          BY <3>7, <4>3, OutcomeAfter, OutcomeNow DEF Return, Printed, Ended
        <5>2. Promise!Fail(c)
          BY <4>1, <4>2, <4>3, <5>1 DEF Outcome, Arrived, Promise!Fail
        <5> QED  BY <5>2 DEF Promise!Next
      <4>4. CASE answer[c] # "unprintable"
        <5>1. Outcome' = [Outcome EXCEPT ![c] = "SUCCESS"] /\ Outcome[c] = "open"
          BY <3>7, <4>4, OutcomeAfter, OutcomeNow DEF Return, Printed, Ended
        <5>2. Promise!Succeed(c)
          BY <4>1, <4>2, <4>4, <5>1 DEF Outcome, Arrived, Promise!Succeed
        <5> QED  BY <5>2 DEF Promise!Next
      <4> QED  BY <4>3, <4>4
    <3>8. CASE TimeOut(c)
      <4>1. futures[c] # "complete" /\ futures[c] # "none"
        BY <3>8 DEF TimeOut, FuturesInv
      <4> QED  BY <3>8, <4>1, <2>2 DEF TimeOut
    <3> QED  BY <2>3, <3>1, <3>2, <3>3, <3>4, <3>5, <3>6, <3>7, <3>8 DEF HttpThread
  <2>4. ASSUME NEW c \in Calls, Answer(c)
        PROVE  Promise!Next
    <3>1. Promise!Execute(c)
      BY <2>4 DEF Answer, Promise!Execute, Took, Ended
    <3> QED  BY <3>1 DEF Promise!Next
  <2>5. ASSUME NEW c \in Calls, received(c)
        PROVE  [Promise!Next]_(Promise!callVars)
    <3>1. UNCHANGED <<caller, write, answer>> /\ Outcome' = Outcome
      BY <2>5 DEF received, Outcome
    <3>2. CASE futures' = futures
      BY <3>1, <3>2 DEF Outcome, Took, Ended
    <3>3. CASE futures' # futures
      <4>1. answer[c] \in Results /\ futures' = [futures EXCEPT ![c] = "complete"]
        BY <2>5, <3>3 DEF received, dispatch
      <4>2. Arrived' = [Arrived EXCEPT ![c] = TRUE]
        BY <2>5, <3>1, <4>1 DEF received, Arrived, Took, Ended, TypeOK
      <4>3. Outcome' = Outcome /\ answer' = answer /\ answer[c] \in Results
        BY <3>1, <4>1
      <4>4. Promise!Arrive(c)
        BY <4>2, <4>3 DEF Outcome, Arrived, Promise!Arrive
      <4> QED  BY <4>4 DEF Promise!Next
    <3> QED  BY <3>2, <3>3
  <2>6. ASSUME NEW c \in Calls, Flush(c) \/ Disconnect(c)
        PROVE  UNCHANGED Promise!callVars
    <3>1. UNCHANGED <<caller, answer, futures>> /\ \A d \in Calls : write'[d] = "none" <=> write[d] = "none"
      BY <2>6 DEF Flush, Disconnect, TypeOK
    <3>2. \A d \in Calls : Took(d)' <=> Took(d)
      BY <3>1 DEF Took, Ended
    <3>3. Arrived' = Arrived /\ Outcome' = Outcome
      BY <3>1, <3>2 DEF Arrived, Outcome
    <3> QED  BY <3>1, <3>3 DEF Arrived, Outcome
  <2>7. CASE UNCHANGED vars
    BY <2>7 DEF vars, Took, Ended
  <2> QED  BY <2>3, <2>4, <2>5, <2>6, <2>7 DEF Next, AllEnded, IoThread
<1> QED  BY <1>1, <1>2, TypeCorrect, FuturesInvariant, DeliveredInvariant, PTL
         DEF Spec, KeepsPromise, Promise!Spec

-----------------------------------------------------------------------------
(***************************************************************************)
(* What is found is returned                                               *)
(***************************************************************************)

(* A call whose future is complete keeps it until it takes it and ends as  *)
(* the value prints; the answer does not change after that.                *)
LEMMA FoundIsKept ==
  ASSUME NEW c \in Calls, TypeOK, FuturesInv, DeliveredInv, [Next]_vars,
         futures[c] = "complete", ~Ended(c)
  PROVE  (futures[c] = "complete" /\ ~Ended(c))' \/ (Took(c) /\ caller[c] = Printed(c))'
<1> USE DEF TypeOK, Ended, Goto
<1>1. ASSUME NEW d \in Calls, HttpThread(d)
      PROVE  (futures[c] = "complete" /\ ~Ended(c))' \/ (Took(c) /\ caller[c] = Printed(c))'
  <2>1. CASE d # c
    BY <1>1, <2>1 DEF HttpThread, NotConnected, doConnect, TakeChannel, Write, register,
       CheckCause, Return, TimeOut
  <2>2. CASE d = c
    <3>1. caller[c] \in {"registered", "waiting"} /\ write[c] = "delivered"
      BY DEF FuturesInv, FuturesExplained, DeliveredInv, Results
    <3>2. CASE Return(c)
      BY <3>1, <3>2 DEF Return, Took, Printed
    <3> QED  BY <1>1, <2>2, <3>1, <3>2 DEF HttpThread, NotConnected, doConnect, TakeChannel, Write,
                register, CheckCause, TimeOut
  <2> QED  BY <2>1, <2>2
<1>2. ASSUME NEW d \in Calls, IoThread(d) \/ Answer(d) \/ Disconnect(d)
      PROVE  (futures[c] = "complete" /\ ~Ended(c))'
  BY <1>2 DEF IoThread, Flush, received, dispatch, Answer, Disconnect
<1>3. CASE UNCHANGED vars
  BY <1>3 DEF vars
<1> QED  BY <1>1, <1>2, <1>3 DEF Next, AllEnded

(* That a found future is taken and its value printed takes no more of the *)
(* scheduler than that every call ends: once the result is there,          *)
(* ConnectServiceImpl has one other way to end, the exception that         *)
(* toJSONString throws on a value it cannot print.                         *)
THEOREM FoundFuturesReturn == Spec /\ EveryCallEnds => FoundFutureReturns
<1> SUFFICES ASSUME NEW c \in Calls
             PROVE  Spec /\ EveryCallEnds =>
                      (futures[c] = "complete" /\ ~Ended(c) ~> Took(c) /\ caller[c] = Printed(c))
  BY DEF FoundFutureReturns
<1> DEFINE Found == futures[c] = "complete" /\ ~Ended(c)
           Returned == Took(c) /\ caller[c] = Printed(c)
           Started == caller[c] # "idle"
<1>1. TypeOK /\ FuturesInv /\ DeliveredInv /\ [Next]_vars => (Found => Found' \/ Returned')
  BY FoundIsKept
<1>2. FuturesInv /\ Found => Started
  BY DEF FuturesInv
<1>3. Found => ~Ended(c)
  OBVIOUS
<1>4. EveryCallEnds => (Started ~> Ended(c))
  BY DEF EveryCallEnds
<1> HIDE DEF Found, Returned, Started
<1>5. Spec /\ EveryCallEnds => (Found ~> Returned)
  BY <1>1, <1>2, <1>3, <1>4, TypeCorrect, FuturesInvariant, DeliveredInvariant, PTL DEF Spec
<1> QED  BY <1>5 DEF Found, Returned

=============================================================================
