---------------------------- MODULE RpcExchange ----------------------------
(***************************************************************************)
(* One remote call through its layers: ConnectServiceImpl.send on the HTTP *)
(* thread, DubboClient and NettyChannel, the pipeline of TransportClient,  *)
(* SendReceiveHandler on the netty I/O thread, and ResponseDispatcher,     *)
(* whose futures the two threads meet at.  Every call opens a connection   *)
(* of its own and never closes it, so that a call's id names its           *)
(* connection too.                                                         *)
(*                                                                         *)
(* Netty writes to the socket on the I/O thread.  Dubbo's NettyHandler     *)
(* (external) passes the request down the pipeline first and calls         *)
(* SendReceiveHandler.sent, which registers the future, after that: from   *)
(* then on the two threads race.                                           *)
(***************************************************************************)
CONSTANTS
  Calls      \* the requests; an id is used once, so this bounds the calls made

VARIABLES
  caller,      \* where the HTTP thread of each call is
  connection,  \* its TCP connection
  write,       \* the ChannelFuture of its channel.write, and the request's way
  answer,      \* the provider's answer to the request
  reply,       \* the Response on its way back
  futures,     \* ResponseDispatcher.futures: no entry, incomplete or complete
  channelMap   \* NettyChannel.channelMap: the calls whose channel it holds

vars == <<caller, connection, write, answer, reply, futures, channelMap>>

(* An RpcResult, status OK: a value that JSON.toJSONString can print or    *)
(* one that makes it throw, or the exception of the service's method,      *)
(* beside which the value is null.                                         *)
Results == {"value", "unprintable", "exception"}
Answers == Results \union {"SERVER_TIMEOUT", "SERVICE_ERROR"}

Init == /\ caller = [c \in Calls |-> "idle"]
        /\ connection = [c \in Calls |-> "none"]
        /\ write = [c \in Calls |-> "none"]
        /\ answer = [c \in Calls |-> "none"]
        /\ reply = [c \in Calls |-> "none"]
        /\ futures = [c \in Calls |-> "none"]
        /\ channelMap = {}

Goto(c, from, to) == /\ caller[c] = from
                     /\ caller' = [caller EXCEPT ![c] = to]

-----------------------------------------------------------------------------
(* The HTTP thread                                                         *)

(* UrlCaches or MethodCaches has no entry for the key, the parameters do   *)
(* not parse, or the provider does not accept the connection in time.      *)
NotConnected(c) == /\ Goto(c, "idle", "failed")
                   /\ UNCHANGED <<connection, write, answer, reply, futures, channelMap>>

doConnect(c) == /\ Goto(c, "idle", "connected")
                /\ connection' = [connection EXCEPT ![c] = "up"]
                /\ UNCHANGED <<write, answer, reply, futures, channelMap>>

(* What getOrAddChannel leaves in the map: it adds a connected channel and *)
(* never removes one.                                                      *)
getOrAddChannel(c) == IF connection[c] = "up" THEN channelMap \union {c} ELSE channelMap

(* Mutant of removeChannelIfDisconnected: the test is inverted.            *)
removeChannelIfConnected(c, map) == IF connection[c] = "up" THEN map \ {c} ELSE map

(* And what removeChannelIfDisconnected leaves.                            *)
removeChannelIfDisconnected(c, map) == IF connection[c] = "up" THEN map ELSE map \ {c}

(* DubboClient.send.                                                       *)
TakeChannel(c) == /\ Goto(c, "connected", "sending")
                  /\ channelMap' = getOrAddChannel(c)
                  /\ UNCHANGED <<connection, write, answer, reply, futures>>

(* channel.write: the encoder runs on this thread, and what it encodes is  *)
(* left to the I/O thread.  A request that cannot be encoded fails the     *)
(* ChannelFuture and nothing else.                                         *)
Write(c) == /\ Goto(c, "sending", "written")
            /\ \E w \in {"queued", "failed"} : write' = [write EXCEPT ![c] = w]
            /\ channelMap' = removeChannelIfDisconnected(c, getOrAddChannel(c))
            /\ UNCHANGED <<connection, answer, reply, futures>>

(* SendReceiveHandler.sent, whether the write has failed or not.           *)
register(c) == /\ Goto(c, "written", "registered")
               /\ futures' = [futures EXCEPT ![c] = "incomplete"]
               /\ UNCHANGED <<connection, write, answer, reply, channelMap>>

(* future.getCause() sees a failure only if there has been one by now;     *)
(* `sent` is false and nobody awaits the write.                            *)
CheckCause(c) == /\ IF write[c] = "failed" THEN Goto(c, "registered", "failed")
                                           ELSE Goto(c, "registered", "waiting")
                 /\ UNCHANGED <<connection, write, answer, reply, futures, channelMap>>

(* How the call ends after removeFuture: JSON.toJSONString throws or not.  *)
Printed(c) == IF answer[c] = "unprintable" THEN "failed" ELSE "returned"

(* Mutants of Return: the future is not removed, and SUCCESS is reported   *)
(* before the value is printed.                                            *)
ReturnOnly(c) == /\ Goto(c, "waiting", Printed(c))
                 /\ futures[c] = "complete"
                 /\ UNCHANGED <<connection, write, answer, reply, futures, channelMap>>

ReturnUnprinted(c) == /\ Goto(c, "waiting", "returned")
                      /\ futures[c] = "complete"
                      /\ futures' = [futures EXCEPT ![c] = "none"]
                      /\ UNCHANGED <<connection, write, answer, reply, channelMap>>

(* future.get returns, removeFuture, and the value is printed.             *)
Return(c) == /\ Goto(c, "waiting", Printed(c))
             /\ futures[c] = "complete"
             /\ futures' = [futures EXCEPT ![c] = "none"]
             /\ UNCHANGED <<connection, write, answer, reply, channelMap>>

(* Mutants of TimeOut: a get without a timeout, and one that looks at the  *)
(* clock before the future.                                                *)
NoTimeOut(c) == FALSE

TimeOutFirst(c) == /\ Goto(c, "waiting", "failed")
                   /\ UNCHANGED <<connection, write, answer, reply, futures, channelMap>>

(* future.get throws TimeoutException past the call of removeFuture.       *)
TimeOut(c) == /\ Goto(c, "waiting", "failed")
              /\ futures[c] # "complete"
              /\ UNCHANGED <<connection, write, answer, reply, futures, channelMap>>

-----------------------------------------------------------------------------
(* The I/O thread                                                          *)

(* The queued request reaches the provider, or fails its ChannelFuture.    *)
Flush(c) == /\ write[c] = "queued"
            /\ write' = [write EXCEPT ![c] = IF connection[c] = "up" THEN "delivered" ELSE "failed"]
            /\ UNCHANGED <<caller, connection, answer, reply, futures, channelMap>>

(* Mutant of dispatch: the table holds the answer in place of its future.  *)
dispatchAnswer(c) == IF futures[c] = "none" THEN futures ELSE [futures EXCEPT ![c] = answer[c]]

(* ResponseDispatcher.dispatch completes the future, if there is one; if   *)
(* not it throws, and SendReceiveHandler logs that.                        *)
dispatch(c) == IF futures[c] = "none" THEN futures ELSE [futures EXCEPT ![c] = "complete"]

(* Mutant of received: the status is not looked at.                        *)
receivedAny(c) == /\ reply[c] = "flying"
                  /\ reply' = [reply EXCEPT ![c] = "received"]
                  /\ futures' = dispatch(c)
                  /\ channelMap' = removeChannelIfDisconnected(c, getOrAddChannel(c))
                  /\ UNCHANGED <<caller, connection, write, answer>>

(* The decoder and SendReceiveHandler.received: a status other than OK     *)
(* becomes an exception that is given to nobody.                           *)
received(c) == /\ reply[c] = "flying"
               /\ reply' = [reply EXCEPT ![c] = "received"]
               /\ futures' = IF answer[c] \in Results THEN dispatch(c) ELSE futures
               /\ channelMap' = removeChannelIfDisconnected(c, getOrAddChannel(c))
               /\ UNCHANGED <<caller, connection, write, answer>>

-----------------------------------------------------------------------------
(* The provider and the network (external)                                 *)

Answer(c) == /\ write[c] = "delivered"
             /\ answer[c] = "none"
             /\ \E a \in Answers : answer' = [answer EXCEPT ![c] = a]
             /\ reply' = [reply EXCEPT ![c] = IF connection[c] = "up" THEN "flying" ELSE "lost"]
             /\ UNCHANGED <<caller, connection, write, futures, channelMap>>

Disconnect(c) == /\ connection[c] = "up"
                 /\ connection' = [connection EXCEPT ![c] = "down"]
                 /\ reply' = [reply EXCEPT ![c] = IF @ = "flying" THEN "lost" ELSE @]
                 /\ UNCHANGED <<caller, write, answer, futures, channelMap>>

-----------------------------------------------------------------------------
HttpThread(c) == \/ NotConnected(c) \/ doConnect(c)  \/ TakeChannel(c) \/ Write(c)
                 \/ register(c)     \/ CheckCause(c) \/ Return(c)      \/ TimeOut(c)

IoThread(c) == Flush(c) \/ received(c)

Ended(c) == caller[c] \in {"returned", "failed"}

(* All the calls there are have been made.                                 *)
AllEnded == (\A c \in Calls : Ended(c)) /\ UNCHANGED vars

Next == \/ \E c \in Calls : HttpThread(c) \/ IoThread(c) \/ Answer(c) \/ Disconnect(c)
        \/ AllEnded

Spec == Init /\ [][Next]_vars

(* Both threads go on when they can, and the clock of future.get runs; the *)
(* provider owes no answer.                                                *)
Fairness == \A c \in Calls : /\ WF_vars(HttpThread(c) /\ caller[c] # "idle")
                             /\ WF_vars(IoThread(c))

FairSpec == Spec /\ Fairness

-----------------------------------------------------------------------------
(***************************************************************************)
(* Properties                                                              *)
(***************************************************************************)
CallerStates == {"idle", "connected", "sending", "written", "registered", "waiting",
                 "returned", "failed"}

TypeOK == /\ caller \in [Calls -> CallerStates]
          /\ connection \in [Calls -> {"none", "up", "down"}]
          /\ write \in [Calls -> {"none", "queued", "delivered", "failed"}]
          /\ answer \in [Calls -> {"none"} \union Answers]
          /\ reply \in [Calls -> {"none", "flying", "lost", "received"}]
          /\ futures \in [Calls -> {"none", "incomplete", "complete"}]
          /\ channelMap \subseteq Calls

(* The call has taken its future out of the table: it has seen its result. *)
Took(c) == Ended(c) /\ write[c] # "none" /\ futures[c] = "none"

(* Who leaves a future behind in ResponseDispatcher.futures: a call that   *)
(* returns does not, nor does one that fails before its request is sent;   *)
(* a future whose call has ended is one of a call that timed out or could  *)
(* not be written, and what a future holds is a result that the provider   *)
(* gave to the very request.                                               *)
FuturesExplained ==
  \A c \in Calls :
    futures[c] # "none" =>
      /\ caller[c] \in {"registered", "waiting", "failed"}
      /\ write[c] # "none"
      /\ futures[c] = "complete" => reply[c] = "received" /\ answer[c] \in Results

(* NettyChannel.channelMap has the channel of every live connection that   *)
(* a request went over: an answer finds the channel it is for.             *)
LiveChannelsCached ==
  \A c \in Calls : connection[c] = "up" /\ write[c] # "none" => c \in channelMap

(* send keeps the promise of RemoteCall, whatever the two threads, the     *)
(* network and the provider do: SUCCESS is only reported of a call that    *)
(* its provider answered with a result that can be printed, a result that  *)
(* has found its future is not reported as a timeout or as a failed write  *)
(* (only as a failure to print it, if it is one that cannot be printed),   *)
(* and a verdict once given, or an answer, is never changed by what comes  *)
(* late.                                                                   *)
Promise == INSTANCE RemoteCall WITH
  outcome  <- [c \in Calls |-> CASE caller[c] = "returned" -> "SUCCESS"
                                 [] caller[c] = "failed"   -> "failure"
                                 [] OTHER                  -> "open"],
  executed <- answer,
  arrived  <- [c \in Calls |-> futures[c] = "complete" \/ Took(c)]

KeepsPromise == Promise!Spec

(* A call does not hang: whatever is lost, the HTTP request is answered.   *)
EveryCallEnds == \A c \in Calls : caller[c] # "idle" ~> Ended(c)

(* A result that finds its future is not turned into a timeout or a write  *)
(* failure: the call takes it out of the table and ends as it prints, with *)
(* SUCCESS unless toJSONString throws on it.                               *)
FoundFutureReturns ==
  \A c \in Calls :
    futures[c] = "complete" /\ ~Ended(c) ~> Took(c) /\ caller[c] = Printed(c)

(* "转发响应" (ResponseDispatcher.java:12), forwarding responses: a result  *)
(* that has been received is in its call's future, or was taken from it.    *)
ResponsesForwarded ==
  \A c \in Calls :
    reply[c] = "received" /\ answer[c] \in Results =>
      futures[c] = "complete" \/ Took(c)
=============================================================================
