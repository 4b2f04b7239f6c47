-------------------------- MODULE Workbench_proofs --------------------------
(***************************************************************************)
(* The page is coherent, its keys mean what they meant, no client leaks    *)
(* and the ids of cases differ: for any number of requests, clients,       *)
(* interfaces, versions, connects and cases.                               *)
(***************************************************************************)
EXTENDS Workbench, SequenceTheorems, TLAPS

USE NoneAssumption, UrlAssumption, BoundsAssumption

LEMMA FreeFields ==
  /\ Free \in Requests /\ RequestOK(Free)
  /\ Free.kind = "none" /\ Free.at = "free" /\ Free.service = None /\ Free.list = None
  /\ Free.client = None /\ Free.old = FALSE
<1> DEFINE q == Request("none", None, None, None)
<1>1. /\ q \in Requests
      /\ q.kind = "none" /\ q.service = None /\ q.list = None
      /\ q.client = None /\ q.old = FALSE
  BY DEF Request, Requests
<1> HIDE DEF q
<1>2. Free = [q EXCEPT !.at = "free"]
  BY DEF Free, q
<1> QED
  BY <1>1, <1>2 DEF Requests, RequestOK, Results

(* What Answer and Brings put into a slot.                                 *)
LEMMA AnswerFields ==
  ASSUME NEW r \in Slots, request[r] \in Requests, NEW at \in Results
  PROVE  LET q == Answer(r, at)
         IN  /\ q \in Requests
             /\ q.kind = request[r].kind /\ q.at = at /\ q.service = None
             /\ q.list = None /\ q.old = FALSE
  BY FreeFields, ZenonT(60) DEF Answer, Requests, Results

LEMMA BroughtFields ==
  ASSUME NEW r \in Slots, request[r] \in Requests, NEW list \in Lists
  PROVE  LET q == [Answer(r, "ok") EXCEPT !.list = list]
         IN  /\ q \in Requests
             /\ q.kind = request[r].kind /\ q.at = "ok" /\ q.list = list
  BY FreeFields, ZenonT(60) DEF Answer, Requests, Results

-----------------------------------------------------------------------------
(* The types                                                               *)

RequestsOK == /\ request \in [Slots -> Requests]
              /\ \A r \in Slots : RequestOK(request[r])

LEMMA RequestReplaced ==
  ASSUME RequestsOK, NEW r \in Slots, NEW q \in Requests, RequestOK(q),
         request' = [request EXCEPT ![r] = q]
  PROVE  RequestsOK'
  BY DEF RequestsOK

LEMMA InterfaceType ==
  ASSUME CacheTypeOK, NEW key \in Services \union {None}
  PROVE  Interface(key) \in Services \union {None}
  BY DEF Interface, CacheTypeOK, Urls

LEMMA TypeInit == Init => TypeOK
<1> SUFFICES ASSUME Init PROVE TypeOK
  OBVIOUS
<1>1. request \in [Slots -> Requests] /\ \A r \in Slots : RequestOK(request[r])
  BY FreeFields DEF Init
<1>2. urls \in [Services -> Urls \union {None}]
  BY DEF Init, CacheInit
<1> QED
  BY <1>1, <1>2, EmptySeq DEF Init, CacheInit, TypeOK, CacheTypeOK

LEMMA TypeNext == TypeOK /\ [Next]_vars => TypeOK'
<1> SUFFICES ASSUME TypeOK, [Next]_vars PROVE TypeOK'
  OBVIOUS
<1> USE DEF TypeOK, RequestsOK
<1>1. ASSUME NEW r \in Slots, DoConnect(r) PROVE TypeOK'
  <2> DEFINE q == Request("connect", None, None, None)
  <2>1. q \in Requests /\ RequestOK(q)
    BY DEF Request, Requests, RequestOK, Results
  <2>2. request' = [request EXCEPT ![r] = q]
    BY <1>1 DEF DoConnect, Sends
  <2> HIDE DEF q
  <2>3. RequestsOK'
    BY <2>1, <2>2
  <2> QED
    BY <1>1, <2>3 DEF DoConnect, Acts, serverVars, cacheVars, CacheTypeOK, Waiting
<1>2. ASSUME NEW r \in Slots, DoListMethods(r) PROVE TypeOK'
  <2>1. PICK key \in Keys : Sends(r, Request("methods", service, None, key))
    BY <1>2 DEF DoListMethods
  <2>2. key \in Services \union {None}
    BY DEF Keys, Offers
  <2> DEFINE q == Request("methods", service, None, key)
  <2>3. q \in Requests /\ RequestOK(q)
    BY <2>2 DEF Request, Requests, RequestOK, Results
  <2>4. request' = [request EXCEPT ![r] = q]
    BY <2>1 DEF Sends
  <2> HIDE DEF q
  <2>5. RequestsOK'
    BY <2>3, <2>4
  <2> QED
    BY <1>2, <2>5 DEF DoListMethods, Acts, serverVars, cacheVars, CacheTypeOK, Waiting
<1>3. ASSUME NEW r \in Slots, DoSave(r) PROVE TypeOK'
  <2>1. offer.service \in Services
    BY <1>3 DEF DoSave, Offers
  <2> DEFINE q == Request("save", None, None, offer.service)
  <2>2. q \in Requests /\ RequestOK(q)
    BY <2>1 DEF Request, Requests, RequestOK, Results
  <2>3. request' = [request EXCEPT ![r] = q]
    BY <1>3 DEF DoSave, Sends
  <2> HIDE DEF q
  <2>4. RequestsOK'
    BY <2>2, <2>3
  <2> QED
    BY <1>3, <2>4 DEF DoSave, Acts, serverVars, cacheVars, CacheTypeOK, Waiting
<1>4. ASSUME NEW s \in Services, NEW v \in Versions, ChooseService(s, v) PROVE TypeOK'
  <2>1. PICK R \in SUBSET FreeSlots :
          request' = [r \in Slots |-> IF r \in R THEN Request("providers", s, v, None)
                                                 ELSE request[r]]
    BY <1>4 DEF ChooseService, doListProviders
  <2> DEFINE q == Request("providers", s, v, None)
  <2>2. q \in Requests /\ RequestOK(q)
    <3>1. q \in Requests /\ q.kind = "providers" /\ q.service = s /\ q.version = v /\ q.at = "asked"
      BY DEF Request, Requests
    <3> QED
      BY <3>1 DEF RequestOK, Results
  <2> HIDE DEF q
  <2>3. RequestsOK'
    BY <2>1, <2>2 DEF q
  <2> QED
    BY <1>4, <2>3 DEF ChooseService, Acts, serverVars, cacheVars, CacheTypeOK, Waiting
<1>5. ASSUME NEW r \in Slots, OpenClient(r) PROVE TypeOK'
  <2>1. PICK c \in Clients :
          /\ doConnect(c)
          /\ request' = [request EXCEPT ![r].at = "connecting", ![r].client = c]
    BY <1>5 DEF OpenClient
  <2> DEFINE q == [request[r] EXCEPT !.at = "connecting", !.client = c]
  <2>2. request[r] \in Requests /\ RequestOK(request[r])
    OBVIOUS
  <2>3. q \in Requests /\ RequestOK(q)
    BY <1>5, <2>2 DEF OpenClient, NeedsHandler, Requests, RequestOK, Results
  <2>4. request' = [request EXCEPT ![r] = q]
    BY <2>1
  <2> HIDE DEF q
  <2>5. RequestsOK'
    BY <2>3, <2>4
  <2> QED
    BY <1>5, <2>1, <2>5 DEF OpenClient, pageVars, doConnect, CacheTypeOK
<1>6. ASSUME NEW r \in Slots, KeepClient(r) PROVE TypeOK'
  <2>1. RequestsOK'
    BY <1>6 DEF KeepClient, Requests, RequestOK, Results
  <2> QED
    BY <1>6, <2>1 DEF KeepClient, pageVars, putIfAbsent, CacheTypeOK, RequestOK
<1>7. ASSUME NEW r \in Slots, CloseClient(r) PROVE TypeOK'
  <2>1. RequestsOK'
    BY <1>7, AnswerFields, RequestReplaced
       DEF CloseClient, Answers, RequestOK, Results
  <2> QED
    BY <1>7, <2>1 DEF CloseClient, pageVars, close, CacheTypeOK
<1>18. ASSUME NEW r \in Slots, ConnectBreaksOff(r) PROVE TypeOK'
  <2>1. RequestsOK'
    BY <1>18, AnswerFields, RequestReplaced
       DEF ConnectBreaksOff, Answers, RequestOK, Results
  <2>2. request[r].client \in Clients
    BY <1>18 DEF ConnectBreaksOff, RequestOK
  <2> QED
    BY <1>18, <2>1, <2>2 DEF ConnectBreaksOff, pageVars, cacheVars, CacheTypeOK
<1>8. ASSUME NEW r \in Slots,
             \/ ConnectThrows(r)
             \/ FindNothing(r)
             \/ ListInterfaces(r)
      PROVE  TypeOK'
  <2>1. PICK at \in Results : /\ Answers(r, Answer(r, at))
                              /\ request[r].kind = "providers" => at = "fail"
                              /\ request[r].kind \in {"connect", "providers"}
    BY <1>8 DEF ConnectThrows, FindNothing, ListInterfaces, HasHandler, NeedsHandler, Results
  <2>2. RequestsOK'
    BY <2>1, AnswerFields, RequestReplaced, ZenonT(60) DEF Answers, RequestOK, Results
  <2> QED
    BY <1>8, <2>2 DEF ConnectThrows, FindNothing, ListInterfaces, pageVars, serverVars,
                      cacheVars, CacheTypeOK
<1>9. ASSUME NEW r \in Slots, ListProviders(r) PROVE TypeOK'
  <2> DEFINE s == request[r].service
             v == request[r].version
  <2>1. s \in Services /\ v \in Versions
    BY <1>9 DEF ListProviders, HasHandler, RequestOK
  <2>2. RequestsOK'
    <3> DEFINE q == [Answer(r, "ok") EXCEPT !.service = s, !.version = v]
    <3>1. q \in Requests /\ RequestOK(q)
      <4>1. request[r] \in Requests /\ request[r].kind = "providers"
        BY <1>9 DEF ListProviders
      <4>2. /\ q \in Requests
            /\ q.kind = "providers" /\ q.at = "ok" /\ q.service = s /\ q.version = v
        BY <2>1, <4>1, FreeFields DEF Answer, Requests, Results
      <4> QED
        BY <2>1, <4>2 DEF RequestOK
    <3>2. request' = [request EXCEPT ![r] = q]
      BY <1>9 DEF ListProviders, Answers
    <3> HIDE DEF q
    <3> QED
      BY <3>1, <3>2
  <2> QED
    BY <1>9, <2>1, <2>2 DEF ListProviders, pageVars, cache, CacheTypeOK, Url, Urls
<1>10. ASSUME NEW s \in Services, NEW v \in Versions, OtherLooksUp(s, v) PROVE TypeOK'
  BY <1>10 DEF OtherLooksUp, pageVars, cache, CacheTypeOK, Url, Urls
<1>11. ASSUME NEW r \in Slots, ListMethods(r) \/ ListNameless(r) PROVE TypeOK'
  <2>1. request[r].kind = "methods"
    BY <1>11 DEF ListMethods, ListNameless
  <2>2. Alerts(r) \/ \E list \in Lists : Brings(r, list)
    <3>1. Interface(request[r].key) # None =>
            Methods(Interface(request[r].key), TRUE) \in Lists
      BY InterfaceType DEF Methods, Lists, Requests
    <3>2. request[r].service # None => Methods(request[r].service, TRUE) \in Lists
      BY DEF Methods, Lists, Requests
    <3>3. \A s \in Services : Methods(s, s = request[r].key) \in Lists
      BY DEF Methods, Lists
    <3> QED
      BY <1>11, <3>1, <3>2, <3>3 DEF ListMethods, ListNameless
  <2>3. RequestsOK'
    <3>1. CASE Alerts(r)
      BY <3>1, FreeFields DEF Alerts, Answers
    <3>2. ASSUME NEW list \in Lists, Brings(r, list) PROVE RequestsOK'
      <4> DEFINE q == [Answer(r, "ok") EXCEPT !.list = list]
      <4>1. q \in Requests /\ RequestOK(q)
        BY <2>1, BroughtFields DEF RequestOK
      <4>2. request' = [request EXCEPT ![r] = q]
        BY <3>2 DEF Brings, Answers
      <4> HIDE DEF q
      <4> QED
        BY <4>1, <4>2
    <3> QED
      BY <2>2, <3>1, <3>2
  <2> QED
    BY <1>11, <2>3 DEF ListMethods, ListNameless, pageVars, serverVars, cacheVars, CacheTypeOK
<1>12. ASSUME NEW r \in Slots, NumberCase(r) PROVE TypeOK'
  <2>1. RequestsOK'
    <3> DEFINE q == [request[r] EXCEPT !.at = "saving", !.id = counter]
    <3>1. q \in Requests /\ RequestOK(q)
      BY <1>12, ZenonT(60) DEF NumberCase, Requests, RequestOK, Results
    <3>2. request' = [request EXCEPT ![r] = q]
      BY <1>12 DEF NumberCase
    <3> HIDE DEF q
    <3> QED
      BY <3>1, <3>2
  <2> QED
    BY <1>12, <2>1 DEF NumberCase, pageVars, cacheVars, CacheTypeOK
<1>13. ASSUME NEW r \in Slots, SaveFails(r) PROVE TypeOK'
  <2>1. RequestsOK'
    BY <1>13, FreeFields, RequestReplaced DEF SaveFails, Alerts, Answers
  <2> QED
    BY <1>13, <2>1 DEF SaveFails, pageVars, serverVars, cacheVars, CacheTypeOK
<1>14. ASSUME NEW r \in Slots, PushCase(r) PROVE TypeOK'
  <2>1. RequestsOK'
    BY <1>14, FreeFields, RequestReplaced DEF PushCase, Alerts, Answers
  <2>2. request[r].id \in Nat
    BY DEF Requests
  <2>3. saved' \in Seq(Nat)
    BY <1>14, <2>2, AppendProperties DEF PushCase
  <2> QED
    BY <1>14, <2>1, <2>3 DEF PushCase, pageVars, cacheVars, CacheTypeOK
<1>15. ASSUME Restart PROVE TypeOK'
  <2>1. RequestsOK'
    <3> SUFFICES ASSUME NEW r \in Slots
                 PROVE  request'[r] \in Requests /\ RequestOK(request'[r])
      BY <1>15 DEF Restart
    <3>1. CASE request[r].at \in Results
      <4>1. request'[r] = [request[r] EXCEPT !.old = (request[r].service # None)]
        BY <1>15, <3>1 DEF Restart
      <4>2. request[r] \in Requests /\ RequestOK(request[r])
        OBVIOUS
      <4> QED
        BY <3>1, <4>1, <4>2 DEF Requests, RequestOK, Results
    <3>2. CASE request[r].kind = "providers" /\ request[r].at \notin Results
      BY <1>15, <3>2, AnswerFields DEF Restart, RequestOK, Results
    <3> QED
      BY <1>15, <3>1, <3>2, FreeFields DEF Restart
  <2>2. offer' \in Offers \union {None}
    BY <1>15 DEF Restart, Offer, Offers
  <2>3. saved' \in Seq(Nat)
    BY <1>15, EmptySeq DEF Restart
  <2> QED
    BY <1>15, <2>1, <2>2, <2>3 DEF Restart, CacheTypeOK
<1>16. ASSUME NEW r \in Slots, Page(r) PROVE TypeOK'
  <2>1. RequestsOK'
    BY <1>16, FreeFields, RequestReplaced
       DEF Page, ShowInterfaces, ShowProviders, ShowMethods, Shows
  <2>2. CASE ShowInterfaces(r)
    BY <2>1, <2>2 DEF ShowInterfaces, serverVars, cacheVars, CacheTypeOK
  <2>3. CASE ShowProviders(r)
    <3>1. offer' \in Offers \union {None}
      BY <2>3 DEF ShowProviders, Shows, RequestOK, Requests, Offer, Offers
    <3> QED
      BY <2>1, <2>3, <3>1 DEF ShowProviders, serverVars, cacheVars, CacheTypeOK
  <2>4. CASE ShowMethods(r)
    BY <2>1, <2>4 DEF ShowMethods, Shows, RequestOK, serverVars, cacheVars, CacheTypeOK
  <2> QED
    BY <1>16, <2>2, <2>3, <2>4 DEF Page
<1>17. CASE UNCHANGED vars
  BY <1>17 DEF vars, pageVars, cacheVars, CacheTypeOK
<1> QED
  BY <1>1, <1>2, <1>3, <1>4, <1>5, <1>6, <1>7, <1>8, <1>9, <1>10, <1>11, <1>12, <1>13,
     <1>14, <1>15, <1>16, <1>17, <1>18
  DEF Next, User, Tool

(* The type invariant of the page, its requests and the caches, for any    *)
(* constants: every request carries what its handler in the tool takes for *)
(* granted, as a save its provider's key.                                  *)
THEOREM TypeCorrect == Spec => []TypeOK
  BY TypeInit, TypeNext, PTL DEF Spec

-----------------------------------------------------------------------------
(* What the steps have in common                                           *)

LEMMA UserStep ==
  ASSUME TypeOK, User
  PROVE  /\ UNCHANGED serverVars
         /\ hurried' = (hurried \/ Waiting)
         /\ \A t \in Slots : \/ request'[t] = request[t]
                             \/ request[t] = Free /\ request'[t].at = "asked"
<1>1. ASSUME NEW r \in Slots, NEW q, q.at = "asked", Sends(r, q)
      PROVE  \A t \in Slots : \/ request'[t] = request[t]
                              \/ request[t] = Free /\ request'[t].at = "asked"
  BY <1>1 DEF TypeOK, Sends
<1>2. \A kind, s, v, key : Request(kind, s, v, key).at = "asked"
  BY DEF Request
<1>3. CASE \E r \in Slots : DoConnect(r) \/ DoListMethods(r) \/ DoSave(r)
  <2>1. PICK r \in Slots : DoConnect(r) \/ DoListMethods(r) \/ DoSave(r)
    BY <1>3
  <2>2. \E kind, s, v, key : Sends(r, Request(kind, s, v, key))
    BY <2>1 DEF DoConnect, DoListMethods, DoSave
  <2>3. UNCHANGED serverVars /\ Acts
    BY <2>1 DEF DoConnect, DoListMethods, DoSave
  <2> QED
    BY <1>1, <1>2, <2>2, <2>3 DEF Acts
<1>4. ASSUME NEW s \in Services, NEW v \in Versions, ChooseService(s, v)
      PROVE  /\ UNCHANGED serverVars /\ Acts
             /\ \A t \in Slots : \/ request'[t] = request[t]
                                 \/ request[t] = Free /\ request'[t].at = "asked"
  BY <1>2, <1>4 DEF ChooseService, doListProviders, FreeSlots
<1> QED
  BY <1>3, <1>4 DEF User, Acts

LEMMA PageStep ==
  ASSUME TypeOK, NEW r \in Slots, Page(r)
  PROVE  /\ UNCHANGED <<bound, hurried, serverVars>>
         /\ request[r].at \in Results
         /\ request' = [request EXCEPT ![r] = Free]
  BY DEF Page, ShowInterfaces, ShowProviders, ShowMethods, Shows

(* The steps of the tool but those that make or end a client.              *)
Serves(r) == \/ ConnectThrows(r) \/ FindNothing(r) \/ ListInterfaces(r) \/ ListProviders(r)
             \/ ListMethods(r)   \/ ListNameless(r)
             \/ NumberCase(r)    \/ SaveFails(r)   \/ PushCase(r)

LEMMA ToolSplit ==
  ASSUME NEW r \in Slots, Tool(r)
  PROVE  OpenClient(r) \/ KeepClient(r) \/ CloseClient(r) \/ ConnectBreaksOff(r) \/ Serves(r)
  BY DEF Tool, Serves

LEMMA AnswerAt ==
  ASSUME TypeOK, NEW r \in Slots
  PROVE  /\ \A at \in Results : Answer(r, at).at = at
         /\ \A list : [Answer(r, "ok") EXCEPT !.list = list].at = "ok"
         /\ \A s, v : [Answer(r, "ok") EXCEPT !.service = s, !.version = v].at = "ok"
  BY FreeFields DEF Answer, Requests, Results

LEMMA ServesStep ==
  ASSUME TypeOK, NEW r \in Slots, Serves(r)
  PROVE  /\ UNCHANGED <<pageVars, handler, open, raced, lost>>
         /\ request[r].at \in {"asked", "connected", "saving"}
         /\ \A t \in Slots : t # r => request'[t] = request[t]
         /\ request'[r].at \in {"free", "saving"} \union Results
         /\ request'[r].at = "saving" => NumberCase(r)
<1> USE DEF TypeOK
<1>1. CASE ConnectThrows(r) \/ FindNothing(r) \/ ListInterfaces(r)
  BY <1>1, AnswerAt DEF ConnectThrows, FindNothing, ListInterfaces, HasHandler, Answers, Results,
                        serverVars, cacheVars
<1>2. CASE ListProviders(r)
  BY <1>2, AnswerAt DEF ListProviders, HasHandler, Answers, cache, Results
<1>3. CASE ListMethods(r) \/ ListNameless(r)
  <2>1. Alerts(r) \/ \E list : Brings(r, list)
    BY <1>3 DEF ListMethods, ListNameless
  <2>2. /\ \A t \in Slots : t # r => request'[t] = request[t]
        /\ request'[r].at \in {"free", "ok"}
    <3>1. CASE Alerts(r)
      BY <3>1, FreeFields DEF Alerts, Answers
    <3>2. CASE \E list : Brings(r, list)
      <4>1. PICK list : Brings(r, list)
        BY <3>2
      <4> QED
        BY <4>1, AnswerAt DEF Brings, Answers
    <3> QED
      BY <2>1, <3>1, <3>2
  <2>3. request[r].at = "asked" /\ UNCHANGED <<pageVars, serverVars>>
    BY <1>3 DEF ListMethods, ListNameless
  <2> QED
    BY <2>2, <2>3 DEF Results, serverVars, cacheVars
<1>4. CASE NumberCase(r)
  <2>1. request[r] \in Requests
    OBVIOUS
  <2> QED
    BY <1>4, <2>1 DEF NumberCase, cacheVars, Requests
<1>5. CASE SaveFails(r)
  BY <1>5, FreeFields DEF SaveFails, Alerts, Answers, serverVars, cacheVars, Results
<1>6. CASE PushCase(r)
  BY <1>6, FreeFields DEF PushCase, Alerts, Answers, cacheVars, Results
<1> QED
  BY <1>1, <1>2, <1>3, <1>4, <1>5, <1>6 DEF Serves

-----------------------------------------------------------------------------
(* The clients                                                             *)

HandlerInv ==
  /\ handler # None => handler \in open
  /\ \A r \in Connecting : request[r].client \in open /\ request[r].client # handler
  /\ \A r, q \in Connecting : request[r].client = request[q].client => r = q
  /\ ~raced => /\ \A r, q \in Connecting : r = q
               /\ Connecting # {} => handler = None
  /\ ClientsUsed

LEMMA HandlerKept ==
  ASSUME HandlerInv, UNCHANGED <<handler, open, raced, lost>>,
         \A r \in Slots : /\ request'[r].at = "connecting" <=> request[r].at = "connecting"
                          /\ request[r].at = "connecting" => request'[r].client = request[r].client
  PROVE  HandlerInv'
<1>1. Connecting' = Connecting
  BY DEF Connecting
<1>2. \A r \in Connecting : request'[r].client = request[r].client
  BY DEF Connecting
<1> QED
  BY <1>1, <1>2 DEF HandlerInv, ClientsUsed

LEMMA HandlerInit == Init => HandlerInv
<1> SUFFICES ASSUME Init PROVE HandlerInv
  OBVIOUS
<1>1. Connecting = {}
  BY FreeFields DEF Init, Connecting
<1> QED
  BY <1>1 DEF Init, CacheInit, HandlerInv, ClientsUsed

LEMMA HandlerNext == TypeOK /\ HandlerInv /\ [Next]_vars => HandlerInv'
<1> SUFFICES ASSUME TypeOK, HandlerInv, [Next]_vars PROVE HandlerInv'
  OBVIOUS
<1>1. CASE User
  BY <1>1, UserStep, FreeFields, HandlerKept DEF serverVars, cacheVars
<1>2. ASSUME NEW r \in Slots, Page(r) PROVE HandlerInv'
  BY <1>2, PageStep, FreeFields, HandlerKept DEF serverVars, cacheVars, Results, TypeOK
<1>3. ASSUME NEW r \in Slots, Serves(r) PROVE HandlerInv'
  BY <1>3, ServesStep, HandlerKept DEF Results
<1>4. ASSUME NEW s \in Services, NEW v \in Versions, OtherLooksUp(s, v) PROVE HandlerInv'
  BY <1>4, HandlerKept DEF OtherLooksUp, cache
<1>5. ASSUME NEW r \in Slots, OpenClient(r) PROVE HandlerInv'
  <2>1. PICK c \in Clients :
          /\ doConnect(c)
          /\ request' = [request EXCEPT ![r].at = "connecting", ![r].client = c]
    BY <1>5 DEF OpenClient
  <2>2. r \notin Connecting /\ Connecting' = Connecting \union {r}
    BY <1>5, <2>1 DEF OpenClient, Connecting, TypeOK, Requests
  <2>3. /\ request'[r].client = c
        /\ \A q \in Connecting : request'[q].client = request[q].client
    BY <2>1, <2>2 DEF Connecting, TypeOK, Requests
  <2>4. c \notin open /\ open' = open \union {c} /\ handler' = handler /\ handler = None
    BY <1>5, <2>1 DEF OpenClient, doConnect
  <2>5. (~raced' => ~raced /\ Connecting = {}) /\ lost' = lost
    BY <1>5 DEF OpenClient, Connecting
  <2> QED
    BY <2>2, <2>3, <2>4, <2>5 DEF HandlerInv, ClientsUsed
<1>6. ASSUME NEW r \in Slots, KeepClient(r) PROVE HandlerInv'
  <2>1. r \in Connecting /\ Connecting' = Connecting \ {r}
    BY <1>6 DEF KeepClient, Connecting, TypeOK, Requests
  <2>2. \A q \in Connecting' : request'[q].client = request[q].client
    BY <1>6, <2>1 DEF KeepClient, Connecting, TypeOK
  <2>3. /\ handler' = IF handler = None THEN request[r].client ELSE handler
        /\ open' = open /\ raced' = raced /\ lost' = lost
    BY <1>6 DEF KeepClient, putIfAbsent
  <2> DEFINE c == request[r].client
  <2>4. c \in open /\ c # handler
        /\ \A q \in Connecting' : /\ request'[q].client \in open
                                /\ request'[q].client # handler
                                /\ request'[q].client # c
    BY <2>1, <2>2 DEF HandlerInv
  <2>5. \A p, q \in Connecting' : request'[p].client = request'[q].client => p = q
    BY <2>1, <2>2 DEF HandlerInv
  <2>6. ~raced => Connecting' = {} /\ handler = None
    BY <2>1 DEF HandlerInv
  <2>7. ClientsUsed'
    <3> SUFFICES ASSUME ~raced, NEW x \in open \ lost PROVE x = handler'
      BY <2>3 DEF ClientsUsed
    <3>1. x = handler \/ \E q \in Connecting : request[q].client = x
      BY DEF HandlerInv, ClientsUsed
    <3>2. handler = None /\ handler' = c /\ Connecting = {r}
      BY <2>1, <2>3, <2>6 DEF HandlerInv
    <3>3. x # None
      BY DEF TypeOK, CacheTypeOK
    <3> QED
      BY <3>1, <3>2, <3>3
  <2> QED
    BY <2>3, <2>4, <2>5, <2>6, <2>7 DEF HandlerInv
<1>7. ASSUME NEW r \in Slots, CloseClient(r) PROVE HandlerInv'
  <2>1. r \in Connecting /\ Connecting' = Connecting \ {r}
    BY <1>7, AnswerAt DEF CloseClient, Answers, Connecting, TypeOK, Results
  <2>2. \A q \in Connecting' : request'[q].client = request[q].client
    BY <1>7, <2>1 DEF CloseClient, Answers, Connecting, TypeOK
  <2>3. /\ handler' = handler /\ open' = open \ {request[r].client}
        /\ raced' = raced /\ lost' = lost
    BY <1>7 DEF CloseClient, close
  <2> QED
    BY <2>1, <2>2, <2>3 DEF HandlerInv, ClientsUsed
<1>10. ASSUME NEW r \in Slots, ConnectBreaksOff(r) PROVE HandlerInv'
  <2>1. r \in Connecting /\ Connecting' = Connecting \ {r}
    BY <1>10, AnswerAt DEF ConnectBreaksOff, Answers, Connecting, TypeOK, Results
  <2>2. \A q \in Connecting' : request'[q].client = request[q].client
    BY <1>10, <2>1 DEF ConnectBreaksOff, Answers, Connecting, TypeOK
  <2>3. /\ UNCHANGED <<handler, open, raced>>
        /\ lost' = lost \union {request[r].client}
    BY <1>10 DEF ConnectBreaksOff, cacheVars
  <2> QED
    BY <2>1, <2>2, <2>3 DEF HandlerInv, ClientsUsed
<1>8. CASE Restart
  <2>1. Connecting' = {}
    <3> SUFFICES ASSUME NEW r \in Slots PROVE request'[r].at # "connecting"
      BY DEF Connecting
    <3>1. CASE request[r].at \in Results
      <4>1. request'[r] = [request[r] EXCEPT !.old = (request[r].service # None)]
        BY <1>8, <3>1 DEF Restart
      <4>2. request[r] \in Requests
        BY DEF TypeOK
      <4> QED
        BY <3>1, <4>1, <4>2 DEF Requests, Results
    <3>2. CASE request[r].at \notin Results
      BY <1>8, <3>2, AnswerAt, FreeFields DEF Restart, Results
    <3> QED
      BY <3>1, <3>2
  <2> QED
    BY <1>8, <2>1 DEF Restart, HandlerInv, ClientsUsed
<1>9. CASE UNCHANGED vars
  BY <1>9, HandlerKept DEF vars, cacheVars
<1> QED
  BY <1>1, <1>2, <1>3, <1>4, <1>5, <1>6, <1>7, <1>8, <1>9, <1>10, ToolSplit DEF Next

LEMMA ClientsInvariant == Spec => [](TypeOK /\ HandlerInv)
  BY TypeInit, TypeNext, HandlerInit, HandlerNext, PTL DEF Spec

(* CuratorCaches.getHandler: no client of ZooKeeper is left behind, unless *)
(* two threads have connected at once since the start, but those whose     *)
(* connect ended in an exception after they were opened.                   *)
THEOREM ClientsAreUsed == Spec => []ClientsUsed
<1>1. HandlerInv => ClientsUsed
  BY DEF HandlerInv
<1> QED
  BY <1>1, ClientsInvariant, PTL

(* CuratorCaches.getHandler: the handler that is kept is connected, and    *)
(* nobody who may close his client has this one.                           *)
THEOREM HandlerIsOpen == Spec => []HandlerOpen
<1>1. HandlerInv => HandlerOpen
  BY DEF HandlerInv, HandlerOpen
<1> QED
  BY <1>1, ClientsInvariant, PTL

-----------------------------------------------------------------------------
(* The providers' keys                                                     *)

Named == \A s \in Services : urls[s] # None => urls[s].of = s

Offered(q) == q.kind = "providers" /\ q.at = "ok" /\ ~q.old

KeyInv == /\ Named
          /\ KeysMeanOffers
          /\ \A r \in Slots : Offered(request[r]) => KeyMeans(request[r].service, request[r].version)

(* A look-up, whoever makes it, leaves every key with what it means.       *)
LEMMA KeysOutliveLookUp ==
  ASSUME TypeOK, Named, NEW s \in Services, NEW v \in Versions, cache(s, v),
         mixed' = IF urls[s] \in {None, Url(s, v)} THEN mixed ELSE mixed \union {s}
  PROVE  /\ Named'
         /\ \A t \in Services, w \in Versions : KeyMeans(t, w) => KeyMeans(t, w)'
         /\ KeyMeans(s, v)'
<1>1. /\ Url(s, v) \in Urls /\ Url(s, v) # None
      /\ Url(s, v).of = s /\ Url(s, v).version = v
  <2>1. Url(s, v) \in Urls /\ Url(s, v).of = s /\ Url(s, v).version = v
    BY DEF Url, Urls
  <2> QED
    BY <2>1
<1>2. /\ urls'[s] = Url(s, v)
      /\ \A t \in Services : t # s => urls'[t] = urls[t]
  BY DEF cache, TypeOK, CacheTypeOK
<1>3. Named'
  BY <1>1, <1>2 DEF Named
<1>4. KeyMeans(s, v)'
  BY <1>1, <1>2 DEF KeyMeans
<1>5. ASSUME NEW t \in Services, NEW w \in Versions, KeyMeans(t, w) PROVE KeyMeans(t, w)'
  BY <1>1, <1>2, <1>5 DEF KeyMeans
<1> QED
  BY <1>3, <1>4, <1>5

LEMMA KeyKept ==
  ASSUME TypeOK, KeyInv, UNCHANGED <<urls, mixed, offer>>,
         \A r \in Slots : request'[r] = request[r] \/ ~Offered(request'[r])
  PROVE  KeyInv'
  BY DEF KeyInv, Named, KeysMeanOffers, KeyMeans

LEMMA KeyInit == Init => KeyInv
<1> SUFFICES ASSUME Init PROVE KeyInv
  OBVIOUS
<1>1. \A r \in Slots : ~Offered(request[r])
  BY FreeFields DEF Init, Offered
<1> QED
  BY <1>1 DEF Init, CacheInit, KeyInv, Named, KeysMeanOffers

LEMMA KeyNext == TypeOK /\ KeyInv /\ [Next]_vars => KeyInv'
<1> SUFFICES ASSUME TypeOK, KeyInv, [Next]_vars PROVE KeyInv'
  OBVIOUS
<1>1. CASE User
  <2>1. UNCHANGED <<urls, mixed>>
        /\ \A t \in Slots : request'[t] = request[t] \/ ~Offered(request'[t])
    BY <1>1, UserStep DEF serverVars, cacheVars, Offered
  <2>2. offer' = offer \/ offer' = None
    BY <1>1 DEF User, DoConnect, DoListMethods, DoSave, ChooseService
  <2> QED
    BY <2>1, <2>2 DEF KeyInv, Named, KeysMeanOffers, KeyMeans
<1>2. ASSUME NEW r \in Slots, Page(r) PROVE KeyInv'
  <2>1. UNCHANGED <<urls, mixed>>
        /\ \A t \in Slots : request'[t] = request[t] \/ ~Offered(request'[t])
    BY <1>2, PageStep, FreeFields DEF serverVars, cacheVars, TypeOK, Offered
  <2>2. CASE ShowProviders(r) /\ request[r].at = "ok"
    <3>1. /\ offer' = Offer(request[r].service, request[r].version, request[r].old)
          /\ ~request[r].old => KeyMeans(request[r].service, request[r].version)
      BY <2>2 DEF ShowProviders, Shows, KeyInv, Offered
    <3>2. ~offer'.old => KeyMeans(offer'.service, offer'.version)
      BY <3>1 DEF Offer
    <3> QED
      BY <2>1, <3>2 DEF KeyInv, Named, KeysMeanOffers, KeyMeans
  <2>3. CASE ~(ShowProviders(r) /\ request[r].at = "ok")
    <3>1. offer' = offer \/ offer' = None
      BY <1>2, <2>3 DEF Page, ShowInterfaces, ShowProviders, ShowMethods
    <3> QED
      BY <2>1, <3>1 DEF KeyInv, Named, KeysMeanOffers, KeyMeans
  <2> QED
    BY <2>2, <2>3
<1>3. ASSUME NEW r \in Slots, Tool(r), ~ListProviders(r) PROVE KeyInv'
  <2>1. UNCHANGED <<urls, mixed, offer>>
    BY <1>3 DEF Tool, ConnectThrows, OpenClient, KeepClient, CloseClient, FindNothing, ListInterfaces,
                ListMethods, ListNameless, NumberCase, SaveFails, PushCase,
                pageVars, serverVars, cacheVars, doConnect, putIfAbsent, close, ConnectBreaksOff
  <2>2. \A t \in Slots : t # r => request'[t] = request[t]
    <3>1. Serves(r) \/ OpenClient(r) \/ KeepClient(r) \/ CloseClient(r) \/ ConnectBreaksOff(r)
      BY <1>3, ToolSplit
    <3>2. OpenClient(r) \/ KeepClient(r) \/ CloseClient(r) \/ ConnectBreaksOff(r) =>
            \A t \in Slots : t # r => request'[t] = request[t]
      BY DEF OpenClient, KeepClient, CloseClient, ConnectBreaksOff, Answers, TypeOK
    <3> QED
      BY <3>1, <3>2, ServesStep
  <2>3. ~Offered(request'[r])
    <3>1. CASE OpenClient(r) \/ KeepClient(r)
      BY <3>1 DEF OpenClient, KeepClient, Offered, TypeOK, Requests
    <3>2. CASE ConnectThrows(r) \/ CloseClient(r) \/ ConnectBreaksOff(r) \/ FindNothing(r)
      BY <3>2, AnswerAt DEF ConnectThrows, CloseClient, ConnectBreaksOff, FindNothing, Answers, Offered, TypeOK, Results
    <3>3. CASE ListInterfaces(r)
      <4>1. Answer(r, "ok").kind = "connect"
        BY <3>3, AnswerFields DEF ListInterfaces, TypeOK, Results
      <4> QED
        BY <3>3, <4>1 DEF ListInterfaces, Answers, Offered, TypeOK
    <3>4. CASE ListMethods(r) \/ ListNameless(r)
      <4>1. request[r].kind = "methods" /\ (Alerts(r) \/ \E list : Brings(r, list))
        BY <3>4 DEF ListMethods, ListNameless
      <4>2. \A list : [Answer(r, "ok") EXCEPT !.list = list].kind = request[r].kind
        BY FreeFields DEF Answer, Requests
      <4> QED
        BY <4>1, <4>2, FreeFields, ZenonT(60) DEF Alerts, Brings, Answers, Offered, TypeOK
    <3>5. CASE NumberCase(r) \/ SaveFails(r) \/ PushCase(r)
      BY <3>5, FreeFields
      DEF NumberCase, SaveFails, PushCase, Alerts, Answers, Offered, TypeOK, Requests
    <3> QED
      BY <1>3, <3>1, <3>2, <3>3, <3>4, <3>5 DEF Tool
  <2> QED
    BY <2>1, <2>2, <2>3, KeyKept
<1>4. ASSUME NEW r \in Slots, ListProviders(r) PROVE KeyInv'
  <2>1. PICK s \in Services, v \in Versions :
          /\ s = request[r].service /\ v = request[r].version
          /\ cache(s, v)
          /\ mixed' = IF urls[s] \in {None, Url(s, v)} THEN mixed ELSE mixed \union {s}
          /\ Answers(r, [Answer(r, "ok") EXCEPT !.service = s, !.version = v])
          /\ UNCHANGED offer
    BY <1>4 DEF ListProviders, HasHandler, pageVars, TypeOK, RequestOK
  <2>2. /\ Named'
        /\ \A t \in Services, w \in Versions : KeyMeans(t, w) => KeyMeans(t, w)'
        /\ KeyMeans(s, v)'
    BY <2>1, KeysOutliveLookUp DEF KeyInv
  <2>3. KeysMeanOffers'
    BY <2>1, <2>2 DEF KeyInv, KeysMeanOffers, TypeOK, Offers
  <2>4. request'[r].service = s /\ request'[r].version = v
    <3>1. request[r] \in Requests
      BY DEF TypeOK
    <3> DEFINE q == [Answer(r, "ok") EXCEPT !.service = s, !.version = v]
    <3>2. q.service = s /\ q.version = v
      BY <3>1, FreeFields DEF Answer, Requests
    <3>3. request'[r] = q
      BY <2>1 DEF Answers, TypeOK
    <3> QED
      BY <3>2, <3>3
  <2>5. ASSUME NEW t \in Slots, Offered(request'[t])
        PROVE  KeyMeans(request[t].service, request[t].version)'
    <3>1. CASE t = r
      BY <2>2, <2>4, <3>1 DEF KeyMeans
    <3>2. CASE t # r
      <4>1. request'[t] = request[t]
        BY <2>1, <3>2 DEF Answers, TypeOK
      <4>2. request[t].service \in Services /\ request[t].version \in Versions
        BY <2>5, <4>1 DEF Offered, TypeOK, RequestOK
      <4>3. KeyMeans(request[t].service, request[t].version)
        BY <2>5, <4>1 DEF KeyInv
      <4> QED
        BY <2>2, <4>1, <4>2, <4>3 DEF KeyMeans
    <3> QED
      BY <3>1, <3>2
  <2> QED
    BY <2>2, <2>3, <2>5 DEF KeyInv
<1>5. ASSUME NEW s \in Services, NEW v \in Versions, OtherLooksUp(s, v) PROVE KeyInv'
  <2>1. /\ cache(s, v)
        /\ mixed' = IF urls[s] \in {None, Url(s, v)} THEN mixed ELSE mixed \union {s}
        /\ UNCHANGED <<offer, request>>
    BY <1>5 DEF OtherLooksUp, pageVars
  <2>2. /\ Named'
        /\ \A t \in Services, w \in Versions : KeyMeans(t, w) => KeyMeans(t, w)'
    BY <2>1, KeysOutliveLookUp DEF KeyInv
  <2>3. KeysMeanOffers'
    BY <2>1, <2>2 DEF KeyInv, KeysMeanOffers, TypeOK, Offers
  <2>4. ASSUME NEW t \in Slots, Offered(request[t])
        PROVE  KeyMeans(request[t].service, request[t].version)'
    <3>1. request[t].service \in Services /\ request[t].version \in Versions
      BY <2>4 DEF Offered, TypeOK, RequestOK
    <3> QED
      BY <2>1, <2>2, <2>4, <3>1 DEF KeyInv
  <2> QED
    BY <2>1, <2>2, <2>3, <2>4 DEF KeyInv
<1>6. CASE Restart
  <2>1. Named'
    BY <1>6 DEF Restart, Named
  <2>2. KeysMeanOffers'
    <3>1. offer' = IF offer = None THEN None ELSE Offer(offer.service, offer.version, TRUE)
      BY <1>6 DEF Restart
    <3> QED
      BY <3>1 DEF KeysMeanOffers, Offer
  <2>3. ASSUME NEW t \in Slots PROVE ~Offered(request'[t])
    <3>1. CASE request[t].at \in Results
      <4>1. request'[t] = [request[t] EXCEPT !.old = (request[t].service # None)]
        BY <1>6, <3>1 DEF Restart
      <4>2. request[t] \in Requests /\ RequestOK(request[t])
        BY DEF TypeOK
      <4> QED
        BY <4>1, <4>2 DEF Requests, Offered, RequestOK
    <3>2. CASE request[t].at \notin Results
      BY <1>6, <3>2, AnswerAt, FreeFields DEF Restart, Offered, Results
    <3> QED
      BY <3>1, <3>2
  <2> QED
    BY <2>1, <2>2, <2>3 DEF KeyInv
<1>7. CASE UNCHANGED vars
  BY <1>7, KeyKept DEF vars, cacheVars, pageVars
<1> QED
  BY <1>1, <1>2, <1>3, <1>4, <1>5, <1>6, <1>7 DEF Next

LEMMA KeysInvariant == Spec => [](TypeOK /\ KeyInv)
  BY TypeInit, TypeNext, KeyInit, KeyNext, PTL DEF Spec

(* UrlCaches.cache: what a key on the page means never changes for another *)
(* interface while the tool runs, nor for another version unless somebody  *)
(* has looked that up.                                                     *)
THEOREM OfferedKeysMean == Spec => []KeysMeanOffers
<1>1. KeyInv => KeysMeanOffers
  BY DEF KeyInv
<1> QED
  BY <1>1, KeysInvariant, PTL

-----------------------------------------------------------------------------
(* The cases                                                               *)

Saving(r) == request[r].at = "saving"

CaseInv == /\ CaseIdsDiffer
           /\ \A i \in DOMAIN saved : saved[i] < counter
           /\ \A r \in Slots : Saving(r) => request[r].id < counter

LEMMA CaseKept ==
  ASSUME CaseInv, UNCHANGED <<saved, counter>>,
         \A r \in Slots : Saving(r)' => Saving(r) /\ request'[r].id = request[r].id
  PROVE  CaseInv'
  BY DEF CaseInv, CaseIdsDiffer, Saving

LEMMA CaseInit == Init => CaseInv
<1> SUFFICES ASSUME Init PROVE CaseInv
  OBVIOUS
<1>1. \A r \in Slots : ~Saving(r)
  BY FreeFields DEF Init, Saving
<1>2. DOMAIN saved = {}
  BY EmptySeq DEF Init
<1> QED
  BY <1>1, <1>2 DEF CaseInv, CaseIdsDiffer, Saving

LEMMA CaseNext == TypeOK /\ CaseInv /\ [Next]_vars => CaseInv'
<1> SUFFICES ASSUME TypeOK, CaseInv, [Next]_vars PROVE CaseInv'
  OBVIOUS
<1>1. CASE User
  BY <1>1, UserStep, CaseKept DEF serverVars, Saving
<1>2. ASSUME NEW r \in Slots, Page(r) PROVE CaseInv'
  BY <1>2, PageStep, FreeFields, CaseKept DEF serverVars, Saving, TypeOK
<1>3. ASSUME NEW r \in Slots,
             OpenClient(r) \/ KeepClient(r) \/ CloseClient(r) \/ ConnectBreaksOff(r)
      PROVE  CaseInv'
  <2>1. UNCHANGED <<saved, counter>>
    BY <1>3 DEF OpenClient, KeepClient, CloseClient, ConnectBreaksOff
  <2>2. ASSUME NEW t \in Slots, Saving(t)' PROVE Saving(t) /\ request'[t].id = request[t].id
    <3>1. CASE OpenClient(r) \/ KeepClient(r)
      <4>1. PICK at \in {"connecting", "connected"}, c \in Clients \union {None} :
              request' = [request EXCEPT ![r].at = at, ![r].client = c]
        BY <3>1 DEF OpenClient, KeepClient
      <4>2. request \in [Slots -> Requests]
        BY DEF TypeOK
      <4>3. CASE t = r
        <5>1. request'[r].at = at
          BY <4>1, <4>2 DEF Requests
        <5> QED
          BY <2>2, <4>3, <5>1 DEF Saving
      <4>4. CASE t # r
        BY <2>2, <4>1, <4>2, <4>4 DEF Saving
      <4> QED
        BY <4>3, <4>4
    <3>2. CASE CloseClient(r) \/ ConnectBreaksOff(r)
      BY <2>2, <3>2, AnswerAt DEF CloseClient, ConnectBreaksOff, Answers, Saving, TypeOK, Results
    <3> QED
      BY <1>3, <3>1, <3>2
  <2> QED
    BY <2>1, <2>2, CaseKept
<1>4. ASSUME NEW r \in Slots, Serves(r), ~NumberCase(r), ~PushCase(r) PROVE CaseInv'
  <2>1. UNCHANGED <<saved, counter>>
    BY <1>4 DEF Serves, ConnectThrows, FindNothing, ListInterfaces, ListProviders, ListMethods,
                ListNameless, SaveFails, serverVars
  <2> QED
    BY <1>4, <2>1, ServesStep, CaseKept DEF Saving
<1>5. ASSUME NEW r \in Slots, NumberCase(r) PROVE CaseInv'
  <2>1. /\ saved' = saved /\ counter' = counter + 1 /\ counter \in Nat
        /\ ~Saving(r) /\ Saving(r)' /\ request'[r].id = counter
        /\ \A t \in Slots : t # r => request'[t] = request[t]
    BY <1>5 DEF NumberCase, Saving, TypeOK, Requests
  <2>2. \A i \in DOMAIN saved : saved[i] \in Nat /\ saved[i] < counter
    BY DEF CaseInv, TypeOK
  <2>3. \A t \in Slots : request[t].id \in Nat /\ (Saving(t) => request[t].id < counter)
    BY DEF CaseInv, TypeOK, Requests
  <2> QED
    BY <2>1, <2>2, <2>3 DEF CaseInv, CaseIdsDiffer, Saving
<1>6. ASSUME NEW r \in Slots, PushCase(r) PROVE CaseInv'
  <2>1. /\ counter' = counter /\ Saving(r) /\ ~Saving(r)'
        /\ \A t \in Slots : t # r => request'[t] = request[t]
    BY <1>6, FreeFields DEF PushCase, Alerts, Answers, Saving, TypeOK
  <2>2. CASE saved' = saved
    BY <2>1, <2>2, CaseKept DEF Saving
  <2>3. CASE saved' = Append(saved, request[r].id)
    <3>1. saved \in Seq(Nat) /\ request[r].id \in Nat
      BY DEF TypeOK, Requests
    <3>2. /\ \A i \in DOMAIN saved' : i \in DOMAIN saved \/ i = Len(saved) + 1
          /\ \A i \in DOMAIN saved : saved'[i] = saved[i] /\ i # Len(saved) + 1
          /\ saved'[Len(saved) + 1] = request[r].id
      BY <2>3, <3>1, AppendProperties
    <3>3. /\ request[r].id < counter
          /\ \A i \in DOMAIN saved : saved[i] # request[r].id
          /\ \A q \in Slots : Saving(q) /\ request[q].id = request[r].id => q = r
      BY <2>1 DEF CaseInv, CaseIdsDiffer, Saving
    <3>4. \A i, j \in DOMAIN saved' : saved'[i] = saved'[j] => i = j
      BY <3>2, <3>3 DEF CaseInv, CaseIdsDiffer
    <3>5. ASSUME NEW q \in Slots, Saving(q)'
          PROVE  /\ \A i \in DOMAIN saved' : saved'[i] # request'[q].id
                 /\ request'[q].id < counter'
                 /\ \A p \in Slots : Saving(p)' /\ request'[p].id = request'[q].id => p = q
      <4>1. q # r /\ request'[q] = request[q] /\ Saving(q)
        BY <2>1, <3>5 DEF Saving
      <4> QED
        BY <2>1, <3>2, <3>3, <4>1 DEF CaseInv, CaseIdsDiffer, Saving
    <3>6. \A i \in DOMAIN saved' : saved'[i] < counter'
      BY <2>1, <3>2, <3>3 DEF CaseInv
    <3> QED
      BY <3>4, <3>5, <3>6 DEF CaseInv, CaseIdsDiffer, Saving
  <2> QED
    BY <1>6, <2>2, <2>3 DEF PushCase
<1>7. ASSUME NEW s \in Services, NEW v \in Versions, OtherLooksUp(s, v) PROVE CaseInv'
  BY <1>7, CaseKept DEF OtherLooksUp, Saving
<1>8. CASE Restart
  <2>1. DOMAIN saved' = {}
    BY <1>8, EmptySeq DEF Restart
  <2>2. ASSUME NEW r \in Slots PROVE ~Saving(r)'
    <3>1. CASE request[r].at \in Results
      <4>1. request'[r] = [request[r] EXCEPT !.old = (request[r].service # None)]
        BY <1>8, <3>1 DEF Restart
      <4>2. request[r] \in Requests
        BY DEF TypeOK
      <4> QED
        BY <3>1, <4>1, <4>2 DEF Requests, Results, Saving
    <3>2. CASE request[r].at \notin Results
      BY <1>8, <3>2, AnswerAt, FreeFields DEF Restart, Results, Saving
    <3> QED
      BY <3>1, <3>2
  <2> QED
    BY <2>1, <2>2 DEF CaseInv, CaseIdsDiffer, Saving
<1>9. CASE UNCHANGED vars
  BY <1>9, CaseKept DEF vars, Saving
<1> QED
  BY <1>1, <1>2, <1>3, <1>4, <1>5, <1>6, <1>7, <1>8, <1>9, ToolSplit DEF Next

(* CaseServiceImpl.save: the ids one process gives out all differ, in the  *)
(* list and on their way to it.                                            *)
THEOREM CaseIdsAreUnique == Spec => []CaseIdsDiffer
<1>1. CaseInv => CaseIdsDiffer
  BY DEF CaseInv
<1> QED
  BY <1>1, TypeInit, TypeNext, CaseInit, CaseNext, PTL DEF Spec

-----------------------------------------------------------------------------
(* The page                                                                *)

Provided == IF offer = None THEN None ELSE offer.service
Listed == IF methods = None \/ ~methods.own THEN None ELSE methods.of

Busy(r) == request[r].kind # "none"

(* What is under way while the user waits: nothing, one request, or the    *)
(* look-ups of one choice, each of which fits the page.                    *)
Calm ==
  /\ Agree(service, Provided) /\ Agree(service, Listed) /\ Agree(Provided, Listed)
  /\ \A r, q \in Slots : r # q /\ Busy(r) /\ Busy(q) => request[r].kind = "providers"
  /\ \A r \in Slots : request[r].kind = "providers" /\ request[r].at # "fail" =>
       request[r].service = service /\ methods = None
  /\ \A r \in Slots : request[r].kind = "methods" /\ request[r].at = "asked" =>
       /\ request[r].service = service
       /\ service = None => request[r].key \in {None, Provided}
  /\ \A r \in Slots : request[r].kind = "methods" /\ request[r].at \in Results /\ request[r].list.own =>
       Agree(service, request[r].list.of) /\ Agree(Provided, request[r].list.of)

PageInv == ~hurried => Calm

(* A step of the tool that gives no answer with something in it.           *)
LEMMA CalmKept ==
  ASSUME Calm, UNCHANGED <<service, methods, Provided>>,
         \A r \in Slots :
           \/ request'[r] = request[r]
           \/ request'[r].kind = "none"
           \/ /\ request'[r].kind = request[r].kind
              /\ \/ request'[r].kind \notin {"providers", "methods"}
                 \/ request'[r].kind = "providers" /\ request'[r].at = "fail"
                 \/ /\ request'[r].kind = "providers" /\ request[r].at # "fail"
                    /\ request'[r].service = request[r].service
  PROVE  Calm'
<1>1. Listed' = Listed
  BY DEF Listed
<1> QED
  BY <1>1 DEF Calm, Busy, Agree

LEMMA PageInit == Init => PageInv
<1> SUFFICES ASSUME Init PROVE PageInv
  OBVIOUS
<1>1. \A r \in Slots : request[r].kind = "none"
  BY FreeFields DEF Init
<1> QED
  BY <1>1 DEF Init, PageInv, Calm, Busy, Agree, Provided, Listed

LEMMA PageNext == TypeOK /\ Named /\ PageInv /\ [Next]_vars => PageInv'
<1> SUFFICES ASSUME TypeOK, Named, PageInv, [Next]_vars, ~hurried' PROVE Calm'
  BY DEF PageInv
<1>1. CASE User
  <2>1. ~hurried /\ ~Waiting
    BY <1>1, UserStep DEF TypeOK
  <2>2. \A r \in Slots : request[r] = Free
    BY <2>1 DEF Waiting, FreeSlots
  <2>3. Calm
    BY <2>1 DEF PageInv
  <2>4. ASSUME NEW r \in Slots, NEW q, request' = [request EXCEPT ![r] = q],
               UNCHANGED <<service, offer, methods>>,
               q.kind = "methods" => /\ q.at = "asked" /\ q.service = service
                                     /\ service = None => q.key \in {None, Provided},
               q.kind # "providers"
        PROVE  Calm'
    <3>1. request'[r] = q /\ \A t \in Slots : t # r => request'[t].kind = "none"
      BY <2>2, <2>4, FreeFields DEF TypeOK
    <3>2. /\ Provided' = Provided /\ Listed' = Listed
      BY <2>4 DEF Provided, Listed
    <3> QED
      BY <2>3, <2>4, <3>1, <3>2 DEF Calm, Busy, Results
  <2>5. ASSUME NEW r \in Slots, DoConnect(r) PROVE Calm'
    <3> DEFINE q == Request("connect", None, None, None)
    <3>1. request' = [request EXCEPT ![r] = q] /\ UNCHANGED <<service, offer, methods>>
      BY <2>5 DEF DoConnect, Sends
    <3>2. q.kind = "connect"
      BY DEF Request
    <3> HIDE DEF q
    <3> QED
      BY <2>4, <3>1, <3>2
  <2>6. ASSUME NEW r \in Slots, DoListMethods(r) PROVE Calm'
    <3>1. PICK key \in Keys : Sends(r, Request("methods", service, None, key))
      BY <2>6 DEF DoListMethods
    <3> DEFINE q == Request("methods", service, None, key)
    <3>2. request' = [request EXCEPT ![r] = q] /\ UNCHANGED <<service, offer, methods>>
      BY <2>6, <3>1 DEF DoListMethods, Sends
    <3>3. /\ q.kind = "methods" /\ q.at = "asked" /\ q.service = service /\ q.key = key
          /\ key \in {None, Provided}
      BY DEF Request, Keys, Provided
    <3> HIDE DEF q
    <3> QED
      BY <2>4, <3>2, <3>3
  <2>7. ASSUME NEW r \in Slots, DoSave(r) PROVE Calm'
    <3> DEFINE q == Request("save", None, None, offer.service)
    <3>1. request' = [request EXCEPT ![r] = q] /\ UNCHANGED <<service, offer, methods>>
      BY <2>7 DEF DoSave, Sends
    <3>2. q.kind = "save"
      BY DEF Request
    <3> HIDE DEF q
    <3> QED
      BY <2>4, <3>1, <3>2
  <2>8. ASSUME NEW s \in Services, NEW v \in Versions, ChooseService(s, v) PROVE Calm'
    <3> DEFINE q == Request("providers", s, v, None)
    <3>1. \A t \in Slots : request'[t] = q \/ request'[t] = Free
      BY <2>2, <2>8 DEF ChooseService, doListProviders
    <3>2. q.kind = "providers" /\ q.service = s
      BY DEF Request
    <3>3. service' = s /\ offer' = None /\ methods' = None
      BY <2>8 DEF ChooseService
    <3>4. Provided' = None /\ Listed' = None
      BY <3>3 DEF Provided, Listed
    <3> HIDE DEF q
    <3>5. \A t \in Slots : request'[t].kind = "none" \/ (request'[t].kind = "providers"
                                                          /\ request'[t].service = s)
      BY <3>1, <3>2, FreeFields
    <3> QED
      BY <3>3, <3>4, <3>5 DEF Calm, Busy, Agree
  <2> QED
    BY <1>1, <2>5, <2>6, <2>7, <2>8 DEF User
<1>2. ASSUME NEW r \in Slots, Page(r) PROVE Calm'
  <2>1. Calm
    BY <1>2, PageStep DEF PageInv
  <2>2. /\ request[r].at \in Results
        /\ request'[r].kind = "none" /\ \A t \in Slots : t # r => request'[t] = request[t]
    BY <1>2, PageStep, FreeFields DEF TypeOK
  <2>3. CASE ShowInterfaces(r)
    <3>1. service' = None /\ Provided' = Provided /\ Listed' = Listed
      BY <2>3 DEF ShowInterfaces, Provided, Listed
    <3>2. \A t \in Slots : request'[t].kind = "none"
      BY <2>1, <2>2, <2>3 DEF ShowInterfaces, Shows, Calm, Busy
    <3> QED
      BY <2>1, <3>1, <3>2 DEF Calm, Busy, Agree
  <2>4. CASE ShowProviders(r)
    <3>1. /\ request[r].kind = "providers" /\ UNCHANGED <<service, methods>>
          /\ \A t \in Slots : request'[t].kind \in {"none", "providers"}
      BY <2>1, <2>2, <2>4 DEF ShowProviders, Shows, Calm, Busy
    <3>2. Listed' = Listed
      BY <3>1 DEF Listed
    <3>3. /\ Agree(service', Provided') /\ Agree(Provided', Listed')
      <4>1. CASE request[r].at = "ok"
        <5>1. offer' = Offer(request[r].service, request[r].version, request[r].old)
          BY <2>4, <4>1 DEF ShowProviders
        <5>2. Provided' \in {None, request[r].service}
          BY <5>1 DEF Provided, Offer
        <5>3. request[r].service = service /\ methods = None
          BY <2>1, <3>1, <4>1 DEF Calm
        <5> QED
          BY <3>1, <3>2, <5>2, <5>3 DEF Agree, Listed
      <4>2. CASE request[r].at # "ok"
        BY <2>4, <4>2 DEF ShowProviders, Provided, Agree
      <4> QED
        BY <4>1, <4>2
    <3> QED
      BY <2>1, <2>2, <3>1, <3>2, <3>3 DEF Calm, Busy, Agree
  <2>5. CASE ShowMethods(r)
    <3>1. /\ request[r].kind = "methods" /\ UNCHANGED <<service, offer>>
          /\ methods' = request[r].list
          /\ \A t \in Slots : request'[t].kind = "none"
      BY <2>1, <2>2, <2>5 DEF ShowMethods, Shows, Calm, Busy
    <3>2. Provided' = Provided
      BY <3>1 DEF Provided
    <3>3. Agree(service', Listed') /\ Agree(Provided', Listed')
      BY <2>1, <2>2, <3>1, <3>2 DEF Calm, Listed, Agree
    <3> QED
      BY <2>1, <3>1, <3>2, <3>3 DEF Calm, Busy, Agree
  <2> QED
    BY <1>2, <2>3, <2>4, <2>5 DEF Page
<1>3. ASSUME NEW r \in Slots, Tool(r), ~ListMethods(r), ~ListNameless(r) PROVE Calm'
  <2>1. UNCHANGED pageVars
    BY <1>3 DEF Tool, ConnectThrows, OpenClient, KeepClient, CloseClient, FindNothing, ListInterfaces,
                ListProviders, NumberCase, SaveFails, PushCase, ConnectBreaksOff
  <2>2. Calm /\ UNCHANGED <<service, methods, Provided>>
    BY <2>1 DEF pageVars, PageInv, Provided
  <2>3. \A t \in Slots : t # r => request'[t] = request[t]
    <3>1. OpenClient(r) \/ KeepClient(r) \/ CloseClient(r) \/ ConnectBreaksOff(r) =>
            \A t \in Slots : t # r => request'[t] = request[t]
      BY DEF OpenClient, KeepClient, CloseClient, ConnectBreaksOff, Answers, TypeOK
    <3> QED
      BY <1>3, <3>1, ServesStep, ToolSplit
  <2>4. \/ request'[r].kind = "none"
        \/ /\ request'[r].kind = request[r].kind
           /\ \/ request'[r].kind \notin {"providers", "methods"}
              \/ request'[r].kind = "providers" /\ request'[r].at = "fail"
              \/ /\ request'[r].kind = "providers" /\ request[r].at # "fail"
                 /\ request'[r].service = request[r].service
    <3>1. CASE OpenClient(r) \/ KeepClient(r)
      <4>1. request[r] \in Requests /\ RequestOK(request[r])
        BY DEF TypeOK
      <4> QED
        BY <3>1, <4>1 DEF OpenClient, KeepClient, NeedsHandler, TypeOK, Requests, RequestOK
    <3>2. CASE \/ ConnectThrows(r) \/ CloseClient(r) \/ ConnectBreaksOff(r)
               \/ FindNothing(r) \/ ListInterfaces(r)
      <4>1. PICK at \in Results : /\ request' = [request EXCEPT ![r] = Answer(r, at)]
                                  /\ request[r].kind = "providers" => at = "fail"
                                  /\ request[r].kind \in {"connect", "providers"}
        BY <3>2 DEF ConnectThrows, CloseClient, ConnectBreaksOff, FindNothing, ListInterfaces,
                    HasHandler, NeedsHandler, Answers, Results, TypeOK, RequestOK
      <4>2. request'[r].kind = request[r].kind /\ request'[r].at = at
        BY <4>1, AnswerFields DEF TypeOK
      <4> QED
        BY <4>1, <4>2
    <3>3. CASE ListProviders(r)
      <4> DEFINE s == request[r].service
                 v == request[r].version
                 q == [Answer(r, "ok") EXCEPT !.service = s, !.version = v]
      <4>1. request[r].kind = "providers" /\ request[r].at # "fail" /\ request'[r] = q
        BY <3>3 DEF ListProviders, HasHandler, Answers, TypeOK
      <4>2. q.kind = "providers" /\ q.service = s
        BY <4>1, FreeFields DEF Answer, Requests
      <4> HIDE DEF q
      <4> QED
        BY <4>1, <4>2
    <3>4. CASE NumberCase(r)
      BY <3>4 DEF NumberCase, TypeOK, Requests
    <3>5. CASE SaveFails(r) \/ PushCase(r)
      BY <3>5, FreeFields DEF SaveFails, PushCase, Alerts, Answers, TypeOK
    <3> QED
      BY <1>3, <3>1, <3>2, <3>3, <3>4, <3>5 DEF Tool
  <2> QED
    BY <2>2, <2>3, <2>4, CalmKept
<1>4. ASSUME NEW r \in Slots, ListMethods(r) \/ ListNameless(r) PROVE Calm'
  <2>1. /\ request[r].kind = "methods" /\ request[r].at = "asked"
        /\ UNCHANGED <<pageVars, urls>>
    BY <1>4 DEF ListMethods, ListNameless, serverVars, cacheVars
  <2>2. Calm /\ UNCHANGED <<service, methods, Provided>>
    BY <2>1 DEF pageVars, PageInv, Provided
  <2>3. CASE Alerts(r)
    BY <2>2, <2>3, FreeFields, CalmKept DEF Alerts, Answers, TypeOK
  <2>4. ASSUME NEW list, Brings(r, list),
               list.own => Agree(service, list.of) /\ Agree(Provided, list.of)
        PROVE  Calm'
    <3> DEFINE q == [Answer(r, "ok") EXCEPT !.list = list]
    <3>1. q.kind = "methods" /\ q.list = list
      BY <2>1, FreeFields DEF Answer, Requests
    <3>2. request'[r] = q /\ \A t \in Slots : t # r => request'[t].kind = "none"
      <4>1. \A t \in Slots : t # r => request'[t] = request[t]
        BY <2>4 DEF Brings, Answers, TypeOK
      <4>2. \A t \in Slots : t # r => request[t].kind = "none"
        BY <2>1, <2>2 DEF Calm, Busy
      <4> QED
        BY <2>4, <4>1, <4>2 DEF Brings, Answers, TypeOK
    <3>3. q.at = "ok"
      BY AnswerAt
    <3> HIDE DEF q
    <3>4. Listed' = Listed
      BY <2>2 DEF Listed
    <3> QED
      BY <2>2, <2>4, <3>1, <3>2, <3>3, <3>4 DEF Calm, Busy
  <2>5. CASE ListMethods(r) /\ ~Alerts(r)
    <3> DEFINE list == Methods(request[r].service, TRUE)
    <3>1. Brings(r, list) /\ list.of = service /\ service # None
      BY <2>1, <2>2, <2>5 DEF ListMethods, Methods, Calm
    <3>2. Agree(service, list.of) /\ Agree(Provided, list.of)
      BY <2>2, <3>1 DEF Calm, Agree
    <3> HIDE DEF list
    <3> QED
      BY <2>4, <3>1, <3>2
  <2>6. CASE ListNameless(r) /\ ~Alerts(r)
    <3>1. service = None /\ request[r].key \in {None, Provided}
      BY <2>1, <2>2, <2>6 DEF ListNameless, Calm
    <3>2. CASE Interface(request[r].key) # None /\ Brings(r, Methods(Interface(request[r].key), TRUE))
      <4> DEFINE list == Methods(Interface(request[r].key), TRUE)
      <4>1. list.of = request[r].key /\ request[r].key = Provided
        <5>1. request[r].key \in Services
          BY <3>2 DEF Interface, TypeOK, Requests
        <5> QED
          BY <3>1, <3>2, <5>1 DEF Interface, Named, Methods
      <4>2. Agree(service, list.of) /\ Agree(Provided, list.of)
        BY <3>1, <4>1 DEF Agree
      <4> HIDE DEF list
      <4>3. Brings(r, list)
        BY <3>2 DEF list
      <4> QED
        BY <2>4, <4>2, <4>3
    <3>3. ASSUME NEW s \in Services, Brings(r, Methods(s, s = request[r].key)) PROVE Calm'
      <4> DEFINE list == Methods(s, s = request[r].key)
      <4>1. list.of = s /\ (list.own => s = request[r].key)
        BY DEF Methods
      <4>2. list.own => Agree(service, list.of) /\ Agree(Provided, list.of)
        BY <3>1, <4>1 DEF Agree
      <4>3. Brings(r, list)
        BY <3>3
      <4> HIDE DEF list
      <4> QED
        BY <2>4, <4>2, <4>3
    <3> QED
      BY <2>6, <3>2, <3>3 DEF ListNameless
  <2> QED
    BY <1>4, <2>3, <2>5, <2>6
<1>5. ASSUME NEW s \in Services, NEW v \in Versions, OtherLooksUp(s, v) PROVE Calm'
  <2>1. UNCHANGED <<pageVars, request>>
    BY <1>5 DEF OtherLooksUp
  <2> QED
    BY <2>1, CalmKept DEF pageVars, PageInv, Provided
<1>6. CASE Restart
  <2>1. Calm /\ UNCHANGED <<service, methods>>
    BY <1>6 DEF Restart, PageInv
  <2>2. Provided' \in {None, Provided}
    BY <1>6 DEF Restart, Provided, Offer
  <2>3. Listed' = Listed
    BY <2>1 DEF Listed
  <2>4. ASSUME NEW r \in Slots
        PROVE  \/ request'[r].kind = "none"
               \/ request'[r].kind = "providers" /\ request'[r].at = "fail" /\ request[r].kind = "providers"
               \/ /\ request[r].at \in Results /\ request'[r].at = request[r].at
                  /\ request'[r].kind = request[r].kind /\ request'[r].service = request[r].service
                  /\ request'[r].list = request[r].list
    <3>1. CASE request[r].at \in Results
      <4>1. request'[r] = [request[r] EXCEPT !.old = (request[r].service # None)]
        BY <1>6, <3>1 DEF Restart
      <4>2. request[r] \in Requests
        BY DEF TypeOK
      <4> QED
        BY <3>1, <4>1, <4>2 DEF Requests
    <3>2. CASE request[r].at \notin Results
      BY <1>6, <3>2, AnswerFields, FreeFields DEF Restart, Results, TypeOK
    <3> QED
      BY <3>1, <3>2
  <2> QED
    BY <2>1, <2>2, <2>3, <2>4 DEF Calm, Busy, Results, Agree
<1>7. CASE UNCHANGED vars
  BY <1>7, CalmKept DEF vars, pageVars, PageInv, Provided
<1> QED
  BY <1>1, <1>2, <1>3, <1>4, <1>5, <1>6, <1>7 DEF Next

(* normalCnt.html: for a user who waits for the answers, the providers and *)
(* the methods on the page are those of one interface.                     *)
THEOREM PageIsCoherent == Spec => []PageCoherent
<1>1. TypeOK /\ PageInv => PageCoherent
  BY DEF PageInv, Calm, PageCoherent, Provided, Listed
<1>2. KeyInv => Named
  BY DEF KeyInv
<1> QED
  BY <1>1, <1>2, KeysInvariant, PageInit, PageNext, PTL DEF Spec

=============================================================================
