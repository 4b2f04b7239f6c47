----------------------------- MODULE Workbench -----------------------------
(***************************************************************************)
(* One page of the workbench, normalCnt.html, with its requests to the     *)
(* tool: connect to ZooKeeper, list the providers of an interface, list    *)
(* its methods, save a call as a test case; and what CuratorCaches,        *)
(* UrlCaches, the lists cached in redis and CaseServiceImpl do for them.   *)
(* Each request is a thread of its own, in the browser and in the tool,    *)
(* and the answers reach the page in any order.  Other users look          *)
(* providers up in the same caches.                                        *)
(*                                                                         *)
(* Which methods an interface has, and what their keys lead to, is the     *)
(* subject of ClassCache; here a list of methods is its interface.         *)
(***************************************************************************)
EXTENDS ProviderCache

CONSTANTS
  Slots,     \* bounds the requests under way
  MaxBound,  \* bounds the connects, each of which binds a handler
  MaxCases   \* bounds the ids of cases

ASSUME BoundsAssumption == /\ IsFiniteSet(Slots)
                           /\ MaxBound \in Nat
                           /\ MaxCases \in Nat

VARIABLES
  bound,     \* how often `change` of the interfaces is bound
  choices,   \* does cboInterfaces hold the interfaces
  service,   \* the one chosen there, None for the blank one
  offer,     \* what cboProviders shows: the answer to which look-up
  methods,   \* what txtMethods shows
  hurried,   \* history: has the user acted before all answers were there
  request,   \* the requests under way
  raced,     \* history: since the start, have two threads connected at once
  lost,      \* history: the clients dropped by an exception while connecting
  mixed,     \* history: the services looked up in several versions since
  counter,   \* CaseServiceImpl.counter
  saved      \* the ids that this process has pushed to DUBBO_CASE_KEY

pageVars == <<bound, choices, service, offer, methods, hurried>>
vars == <<cacheVars, pageVars, request, raced, lost, mixed, counter, saved>>

(* A look-up whose providers the page holds.  old: the tool that answered  *)
(* it is gone.                                                             *)
Offer(s, v, old) == [service |-> s, version |-> v, old |-> old]

(* A list of methods.  own: it is that of the interface asked for.         *)
Methods(s, b) == [of |-> s, own |-> b]

(* A request, and where it is.  It is free again when its answer has been  *)
(* shown, or when all that is left for it to do is to open an alert.  key  *)
(* is the provider's key it carries, list the list of methods it brings.   *)
Request(kind, s, v, key) ==
  [kind |-> kind, service |-> s, version |-> v, key |-> key,
   at |-> "asked", client |-> None, id |-> 0, list |-> None, old |-> FALSE]
Free == [Request("none", None, None, None) EXCEPT !.at = "free"]

Results == {"ok", "fail"}

FreeSlots == {r \in Slots : request[r] = Free}
Waiting == FreeSlots # Slots

Init == /\ CacheInit
        /\ bound = 0
        /\ choices = FALSE
        /\ service = None
        /\ offer = None
        /\ methods = None
        /\ hurried = FALSE
        /\ request = [r \in Slots |-> Free]
        /\ raced = FALSE
        /\ lost = {}
        /\ mixed = {}
        /\ counter = 0
        /\ saved = <<>>

-----------------------------------------------------------------------------
(* The user                                                                *)

Acts == hurried' = (hurried \/ Waiting)

Sends(r, q) == /\ request[r] = Free
               /\ request' = [request EXCEPT ![r] = q]

serverVars == <<cacheVars, raced, lost, mixed, counter, saved>>

(* The button "connect" binds `change` once more each time.                *)
DoConnect(r) == /\ bound < MaxBound
                /\ bound' = bound + 1
                /\ Acts
                /\ Sends(r, Request("connect", None, None, None))
                /\ UNCHANGED <<choices, service, offer, methods, serverVars>>

(* As many requests as handlers are bound.                                 *)
doListProviders(s, v) ==
  \E R \in SUBSET FreeSlots :
    /\ Cardinality(R) = bound
    /\ request' = [r \in Slots |-> IF r \in R THEN Request("providers", s, v, None)
                                              ELSE request[r]]

(* Mutant of ChooseService: the handler does not call doReset.             *)
ChooseOnly(s, v) == /\ choices
                    /\ service' = s
                    /\ Acts
                    /\ doListProviders(s, v)
                    /\ UNCHANGED <<bound, choices, offer, methods, serverVars>>

(* Another option of the list is selected: `change`, with doReset.  Every  *)
(* interface has two options.                                              *)
ChooseService(s, v) == /\ choices
                       /\ service' = s
                       /\ offer' = None
                       /\ methods' = None
                       /\ Acts
                       /\ doListProviders(s, v)
                       /\ UNCHANGED <<bound, choices, serverVars>>

(* The provider's key matters only if no interface is chosen.              *)
Keys == IF offer = None \/ service # None THEN {None} ELSE {None, offer.service}

DoListMethods(r) == /\ \E key \in Keys : Sends(r, Request("methods", service, None, key))
                    /\ Acts
                    /\ UNCHANGED <<bound, choices, service, offer, methods, serverVars>>

RoomForCase ==
  counter + Cardinality({q \in Slots : request[q].kind = "save" /\ request[q].at = "asked"})
    < MaxCases

(* Mutant of DoSave: the provider's key is not looked at.                  *)
SaveUnchecked(r) ==
  /\ methods # None
  /\ RoomForCase
  /\ Sends(r, Request("save", None, None, IF offer = None THEN None ELSE offer.service))
  /\ Acts
  /\ UNCHANGED <<bound, choices, service, offer, methods, serverVars>>

(* doSave with a provider and a method chosen; without, nothing is saved.  *)
DoSave(r) == /\ offer # None
             /\ methods # None
             /\ RoomForCase
             /\ Sends(r, Request("save", None, None, offer.service))
             /\ Acts
             /\ UNCHANGED <<bound, choices, service, offer, methods, serverVars>>

-----------------------------------------------------------------------------
(* The tool                                                                *)

(* An answer carries what the page needs of it.  If a list of methods or a *)
(* save fails, or a save succeeds, the page only opens an alert.           *)
Answers(r, a) == request' = [request EXCEPT ![r] = a]
Answer(r, at) == [Free EXCEPT !.kind = request[r].kind, !.at = at]
Brings(r, list) == Answers(r, [Answer(r, "ok") EXCEPT !.list = list])
Alerts(r) == Answers(r, Free)

NeedsHandler(r) == request[r].kind \in {"connect", "providers"}

(* The address cannot be read, or doConnect throws before it is connected. *)
ConnectThrows(r) == /\ NeedsHandler(r)
                    /\ request[r].at = "asked"
                    /\ handler = None
                    /\ Answers(r, Answer(r, "fail"))
                    /\ UNCHANGED <<pageVars, serverVars>>

(* CuratorCaches.getHandler finds none, and connects.                      *)
OpenClient(r) == /\ NeedsHandler(r)
                 /\ request[r].at = "asked"
                 /\ handler = None
                 /\ \E c \in Clients :
                      /\ doConnect(c)
                      /\ request' = [request EXCEPT ![r].at = "connecting", ![r].client = c]
                 /\ raced' = (raced \/ \E q \in Slots : request[q].at = "connecting")
                 /\ UNCHANGED <<pageVars, lost, mixed, counter, saved>>

KeepClient(r) == /\ request[r].at = "connecting"
                 /\ putIfAbsent(request[r].client)
                 /\ request' = [request EXCEPT ![r].at = "connected", ![r].client = None]
                 /\ UNCHANGED <<pageVars, raced, lost, mixed, counter, saved>>

(* Not available after the second: whatever is asked of it throws.         *)
CloseClient(r) == /\ request[r].at = "connecting"
                  /\ close(request[r].client)
                  /\ Answers(r, Answer(r, "fail"))
                  /\ UNCHANGED <<pageVars, raced, lost, mixed, counter, saved>>

(* An exception once the client is connected, from the rest of doConnect   *)
(* or the second after it, is caught, and nobody closes the client.        *)
ConnectBreaksOff(r) == /\ request[r].at = "connecting"
                       /\ lost' = lost \union {request[r].client}
                       /\ Answers(r, Answer(r, "fail"))
                       /\ UNCHANGED <<pageVars, cacheVars, raced, mixed, counter, saved>>

HasHandler(r) == /\ NeedsHandler(r)
                 /\ \/ request[r].at = "connected"
                    \/ request[r].at = "asked" /\ handler # None

(* There are no interfaces or providers, or ZooKeeper cannot be asked.     *)
FindNothing(r) == /\ HasHandler(r)
                  /\ Answers(r, Answer(r, "fail"))
                  /\ UNCHANGED <<pageVars, serverVars>>

ListInterfaces(r) == /\ HasHandler(r)
                     /\ request[r].kind = "connect"
                     /\ Answers(r, Answer(r, "ok"))
                     /\ UNCHANGED <<pageVars, serverVars>>

(* CuratorHandler.getProviders: the look-up returns URLs of the version    *)
(* that is asked for, and UrlCaches.cache puts them.                       *)
ListProviders(r) ==
  LET s == request[r].service
      v == request[r].version
  IN  /\ HasHandler(r)
      /\ request[r].kind = "providers"
      /\ cache(s, v)
      /\ mixed' = IF urls[s] \in {None, Url(s, v)} THEN mixed ELSE mixed \union {s}
      /\ Answers(r, [Answer(r, "ok") EXCEPT !.service = s, !.version = v])
      /\ UNCHANGED <<pageVars, raced, lost, counter, saved>>

(* Another user's look-up, when there is a handler.                        *)
OtherLooksUp(s, v) ==
  /\ handler # None
  /\ cache(s, v)
  /\ mixed' = IF urls[s] \in {None, Url(s, v)} THEN mixed ELSE mixed \union {s}
  /\ UNCHANGED <<pageVars, request, raced, lost, counter, saved>>

(* ClassServiceImpl.listMethods under the name of an interface.            *)
ListMethods(r) == /\ request[r].kind = "methods"
                  /\ request[r].at = "asked"
                  /\ request[r].service # None
                  /\ Alerts(r) \/ Brings(r, Methods(request[r].service, TRUE))
                  /\ UNCHANGED <<pageVars, serverVars>>

Interface(key) == IF key = None \/ urls[key] = None THEN None ELSE urls[key].of

(* Without a name the list is cached under the empty name, for everybody:  *)
(* it is that of the provider's interface, or of the one that another user *)
(* asked for in this way within the last minute.                           *)
ListNameless(r) == /\ request[r].kind = "methods"
                   /\ request[r].at = "asked"
                   /\ request[r].service = None
                   /\ \/ Alerts(r)
                      \/ /\ Interface(request[r].key) # None
                         /\ Brings(r, Methods(Interface(request[r].key), TRUE))
                      \/ \E s \in Services : Brings(r, Methods(s, s = request[r].key))
                   /\ UNCHANGED <<pageVars, serverVars>>

(* Mutant of NumberCase: the id is the length of the list.                 *)
NumberByLength(r) == /\ request[r].kind = "save"
                     /\ request[r].at = "asked"
                     /\ urls[request[r].key] # None
                     /\ request' = [request EXCEPT ![r].at = "saving", ![r].id = Len(saved)]
                     /\ counter' = counter + 1
                     /\ UNCHANGED <<pageVars, cacheVars, raced, lost, mixed, saved>>

(* CaseServiceImpl.save: the provider's key is resolved, the id taken.     *)
NumberCase(r) == /\ request[r].kind = "save"
                 /\ request[r].at = "asked"
                 /\ urls[request[r].key] # None
                 /\ request' = [request EXCEPT ![r].at = "saving", ![r].id = counter]
                 /\ counter' = counter + 1
                 /\ UNCHANGED <<pageVars, cacheVars, raced, lost, mixed, saved>>

(* One of the keys leads nowhere: a NullPointerException.                  *)
SaveFails(r) == /\ request[r].kind = "save"
                /\ request[r].at = "asked"
                /\ Alerts(r)
                /\ UNCHANGED <<pageVars, serverVars>>

(* rPush returns 0 if redis fails, and save does not look at it.           *)
PushCase(r) == /\ request[r].at = "saving"
               /\ saved' \in {saved, Append(saved, request[r].id)}
               /\ Alerts(r)
               /\ UNCHANGED <<pageVars, cacheVars, raced, lost, mixed, counter>>

(* The tool stops and starts: requests under way break off, an answer that *)
(* is on its way stays, and so does the page.  redis keeps what was saved, *)
(* whose ids come again.                                                   *)
Restart ==
  /\ handler' = None
  /\ open' = {}
  /\ urls' = [s \in Services |-> None]
  /\ raced' = FALSE
  /\ lost' = {}
  /\ mixed' = {}
  /\ counter' = 0
  /\ saved' = <<>>
  /\ offer' = IF offer = None THEN None ELSE Offer(offer.service, offer.version, TRUE)
  /\ request' = [r \in Slots |->
       CASE request[r].at \in Results -> [request[r] EXCEPT !.old = (request[r].service # None)]
         [] request[r].kind = "providers" /\ request[r].at \notin Results -> Answer(r, "fail")
         [] OTHER -> Free]
  /\ UNCHANGED <<bound, choices, service, methods, hurried>>

-----------------------------------------------------------------------------
(* The answer at the page                                                  *)

Shows(r, kind) == /\ request[r].at \in Results
                  /\ request[r].kind = kind
                  /\ request' = [request EXCEPT ![r] = Free]

(* The list is filled anew, or emptied: nothing is chosen, and no `change` *)
(* is triggered.                                                           *)
ShowInterfaces(r) == /\ Shows(r, "connect")
                     /\ choices' = (request[r].at = "ok")
                     /\ service' = None
                     /\ UNCHANGED <<bound, offer, methods, hurried, serverVars>>

ShowProviders(r) ==
  /\ Shows(r, "providers")
  /\ offer' = IF request[r].at = "ok"
              THEN Offer(request[r].service, request[r].version, request[r].old)
              ELSE None
  /\ UNCHANGED <<bound, choices, service, methods, hurried, serverVars>>

ShowMethods(r) == /\ Shows(r, "methods")
                  /\ methods' = request[r].list
                  /\ UNCHANGED <<bound, choices, service, offer, hurried, serverVars>>

-----------------------------------------------------------------------------
User == \/ \E r \in Slots : DoConnect(r) \/ DoListMethods(r) \/ DoSave(r)
        \/ \E s \in Services, v \in Versions : ChooseService(s, v)

Tool(r) == \/ ConnectThrows(r) \/ OpenClient(r)
           \/ KeepClient(r)  \/ CloseClient(r)   \/ ConnectBreaksOff(r)
           \/ FindNothing(r) \/ ListInterfaces(r) \/ ListProviders(r)
           \/ ListMethods(r) \/ ListNameless(r)
           \/ NumberCase(r)  \/ SaveFails(r)      \/ PushCase(r)

Page(r) == ShowInterfaces(r) \/ ShowProviders(r) \/ ShowMethods(r)

Next == \/ User
        \/ \E r \in Slots : Tool(r) \/ Page(r)
        \/ \E s \in Services, v \in Versions : OtherLooksUp(s, v)
        \/ Restart

Spec == Init /\ [][Next]_vars
-----------------------------------------------------------------------------
(***************************************************************************)
(* Properties                                                              *)
(***************************************************************************)
Lists == [of : Services, own : BOOLEAN]
Offers == [service : Services, version : Versions, old : BOOLEAN]

Requests == [kind    : {"none", "connect", "providers", "methods", "save"},
             service : Services \union {None},
             version : Versions \union {None},
             key     : Services \union {None},
             at      : {"free", "asked", "connecting", "connected", "saving"} \union Results,
             client  : Clients \union {None},
             id      : Nat,
             list    : Lists \union {None},
             old     : BOOLEAN]

(* What is where in a request: a client while it connects, an interface    *)
(* and a version for a look-up, a list in an answer.                       *)
RequestOK(q) ==
  /\ q.at = "connecting" => q.client \in Clients /\ q.kind \in {"connect", "providers"}
  /\ q.at = "connected" => q.kind \in {"connect", "providers"}
  /\ q.at = "saving" => q.kind = "save"
  /\ q.kind = "save" => q.key \in Services
  /\ q.kind = "providers" /\ q.at # "fail" => q.service \in Services /\ q.version \in Versions
  /\ q.kind = "methods" /\ q.at \in Results => q.list \in Lists

(* The state has its type.                                                 *)
TypeOK == /\ CacheTypeOK
          /\ bound \in Nat
          /\ choices \in BOOLEAN
          /\ service \in Services \union {None}
          /\ offer \in Offers \union {None}
          /\ methods \in Lists \union {None}
          /\ hurried \in BOOLEAN
          /\ request \in [Slots -> Requests]
          /\ \A r \in Slots : RequestOK(request[r])
          /\ raced \in BOOLEAN
          /\ lost \subseteq Clients
          /\ mixed \subseteq Services
          /\ counter \in Nat
          /\ saved \in Seq(Nat)

(* What the page shows belongs together: providers and methods are those   *)
(* of the interface that is chosen, or of one interface if connecting has  *)
(* left none chosen, so that what is sent and saved is a method of the     *)
(* interface on a provider of it.  This is for a user who waits for every  *)
(* answer, though `change` may be bound twice, the tool restart and other  *)
(* users be at work, and for a list of methods that was not taken from     *)
(* under the empty name.                                                   *)
Agree(s, t) == s = None \/ t = None \/ s = t

PageCoherent ==
  ~hurried =>
    LET provided == IF offer = None THEN None ELSE offer.service
        listed == IF methods = None \/ ~methods.own THEN None ELSE methods.of
    IN  Agree(service, provided) /\ Agree(service, listed) /\ Agree(provided, listed)

(* The key of a provider that the page was given by this process leads to  *)
(* a URL of its interface as long as the process lives; and to the version *)
(* the user asked for, unless somebody has looked up another one since the *)
(* start, as the key leaves the version out.                               *)
KeyMeans(s, v) == /\ urls[s] # None
                  /\ urls[s].of = s
                  /\ s \notin mixed => urls[s].version = v

KeysMeanOffers == offer # None /\ ~offer.old => KeyMeans(offer.service, offer.version)

Connecting == {r \in Slots : request[r].at = "connecting"}

(* A client of ZooKeeper is connected only for a thread that waits for it  *)
(* or because it is the one that is kept.  getHandler leaks one in two     *)
(* ways: when two threads have connected at once since the start, and when *)
(* an exception ends a connect whose client is open already, as the catch  *)
(* closes nothing.  A client that is not available is not leaked.          *)
ClientsUsed ==
  ~raced => \A c \in open \ lost :
              c = handler \/ \E r \in Connecting : request[r].client = c

(* The client that is kept is connected, and no thread that closes its own *)
(* can have it in its hands.                                               *)
HandlerOpen == handler # None => /\ handler \in open
                                 /\ \A r \in Connecting : request[r].client # handler

(* The cases saved by one process, and those it is about to add, have      *)
(* different ids, whatever order they reach the list in.                   *)
CaseIdsDiffer ==
  /\ \A i, j \in DOMAIN saved : saved[i] = saved[j] => i = j
  /\ \A r \in Slots : request[r].at = "saving" =>
       /\ \A i \in DOMAIN saved : saved[i] # request[r].id
       /\ \A q \in Slots : request[q].at = "saving" /\ request[q].id = request[r].id => q = r

=============================================================================
