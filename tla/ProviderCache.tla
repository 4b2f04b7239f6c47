--------------------------- MODULE ProviderCache ---------------------------
(***************************************************************************)
(* What the process knows of one ZooKeeper address and of the providers    *)
(* registered there: CuratorCaches.map, the handler kept for the address,  *)
(* with the clients that are connected to it; and UrlCaches.map, the URLs  *)
(* of the providers that were looked up.                                   *)
(*                                                                         *)
(* This module holds the two maps and their operations; Workbench, whose   *)
(* requests use them, extends it.  All providers share one host and port,  *)
(* so that a key of UrlCaches, "interface#host#port#", is its interface: a *)
(* URL's version and group are not part of it.  A group is a version here. *)
(***************************************************************************)
EXTENDS Naturals, Sequences, FiniteSets

CONSTANTS
  Clients,   \* the ZooKeeper clients that may be connected at a time
  Services,  \* interfaces
  Versions,  \* and their versions
  None       \* no entry of a map, no choice, no client

ASSUME NoneAssumption == None \notin Clients /\ None \notin Services

VARIABLES
  handler,   \* CuratorCaches.map: the client kept for the address
  open,      \* the clients that have been connected and not closed
  urls       \* UrlCaches.map

cacheVars == <<handler, open, urls>>

Url(s, v) == [of |-> s, version |-> v]
Urls == [of : Services, version : Versions]

ASSUME UrlAssumption == None \notin Urls

CacheInit == /\ handler = None
             /\ open = {}
             /\ urls = [s \in Services |-> None]

(* A new CuratorHandler, and its doConnect.                                *)
doConnect(c) == /\ c \notin open
                /\ open' = open \union {c}
                /\ UNCHANGED <<handler, urls>>

(* Mutant of putIfAbsent: close in a `finally`.                            *)
putAndClose(c) == /\ handler' = IF handler = None THEN c ELSE handler
                  /\ open' = open \ {c}
                  /\ UNCHANGED urls

(* A second later the client is available.  If another thread has put its  *)
(* handler meanwhile, this one is used for the one request, and stays open.*)
putIfAbsent(c) == /\ handler' = IF handler = None THEN c ELSE handler
                  /\ UNCHANGED <<open, urls>>

(* Mutant of close: the unavailable client is left to itself.              *)
abandon(c) == UNCHANGED cacheVars

close(c) == /\ open' = open \ {c}
            /\ UNCHANGED <<handler, urls>>

(* Mutant of cache: the map of all services is emptied first.              *)
cacheAfresh(s, v) == /\ urls' = [t \in Services |-> IF t = s THEN Url(s, v) ELSE None]
                     /\ UNCHANGED <<handler, open>>

cache(s, v) == /\ urls' = [urls EXCEPT ![s] = Url(s, v)]
               /\ UNCHANGED <<handler, open>>

-----------------------------------------------------------------------------
(* The handler kept for the address is connected.                          *)
CacheTypeOK == /\ handler \in Clients \union {None}
               /\ open \subseteq Clients
               /\ urls \in [Services -> Urls \union {None}]
=============================================================================
