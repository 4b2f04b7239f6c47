----------------------------- MODULE ClassCache -----------------------------
(***************************************************************************)
(* The classes of the downloaded jars and the methods of one interface:    *)
(* DubboClassLoader.classMap, filled by PomServiceImpl.loadJars on HTTP    *)
(* threads and on the start-up thread; MethodCaches.map and the list of    *)
(* methods in redis, filled by ClassServiceImpl.listMethods; and the pages *)
(* that ask for such a list and send its keys back.                        *)
(*                                                                         *)
(* The jar holds the interface ("Service") and a class its methods use     *)
(* ("Param").  A class file is the version of the jar it was read from.  A *)
(* method's key is its signature; its MethodModel is the pair of class     *)
(* files its Method was resolved from.                                     *)
(***************************************************************************)
EXTENDS Integers

CONSTANTS
  Reloaders,    \* threads that run loadJars
  Startup,      \* the one of them that runs ApplicationReadyEventListener
  Pages,        \* open pages; a page has one listMethods request at a time
  MaxVersion,   \* versions of the jar there are
  Declares,     \* the signatures that each version of the interface declares
  None          \* no entry of a map

ASSUME StartupAssumption == Startup \in Reloaders
ASSUME MaxVersionAssumption == MaxVersion \in Nat

Versions == 1..MaxVersion
Classes == {"Service", "Param"}
Sigs == UNION {Declares[v] : v \in Versions}
Models == [service : Versions, param : Versions]
Lists == {Declares[v] : v \in Versions}

ASSUME NoneAssumption == /\ None \notin 0..MaxVersion /\ None \notin Reloaders
                         /\ None \notin Models /\ None \notin Lists

VARIABLES
  classMap,    \* DubboClassLoader.classMap
  reload,      \* where each thread is in loadJars
  opened,      \* the version of the JarFile it reads
  todo,        \* the entries of it that are not read yet
  adding,      \* the entry that was read and passed containsKey
  cleared,     \* the thread that called clearCache last
  overlapped,  \* whether two reloads have run at once since the last one began alone
  request,     \* where the listMethods of each page is
  found,       \* the class file of Service that it has loaded
  methodMap,   \* MethodCaches.map
  list,        \* the cached result of listMethods in redis
  listOld,     \* whether that list was put there by a process that is gone
  offered      \* the keys that pages have been given, but for those of an old list

loadVars == <<classMap, reload, opened, todo, adding, cleared, overlapped>>
listVars == <<request, found, methodMap, list, listOld, offered>>
vars == <<loadVars, listVars>>

Running == {"cleared", "scanning"}     \* inside loadJars
ClassesIn(v) == IF v = 0 THEN {} ELSE Classes

Init == /\ classMap = [c \in Classes |-> None]
        /\ reload = [r \in Reloaders |-> IF r = Startup THEN "starting" ELSE "idle"]
        /\ opened = [r \in Reloaders |-> 0]
        /\ todo = [r \in Reloaders |-> {}]
        /\ adding = [r \in Reloaders |-> {}]
        /\ cleared = None
        /\ overlapped = FALSE
        /\ request = [p \in Pages |-> "idle"]
        /\ found = [p \in Pages |-> None]
        /\ methodMap = [s \in Sigs |-> None]
        /\ list = None
        /\ listOld = FALSE
        /\ offered = {}

-----------------------------------------------------------------------------
(* loadJars                                                                *)

(* Mutants of clearCache: classMap is not cleared, or MethodCaches is too. *)
keepCache(r) == /\ reload[r] \notin Running
                /\ r = Startup => reload[r] = "starting"
                /\ reload' = [reload EXCEPT ![r] = "cleared"]
                /\ cleared' = r
                /\ overlapped' = \E q \in Reloaders : reload[q] \in Running
                /\ opened' = [opened EXCEPT ![r] = 0]
                /\ UNCHANGED <<classMap, todo, adding, listVars>>

clearCaches(r) == /\ reload[r] \notin Running
                  /\ r = Startup => reload[r] = "starting"
                  /\ reload' = [reload EXCEPT ![r] = "cleared"]
                  /\ classMap' = [c \in Classes |-> None]
                  /\ methodMap' = [s \in Sigs |-> None]
                  /\ cleared' = r
                  /\ overlapped' = \E q \in Reloaders : reload[q] \in Running
                  /\ opened' = [opened EXCEPT ![r] = 0]
                  /\ UNCHANGED <<todo, adding, request, found, list, listOld, offered>>

(* A doLoad request, or the listener once after each start.                *)
clearCache(r) == /\ reload[r] \notin Running
                 /\ r = Startup => reload[r] = "starting"
                 /\ reload' = [reload EXCEPT ![r] = "cleared"]
                 /\ classMap' = [c \in Classes |-> None]
                 /\ cleared' = r
                 /\ overlapped' = \E q \in Reloaders : reload[q] \in Running
                 /\ opened' = [opened EXCEPT ![r] = 0]
                 /\ UNCHANGED <<todo, adding, listVars>>

(* listFiles and new JarFile.  Downloads and deleteJars change the lib     *)
(* directory at any time, and nothing keeps them from a reload that runs:  *)
(* the version may be any, and 0 if there is no jar, which is no error.    *)
scanJarFile(r) == /\ reload[r] = "cleared"
                  /\ reload' = [reload EXCEPT ![r] = "scanning"]
                  /\ \E v \in 0..MaxVersion : /\ opened' = [opened EXCEPT ![r] = v]
                                              /\ todo' = [todo EXCEPT ![r] = ClassesIn(v)]
                  /\ UNCHANGED <<classMap, adding, cleared, overlapped, listVars>>

(* Mutant of LoadFails: the exception is caught where an entry is read.    *)
SkipEntries(r) == /\ reload[r] \in Running
                  /\ reload' = [reload EXCEPT ![r] = "loaded"]
                  /\ adding' = [adding EXCEPT ![r] = {}]
                  /\ todo' = [todo EXCEPT ![r] = {}]
                  /\ UNCHANGED <<classMap, opened, cleared, overlapped, listVars>>

(* No lib directory, a jar that is being written, an entry that cannot be  *)
(* read: what was loaded so far stays.                                     *)
LoadFails(r) == /\ reload[r] \in Running
                /\ reload' = [reload EXCEPT ![r] = "idle"]
                /\ opened' = [opened EXCEPT ![r] = 0]
                /\ adding' = [adding EXCEPT ![r] = {}]
                /\ todo' = [todo EXCEPT ![r] = {}]
                /\ UNCHANGED <<classMap, cleared, overlapped, listVars>>

(* addClass: containsKey on the next entry.                                *)
containsKey(r, c) == /\ reload[r] = "scanning"
                     /\ adding[r] = {}
                     /\ c \in todo[r]
                     /\ todo' = [todo EXCEPT ![r] = @ \ {c}]
                     /\ adding' = [adding EXCEPT ![r] = IF classMap[c] = None THEN {c} ELSE {}]
                     /\ UNCHANGED <<classMap, reload, opened, cleared, overlapped, listVars>>

(* addClass: put, on its own step, for nothing makes the two atomic.       *)
addClass(r) == /\ reload[r] = "scanning"
               /\ adding[r] # {}
               /\ classMap' = [c \in Classes |-> IF c \in adding[r] THEN opened[r] ELSE classMap[c]]
               /\ adding' = [adding EXCEPT ![r] = {}]
               /\ UNCHANGED <<reload, opened, todo, cleared, overlapped, listVars>>

Loaded(r) == /\ reload[r] = "scanning"
             /\ adding[r] = {} /\ todo[r] = {}
             /\ reload' = [reload EXCEPT ![r] = "loaded"]
             /\ UNCHANGED <<classMap, opened, todo, adding, cleared, overlapped, listVars>>

-----------------------------------------------------------------------------
(* listMethods                                                             *)

(* @Cacheable: a list in redis answers in place of the method.             *)
CacheHit(p) == /\ request[p] = "idle" /\ list # None
               /\ offered' = IF listOld THEN offered ELSE offered \union list
               /\ UNCHANGED <<loadVars, request, found, methodMap, list, listOld>>

CacheMiss(p) == /\ request[p] = "idle" /\ list = None
                /\ request' = [request EXCEPT ![p] = "missed"]
                /\ UNCHANGED <<loadVars, found, methodMap, list, listOld, offered>>

(* DubboClassLoader.getClass(interfaceName), with a loader of its own.     *)
getClass(p) == /\ request[p] = "missed"
               /\ classMap["Service"] # None
               /\ request' = [request EXCEPT ![p] = "found"]
               /\ found' = [found EXCEPT ![p] = classMap["Service"]]
               /\ UNCHANGED <<loadVars, methodMap, list, listOld, offered>>

(* The class is not there, or one that getMethods has to resolve is not;   *)
(* an error is the answer.                                                 *)
ClassNotFound(p) == /\ \/ request[p] = "missed" /\ classMap["Service"] = None
                       \/ request[p] = "found" /\ classMap["Param"] = None
                    /\ request' = [request EXCEPT ![p] = "idle"]
                    /\ found' = [found EXCEPT ![p] = None]
                    /\ UNCHANGED <<loadVars, methodMap, list, listOld, offered>>

(* MethodCaches.map.putIfAbsent for each method of m's interface.          *)
putIfAbsent(m) == [s \in Sigs |-> IF s \in Declares[m.service] /\ methodMap[s] = None
                                  THEN m ELSE methodMap[s]]

(* Mutant of cache: the methods' types are not resolved.                   *)
cacheUnresolved(p) == /\ request[p] = "found"
                      /\ request' = [request EXCEPT ![p] = "cached"]
                      /\ methodMap' = putIfAbsent([service |-> found[p], param |-> classMap["Param"]])
                      /\ UNCHANGED <<loadVars, found, list, listOld, offered>>

(* clazz.getMethods(), which resolves the methods' types, and              *)
(* MethodCaches.cache.                                                     *)
cache(p) == /\ request[p] = "found"
            /\ classMap["Param"] # None
            /\ request' = [request EXCEPT ![p] = "cached"]
            /\ methodMap' = putIfAbsent([service |-> found[p], param |-> classMap["Param"]])
            /\ UNCHANGED <<loadVars, found, list, listOld, offered>>

(* The list is put into redis, for a minute, and returned.                 *)
CachePut(p) == /\ request[p] = "cached"
               /\ request' = [request EXCEPT ![p] = "idle"]
               /\ found' = [found EXCEPT ![p] = None]
               /\ list' = Declares[found[p]]
               /\ listOld' = FALSE
               /\ offered' = offered \union Declares[found[p]]
               /\ UNCHANGED <<loadVars, methodMap>>

ListExpires == /\ list # None
               /\ list' = None
               /\ listOld' = FALSE
               /\ UNCHANGED <<loadVars, request, found, methodMap, offered>>

-----------------------------------------------------------------------------

(* The process is started again: its maps are empty, redis and the pages   *)
(* keep what they have.                                                    *)
Restart == /\ classMap' = [c \in Classes |-> None]
           /\ reload' = [r \in Reloaders |-> IF r = Startup THEN "starting" ELSE "idle"]
           /\ opened' = [r \in Reloaders |-> 0]
           /\ todo' = [r \in Reloaders |-> {}]
           /\ adding' = [r \in Reloaders |-> {}]
           /\ cleared' = None
           /\ overlapped' = FALSE
           /\ request' = [p \in Pages |-> "idle"]
           /\ found' = [p \in Pages |-> None]
           /\ methodMap' = [s \in Sigs |-> None]
           /\ listOld' = (list # None)
           /\ offered' = {}
           /\ UNCHANGED list

ReloadNext(r) == \/ clearCache(r) \/ scanJarFile(r) \/ LoadFails(r)
                 \/ \E c \in Classes : containsKey(r, c)
                 \/ addClass(r) \/ Loaded(r)

ListNext(p) == \/ CacheHit(p) \/ CacheMiss(p) \/ getClass(p) \/ ClassNotFound(p)
               \/ cache(p) \/ CachePut(p)

Next == \/ \E r \in Reloaders : ReloadNext(r)
        \/ \E p \in Pages : ListNext(p)
        \/ ListExpires \/ Restart

Spec == Init /\ [][Next]_vars

-----------------------------------------------------------------------------
(* Properties                                                              *)

(* The values the variables can have.                                      *)
TypeOK == /\ classMap \in [Classes -> Versions \union {None}]
          /\ reload \in [Reloaders -> Running \union {"starting", "idle", "loaded"}]
          /\ opened \in [Reloaders -> 0..MaxVersion]
          /\ todo \in [Reloaders -> SUBSET Classes]
          /\ adding \in [Reloaders -> SUBSET Classes]
          /\ cleared \in Reloaders \union {None}
          /\ overlapped \in BOOLEAN
          /\ request \in [Pages -> {"idle", "missed", "found", "cached"}]
          /\ found \in [Pages -> Versions \union {None}]
          /\ methodMap \in [Sigs -> Models \union {None}]
          /\ list \in Lists \union {None}
          /\ listOld \in BOOLEAN
          /\ offered \subseteq Sigs

(* The classes that r has seen to.                                         *)
Scanned(r) == IF reload[r] \in {"scanning", "loaded"}
              THEN ClassesIn(opened[r]) \ (todo[r] \union adding[r])
              ELSE {}

(* A reload that no later one has cleared leaves every class it has read   *)
(* in the map, whatever other reloads do at the same time: addClass may    *)
(* find the class there, but nobody takes it away again.                   *)
ReloadCompletes == \A r \in Reloaders :
                     cleared = r => \A c \in Scanned(r) : classMap[c] # None

(* A reload that had loadJars for itself leaves exactly what is in the jar *)
(* it read: no class of an older jar stays behind the containsKey of       *)
(* addClass.                                                               *)
ReloadIsFresh == \A r \in Reloaders :
                   cleared = r /\ ~overlapped /\ reload[r] \in {"scanning", "loaded"}
                     => \A c \in Classes :
                          classMap[c] = IF c \in Scanned(r) THEN opened[r] ELSE None

(* Within the life of a process, every key that a page was given, and      *)
(* every key in a list that it put into redis, leads to a method: the      *)
(* methods are cached before the keys are handed out, and neither a reload *)
(* nor the expiry of the list removes them.                                *)
KeysResolve == /\ \A s \in offered : methodMap[s] # None
               /\ list # None /\ ~listOld => \A s \in list : methodMap[s] # None

=============================================================================
