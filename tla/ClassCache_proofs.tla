------------------------- MODULE ClassCache_proofs --------------------------
(***************************************************************************)
(* Theorems about ClassCache, for any number of threads, pages and         *)
(* versions of the jar.                                                    *)
(***************************************************************************)
EXTENDS ClassCache, TLAPS

(* A class that a thread still has to read, or to add, is one of a jar     *)
(* that it has opened: what addClass puts is a class file.                 *)
EntriesInv == \A r \in Reloaders :
                /\ todo[r] \union adding[r] # {} => reload[r] = "scanning"
                /\ adding[r] # {} => opened[r] \in Versions
                /\ reload[r] = "scanning" /\ opened[r] = 0 => todo[r] = {}
                /\ todo[r] \intersect adding[r] = {}

(* The Service that a request has found is a class file.                   *)
RequestsInv == \A p \in Pages :
                 request[p] \in {"found", "cached"} => found[p] \in Versions

TypeInv == TypeOK /\ EntriesInv /\ RequestsInv

USE MaxVersionAssumption, NoneAssumption, StartupAssumption

(* A step of loadJars keeps TypeInv.                                       *)
LEMMA ReloadType ==
  ASSUME TypeInv, NEW r \in Reloaders, ReloadNext(r)
  PROVE  TypeInv'
<1> USE DEF TypeInv, TypeOK, EntriesInv, RequestsInv, Running, listVars, Versions
<1>1. CASE clearCache(r)
  BY <1>1 DEF clearCache
<1>2. CASE scanJarFile(r)
  BY <1>2 DEF scanJarFile, ClassesIn
<1>3. CASE LoadFails(r)
  BY <1>3 DEF LoadFails
<1>4. ASSUME NEW c \in Classes, containsKey(r, c) PROVE TypeInv'
  BY <1>4 DEF containsKey
<1>5. CASE addClass(r)
  BY <1>5 DEF addClass
<1>6. CASE Loaded(r)
  BY <1>6 DEF Loaded
<1> QED  BY <1>1, <1>2, <1>3, <1>4, <1>5, <1>6 DEF ReloadNext

(* A step of listMethods keeps TypeInv.                                    *)
LEMMA ListType ==
  ASSUME TypeInv, NEW p \in Pages, ListNext(p)
  PROVE  TypeInv'
<1> USE DEF TypeInv, TypeOK, EntriesInv, RequestsInv, loadVars, Lists, Sigs
<1>1. CASE CacheHit(p)
  BY <1>1 DEF CacheHit
<1>2. CASE CacheMiss(p)
  BY <1>2 DEF CacheMiss
<1>3. CASE getClass(p)
  BY <1>3 DEF getClass, Classes
<1>4. CASE ClassNotFound(p)
  BY <1>4 DEF ClassNotFound
<1>5. CASE cache(p)
  <2>1. [service |-> found[p], param |-> classMap["Param"]] \in Models
    BY <1>5 DEF cache, Models, Classes
  <2> QED  BY <1>5, <2>1 DEF cache, putIfAbsent
<1>6. CASE CachePut(p)
  <2>1. found[p] \in Versions
    BY <1>6 DEF CachePut
  <2>2. Declares[found[p]] \in Lists /\ Declares[found[p]] \subseteq Sigs
    BY <2>1
  <2>3. list' \in Lists \union {None} /\ offered' \subseteq Sigs
    BY <1>6, <2>2 DEF CachePut
  <2>4. request' \in [Pages -> {"idle", "missed", "found", "cached"}] /\ RequestsInv'
    BY <1>6 DEF CachePut
  <2>5. found' \in [Pages -> Versions \union {None}]
    BY <1>6 DEF CachePut
  <2> HIDE DEF Lists, Sigs
  <2> QED  BY <1>6, <2>3, <2>4, <2>5 DEF CachePut
<1> QED  BY <1>1, <1>2, <1>3, <1>4, <1>5, <1>6 DEF ListNext

(* Every step keeps TypeInv.                                               *)
LEMMA TypeStep == TypeInv /\ [Next]_vars => TypeInv'
<1> SUFFICES ASSUME TypeInv, [Next]_vars PROVE TypeInv'
  OBVIOUS
<1>1. CASE ListExpires
  BY <1>1 DEF ListExpires, TypeInv, TypeOK, EntriesInv, RequestsInv, loadVars
<1>2. CASE Restart
  <2>1. TypeOK'
    <3>1. reload' \in [Reloaders -> Running \union {"starting", "idle", "loaded"}]
      BY <1>2 DEF Restart, Running
    <3>2. opened' \in [Reloaders -> 0..MaxVersion]
      BY <1>2 DEF Restart
    <3>3. /\ todo' \in [Reloaders -> SUBSET Classes]
          /\ adding' \in [Reloaders -> SUBSET Classes]
      BY <1>2 DEF Restart
    <3>4. /\ classMap' \in [Classes -> Versions \union {None}]
          /\ methodMap' \in [Sigs -> Models \union {None}]
      BY <1>2 DEF Restart
    <3>5. /\ request' \in [Pages -> {"idle", "missed", "found", "cached"}]
          /\ found' \in [Pages -> Versions \union {None}]
      BY <1>2 DEF Restart
    <3> QED  BY <1>2, <3>1, <3>2, <3>3, <3>4, <3>5 DEF Restart, TypeInv, TypeOK
  <2>2. EntriesInv'
    BY <1>2 DEF Restart, EntriesInv
  <2>3. RequestsInv'
    BY <1>2 DEF Restart, RequestsInv
  <2> QED  BY <2>1, <2>2, <2>3 DEF TypeInv
<1>3. CASE UNCHANGED vars
  BY <1>3 DEF vars, loadVars, listVars, TypeInv, TypeOK, EntriesInv, RequestsInv
<1> QED  BY <1>1, <1>2, <1>3, ReloadType, ListType DEF Next

(* TypeInv holds of every reachable state.                                 *)
LEMMA TypeInvariant == Spec => []TypeInv
<1>1. Init => TypeInv
  <2> SUFFICES ASSUME Init PROVE TypeInv
    OBVIOUS
  <2>1. TypeOK
    <3>1. reload \in [Reloaders -> Running \union {"starting", "idle", "loaded"}]
      BY DEF Init, Running
    <3>2. opened \in [Reloaders -> 0..MaxVersion]
      BY DEF Init
    <3>3. /\ todo \in [Reloaders -> SUBSET Classes]
          /\ adding \in [Reloaders -> SUBSET Classes]
      BY DEF Init
    <3>4. /\ classMap \in [Classes -> Versions \union {None}]
          /\ methodMap \in [Sigs -> Models \union {None}]
      BY DEF Init
    <3>5. /\ request \in [Pages -> {"idle", "missed", "found", "cached"}]
          /\ found \in [Pages -> Versions \union {None}]
      BY DEF Init
    <3> QED  BY <3>1, <3>2, <3>3, <3>4, <3>5 DEF Init, TypeOK
  <2>2. EntriesInv
    BY DEF Init, EntriesInv
  <2>3. RequestsInv
    BY DEF Init, RequestsInv
  <2> QED  BY <2>1, <2>2, <2>3 DEF TypeInv
<1> QED  BY <1>1, TypeStep, PTL DEF Spec

(* Every reachable state of the caches has its type.                       *)
THEOREM TypeCorrect == Spec => []TypeOK
<1>1. TypeInv => TypeOK
  BY DEF TypeInv
<1> QED  BY <1>1, TypeInvariant, PTL

-----------------------------------------------------------------------------
(* What a step of loadJars does to the classes it has seen to.             *)
LEMMA CompleteReload ==
  ASSUME TypeInv, ReloadCompletes, NEW r \in Reloaders, ReloadNext(r)
  PROVE  ReloadCompletes'
<1> USE DEF TypeInv, TypeOK, EntriesInv, ReloadCompletes, Scanned, Running, Versions
<1>1. CASE clearCache(r)
  BY <1>1 DEF clearCache
<1>2. CASE scanJarFile(r)
  BY <1>2 DEF scanJarFile
<1>3. CASE LoadFails(r)
  BY <1>3 DEF LoadFails
<1>4. ASSUME NEW c \in Classes, containsKey(r, c) PROVE ReloadCompletes'
  BY <1>4 DEF containsKey
<1>5. CASE addClass(r)
  BY <1>5 DEF addClass, ClassesIn
<1>6. CASE Loaded(r)
  BY <1>6 DEF Loaded
<1> QED  BY <1>1, <1>2, <1>3, <1>4, <1>5, <1>6 DEF ReloadNext

(* A reload that no later one has cleared leaves every class that it has   *)
(* read in classMap, however many reloads run at once.                     *)
THEOREM ReloadsComplete == Spec => []ReloadCompletes
<1>1. Init => ReloadCompletes
  BY DEF Init, ReloadCompletes
<1>2. TypeInv /\ ReloadCompletes /\ [Next]_vars => ReloadCompletes'
  <2> SUFFICES ASSUME TypeInv, ReloadCompletes, [Next]_vars PROVE ReloadCompletes'
    OBVIOUS
  <2>1. ASSUME NEW p \in Pages, ListNext(p) PROVE ReloadCompletes'
    <3>1. UNCHANGED loadVars
      BY <2>1 DEF ListNext, CacheHit, CacheMiss, getClass, ClassNotFound, cache, CachePut
    <3> QED  BY <3>1 DEF loadVars, ReloadCompletes, Scanned
  <2>2. CASE ListExpires
    BY <2>2 DEF ListExpires, loadVars, ReloadCompletes, Scanned
  <2>3. CASE Restart
    BY <2>3 DEF Restart, ReloadCompletes
  <2>4. CASE UNCHANGED vars
    BY <2>4 DEF vars, loadVars, ReloadCompletes, Scanned
  <2> QED  BY <2>1, <2>2, <2>3, <2>4, CompleteReload DEF Next
<1> QED  BY <1>1, <1>2, TypeInvariant, PTL DEF Spec

-----------------------------------------------------------------------------
(* ReloadIsFresh with what makes it inductive: while reloads have not      *)
(* overlapped, only the thread that cleared the map last may be at work,   *)
(* and from clearCache on the map is exactly what that thread has put.     *)
FreshInv ==
  ~overlapped =>
    \A r \in Reloaders :
      /\ reload[r] \in Running => cleared = r
      /\ cleared = r /\ reload[r] \in Running \union {"loaded"}
           => \A c \in Classes : classMap[c] = IF c \in Scanned(r) THEN opened[r] ELSE None

(* A step of loadJars keeps FreshInv.                                      *)
LEMMA FreshReload ==
  ASSUME TypeInv, FreshInv, NEW r \in Reloaders, ReloadNext(r)
  PROVE  FreshInv'
<1> USE DEF TypeInv, TypeOK, EntriesInv, FreshInv, Scanned, Running, Versions
<1>1. CASE clearCache(r)
  BY <1>1 DEF clearCache
<1>2. CASE scanJarFile(r)
  BY <1>2 DEF scanJarFile
<1>3. CASE LoadFails(r)
  BY <1>3 DEF LoadFails
<1>4. ASSUME NEW c \in Classes, containsKey(r, c) PROVE FreshInv'
  BY <1>4 DEF containsKey
<1>5. CASE addClass(r)
  BY <1>5 DEF addClass, ClassesIn
<1>6. CASE Loaded(r)
  BY <1>6 DEF Loaded
<1> QED  BY <1>1, <1>2, <1>3, <1>4, <1>5, <1>6 DEF ReloadNext

(* A reload that had loadJars for itself leaves exactly the jar it read.   *)
THEOREM ReloadsAreFresh == Spec => []ReloadIsFresh
<1>1. Init => FreshInv
  BY DEF Init, FreshInv, Running
<1>2. TypeInv /\ FreshInv /\ [Next]_vars => FreshInv'
  <2> SUFFICES ASSUME TypeInv, FreshInv, [Next]_vars PROVE FreshInv'
    OBVIOUS
  <2>1. ASSUME NEW p \in Pages, ListNext(p) PROVE FreshInv'
    <3>1. UNCHANGED loadVars
      BY <2>1 DEF ListNext, CacheHit, CacheMiss, getClass, ClassNotFound, cache, CachePut
    <3> QED  BY <3>1 DEF loadVars, FreshInv, Scanned
  <2>2. CASE ListExpires
    BY <2>2 DEF ListExpires, loadVars, FreshInv, Scanned
  <2>3. CASE Restart
    BY <2>3 DEF Restart, FreshInv, Running
  <2>4. CASE UNCHANGED vars
    BY <2>4 DEF vars, loadVars, FreshInv, Scanned
  <2> QED  BY <2>1, <2>2, <2>3, <2>4, FreshReload DEF Next
<1>3. FreshInv => ReloadIsFresh
  BY DEF FreshInv, ReloadIsFresh, Running
<1> QED  BY <1>1, <1>2, <1>3, TypeInvariant, PTL DEF Spec

-----------------------------------------------------------------------------
(* KeysResolve, and that a request which has passed MethodCaches.cache has *)
(* every key of its list there already.                                    *)
KeysInv ==
  /\ KeysResolve
  /\ \A p \in Pages :
       request[p] = "cached" => \A s \in Declares[found[p]] : methodMap[s] # None

(* A step of listMethods keeps KeysInv.                                    *)
LEMMA KeysList ==
  ASSUME TypeInv, KeysInv, NEW p \in Pages, ListNext(p)
  PROVE  KeysInv'
<1> USE DEF TypeInv, TypeOK, RequestsInv, KeysInv, KeysResolve
<1>1. CASE CacheHit(p)
  BY <1>1 DEF CacheHit
<1>2. CASE CacheMiss(p)
  BY <1>2 DEF CacheMiss
<1>3. CASE getClass(p)
  BY <1>3 DEF getClass
<1>4. CASE ClassNotFound(p)
  BY <1>4 DEF ClassNotFound
<1>5. CASE cache(p)
  <2> DEFINE m == [service |-> found[p], param |-> classMap["Param"]]
  <2>1. m \in Models
    BY <1>5 DEF cache, Models, Classes
  <2>2. \A s \in Sigs : methodMap[s] # None => methodMap'[s] # None
    BY <1>5 DEF cache, putIfAbsent
  <2>3. Declares[found[p]] \subseteq Sigs
    BY <1>5 DEF cache, Sigs
  <2>4. \A s \in Declares[found[p]] : methodMap'[s] # None
    BY <1>5, <2>1, <2>3 DEF cache, putIfAbsent
  <2>5. \A q \in Pages : request[q] = "cached" => Declares[found[q]] \subseteq Sigs
    BY DEF Sigs
  <2>6. list # None => list \subseteq Sigs
    BY DEF Lists, Sigs
  <2> QED  BY <1>5, <2>2, <2>4, <2>5, <2>6 DEF cache
<1>6. CASE CachePut(p)
  BY <1>6 DEF CachePut
<1> QED  BY <1>1, <1>2, <1>3, <1>4, <1>5, <1>6 DEF ListNext

(* Within the life of a process, every key that it has handed out, or put  *)
(* into redis, leads to a method.                                          *)
THEOREM HandedOutKeysResolve == Spec => []KeysResolve
<1>1. Init => KeysInv
  BY DEF Init, KeysInv, KeysResolve
<1>2. TypeInv /\ KeysInv /\ [Next]_vars => KeysInv'
  <2> SUFFICES ASSUME TypeInv, KeysInv, [Next]_vars PROVE KeysInv'
    OBVIOUS
  <2>1. ASSUME NEW r \in Reloaders, ReloadNext(r) PROVE KeysInv'
    <3>1. UNCHANGED listVars
      BY <2>1 DEF ReloadNext, clearCache, scanJarFile, LoadFails, containsKey, addClass, Loaded
    <3> QED  BY <3>1 DEF listVars, KeysInv, KeysResolve
  <2>2. CASE ListExpires
    BY <2>2 DEF ListExpires, KeysInv, KeysResolve
  <2>3. CASE Restart
    BY <2>3 DEF Restart, KeysInv, KeysResolve
  <2>4. CASE UNCHANGED vars
    BY <2>4 DEF vars, listVars, KeysInv, KeysResolve
  <2> QED  BY <2>1, <2>2, <2>3, <2>4, KeysList DEF Next
<1>3. KeysInv => KeysResolve
  BY DEF KeysInv
<1> QED  BY <1>1, <1>2, <1>3, TypeInvariant, PTL DEF Spec

=============================================================================
