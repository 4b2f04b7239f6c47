------------------------------ MODULE PomFile ------------------------------
(***************************************************************************)
(* The two things on disk that requests share: pom.xml, to which a         *)
(* download appends its dependency and which the page editPom.html shows   *)
(* and overrides, and the directory of jars, which downloads fill and      *)
(* delete.  Downloads hold locker while they change them; the edit page    *)
(* and doRepublish do not, and maven reads and writes when it likes.       *)
(*                                                                         *)
(* Whether a request is let in is the subject of DownloadJob: here any     *)
(* number of them may have found no flag, and their mavens overlap.        *)
(***************************************************************************)
EXTENDS Naturals, FiniteSets

CONSTANTS
  Actors,  \* requests, with the maven they lead to; bounds how many there are
  Base,    \* a dependency that is not one of the downloads
  Texts,   \* what the page may save besides what it shows
  None     \* nobody holds the lock

ASSUME ActorsAssumption == None \notin Actors /\ Base \notin Actors

(* The dependencies, each with its jar: a download appends one of its own. *)
Deps == Actors \union {Base}

VARIABLES
  pom,      \* the contents of pom.xml
  lib,      \* the jars in the directory
  locker,   \* who holds PomServiceImpl.locker
  actor,    \* the requests
  promised, \* history: what appends and edits, one after the other, make of the pom
  clean,    \* history: does the pom have to be that
  stuck,    \* history: the jars that could not be deleted
  stale     \* history: the edits being saved of a pom that is no longer there

vars == <<pom, lib, locker, actor, promised, clean, stuck, stale>>

(* A pom that can be parsed, and one that cannot: empty, cut short or      *)
(* written by two at once.                                                 *)
Whole(D) == [whole |-> TRUE, deps |-> D]
Torn == [whole |-> FALSE, deps |-> {}]
Poms == {Whole(D) : D \in SUBSET Deps} \union {Torn}

ASSUME TextsAssumption == Texts \subseteq Poms

(* kind, and where it is; doc, the pom it has read or is going to write;   *)
(* todo, the jars it has still to delete or copy.  Histories: crossed, has *)
(* an edit opened the pom while this one depended on it; meddled, has      *)
(* somebody else changed the jars that this one answers for.               *)
Idle == [kind |-> "none", at |-> "idle", doc |-> Torn, todo |-> {},
         crossed |-> FALSE, meddled |-> FALSE]

At(place) == {a \in Actors : actor[a].at = place}
Is(kind) == {a \in Actors : actor[a].kind = kind}

(* The pom of the start-up, or what a copy that was cut short has left of  *)
(* it, and jars of earlier downloads.                                      *)
Init == /\ pom \in {Whole({}), Whole({Base}), Torn}
        /\ lib \in {{}, {Base}}
        /\ locker = None
        /\ actor = [a \in Actors |-> Idle]
        /\ promised = pom.deps
        /\ clean = pom.whole
        /\ stuck = {}
        /\ stale = {}

Goes(a, place) == actor' = [actor EXCEPT ![a].at = place]

-----------------------------------------------------------------------------
(* Downloads: invoke(PomDTO), which appends, and invoke(), which reparses  *)

(* Mutant of Lock: there is no lock.                                       *)
LockFree(a, kind) ==
  /\ actor[a] = Idle
  /\ locker' = a
  /\ actor' = [actor EXCEPT ![a].kind = kind, ![a].at = IF kind = "append" THEN "parse" ELSE "list"]
  /\ UNCHANGED <<pom, lib, promised, clean, stuck, stale>>

Lock(a, kind) ==
  /\ actor[a] = Idle
  /\ locker = None
  /\ locker' = a
  /\ actor' = [actor EXCEPT ![a].kind = kind, ![a].at = IF kind = "append" THEN "parse" ELSE "list"]
  /\ UNCHANGED <<pom, lib, promised, clean, stuck, stale>>

(* Mutant of Parse: the FileOutputStream is made first.                    *)
OpenAndParse(a) == /\ actor[a].at = "parse"
                   /\ pom' = Torn
                   /\ actor' = [actor EXCEPT ![a].at = "open", ![a].doc = pom]
                   /\ UNCHANGED <<lib, locker, promised, clean, stuck, stale>>

Parse(a) == /\ actor[a].at = "parse"
            /\ pom.whole
            /\ actor' = [actor EXCEPT ![a].at = "open", ![a].doc = pom]
            /\ UNCHANGED <<pom, lib, locker, promised, clean, stuck, stale>>

(* Mutant of AppendFails: the exception is caught and the task executed.   *)
AppendSkipped(a) == /\ actor[a].at \in {"parse", "open"}
                    /\ Goes(a, "execute")
                    /\ UNCHANGED <<pom, lib, locker, promised, clean, stuck, stale>>

(* It cannot be parsed, has no <dependencies> or cannot be opened.         *)
AppendFails(a) == /\ actor[a].at \in {"parse", "open"}
                  /\ locker' = None
                  /\ Goes(a, "failed")
                  /\ UNCHANGED <<pom, lib, promised, clean, stuck, stale>>

Editing == At("write") \intersect Is("edit")

(* new FileOutputStream: the file is empty.                                *)
Open(a) == /\ actor[a].at = "open"
           /\ pom' = Torn
           /\ actor' = [b \in Actors |->
                CASE b = a -> [actor[a] EXCEPT !.at = "write", !.crossed = @ \/ Editing # {}]
                  [] b \in Editing \ {a} -> [actor[b] EXCEPT !.crossed = TRUE]
                  [] OTHER -> actor[b]]
           /\ UNCHANGED <<lib, locker, promised, clean, stuck, stale>>

(* What a writer leaves in the file if others have opened it, too.         *)
Outcomes(a, D) == IF actor[a].crossed THEN {Whole(D), Torn} ELSE {Whole(D)}

(* transform.                                                              *)
Append(a) == LET D == actor[a].doc.deps \union {a}
             IN  /\ actor[a].at = "write"
                 /\ actor[a].kind = "append"
                 /\ pom' \in Outcomes(a, D)
                 /\ promised' = promised \union {a}
                 /\ clean' = (clean /\ ~actor[a].crossed)
                 /\ Goes(a, "execute")
                 /\ UNCHANGED <<lib, locker, stuck, stale>>

(* The disk is full: an exception for a download, no word for an edit.     *)
WriteFails(a) == /\ actor[a].at = "write"
                 /\ pom' = Torn
                 /\ clean' = FALSE
                 /\ locker' = IF actor[a].kind = "append" THEN None ELSE locker
                 /\ stale' = stale \ {a}
                 /\ Goes(a, "failed")
                 /\ UNCHANGED <<lib, promised, stuck>>

(* The task is handed over, and the lock given back.                       *)
Execute(a) == /\ actor[a].at = "execute"
              /\ locker' = None
              /\ Goes(a, "task")
              /\ UNCHANGED <<pom, lib, promised, clean, stuck, stale>>

-----------------------------------------------------------------------------
(* deleteJars, under the lock in invoke() and without it in doRepublish    *)

Republish(a) == /\ actor[a] = Idle
                /\ actor' = [actor EXCEPT ![a].kind = "republish", ![a].at = "list"]
                /\ UNCHANGED <<pom, lib, locker, promised, clean, stuck, stale>>

(* Mutant of List: the filter of names matches no jar.                     *)
ListNothing(a) == /\ actor[a].at = "list"
                  /\ actor' = [actor EXCEPT ![a].at = "delete", ![a].todo = {}]
                  /\ UNCHANGED <<pom, lib, locker, promised, clean, stuck, stale>>

List(a) == /\ actor[a].at = "list"
           /\ actor' = [actor EXCEPT ![a].at = "delete", ![a].todo = lib]
           /\ UNCHANGED <<pom, lib, locker, promised, clean, stuck, stale>>

(* There is no directory yet: an exception, that of a reparse under the    *)
(* lock.                                                                   *)
ListFails(a) == /\ actor[a].at = "list"
                /\ lib = {}
                /\ locker' = IF actor[a].kind = "reparse" THEN None ELSE locker
                /\ Goes(a, "failed")
                /\ UNCHANGED <<pom, lib, promised, clean, stuck, stale>>

(* Somebody changes the directory: the others may find it otherwise.       *)
Meddle(a, others) == [b \in Actors |->
  CASE b = a -> actor[a]
    [] b \in others \ {a} -> [actor[b] EXCEPT !.meddled = TRUE]
    [] OTHER -> actor[b]]

(* A jar that is in use may be impossible to delete; the next one follows. *)
Delete(a, jar) ==
  /\ actor[a].at = "delete"
  /\ jar \in actor[a].todo
  /\ \/ lib' = lib \ {jar} /\ stuck' = stuck
     \/ jar \in lib /\ lib' = lib /\ stuck' = stuck \union {jar}
  /\ actor' = [Meddle(a, Actors \ At("idle")) EXCEPT ![a].todo = @ \ {jar}]
  /\ UNCHANGED <<pom, locker, promised, clean, stale>>

Deleted(a) == /\ actor[a].at = "delete"
              /\ actor[a].todo = {}
              /\ Goes(a, IF actor[a].kind = "reparse" THEN "execute" ELSE "done")
              /\ UNCHANGED <<pom, lib, locker, promised, clean, stuck, stale>>

-----------------------------------------------------------------------------
(* The page editPom.html                                                   *)

LoadPomFile(a) == /\ actor[a] = Idle
                  /\ actor' = [actor EXCEPT ![a].kind = "edit", ![a].at = "edit", ![a].doc = pom]
                  /\ UNCHANGED <<pom, lib, locker, promised, clean, stuck, stale>>

InUse == UNION {At(place) : place \in {"open", "write", "execute", "task"}}

(* doOverridePomFile, without the lock: a PrintWriter empties the file for *)
(* the text of the page, whatever that is: nobody looks at it.             *)
OpenEdit(a) ==
  /\ actor[a].at = "edit"
  /\ pom' = Torn
  /\ stale' = IF actor[a].doc = pom THEN stale ELSE stale \union {a}
  /\ \E doc \in Texts \union {actor[a].doc} :
       actor' = [b \in Actors |->
         CASE b = a -> [actor[a] EXCEPT !.at = "write", !.doc = doc, !.crossed = At("write") # {}]
           [] b \in InUse \ {a} -> [actor[b] EXCEPT !.crossed = TRUE]
           [] OTHER -> actor[b]]
  /\ UNCHANGED <<lib, locker, promised, clean, stuck>>

(* The user leaves the page, or the file cannot be opened.                 *)
EditFails(a) == /\ actor[a].at = "edit"
                /\ Goes(a, "failed")
                /\ UNCHANGED <<pom, lib, locker, promised, clean, stuck, stale>>

(* From here on the pom is what the page has saved.  If it had been loaded *)
(* before the last write, that one is lost, and still promised.            *)
Override(a) == LET doc == actor[a].doc
               IN  /\ actor[a].at = "write"
                   /\ actor[a].kind = "edit"
                   /\ pom' \in IF doc.whole THEN Outcomes(a, doc.deps) ELSE {Torn}
                   /\ promised' = IF a \in stale THEN promised ELSE doc.deps
                   /\ clean' = (doc.whole /\ a \notin stale /\ ~actor[a].crossed)
                   /\ stale' = stale \ {a}
                   /\ Goes(a, "done")
                   /\ UNCHANGED <<lib, locker, stuck>>

-----------------------------------------------------------------------------
(* maven dependency:copy-dependencies -f pom.xml -DoutputDirectory=lib     *)

ReadPom(a) == /\ actor[a].at = "task"
              /\ pom.whole
              /\ actor' = [actor EXCEPT ![a].at = "copy", ![a].doc = pom, ![a].todo = pom.deps]
              /\ UNCHANGED <<pom, lib, locker, promised, clean, stuck, stale>>

(* A download that was not told to empty the directory needs no more than  *)
(* its jars to be there.                                                   *)
Copy(a, jar) == /\ actor[a].at = "copy"
                /\ jar \in actor[a].todo
                /\ lib' = lib \union {jar}
                /\ actor' = [Meddle(a, Is("reparse") \ At("idle")) EXCEPT ![a].todo = @ \ {jar}]
                /\ UNCHANGED <<pom, locker, promised, clean, stuck, stale>>

BuildSuccess(a) == /\ actor[a].at = "copy"
                   /\ actor[a].todo = {}
                   /\ Goes(a, "done")
                   /\ UNCHANGED <<pom, lib, locker, promised, clean, stuck, stale>>

(* exec fails, the pom is torn, or a dependency is not found.              *)
BuildFailure(a) == /\ actor[a].at \in {"task", "copy"}
                   /\ Goes(a, "failed")
                   /\ UNCHANGED <<pom, lib, locker, promised, clean, stuck, stale>>

-----------------------------------------------------------------------------
(* The tool stops: its threads are gone, the lock with them, and maven and *)
(* the edit page go on.                                                    *)
Restart ==
  /\ locker' = None
  /\ clean' = (clean /\ At("write") = {})
  /\ stale' = {}
  /\ actor' = [a \in Actors |->
       IF actor[a].at \in {"parse", "open", "write", "execute", "task", "list", "delete"}
       THEN [actor[a] EXCEPT !.at = "failed"] ELSE actor[a]]
  /\ UNCHANGED <<pom, lib, promised, stuck>>

Download(a) == \/ Lock(a, "append") \/ Lock(a, "reparse")
               \/ Parse(a) \/ AppendFails(a) \/ Open(a) \/ Append(a) \/ WriteFails(a)
               \/ Execute(a)

DeleteJars(a) == \/ Republish(a) \/ List(a) \/ ListFails(a) \/ Deleted(a)
                 \/ \E jar \in Deps : Delete(a, jar)

EditPom(a) == LoadPomFile(a) \/ OpenEdit(a) \/ EditFails(a) \/ Override(a)

Maven(a) == ReadPom(a) \/ BuildSuccess(a) \/ BuildFailure(a) \/ \E jar \in Deps : Copy(a, jar)

Next == \/ \E a \in Actors : Download(a) \/ DeleteJars(a) \/ EditPom(a) \/ Maven(a)
        \/ Restart

Spec == Init /\ [][Next]_vars
-----------------------------------------------------------------------------
(***************************************************************************)
(* Properties                                                              *)
(***************************************************************************)
Records == [kind : {"none", "append", "reparse", "republish", "edit"},
            at : {"idle", "parse", "open", "write", "execute", "task", "copy",
                  "list", "delete", "edit", "done", "failed"},
            doc : Poms, todo : SUBSET Deps, crossed : BOOLEAN, meddled : BOOLEAN]

(* Who is where, and that the lock is held by the one download that        *)
(* changes files: it is given back however that ends.                      *)
RecordOK(a) ==
  LET q == actor[a]
  IN  /\ q.at \in {"parse", "open"} => q.kind = "append"
      /\ q.at = "write" => q.kind \in {"append", "edit"}
      /\ q.at \in {"list", "delete"} => q.kind \in {"reparse", "republish"}
      /\ q.at \in {"execute", "task", "copy"} => q.kind \in {"append", "reparse"}
      /\ q.at = "edit" => q.kind = "edit"
      /\ q.kind = "append" /\ q.at \in {"open", "write"} => q.doc.whole

Locked(a) == /\ actor[a].kind \in {"append", "reparse"}
             /\ actor[a].at \in {"parse", "open", "write", "execute", "list", "delete"}

(* The state has its type.                                                 *)
TypeOK == /\ pom \in Poms
          /\ lib \subseteq Deps
          /\ locker \in Actors \union {None}
          /\ actor \in [Actors -> Records]
          /\ \A a \in Actors : RecordOK(a) /\ (Locked(a) <=> locker = a)
          /\ promised \subseteq Deps
          /\ clean \in BOOLEAN
          /\ stuck \subseteq Deps
          /\ stale \subseteq Actors

(* appendPom reads the pom, adds to it and writes it in steps, and still   *)
(* no dependency that a download has appended is lost, nor one that the    *)
(* edit page has taken out comes back: the pom is what the appends and the *)
(* edits make of it one after the other.  Edits take no lock and save what *)
(* they were loaded to, so there are three exceptions: an edit saved while *)
(* an append or another edit is under way, one saved over a pom that is    *)
(* not the one it had loaded, whose last append it undoes, and a pom left  *)
(* in pieces.  They last until a pom is edited and saved with nobody else  *)
(* at it since it was loaded.                                              *)
PomIsSerial == clean /\ pom.whole => pom.deps = promised

(* No step leaves a pom behind that cannot be parsed: whoever meets one    *)
(* meets a writer at work, unless a write has failed or been broken off,   *)
(* two have written at once, or the page has saved text that cannot be     *)
(* parsed.                                                                 *)
TornIsExplained == clean /\ ~pom.whole => At("write") # {}

(* The maven of a download finds its dependency in the pom, and copies it, *)
(* whatever other downloads have appended since; only an edit may lose it. *)
MavenSeesOwn ==
  \A a \in At("copy") \intersect Is("append") : actor[a].crossed \/ a \in actor[a].doc.deps

(* When maven has succeeded its jars are there, until somebody deletes     *)
(* some; and when the directory was emptied for it, no others are, but     *)
(* those that could not be deleted.                                        *)
LibFollowsPom ==
  \A a \in At("done") :
    /\ actor[a].kind \in {"append", "reparse"} /\ ~actor[a].meddled => actor[a].doc.deps \subseteq lib
    /\ actor[a].kind = "reparse" /\ ~actor[a].meddled => lib \subseteq actor[a].doc.deps \union stuck

=============================================================================
