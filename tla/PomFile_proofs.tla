--------------------------- MODULE PomFile_proofs ---------------------------
(***************************************************************************)
(* The pom is what appends and edits make of it in turn, maven finds what  *)
(* a download has appended, and the directory holds the jars of the pom:   *)
(* for any number of requests.                                             *)
(***************************************************************************)
EXTENDS PomFile, TLAPS

USE ActorsAssumption, TextsAssumption

LEMMA PomFacts ==
  /\ Torn \in Poms /\ Torn.whole = FALSE /\ Torn.deps = {}
  /\ \A D : Whole(D).whole = TRUE /\ Whole(D).deps = D
  /\ \A D \in SUBSET Deps : Whole(D) \in Poms
  /\ \A p \in Poms : p.whole \in BOOLEAN /\ p.deps \in SUBSET Deps
<1>1. Torn \in Poms /\ Torn.whole = FALSE /\ Torn.deps = {}
  BY DEF Torn, Poms
<1>2. \A D : Whole(D).whole = TRUE /\ Whole(D).deps = D
  BY DEF Whole
<1>3. \A D \in SUBSET Deps : Whole(D) \in Poms
  BY DEF Poms
<1>4. ASSUME NEW p \in Poms PROVE p.whole \in BOOLEAN /\ p.deps \in SUBSET Deps
  <2>1. CASE p = Torn
    BY <2>1, <1>1
  <2>2. ASSUME NEW D \in SUBSET Deps, p = Whole(D) PROVE p.whole \in BOOLEAN /\ p.deps \in SUBSET Deps
    BY <2>2, <1>2
  <2> QED
    BY <2>1, <2>2 DEF Poms
<1> QED
  BY <1>1, <1>2, <1>3, <1>4

LEMMA IdleFacts ==
  /\ Idle \in Records
  /\ Idle.kind = "none" /\ Idle.at = "idle" /\ Idle.doc = Torn /\ Idle.todo = {}
  /\ Idle.crossed = FALSE /\ Idle.meddled = FALSE
  BY PomFacts DEF Idle, Records

-----------------------------------------------------------------------------
(* What the steps do to the requests, field by field                       *)

Became(a, k, p, d, t, c, m) ==
  LET q == actor'[a]
  IN  /\ actor' \in [Actors -> Records]
      /\ q.kind = k /\ q.at = p /\ q.doc = d /\ q.todo = t /\ q.crossed = c /\ q.meddled = m

(* The other requests keep all but, some of them, one of the histories.    *)
Keep(b) == /\ actor'[b].kind = actor[b].kind /\ actor'[b].at = actor[b].at
           /\ actor'[b].doc = actor[b].doc /\ actor'[b].todo = actor[b].todo

Others(a, crossing, meddling) ==
  \A b \in Actors : b # a =>
    /\ Keep(b)
    /\ actor'[b].crossed = IF b \in crossing THEN TRUE ELSE actor[b].crossed
    /\ actor'[b].meddled = IF b \in meddling THEN TRUE ELSE actor[b].meddled

LEMMA Fields ==
  ASSUME actor \in [Actors -> Records], NEW a \in Actors
  PROVE  /\ actor[a].doc \in Poms /\ actor[a].todo \in SUBSET Deps
         /\ actor[a].crossed \in BOOLEAN /\ actor[a].meddled \in BOOLEAN
         /\ actor[a].doc.whole \in BOOLEAN /\ actor[a].doc.deps \in SUBSET Deps
<1>1. actor[a] \in Records
  OBVIOUS
<1>2. /\ actor[a].doc \in Poms /\ actor[a].todo \in SUBSET Deps
      /\ actor[a].crossed \in BOOLEAN /\ actor[a].meddled \in BOOLEAN
  BY <1>1 DEF Records
<1> QED
  BY <1>2, PomFacts

LEMMA GoesFields ==
  ASSUME actor \in [Actors -> Records], NEW a \in Actors, NEW p, Goes(a, p),
         p \in {"open", "write", "execute", "task", "copy", "list", "delete", "done", "failed"}
  PROVE  /\ Became(a, actor[a].kind, p, actor[a].doc, actor[a].todo, actor[a].crossed, actor[a].meddled)
         /\ Others(a, {}, {})
  BY DEF Goes, Records, Became, Others, Keep

LEMMA StartFields ==
  ASSUME actor \in [Actors -> Records], NEW a \in Actors, NEW k, NEW p, NEW d \in Poms,
         actor[a] = Idle,
         \/ actor' = [actor EXCEPT ![a].kind = k, ![a].at = p] /\ d = Idle.doc
         \/ actor' = [actor EXCEPT ![a].kind = k, ![a].at = p, ![a].doc = d],
         k \in {"append", "reparse", "republish", "edit"}, p \in {"parse", "list", "edit"}
  PROVE  Became(a, k, p, d, {}, FALSE, FALSE) /\ Others(a, {}, {})
<1>1. Idle.todo = {} /\ Idle.crossed = FALSE /\ Idle.meddled = FALSE
  BY DEF Idle
<1> QED
  BY <1>1 DEF Records, Became, Others, Keep

LEMMA ParseFields ==
  ASSUME actor \in [Actors -> Records], NEW a \in Actors, NEW p, NEW d \in Poms,
         actor' = [actor EXCEPT ![a].at = p, ![a].doc = d], p \in {"open"}
  PROVE  /\ Became(a, actor[a].kind, p, d, actor[a].todo, actor[a].crossed, actor[a].meddled)
         /\ Others(a, {}, {})
  BY DEF Records, Became, Others, Keep

LEMMA ListFields ==
  ASSUME actor \in [Actors -> Records], NEW a \in Actors, List(a), lib \subseteq Deps
  PROVE  /\ Became(a, actor[a].kind, "delete", actor[a].doc, lib, actor[a].crossed, actor[a].meddled)
         /\ Others(a, {}, {})
  BY DEF List, Records, Became, Others, Keep

LEMMA ReadFields ==
  ASSUME actor \in [Actors -> Records], NEW a \in Actors, ReadPom(a), pom \in Poms
  PROVE  /\ Became(a, actor[a].kind, "copy", pom, pom.deps, actor[a].crossed, actor[a].meddled)
         /\ Others(a, {}, {})
<1>1. pom.deps \in SUBSET Deps
  BY PomFacts
<1> QED
  BY <1>1, ZenonT(60) DEF ReadPom, Records, Became, Others, Keep

SameBut(q, r) == /\ r \in Records /\ q.kind = r.kind /\ q.todo = r.todo

LEMMA MarkMeddled ==
  ASSUME NEW q \in Records, NEW r, r = [q EXCEPT !.meddled = TRUE]
  PROVE  /\ SameBut(q, r) /\ r.at = q.at /\ r.doc = q.doc /\ r.crossed = q.crossed /\ r.meddled = TRUE
  BY DEF Records, SameBut

LEMMA MarkCrossed ==
  ASSUME NEW q \in Records, NEW r, r = [q EXCEPT !.crossed = TRUE]
  PROVE  /\ SameBut(q, r) /\ r.at = q.at /\ r.doc = q.doc /\ r.crossed = TRUE /\ r.meddled = q.meddled
  BY DEF Records, SameBut

LEMMA MeddleFields ==
  ASSUME actor \in [Actors -> Records], NEW a \in Actors, NEW others, NEW jar,
         actor' = [Meddle(a, others) EXCEPT ![a].todo = @ \ {jar}]
  PROVE  /\ Became(a, actor[a].kind, actor[a].at, actor[a].doc, actor[a].todo \ {jar},
                   actor[a].crossed, actor[a].meddled)
         /\ Others(a, {}, others)
<1> DEFINE m == Meddle(a, others)
<1>1. m[a] = actor[a] /\ m = [b \in Actors |-> m[b]]
  BY DEF Meddle
<1>2. ASSUME NEW b \in Actors, b # a
      PROVE  /\ m[b] \in Records
             /\ m[b].kind = actor[b].kind /\ m[b].at = actor[b].at
             /\ m[b].doc = actor[b].doc /\ m[b].todo = actor[b].todo /\ m[b].crossed = actor[b].crossed
             /\ m[b].meddled = IF b \in others THEN TRUE ELSE actor[b].meddled
  <2>1. m[b] = IF b \in others THEN [actor[b] EXCEPT !.meddled = TRUE] ELSE actor[b]
    BY <1>2 DEF Meddle
  <2> HIDE DEF m
  <2>2. actor[b] \in Records
    OBVIOUS
  <2> QED
    BY <2>1, <2>2, MarkMeddled DEF SameBut
<1>4. m \in [Actors -> Records]
  <2> HIDE DEF m
  <2> QED
    BY <1>1, <1>2, ZenonT(60)
<1> HIDE DEF m
<1>3. actor' = [m EXCEPT ![a].todo = @ \ {jar}]
  BY DEF m
<1>5. actor' \in [Actors -> Records]
  <2>1. m[a] \in Records
    BY <1>4
  <2>2. [m[a] EXCEPT !.todo = @ \ {jar}] \in Records
    BY <2>1 DEF Records
  <2>3. \A b \in Actors : actor'[b] = IF b = a THEN [m[a] EXCEPT !.todo = @ \ {jar}] ELSE m[b]
    BY <1>3, <1>4
  <2>4. actor' = [b \in Actors |-> actor'[b]]
    BY <1>3, <1>4
  <2> QED
    BY <1>4, <2>2, <2>3, <2>4
<1>6. actor'[a] = [actor[a] EXCEPT !.todo = @ \ {jar}]
  BY <1>1, <1>3, <1>4
<1>7. Became(a, actor[a].kind, actor[a].at, actor[a].doc, actor[a].todo \ {jar},
             actor[a].crossed, actor[a].meddled)
  <2>1. actor[a] \in Records
    OBVIOUS
  <2> QED
    BY <1>5, <1>6, <2>1 DEF Records, Became
<1>8. \A b \in Actors : b # a => actor'[b] = m[b]
  BY <1>3, <1>4
<1>9. Others(a, {}, others)
  BY <1>2, <1>8, ZenonT(60) DEF Others, Keep
<1> QED
  BY <1>7, <1>9

LEMMA OpenFields ==
  ASSUME actor \in [Actors -> Records], NEW a \in Actors, Open(a)
  PROVE  /\ Became(a, actor[a].kind, "write", actor[a].doc, actor[a].todo,
                   actor[a].crossed \/ Editing # {}, actor[a].meddled)
         /\ Others(a, Editing, {})
<1> DEFINE c == actor[a].crossed \/ Editing # {}
<1>1. c \in BOOLEAN
  BY Fields
<1>2. actor' = [b \in Actors |->
         CASE b = a -> [actor[a] EXCEPT !.at = "write", !.crossed = c]
           [] b \in Editing \ {a} -> [actor[b] EXCEPT !.crossed = TRUE]
           [] OTHER -> actor[b]]
  BY DEF Open
<1> HIDE DEF c
<1>3. actor'[a] = [actor[a] EXCEPT !.at = "write", !.crossed = c]
  BY <1>2
<1>4. \A b \in Actors : b # a =>
        actor'[b] = IF b \in Editing THEN [actor[b] EXCEPT !.crossed = TRUE] ELSE actor[b]
  BY <1>2
<1>5. ASSUME NEW b \in Actors, b # a
      PROVE  /\ actor'[b] \in Records /\ Keep(b)
             /\ actor'[b].crossed = IF b \in Editing THEN TRUE ELSE actor[b].crossed
             /\ actor'[b].meddled = actor[b].meddled
  <2>1. actor[b] \in Records
    OBVIOUS
  <2> QED
    BY <1>4, <1>5, <2>1, MarkCrossed DEF Keep, SameBut
<1>6. /\ actor'[a] \in Records
      /\ actor'[a].kind = actor[a].kind /\ actor'[a].at = "write" /\ actor'[a].doc = actor[a].doc
      /\ actor'[a].todo = actor[a].todo /\ actor'[a].crossed = c /\ actor'[a].meddled = actor[a].meddled
  <2>1. actor[a] \in Records
    OBVIOUS
  <2> QED
    BY <1>1, <1>3, <2>1 DEF Records
<1>7. actor' = [b \in Actors |-> actor'[b]]
  BY <1>2
<1>8. actor' \in [Actors -> Records]
  BY <1>5, <1>6, <1>7
<1> QED
  BY <1>5, <1>6, <1>8 DEF Became, Others, c

LEMMA OpenEditFields ==
  ASSUME actor \in [Actors -> Records], NEW a \in Actors, OpenEdit(a)
  PROVE  \E doc \in Poms :
           /\ Became(a, actor[a].kind, "write", doc, actor[a].todo, At("write") # {}, actor[a].meddled)
           /\ Others(a, InUse, {})
<1>1. PICK doc \in Texts \union {actor[a].doc} :
        actor' = [b \in Actors |->
          CASE b = a -> [actor[a] EXCEPT !.at = "write", !.doc = doc, !.crossed = At("write") # {}]
            [] b \in InUse \ {a} -> [actor[b] EXCEPT !.crossed = TRUE]
            [] OTHER -> actor[b]]
  BY DEF OpenEdit
<1>2. doc \in Poms
  BY Fields
<1> DEFINE c == At("write") # {}
<1>3. c \in BOOLEAN
  OBVIOUS
<1>4. actor'[a] = [actor[a] EXCEPT !.at = "write", !.doc = doc, !.crossed = c]
  BY <1>1
<1>5. \A b \in Actors : b # a =>
        actor'[b] = IF b \in InUse THEN [actor[b] EXCEPT !.crossed = TRUE] ELSE actor[b]
  BY <1>1
<1> HIDE DEF c
<1>6. ASSUME NEW b \in Actors, b # a
      PROVE  /\ actor'[b] \in Records /\ Keep(b)
             /\ actor'[b].crossed = IF b \in InUse THEN TRUE ELSE actor[b].crossed
             /\ actor'[b].meddled = actor[b].meddled
  <2>1. actor[b] \in Records
    OBVIOUS
  <2> QED
    BY <1>5, <1>6, <2>1, MarkCrossed DEF Keep, SameBut
<1>7. /\ actor'[a] \in Records
      /\ actor'[a].kind = actor[a].kind /\ actor'[a].at = "write" /\ actor'[a].doc = doc
      /\ actor'[a].todo = actor[a].todo /\ actor'[a].crossed = c /\ actor'[a].meddled = actor[a].meddled
  <2>1. actor[a] \in Records
    OBVIOUS
  <2> QED
    BY <1>2, <1>3, <1>4, <2>1 DEF Records
<1>8. actor' = [b \in Actors |-> actor'[b]]
  BY <1>1
<1>9. actor' \in [Actors -> Records]
  BY <1>6, <1>7, <1>8
<1>10. Became(a, actor[a].kind, "write", doc, actor[a].todo, c, actor[a].meddled)
  BY <1>7, <1>9 DEF Became
<1>11. Others(a, InUse, {})
  BY <1>6 DEF Others
<1> QED
  BY <1>2, <1>10, <1>11 DEF c

LEMMA RestartFields ==
  ASSUME actor \in [Actors -> Records], Restart
  PROVE  /\ actor' \in [Actors -> Records]
         /\ \A b \in Actors :
              /\ actor'[b].kind = actor[b].kind /\ actor'[b].doc = actor[b].doc
              /\ actor'[b].todo = actor[b].todo /\ actor'[b].crossed = actor[b].crossed
              /\ actor'[b].meddled = actor[b].meddled
              /\ actor'[b].at = IF actor[b].at \in {"parse", "open", "write", "execute", "task", "list", "delete"}
                                THEN "failed" ELSE actor[b].at
  BY DEF Restart, Records

-----------------------------------------------------------------------------
(* The types                                                               *)

RecordsOK == /\ actor \in [Actors -> Records]
             /\ \A a \in Actors : RecordOK(a) /\ (Locked(a) <=> locker = a)

(* One request moves and the others stay where they are.                   *)
LEMMA RecordsNext ==
  ASSUME RecordsOK, NEW a \in Actors, NEW k, NEW p, NEW d, NEW t, NEW c, NEW m, NEW C, NEW M,
         Became(a, k, p, d, t, c, m), Others(a, C, M), RecordOK(a)',
         \/ locker' = locker /\ (Locked(a)' <=> Locked(a))
         \/ locker = None /\ locker' = a /\ Locked(a)'
         \/ locker = a /\ locker' = None /\ ~Locked(a)'
  PROVE  RecordsOK'
<1>1. \A b \in Actors : RecordOK(b)'
  <2>1. ASSUME NEW b \in Actors, b # a PROVE RecordOK(b)'
    <3>1. RecordOK(b) /\ Keep(b)
      BY <2>1 DEF RecordsOK, Others
    <3> QED
      BY <3>1 DEF RecordOK, Keep
  <2> QED
    BY <2>1
<1>2. \A b \in Actors : b # a => (Locked(b)' <=> Locked(b))
  BY DEF Locked, Others, Keep
<1>3. \A b \in Actors : Locked(b)' <=> locker' = b
  BY <1>2 DEF RecordsOK
<1> QED
  BY <1>1, <1>3 DEF RecordsOK, Became

LEMMA TypeInit == Init => TypeOK
<1> SUFFICES ASSUME Init PROVE TypeOK
  OBVIOUS
<1>1. pom \in Poms /\ pom.whole \in BOOLEAN /\ pom.deps \in SUBSET Deps
  BY PomFacts DEF Init, Deps
<1>2. RecordsOK
  BY IdleFacts DEF Init, RecordsOK, RecordOK, Locked
<1> QED
  BY <1>1, <1>2 DEF Init, TypeOK, RecordsOK, Deps

LEMMA RecordsStep ==
  ASSUME TypeOK, NEW a \in Actors,
         Download(a) \/ DeleteJars(a) \/ EditPom(a) \/ Maven(a)
  PROVE  RecordsOK'
<1>0. /\ RecordsOK /\ actor \in [Actors -> Records] /\ pom \in Poms /\ lib \subseteq Deps
      /\ RecordOK(a) /\ (Locked(a) <=> locker = a)
  BY DEF TypeOK, RecordsOK
<1>1. ASSUME NEW k \in {"append", "reparse"}, Lock(a, k) PROVE RecordsOK'
  <2>1. Became(a, k, IF k = "append" THEN "parse" ELSE "list", Torn, {}, FALSE, FALSE)
        /\ Others(a, {}, {})
    BY <1>0, <1>1, StartFields, IdleFacts, PomFacts DEF Lock
  <2>2. RecordOK(a)' /\ Locked(a)'
    BY <1>1, <2>1 DEF RecordOK, Locked, Became
  <2> QED
    BY <1>0, <1>1, <2>1, <2>2, RecordsNext DEF Lock
<1>2. CASE Parse(a)
  <2>1. Became(a, actor[a].kind, "open", pom, actor[a].todo, actor[a].crossed, actor[a].meddled)
        /\ Others(a, {}, {})
    BY <1>0, <1>2, ParseFields DEF Parse
  <2>2. RecordOK(a)' /\ (Locked(a)' <=> Locked(a))
    BY <1>0, <1>2, <2>1 DEF Parse, RecordOK, Locked, Became
  <2> QED
    BY <1>0, <1>2, <2>1, <2>2, RecordsNext DEF Parse
<1>3. CASE Open(a)
  <2>1. Became(a, actor[a].kind, "write", actor[a].doc, actor[a].todo,
               actor[a].crossed \/ Editing # {}, actor[a].meddled)
        /\ Others(a, Editing, {})
    BY <1>0, <1>3, OpenFields
  <2>2. RecordOK(a)' /\ (Locked(a)' <=> Locked(a))
    BY <1>0, <1>3, <2>1 DEF Open, RecordOK, Locked, Became
  <2> QED
    BY <1>0, <1>3, <2>1, <2>2, RecordsNext DEF Open
<1>4. CASE Republish(a) \/ LoadPomFile(a)
  <2>1. /\ \/ Became(a, "republish", "list", Torn, {}, FALSE, FALSE)
           \/ Became(a, "edit", "edit", pom, {}, FALSE, FALSE)
        /\ Others(a, {}, {})
    BY <1>0, <1>4, StartFields, IdleFacts, PomFacts DEF Republish, LoadPomFile
  <2>2. RecordOK(a)' /\ (Locked(a)' <=> Locked(a)) /\ locker' = locker
    BY <1>4, <2>1, IdleFacts DEF RecordOK, Locked, Became, Republish, LoadPomFile
  <2> QED
    BY <1>0, <2>1, <2>2, RecordsNext
<1>5. ASSUME NEW p \in {"open", "write", "execute", "task", "copy", "list", "delete", "done", "failed"},
             Goes(a, p), RecordOK(a)',
             \/ locker' = locker /\ (Locked(a)' <=> Locked(a))
             \/ locker = a /\ locker' = None /\ ~Locked(a)'
      PROVE  RecordsOK'
  <2>1. /\ Became(a, actor[a].kind, p, actor[a].doc, actor[a].todo, actor[a].crossed, actor[a].meddled)
        /\ Others(a, {}, {})
    BY <1>0, <1>5, GoesFields
  <2> QED
    BY <1>0, <1>5, <2>1, RecordsNext
<1>6. ASSUME NEW p \in {"open", "write", "execute", "task", "copy", "list", "delete", "done", "failed"},
             Goes(a, p)
      PROVE  actor'[a].at = p /\ actor'[a].kind = actor[a].kind /\ actor'[a].doc = actor[a].doc
  BY <1>0, <1>6, GoesFields DEF Became
<1>7. CASE AppendFails(a)
  <2>1. RecordOK(a)' /\ ~Locked(a)' /\ locker = a
    BY <1>0, <1>6, <1>7 DEF AppendFails, RecordOK, Locked
  <2> QED
    BY <1>5, <1>7, <2>1 DEF AppendFails
<1>8. CASE Append(a)
  <2>1. RecordOK(a)' /\ (Locked(a)' <=> Locked(a))
    BY <1>0, <1>6, <1>8 DEF Append, RecordOK, Locked
  <2> QED
    BY <1>5, <1>8, <2>1 DEF Append
<1>9. CASE WriteFails(a)
  <2>1. RecordOK(a)' /\ ~Locked(a)' /\ (Locked(a) <=> actor[a].kind = "append")
    BY <1>0, <1>6, <1>9 DEF WriteFails, RecordOK, Locked
  <2> QED
    BY <1>0, <1>5, <1>9, <2>1 DEF WriteFails
<1>10. CASE Execute(a)
  <2>1. RecordOK(a)' /\ ~Locked(a)' /\ locker = a
    BY <1>0, <1>6, <1>10 DEF Execute, RecordOK, Locked
  <2> QED
    BY <1>5, <1>10, <2>1 DEF Execute
<1>11. CASE List(a)
  <2>1. Became(a, actor[a].kind, "delete", actor[a].doc, lib, actor[a].crossed, actor[a].meddled)
        /\ Others(a, {}, {})
    BY <1>0, <1>11, ListFields
  <2>2. RecordOK(a)' /\ (Locked(a)' <=> Locked(a))
    BY <1>0, <1>11, <2>1 DEF List, RecordOK, Locked, Became
  <2> QED
    BY <1>0, <1>11, <2>1, <2>2, RecordsNext DEF List
<1>12. CASE Deleted(a)
  <2>1. RecordOK(a)' /\ (Locked(a)' <=> Locked(a))
    BY <1>0, <1>6, <1>12 DEF Deleted, RecordOK, Locked
  <2> QED
    BY <1>5, <1>12, <2>1 DEF Deleted
<1>13. ASSUME NEW jar \in Deps, Delete(a, jar) \/ Copy(a, jar) PROVE RecordsOK'
  <2>1. PICK others : actor' = [Meddle(a, others) EXCEPT ![a].todo = @ \ {jar}]
    BY <1>13 DEF Delete, Copy
  <2>2. /\ Became(a, actor[a].kind, actor[a].at, actor[a].doc, actor[a].todo \ {jar},
                  actor[a].crossed, actor[a].meddled)
        /\ Others(a, {}, others)
    BY <1>0, <2>1, MeddleFields
  <2>3. RecordOK(a)' /\ (Locked(a)' <=> Locked(a))
    BY <1>0, <2>2 DEF RecordOK, Locked, Became
  <2> QED
    BY <1>0, <1>13, <2>2, <2>3, RecordsNext DEF Delete, Copy
<1>14. CASE OpenEdit(a)
  <2>1. PICK doc \in Poms :
          /\ Became(a, actor[a].kind, "write", doc, actor[a].todo, At("write") # {}, actor[a].meddled)
          /\ Others(a, InUse, {})
    BY <1>0, <1>14, OpenEditFields
  <2>2. RecordOK(a)' /\ (Locked(a)' <=> Locked(a))
    BY <1>0, <1>14, <2>1 DEF OpenEdit, RecordOK, Locked, Became
  <2> QED
    BY <1>0, <1>14, <2>1, <2>2, RecordsNext DEF OpenEdit
<1>15. CASE EditFails(a)
  <2>1. RecordOK(a)' /\ (Locked(a)' <=> Locked(a))
    BY <1>0, <1>6, <1>15 DEF EditFails, RecordOK, Locked
  <2> QED
    BY <1>5, <1>15, <2>1 DEF EditFails
<1>16. CASE Override(a)
  <2>1. RecordOK(a)' /\ (Locked(a)' <=> Locked(a))
    BY <1>0, <1>6, <1>16 DEF Override, RecordOK, Locked
  <2> QED
    BY <1>5, <1>16, <2>1 DEF Override
<1>17. CASE ReadPom(a)
  <2>1. Became(a, actor[a].kind, "copy", pom, pom.deps, actor[a].crossed, actor[a].meddled)
        /\ Others(a, {}, {})
    BY <1>0, <1>17, ReadFields
  <2>2. RecordOK(a)' /\ (Locked(a)' <=> Locked(a))
    BY <1>0, <1>17, <2>1 DEF ReadPom, RecordOK, Locked, Became
  <2> QED
    BY <1>0, <1>17, <2>1, <2>2, RecordsNext DEF ReadPom
<1>18. CASE BuildSuccess(a)
  <2>1. RecordOK(a)' /\ (Locked(a)' <=> Locked(a))
    BY <1>0, <1>6, <1>18 DEF BuildSuccess, RecordOK, Locked
  <2> QED
    BY <1>5, <1>18, <2>1 DEF BuildSuccess
<1>19. CASE BuildFailure(a)
  <2>1. RecordOK(a)' /\ (Locked(a)' <=> Locked(a))
    BY <1>0, <1>6, <1>19 DEF BuildFailure, RecordOK, Locked
  <2> QED
    BY <1>5, <1>19, <2>1 DEF BuildFailure
<1>20. CASE ListFails(a)
  <2>1. RecordOK(a)' /\ ~Locked(a)' /\ (Locked(a) <=> actor[a].kind = "reparse")
    BY <1>0, <1>6, <1>20 DEF ListFails, RecordOK, Locked
  <2> QED
    BY <1>0, <1>5, <1>20, <2>1 DEF ListFails
<1> QED
  BY <1>1, <1>2, <1>3, <1>4, <1>7, <1>8, <1>9, <1>10, <1>11, <1>12, <1>13, <1>14, <1>15, <1>16,
     <1>17, <1>18, <1>19, <1>20 DEF Download, DeleteJars, EditPom, Maven

LEMMA FilesStep ==
  ASSUME TypeOK, NEW a \in Actors,
         Download(a) \/ DeleteJars(a) \/ EditPom(a) \/ Maven(a)
  PROVE  /\ pom' \in Poms /\ lib' \subseteq Deps /\ promised' \subseteq Deps
         /\ clean' \in BOOLEAN /\ stuck' \subseteq Deps /\ locker' \in Actors \union {None}
         /\ stale' \subseteq Actors
<1> USE DEF TypeOK
<1>1. actor[a].doc \in Poms /\ actor[a].crossed \in BOOLEAN /\ actor[a].doc.whole \in BOOLEAN
      /\ actor[a].doc.deps \in SUBSET Deps /\ a \in Deps
  BY Fields DEF Deps
<1>2. CASE Append(a)
  <2>1. actor[a].doc.deps \union {a} \in SUBSET Deps
    BY <1>1
  <2> QED
    BY <1>1, <1>2, <2>1, PomFacts DEF Append, Outcomes
<1>3. CASE Override(a)
  BY <1>1, <1>3, PomFacts DEF Override, Outcomes
<1>4. CASE WriteFails(a)
  BY <1>4, PomFacts DEF WriteFails
<1>5. CASE Open(a) \/ OpenEdit(a)
  BY <1>5, PomFacts DEF Open, OpenEdit
<1>6. ASSUME NEW jar \in Deps, Delete(a, jar) \/ Copy(a, jar)
      PROVE  lib' \subseteq Deps /\ stuck' \subseteq Deps
  BY <1>6 DEF Delete, Copy
<1> QED
  BY <1>2, <1>3, <1>4, <1>5, <1>6
     DEF Download, DeleteJars, EditPom, Maven, Lock, Parse, AppendFails, Execute, Republish, List,
         ListFails, Deleted, Delete, Copy, LoadPomFile, EditFails, ReadPom, BuildSuccess, BuildFailure

LEMMA TypeRestart ==
  ASSUME TypeOK, Restart
  PROVE  TypeOK'
<1>1. RecordsOK'
  <2>1. actor' \in [Actors -> Records]
    BY RestartFields DEF TypeOK
  <2>2. ASSUME NEW b \in Actors PROVE RecordOK(b)' /\ ~Locked(b)'
    BY RestartFields DEF TypeOK, RecordOK, Locked
  <2>3. locker' = None
    BY DEF Restart
  <2> QED
    BY <2>1, <2>2, <2>3 DEF RecordsOK
<1> QED
  BY <1>1 DEF TypeOK, RecordsOK, Restart

LEMMA TypeNext == TypeOK /\ [Next]_vars => TypeOK'
<1> SUFFICES ASSUME TypeOK, [Next]_vars PROVE TypeOK'
  OBVIOUS
<1>1. ASSUME NEW a \in Actors, Download(a) \/ DeleteJars(a) \/ EditPom(a) \/ Maven(a) PROVE TypeOK'
  BY <1>1, RecordsStep, FilesStep DEF TypeOK, RecordsOK
<1>2. CASE UNCHANGED vars
  BY <1>2 DEF TypeOK, RecordOK, Locked, vars
<1> QED
  BY <1>1, <1>2, TypeRestart DEF Next

(* The state has its type: the lock, too, is held by exactly the download  *)
(* that changes files, however the others end.                             *)
THEOREM TypeCorrect == Spec => []TypeOK
  BY TypeInit, TypeNext, PTL DEF Spec

-----------------------------------------------------------------------------
(* Steps that are somebody's, by what they do                              *)

(* One that changes neither the pom nor the histories about it, and is     *)
(* no writer's.                                                            *)
Aside(a) == /\ UNCHANGED <<pom, promised, clean>>
            /\ actor' \in [Actors -> Records]
            /\ actor[a].at # "write" /\ actor'[a].at \notin {"open", "write"}
            /\ \A b \in Actors : b # a => Keep(b) /\ actor'[b].crossed = actor[b].crossed

LEMMA AsideSteps ==
  ASSUME TypeOK, NEW a \in Actors,
         \/ Lock(a, "append") \/ Lock(a, "reparse") \/ AppendFails(a) \/ Execute(a)
         \/ DeleteJars(a) \/ LoadPomFile(a) \/ EditFails(a) \/ Maven(a)
  PROVE  Aside(a)
<1>0. actor \in [Actors -> Records] /\ pom \in Poms /\ lib \subseteq Deps
  BY DEF TypeOK
<1>1. ASSUME NEW k, NEW p, NEW d, NEW t, NEW c, NEW m, NEW M,
             Became(a, k, p, d, t, c, m), Others(a, {}, M),
             actor[a].at # "write", p \notin {"open", "write"},
             UNCHANGED <<pom, promised, clean>>
      PROVE  Aside(a)
  BY <1>1 DEF Aside, Became, Others
<1>2. ASSUME NEW p \in {"execute", "task", "copy", "list", "delete", "done", "failed"},
             Goes(a, p), actor[a].at # "write", UNCHANGED <<pom, promised, clean>>
      PROVE  Aside(a)
  <2>1. /\ Became(a, actor[a].kind, p, actor[a].doc, actor[a].todo, actor[a].crossed, actor[a].meddled)
        /\ Others(a, {}, {})
    BY <1>0, <1>2, GoesFields
  <2> QED
    BY <1>1, <1>2, <2>1
<1>3. CASE \/ AppendFails(a) \/ Execute(a) \/ ListFails(a) \/ Deleted(a) \/ EditFails(a)
           \/ BuildSuccess(a) \/ BuildFailure(a)
  BY <1>2, <1>3 DEF AppendFails, Execute, ListFails, Deleted, EditFails, BuildSuccess, BuildFailure
<1>4. CASE Lock(a, "append") \/ Lock(a, "reparse") \/ Republish(a) \/ LoadPomFile(a)
  <2>1. PICK p \in {"parse", "list", "edit"} : \E k, d : Became(a, k, p, d, {}, FALSE, FALSE) /\ Others(a, {}, {})
    <3>1. CASE Lock(a, "append")
      <4>1. Became(a, "append", "parse", Torn, {}, FALSE, FALSE) /\ Others(a, {}, {})
        BY <1>0, <3>1, StartFields, IdleFacts, PomFacts DEF Lock
      <4> QED
        BY <4>1
    <3>2. CASE Lock(a, "reparse")
      <4>1. Became(a, "reparse", "list", Torn, {}, FALSE, FALSE) /\ Others(a, {}, {})
        BY <1>0, <3>2, StartFields, IdleFacts, PomFacts DEF Lock
      <4> QED
        BY <4>1
    <3>3. CASE Republish(a)
      <4>1. Became(a, "republish", "list", Torn, {}, FALSE, FALSE) /\ Others(a, {}, {})
        BY <1>0, <3>3, StartFields, IdleFacts, PomFacts DEF Republish
      <4> QED
        BY <4>1
    <3>4. CASE LoadPomFile(a)
      BY <1>0, <3>4, StartFields DEF LoadPomFile
    <3> QED
      BY <1>4, <3>1, <3>2, <3>3, <3>4
  <2>2. actor[a].at # "write" /\ UNCHANGED <<pom, promised, clean>>
    BY <1>4, IdleFacts DEF Lock, Republish, LoadPomFile
  <2> QED
    BY <1>1, <2>1, <2>2
<1>5. CASE List(a)
  <2>1. /\ Became(a, actor[a].kind, "delete", actor[a].doc, lib, actor[a].crossed, actor[a].meddled)
        /\ Others(a, {}, {})
    BY <1>0, <1>5, ListFields
  <2> QED
    BY <1>1, <1>5, <2>1 DEF List
<1>6. CASE ReadPom(a)
  <2>1. /\ Became(a, actor[a].kind, "copy", pom, pom.deps, actor[a].crossed, actor[a].meddled)
        /\ Others(a, {}, {})
    BY <1>0, <1>6, ReadFields
  <2> QED
    BY <1>1, <1>6, <2>1 DEF ReadPom
<1>7. ASSUME NEW jar \in Deps, Delete(a, jar) \/ Copy(a, jar) PROVE Aside(a)
  <2>1. PICK others : actor' = [Meddle(a, others) EXCEPT ![a].todo = @ \ {jar}]
    BY <1>7 DEF Delete, Copy
  <2>2. /\ Became(a, actor[a].kind, actor[a].at, actor[a].doc, actor[a].todo \ {jar},
                  actor[a].crossed, actor[a].meddled)
        /\ Others(a, {}, others)
    BY <1>0, <2>1, MeddleFields
  <2>3. actor[a].at \in {"delete", "copy"} /\ UNCHANGED <<pom, promised, clean>>
    BY <1>7 DEF Delete, Copy
  <2> QED
    BY <1>1, <2>2, <2>3
<1> QED
  BY <1>3, <1>4, <1>5, <1>6, <1>7 DEF DeleteJars, Maven

-----------------------------------------------------------------------------
(* The contents of the pom                                                 *)

Appending(b) == actor[b].kind = "append" /\ actor[b].at \in {"open", "write"}

(* A download that no edit has crossed goes on from a pom that has every   *)
(* append and edit so far in it.                                           *)
Serial == clean => /\ pom.whole => pom.deps = promised
                   /\ ~pom.whole => At("write") # {}
                   /\ \A b \in Actors : Appending(b) /\ ~actor[b].crossed => actor[b].doc.deps = promised

(* An edit that nobody crosses is the only writer.                         *)
SoleEdit == \A e \in Actors : actor[e].kind = "edit" /\ actor[e].at = "write" /\ ~actor[e].crossed =>
              /\ ~pom.whole
              /\ \A b \in Actors : actor[b].at = "write" => b = e
              /\ \A b \in Actors : Appending(b) => actor[b].crossed

PomInv == Serial /\ SoleEdit

LEMMA PomInit == Init => PomInv
<1> SUFFICES ASSUME Init PROVE PomInv
  OBVIOUS
<1>1. \A b \in Actors : actor[b].at = "idle"
  BY IdleFacts DEF Init
<1> QED
  BY <1>1 DEF Init, PomInv, Serial, SoleEdit, Appending

LEMMA PomAside ==
  ASSUME TypeOK, PomInv, NEW a \in Actors, Aside(a)
  PROVE  PomInv'
<1>1. /\ pom' = pom /\ promised' = promised /\ clean' = clean
      /\ \A b \in Actors : b # a => Keep(b) /\ actor'[b].crossed = actor[b].crossed
      /\ actor[a].at # "write" /\ actor'[a].at \notin {"open", "write"}
  BY DEF Aside
<1>2. \A b \in Actors : Appending(b)' => b # a /\ Appending(b)
  BY <1>1 DEF Appending, Keep
<1>3. At("write") \subseteq At("write")'
  BY <1>1 DEF At, Keep
<1>4. Serial'
  BY <1>1, <1>2, <1>3 DEF PomInv, Serial, Keep
<1>5. SoleEdit'
  BY <1>1, <1>2 DEF PomInv, SoleEdit, Keep
<1> QED
  BY <1>4, <1>5 DEF PomInv

LEMMA PomStep ==
  ASSUME TypeOK, PomInv, NEW a \in Actors,
         Download(a) \/ DeleteJars(a) \/ EditPom(a) \/ Maven(a)
  PROVE  PomInv'
<1>0. /\ actor \in [Actors -> Records] /\ pom \in Poms /\ RecordOK(a)
      /\ \A b \in Actors : RecordOK(b) /\ (Locked(b) <=> locker = b)
      /\ \A b \in Actors : actor[b].crossed \in BOOLEAN
  BY Fields DEF TypeOK
<1>1. CASE \/ Lock(a, "append") \/ Lock(a, "reparse") \/ AppendFails(a) \/ Execute(a)
           \/ DeleteJars(a) \/ LoadPomFile(a) \/ EditFails(a) \/ Maven(a)
  BY <1>1, AsideSteps, PomAside
<1>2. CASE Parse(a)
  <2>1. Became(a, actor[a].kind, "open", pom, actor[a].todo, actor[a].crossed, actor[a].meddled)
        /\ Others(a, {}, {})
    BY <1>0, <1>2, ParseFields DEF Parse
  <2>2. pom' = pom /\ promised' = promised /\ clean' = clean /\ pom.whole /\ actor[a].at = "parse"
    BY <1>2 DEF Parse
  <2>3. Serial'
    BY <2>1, <2>2 DEF PomInv, Serial, Appending, Became, Others, Keep
  <2>4. SoleEdit'
    BY <2>1, <2>2 DEF PomInv, SoleEdit, Appending, Became, Others, Keep
  <2> QED
    BY <2>3, <2>4 DEF PomInv
<1>3. CASE Open(a)
  <2>1. Became(a, actor[a].kind, "write", actor[a].doc, actor[a].todo,
               actor[a].crossed \/ Editing # {}, actor[a].meddled)
        /\ Others(a, Editing, {})
    BY <1>0, <1>3, OpenFields
  <2>2. pom' = Torn /\ promised' = promised /\ clean' = clean /\ actor[a].at = "open"
    BY <1>3 DEF Open
  <2>3. ~pom'.whole /\ a \in At("write")' /\ actor[a].kind = "append"
    BY <1>0, <2>1, <2>2, PomFacts DEF At, Became, RecordOK
  <2>4. Serial'
    <3>1. ASSUME NEW b \in Actors, Appending(b)', ~actor'[b].crossed, clean
          PROVE  actor'[b].doc.deps = promised
      <4>1. /\ actor'[b].doc = actor[b].doc
            /\ Appending(b) /\ ~actor[b].crossed
        <5>1. CASE b = a
          BY <2>1, <2>2, <2>3, <3>1, <5>1 DEF Appending, Became
        <5>2. CASE b # a
          BY <2>1, <3>1, <5>2 DEF Appending, Others, Keep
        <5> QED
          BY <5>1, <5>2
      <4> QED
        BY <3>1, <4>1 DEF PomInv, Serial
    <3>2. At("write")' # {}
      BY <2>3
    <3> QED
      BY <2>2, <2>3, <3>1, <3>2 DEF Serial
  <2>5. SoleEdit'
    BY <2>1, <2>3 DEF SoleEdit, Became, Others, Keep, Editing, At, Is
  <2> QED
    BY <2>4, <2>5 DEF PomInv
<1>4. CASE OpenEdit(a)
  <2>1. PICK doc \in Poms :
          /\ Became(a, actor[a].kind, "write", doc, actor[a].todo, At("write") # {}, actor[a].meddled)
          /\ Others(a, InUse, {})
    BY <1>0, <1>4, OpenEditFields
  <2>2. pom' = Torn /\ promised' = promised /\ clean' = clean /\ actor[a].at = "edit"
    BY <1>4 DEF OpenEdit
  <2>3. ~pom'.whole /\ a \in At("write")' /\ actor[a].kind = "edit"
    BY <1>0, <2>1, <2>2, PomFacts DEF At, Became, RecordOK
  <2>4. \A b \in Actors : actor[b].at \in {"open", "write"} => b \in InUse
    BY DEF InUse, At
  <2>5. \A b \in Actors : b # a /\ actor'[b].at \in {"open", "write"} => actor'[b].crossed
    BY <2>1, <2>4 DEF Others, Keep
  <2>6. ~Appending(a)'
    BY <2>1, <2>3 DEF Appending, Became
  <2>7. Serial'
    BY <2>3, <2>5, <2>6 DEF Serial, Appending
  <2>8. ~actor'[a].crossed => \A b \in Actors : actor'[b].at = "write" => b = a
    BY <2>1 DEF At, Became, Others, Keep
  <2>9. SoleEdit'
    BY <2>3, <2>5, <2>6, <2>8 DEF SoleEdit, Appending
  <2> QED
    BY <2>7, <2>9 DEF PomInv
<1>5. CASE Append(a) \/ WriteFails(a) \/ Override(a)
  <2>1. PICK p \in {"execute", "failed", "done"} : Goes(a, p)
    BY <1>5 DEF Append, WriteFails, Override
  <2>2. /\ Became(a, actor[a].kind, p, actor[a].doc, actor[a].todo, actor[a].crossed, actor[a].meddled)
        /\ Others(a, {}, {})
    BY <1>0, <2>1, GoesFields
  <2>3. actor[a].at = "write"
    BY <1>5 DEF Append, WriteFails, Override
  <2>4. \A b \in Actors : actor'[b].at \in {"open", "write"} =>
          /\ b # a /\ actor[b].at = actor'[b].at /\ actor[b].kind = actor'[b].kind
          /\ actor[b].doc = actor'[b].doc /\ actor[b].crossed = actor'[b].crossed
    BY <2>2 DEF Became, Others, Keep
  <2>5. SoleEdit'
    BY <2>3, <2>4 DEF PomInv, SoleEdit
  <2>6. ASSUME Append(a) PROVE Serial'
    <3>1. CASE clean'
      <4>1. clean /\ ~actor[a].crossed /\ Appending(a) /\ promised' = promised \union {a}
        BY <2>6, <3>1 DEF Append, Appending
      <4>2. pom' = Whole(actor[a].doc.deps \union {a})
        BY <2>6, <4>1 DEF Append, Outcomes
      <4>3. actor[a].doc.deps = promised
        BY <4>1 DEF PomInv, Serial
      <4>4. \A b \in Actors : ~Appending(b)'
        BY <1>0, <2>4, <4>1 DEF Appending, Locked
      <4> QED
        <5>1. pom'.whole /\ pom'.deps = promised'
          BY <4>1, <4>2, <4>3, PomFacts
        <5> QED
          BY <4>4, <5>1 DEF Serial
    <3> QED
      BY <3>1 DEF Serial
  <2>7. ASSUME WriteFails(a) PROVE Serial'
    BY <2>7 DEF WriteFails, Serial
  <2>8. ASSUME Override(a) PROVE Serial'
    <3>1. CASE clean'
      <4>1. /\ ~actor[a].crossed /\ actor[a].doc.whole /\ actor[a].kind = "edit"
            /\ promised' = actor[a].doc.deps
        BY <2>8, <3>1 DEF Override
      <4>2. pom' = Whole(actor[a].doc.deps)
        BY <2>8, <4>1 DEF Override, Outcomes
      <4>3. \A b \in Actors : Appending(b)' => actor'[b].crossed
        BY <2>3, <2>4, <4>1 DEF PomInv, SoleEdit, Appending
      <4> QED
        <5>1. pom'.whole /\ pom'.deps = promised'
          BY <4>1, <4>2, PomFacts
        <5> QED
          BY <4>3, <5>1 DEF Serial
    <3> QED
      BY <3>1 DEF Serial
  <2> QED
    BY <1>5, <2>5, <2>6, <2>7, <2>8 DEF PomInv
<1> QED
  BY <1>1, <1>2, <1>3, <1>4, <1>5 DEF Download, EditPom

LEMMA PomRestart ==
  ASSUME TypeOK, PomInv, Restart
  PROVE  PomInv'
<1>1. \A b \in Actors : actor'[b].at \notin {"open", "write"}
  BY RestartFields DEF TypeOK
<1>2. pom' = pom /\ promised' = promised /\ (clean' => clean /\ At("write") = {})
  BY DEF Restart
<1> QED
  BY <1>1, <1>2 DEF PomInv, Serial, SoleEdit, Appending

LEMMA PomNext == TypeOK /\ PomInv /\ [Next]_vars => PomInv'
<1> SUFFICES ASSUME TypeOK, PomInv, [Next]_vars PROVE PomInv'
  OBVIOUS
<1>1. CASE UNCHANGED vars
  BY <1>1 DEF vars, PomInv, Serial, SoleEdit, Appending, At
<1> QED
  BY <1>1, PomStep, PomRestart DEF Next

(* No append is lost, and no dependency that an edit has taken out comes   *)
(* back, unless an edit is saved while somebody else is under way, or over *)
(* a pom that is not the one it had loaded: this one loses the append made *)
(* since.                                                                  *)
THEOREM PomsAreSerial == Spec => []PomIsSerial
<1>1. PomInv => PomIsSerial
  BY DEF PomInv, Serial, PomIsSerial
<1> QED
  BY <1>1, TypeInit, TypeNext, PomInit, PomNext, PTL DEF Spec

(* A pom that cannot be parsed has a writer at work, or somebody failed,   *)
(* two wrote at once, or the page saved text that cannot be parsed.        *)
THEOREM TornPomsAreExplained == Spec => []TornIsExplained
<1>1. PomInv => TornIsExplained
  BY DEF PomInv, Serial, TornIsExplained
<1> QED
  BY <1>1, TypeInit, TypeNext, PomInit, PomNext, PTL DEF Spec

-----------------------------------------------------------------------------
(* What maven finds in the pom                                             *)

(* The dependency of a download is in the pom and in what others that      *)
(* append have read; none of them can have read the pom before it wrote,   *)
(* for it had the lock until it was handed over.                           *)
Found(a) == /\ actor[a].at \in {"execute", "task"} /\ pom.whole => a \in pom.deps
            /\ actor[a].at = "copy" => a \in actor[a].doc.deps
            /\ actor[a].at = "task" => \A b \in Actors : Appending(b) => a \in actor[b].doc.deps

(* An edit that is being saved has crossed every download that needs what  *)
(* it has written.                                                         *)
Warned(a) == actor[a].at \in {"write", "execute", "task"} =>
               \/ actor[a].crossed
               \/ \A e \in Actors : ~(actor[e].kind = "edit" /\ actor[e].at = "write")

OwnOf(a) == actor[a].kind = "append" => (actor[a].crossed \/ Found(a)) /\ Warned(a)

OwnInv == \A a \in Actors : OwnOf(a)

LEMMA OwnAside ==
  ASSUME TypeOK, OwnInv, NEW a \in Actors, Aside(a), OwnOf(a)'
  PROVE  OwnInv'
<1>1. /\ pom' = pom
      /\ \A b \in Actors : b # a => Keep(b) /\ actor'[b].crossed = actor[b].crossed
      /\ actor'[a].at \notin {"open", "write"}
  BY DEF Aside
<1>2. \A b \in Actors : Appending(b)' => b # a /\ Appending(b)
  BY <1>1 DEF Appending, Keep
<1>3. ASSUME NEW b \in Actors, b # a PROVE OwnOf(b)'
  <2>1. Found(b) => Found(b)'
    BY <1>1, <1>2, <1>3 DEF Found, Keep
  <2>2. Warned(b) => Warned(b)'
    BY <1>1, <1>3 DEF Warned, Keep
  <2> QED
    BY <1>1, <1>3, <2>1, <2>2 DEF OwnInv, OwnOf, Keep
<1> QED
  BY <1>3 DEF OwnInv

LEMMA OwnStep ==
  ASSUME TypeOK, OwnInv, NEW a \in Actors,
         Download(a) \/ DeleteJars(a) \/ EditPom(a) \/ Maven(a)
  PROVE  OwnInv'
<1>0. /\ actor \in [Actors -> Records] /\ pom \in Poms /\ lib \subseteq Deps
      /\ \A b \in Actors : RecordOK(b) /\ (Locked(b) <=> locker = b)
      /\ OwnOf(a)
  BY DEF TypeOK, OwnInv
<1>1. ASSUME Aside(a), actor'[a].at \notin {"execute", "task", "copy"}
      PROVE  OwnInv'
  <2>1. OwnOf(a)'
    BY <1>1 DEF OwnOf, Found, Warned, Aside
  <2> QED
    BY <1>1, <2>1, OwnAside
<1>2. ASSUME NEW p \in {"open", "write", "execute", "task", "copy", "list", "delete", "done", "failed"},
             Goes(a, p)
      PROVE  /\ Became(a, actor[a].kind, p, actor[a].doc, actor[a].todo, actor[a].crossed, actor[a].meddled)
             /\ Others(a, {}, {})
  BY <1>0, <1>2, GoesFields
<1>3. ASSUME NEW k \in {"append", "reparse"}, Lock(a, k) PROVE OwnInv'
  <2>1. Became(a, k, IF k = "append" THEN "parse" ELSE "list", Torn, {}, FALSE, FALSE)
    BY <1>0, <1>3, StartFields, IdleFacts, PomFacts DEF Lock
  <2> QED
    BY <1>1, <1>3, <2>1, AsideSteps DEF Became
<1>4. CASE Republish(a) \/ LoadPomFile(a)
  <2>1. \/ Became(a, "republish", "list", Torn, {}, FALSE, FALSE)
        \/ Became(a, "edit", "edit", pom, {}, FALSE, FALSE)
    BY <1>0, <1>4, StartFields, IdleFacts, PomFacts DEF Republish, LoadPomFile
  <2> QED
    BY <1>1, <1>4, <2>1, AsideSteps DEF Became, DeleteJars
<1>5. CASE AppendFails(a) \/ EditFails(a) \/ ListFails(a) \/ BuildSuccess(a) \/ BuildFailure(a)
  <2>1. actor'[a].at \in {"failed", "done"}
    BY <1>2, <1>5 DEF AppendFails, EditFails, ListFails, BuildSuccess, BuildFailure, Became
  <2> QED
    BY <1>1, <1>5, <2>1, AsideSteps DEF DeleteJars, Maven
<1>6. CASE Deleted(a) \/ Execute(a)
  <2>1. PICK p \in {"execute", "task", "done"} : Goes(a, p)
    BY <1>6 DEF Deleted, Execute
  <2>2. Aside(a)
    BY <1>6, AsideSteps DEF DeleteJars
  <2>3. actor'[a].kind = actor[a].kind /\ actor'[a].crossed = actor[a].crossed /\ actor'[a].at = p
    BY <1>2, <2>1 DEF Became
  <2>4. CASE Deleted(a)
    <3>1. actor[a].kind # "append"
      BY <1>0, <2>4 DEF Deleted, RecordOK
    <3>2. OwnOf(a)'
      BY <2>3, <3>1 DEF OwnOf
    <3> QED
      BY <2>2, <3>2, OwnAside
  <2>5. CASE Execute(a)
    <3>1. actor[a].at = "execute" /\ actor'[a].at = "task" /\ pom' = pom /\ locker = a
      BY <1>0, <1>2, <2>5 DEF Execute, Became, Locked, RecordOK
    <3>2. \A b \in Actors : b # a => Keep(b) /\ ~Appending(b)
      BY <1>0, <2>2, <3>1 DEF Aside, Appending, Locked
    <3>3. \A b \in Actors : ~Appending(b)'
      BY <3>1, <3>2 DEF Appending, Keep
    <3>4. Found(a) => Found(a)'
      BY <3>1, <3>3 DEF Found
    <3>5. Warned(a) => Warned(a)'
      BY <2>3, <3>1, <3>2 DEF Warned, Keep
    <3>6. OwnOf(a)'
      BY <1>0, <2>3, <3>4, <3>5 DEF OwnOf
    <3> QED
      BY <2>2, <3>6, OwnAside
  <2> QED
    BY <1>6, <2>4, <2>5
<1>7. CASE List(a)
  <2>1. Became(a, actor[a].kind, "delete", actor[a].doc, lib, actor[a].crossed, actor[a].meddled)
    BY <1>0, <1>7, ListFields
  <2> QED
    BY <1>1, <1>7, <2>1, AsideSteps DEF Became, DeleteJars
<1>8. CASE ReadPom(a)
  <2>1. Became(a, actor[a].kind, "copy", pom, pom.deps, actor[a].crossed, actor[a].meddled)
    BY <1>0, <1>8, ReadFields
  <2>2. Found(a) => Found(a)'
    BY <1>8, <2>1 DEF Found, ReadPom, Became
  <2>3. OwnOf(a)'
    BY <1>0, <2>1, <2>2 DEF OwnOf, Became, Warned
  <2>4. Aside(a)
    BY <1>8, AsideSteps DEF Maven
  <2> QED
    BY <2>3, <2>4, OwnAside
<1>9. ASSUME NEW jar \in Deps, Delete(a, jar) \/ Copy(a, jar) PROVE OwnInv'
  <2>1. PICK others : actor' = [Meddle(a, others) EXCEPT ![a].todo = @ \ {jar}]
    BY <1>9 DEF Delete, Copy
  <2>2. Became(a, actor[a].kind, actor[a].at, actor[a].doc, actor[a].todo \ {jar},
               actor[a].crossed, actor[a].meddled)
    BY <1>0, <2>1, MeddleFields
  <2>3. actor[a].at \in {"delete", "copy"} /\ pom' = pom
    BY <1>9 DEF Delete, Copy
  <2>4. OwnOf(a)'
    BY <1>0, <2>2, <2>3 DEF OwnOf, Found, Warned, Became
  <2>5. Aside(a)
    BY <1>9, AsideSteps DEF Maven, DeleteJars
  <2> QED
    BY <2>4, <2>5, OwnAside
<1>10. CASE Parse(a)
  <2>1. Became(a, actor[a].kind, "open", pom, actor[a].todo, actor[a].crossed, actor[a].meddled)
        /\ Others(a, {}, {})
    BY <1>0, <1>10, ParseFields DEF Parse
  <2>2. pom' = pom /\ pom.whole /\ actor[a].at = "parse"
    BY <1>10 DEF Parse
  <2>3. ASSUME NEW b \in Actors PROVE Found(b) => Found(b)'
    BY <2>1, <2>2 DEF Found, Appending, Became, Others, Keep
  <2>4. ASSUME NEW b \in Actors PROVE Warned(b) => Warned(b)'
    BY <2>1, <2>2 DEF Warned, Became, Others, Keep
  <2> QED
    BY <2>1, <2>3, <2>4 DEF OwnInv, OwnOf, Became, Others, Keep
<1>11. CASE Open(a)
  <2>1. Became(a, actor[a].kind, "write", actor[a].doc, actor[a].todo,
               actor[a].crossed \/ Editing # {}, actor[a].meddled)
        /\ Others(a, Editing, {})
    BY <1>0, <1>11, OpenFields
  <2>2. ~pom'.whole /\ actor[a].at = "open" /\ actor[a].kind = "append"
    BY <1>0, <1>11, PomFacts DEF Open, RecordOK
  <2>3. ASSUME NEW b \in Actors, b # a PROVE OwnOf(b)'
    <3>1. Found(b) => Found(b)'
      BY <2>1, <2>2, <2>3 DEF Found, Appending, Became, Others, Keep
    <3>2. Warned(b) => Warned(b)'
      BY <2>1, <2>2, <2>3 DEF Warned, Became, Others, Keep
    <3> QED
      BY <2>1, <2>3, <3>1, <3>2 DEF OwnInv, OwnOf, Others, Keep
  <2>4. Found(a)'
    BY <2>1 DEF Found, Became
  <2>5. Warned(a)'
    BY <2>1, <2>2 DEF Warned, Became, Others, Keep, Editing, At, Is
  <2> QED
    BY <2>3, <2>4, <2>5 DEF OwnInv, OwnOf
<1>12. CASE OpenEdit(a)
  <2>1. PICK doc \in Poms :
          /\ Became(a, actor[a].kind, "write", doc, actor[a].todo, At("write") # {}, actor[a].meddled)
          /\ Others(a, InUse, {})
    BY <1>0, <1>12, OpenEditFields
  <2>2. actor[a].kind = "edit"
    BY <1>0, <1>12 DEF OpenEdit, RecordOK
  <2>3. \A b \in Actors : actor[b].at \in {"open", "write", "execute", "task"} => b \in InUse
    BY DEF InUse, At
  <2>4. ASSUME NEW b \in Actors, b # a PROVE OwnOf(b)'
    <3>1. actor'[b].crossed \/ actor'[b].at \notin {"open", "write", "execute", "task"}
      BY <2>1, <2>3, <2>4 DEF Others, Keep
    <3>2. Found(b) => actor'[b].crossed \/ Found(b)'
      BY <2>1, <2>4, <3>1 DEF Found, Others, Keep
    <3> QED
      BY <2>1, <2>4, <3>1, <3>2 DEF OwnInv, OwnOf, Warned, Others, Keep
  <2> QED
    BY <2>1, <2>2, <2>4 DEF OwnInv, OwnOf, Became
<1>13. CASE Append(a) \/ WriteFails(a) \/ Override(a)
  <2>1. PICK p \in {"execute", "failed", "done"} : Goes(a, p)
    BY <1>13 DEF Append, WriteFails, Override
  <2>2. /\ Became(a, actor[a].kind, p, actor[a].doc, actor[a].todo, actor[a].crossed, actor[a].meddled)
        /\ Others(a, {}, {})
    BY <1>2, <2>1
  <2>3. actor[a].at = "write"
    BY <1>13 DEF Append, WriteFails, Override
  <2>4. ASSUME NEW b \in Actors, b # a,
               actor[b].at = "task" \/ actor[b].at = "execute" => ~pom'.whole \/ b \in pom'.deps
        PROVE  Found(b) => Found(b)'
    BY <2>2, <2>4 DEF Found, Appending, Became, Others, Keep
  <2>5. ASSUME NEW b \in Actors PROVE Warned(b) => Warned(b)'
    BY <2>2, <2>3 DEF Warned, Became, Others, Keep
  <2>6. actor'[a].crossed = actor[a].crossed /\ actor'[a].kind = actor[a].kind /\ actor'[a].at = p
        /\ \A b \in Actors : b # a => actor'[b].crossed = actor[b].crossed /\ Keep(b)
    BY <2>2 DEF Became, Others
  <2>7. ASSUME WriteFails(a) PROVE OwnInv'
    <3>1. ~pom'.whole /\ p = "failed"
      BY <2>6, <2>7, <1>2, PomFacts DEF WriteFails, Became
    <3>2. Found(a)'
      BY <2>6, <3>1 DEF Found
    <3> QED
      BY <2>4, <2>5, <2>6, <3>1, <3>2 DEF OwnInv, OwnOf, Keep
  <2>8. ASSUME Override(a) PROVE OwnInv'
    <3>1. actor[a].kind = "edit"
      BY <2>8 DEF Override
    <3>2. ASSUME NEW b \in Actors, actor[b].kind = "append" PROVE OwnOf(b)'
      <4>1. b # a /\ (actor[b].at \in {"execute", "task"} => actor[b].crossed)
        BY <2>3, <3>1, <3>2 DEF OwnInv, OwnOf, Warned
      <4>2. CASE actor[b].crossed
        BY <2>5, <2>6, <3>2, <4>1, <4>2 DEF OwnInv, OwnOf
      <4>3. CASE ~actor[b].crossed
        BY <2>4, <2>5, <2>6, <3>2, <4>1, <4>3 DEF OwnInv, OwnOf
      <4> QED
        BY <4>2, <4>3
    <3> QED
      BY <2>6, <3>1, <3>2 DEF OwnInv, OwnOf, Keep
  <2>9. ASSUME Append(a) PROVE OwnInv'
    <3>1. Appending(a) /\ p = "execute" /\ locker = a
      BY <1>0, <1>2, <2>3, <2>6, <2>9 DEF Append, Appending, Became, Locked
    <3>2. pom'.whole => pom'.deps = actor[a].doc.deps \union {a}
      BY <2>9, PomFacts DEF Append, Outcomes
    <3>3. ASSUME NEW b \in Actors, b # a, actor[b].kind = "append", ~actor[b].crossed PROVE Found(b)'
      <4>1. Found(b) /\ actor[b].at # "execute"
        BY <1>0, <3>1, <3>3 DEF OwnInv, OwnOf, Locked
      <4>2. actor[b].at = "task" => b \in actor[a].doc.deps
        BY <3>1, <4>1 DEF Found
      <4> QED
        BY <2>4, <3>2, <3>3, <4>1, <4>2
    <3>4. Found(a)'
      BY <2>6, <3>1, <3>2 DEF Found
    <3> QED
      BY <2>5, <2>6, <3>3, <3>4 DEF OwnInv, OwnOf, Keep
  <2> QED
    BY <1>13, <2>7, <2>8, <2>9
<1> QED
  BY <1>3, <1>4, <1>5, <1>6, <1>7, <1>8, <1>9, <1>10, <1>11, <1>12, <1>13
     DEF Download, DeleteJars, EditPom, Maven

LEMMA OwnNext == TypeOK /\ OwnInv /\ [Next]_vars => OwnInv'
<1> SUFFICES ASSUME TypeOK, OwnInv, [Next]_vars PROVE OwnInv'
  OBVIOUS
<1>1. CASE Restart
  <2>1. ASSUME NEW b \in Actors PROVE OwnOf(b)'
    <3>1. /\ actor'[b].kind = actor[b].kind /\ actor'[b].crossed = actor[b].crossed
          /\ actor'[b].doc = actor[b].doc
          /\ actor'[b].at \notin {"write", "execute", "task"}
          /\ actor'[b].at = "copy" => actor[b].at = "copy"
      BY <1>1, RestartFields DEF TypeOK
    <3> QED
      BY <3>1 DEF OwnInv, OwnOf, Found, Warned
  <2> QED
    BY <2>1 DEF OwnInv
<1>2. CASE UNCHANGED vars
  BY <1>2 DEF vars, OwnInv, OwnOf, Found, Warned, Appending
<1> QED
  BY <1>1, <1>2, OwnStep DEF Next

(* The maven of a download that no edit has crossed finds its dependency,  *)
(* whatever others have appended since.                                    *)
THEOREM MavenFindsOwn == Spec => []MavenSeesOwn
<1>1. Init => OwnInv
  BY IdleFacts DEF Init, OwnInv, OwnOf
<1>2. OwnInv => MavenSeesOwn
  BY DEF OwnInv, OwnOf, Found, MavenSeesOwn, At, Is
<1> QED
  BY <1>1, <1>2, TypeInit, TypeNext, OwnNext, PTL DEF Spec

-----------------------------------------------------------------------------
(* What is in the directory                                                *)

(* Of the jars one that empties the directory has still to delete, or      *)
(* could not; and of the jars of its pom one that copies has still to copy.*)
Emptied(q) == q.kind = "reparse" =>
                /\ q.at = "delete" => lib \subseteq q.todo \union stuck
                /\ q.at \in {"execute", "task"} => lib \subseteq stuck
                /\ q.at \in {"copy", "done"} => lib \subseteq q.doc.deps \union stuck

Copied(q) == /\ q.at = "copy" => q.todo \subseteq q.doc.deps /\ q.doc.deps \subseteq lib \union q.todo
             /\ q.at = "done" /\ q.kind \in {"append", "reparse"} => q.doc.deps \subseteq lib

LibInv == \A a \in Actors : actor[a].meddled \/ (Emptied(actor[a]) /\ Copied(actor[a]))

LEMMA LibSame ==
  ASSUME LibInv, NEW a \in Actors, NEW C, lib' = lib, stuck' = stuck, Others(a, C, {}),
         actor'[a].meddled \/ (Emptied(actor[a])' /\ Copied(actor[a])')
  PROVE  LibInv'
<1>1. ASSUME NEW b \in Actors, b # a
      PROVE  actor'[b].meddled \/ (Emptied(actor[b])' /\ Copied(actor[b])')
  <2>1. Keep(b) /\ actor'[b].meddled = actor[b].meddled
    BY <1>1 DEF Others
  <2> QED
    BY <2>1 DEF LibInv, Keep, Emptied, Copied
<1> QED
  BY <1>1 DEF LibInv

LEMMA LibStep ==
  ASSUME TypeOK, LibInv, NEW a \in Actors,
         Download(a) \/ DeleteJars(a) \/ EditPom(a) \/ Maven(a)
  PROVE  LibInv'
<1>0. /\ actor \in [Actors -> Records] /\ pom \in Poms /\ lib \subseteq Deps /\ RecordOK(a)
      /\ actor[a].meddled \/ (Emptied(actor[a]) /\ Copied(actor[a]))
  BY DEF TypeOK, LibInv
<1>1. ASSUME NEW k, NEW p, NEW d, NEW t, NEW c, NEW m, NEW C,
             Became(a, k, p, d, t, c, m), Others(a, C, {}), lib' = lib, stuck' = stuck,
             \/ p \in {"parse", "open", "write", "list", "edit", "failed"}
             \/ k \in {"append", "edit", "republish"} /\ p \in {"execute", "task"}
             \/ k \in {"edit", "republish"} /\ p \in {"delete", "done"}
      PROVE  LibInv'
  <2>1. Emptied(actor[a])' /\ Copied(actor[a])'
    BY <1>1 DEF Emptied, Copied, Became
  <2> QED
    BY <1>1, <2>1, LibSame
<1>2. ASSUME NEW p \in {"open", "write", "execute", "task", "copy", "list", "delete", "done", "failed"},
             Goes(a, p)
      PROVE  /\ Became(a, actor[a].kind, p, actor[a].doc, actor[a].todo, actor[a].crossed, actor[a].meddled)
             /\ Others(a, {}, {})
  BY <1>0, <1>2, GoesFields
<1>3. ASSUME NEW k \in {"append", "reparse"}, Lock(a, k) PROVE LibInv'
  <2>1. Became(a, k, IF k = "append" THEN "parse" ELSE "list", Torn, {}, FALSE, FALSE)
        /\ Others(a, {}, {})
    BY <1>0, <1>3, StartFields, IdleFacts, PomFacts DEF Lock
  <2> QED
    BY <1>1, <1>3, <2>1 DEF Lock
<1>4. CASE Republish(a)
  <2>1. Became(a, "republish", "list", Torn, {}, FALSE, FALSE) /\ Others(a, {}, {})
    BY <1>0, <1>4, StartFields, IdleFacts, PomFacts DEF Republish
  <2> QED
    BY <1>1, <1>4, <2>1 DEF Republish
<1>5. CASE LoadPomFile(a)
  <2>1. Became(a, "edit", "edit", pom, {}, FALSE, FALSE) /\ Others(a, {}, {})
    BY <1>0, <1>5, StartFields DEF LoadPomFile
  <2> QED
    BY <1>1, <1>5, <2>1 DEF LoadPomFile
<1>6. CASE AppendFails(a) \/ EditFails(a) \/ ListFails(a) \/ BuildFailure(a) \/ WriteFails(a)
  <2>1. Goes(a, "failed") /\ lib' = lib /\ stuck' = stuck
    BY <1>6 DEF AppendFails, EditFails, ListFails, BuildFailure, WriteFails
  <2> QED
    BY <1>1, <1>2, <2>1
<1>7. CASE Parse(a)
  <2>1. Became(a, actor[a].kind, "open", pom, actor[a].todo, actor[a].crossed, actor[a].meddled)
        /\ Others(a, {}, {})
    BY <1>0, <1>7, ParseFields DEF Parse
  <2> QED
    BY <1>1, <1>7, <2>1 DEF Parse
<1>8. CASE Open(a)
  <2>1. Became(a, actor[a].kind, "write", actor[a].doc, actor[a].todo,
               actor[a].crossed \/ Editing # {}, actor[a].meddled)
        /\ Others(a, Editing, {})
    BY <1>0, <1>8, OpenFields
  <2> QED
    BY <1>1, <1>8, <2>1 DEF Open
<1>9. CASE OpenEdit(a)
  <2>1. PICK doc \in Poms :
          /\ Became(a, actor[a].kind, "write", doc, actor[a].todo, At("write") # {}, actor[a].meddled)
          /\ Others(a, InUse, {})
    BY <1>0, <1>9, OpenEditFields
  <2> QED
    BY <1>1, <1>9, <2>1 DEF OpenEdit
<1>10. CASE Append(a)
  BY <1>1, <1>2, <1>10 DEF Append
<1>11. CASE Override(a)
  BY <1>1, <1>2, <1>11 DEF Override
<1>12. CASE Execute(a)
  <2>1. /\ Became(a, actor[a].kind, "task", actor[a].doc, actor[a].todo, actor[a].crossed, actor[a].meddled)
        /\ Others(a, {}, {})
    BY <1>2, <1>12 DEF Execute
  <2>2. Emptied(actor[a]) => Emptied(actor[a])'
    BY <1>12, <2>1 DEF Emptied, Became, Execute
  <2>3. Copied(actor[a])'
    BY <2>1 DEF Copied, Became
  <2>4. actor'[a].meddled \/ (Emptied(actor[a])' /\ Copied(actor[a])')
    BY <1>0, <2>1, <2>2, <2>3 DEF Became
  <2> QED
    BY <1>12, <2>1, <2>4, LibSame DEF Execute
<1>13. CASE List(a)
  <2>1. /\ Became(a, actor[a].kind, "delete", actor[a].doc, lib, actor[a].crossed, actor[a].meddled)
        /\ Others(a, {}, {})
    BY <1>0, <1>13, ListFields
  <2>2. Emptied(actor[a])' /\ Copied(actor[a])'
    BY <1>13, <2>1 DEF Emptied, Copied, Became, List
  <2> QED
    BY <1>13, <2>1, <2>2, LibSame DEF List
<1>14. CASE Deleted(a)
  <2>1. PICK p \in {"execute", "done"} :
          /\ Goes(a, p) /\ (p = "execute" <=> actor[a].kind = "reparse")
    BY <1>14 DEF Deleted
  <2>2. /\ Became(a, actor[a].kind, p, actor[a].doc, actor[a].todo, actor[a].crossed, actor[a].meddled)
        /\ Others(a, {}, {})
    BY <1>2, <2>1
  <2>3. Emptied(actor[a]) => Emptied(actor[a])'
    BY <1>14, <2>1, <2>2 DEF Emptied, Became, Deleted
  <2>4. Copied(actor[a])'
    BY <1>0, <1>14, <2>1, <2>2 DEF Copied, Became, Deleted, RecordOK
  <2>5. actor'[a].meddled \/ (Emptied(actor[a])' /\ Copied(actor[a])')
    BY <1>0, <2>2, <2>3, <2>4 DEF Became
  <2> QED
    BY <1>14, <2>2, <2>5, LibSame DEF Deleted
<1>15. CASE ReadPom(a)
  <2>1. Became(a, actor[a].kind, "copy", pom, pom.deps, actor[a].crossed, actor[a].meddled)
        /\ Others(a, {}, {})
    BY <1>0, <1>15, ReadFields
  <2>2. Emptied(actor[a]) => Emptied(actor[a])'
    BY <1>15, <2>1 DEF Emptied, Became, ReadPom
  <2>3. Copied(actor[a])'
    BY <2>1 DEF Copied, Became
  <2>4. actor'[a].meddled \/ (Emptied(actor[a])' /\ Copied(actor[a])')
    BY <1>0, <2>1, <2>2, <2>3 DEF Became
  <2> QED
    BY <1>15, <2>1, <2>4, LibSame DEF ReadPom
<1>16. CASE BuildSuccess(a)
  <2>1. /\ Became(a, actor[a].kind, "done", actor[a].doc, actor[a].todo, actor[a].crossed, actor[a].meddled)
        /\ Others(a, {}, {})
    BY <1>2, <1>16 DEF BuildSuccess
  <2>2. Emptied(actor[a]) => Emptied(actor[a])'
    BY <1>16, <2>1 DEF Emptied, Became, BuildSuccess
  <2>3. Copied(actor[a]) => Copied(actor[a])'
    BY <1>16, <2>1 DEF Copied, Became, BuildSuccess
  <2>4. actor'[a].meddled \/ (Emptied(actor[a])' /\ Copied(actor[a])')
    BY <1>0, <2>1, <2>2, <2>3 DEF Became
  <2> QED
    BY <1>16, <2>1, <2>4, LibSame DEF BuildSuccess
<1>17. ASSUME NEW jar \in Deps, Delete(a, jar) PROVE LibInv'
  <2>1. /\ Became(a, actor[a].kind, actor[a].at, actor[a].doc, actor[a].todo \ {jar},
                  actor[a].crossed, actor[a].meddled)
        /\ Others(a, {}, Actors \ At("idle"))
    BY <1>0, <1>17, MeddleFields DEF Delete
  <2>2. actor[a].at = "delete" /\ jar \in actor[a].todo
        /\ \/ lib' = lib \ {jar} /\ stuck' = stuck
           \/ lib' = lib /\ stuck' = stuck \union {jar}
    BY <1>17 DEF Delete
  <2>3. Emptied(actor[a]) => Emptied(actor[a])'
    BY <2>1, <2>2 DEF Emptied, Became
  <2>4. Copied(actor[a])'
    BY <2>1, <2>2 DEF Copied, Became
  <2>5. ASSUME NEW b \in Actors, b # a
        PROVE  actor'[b].meddled \/ (Emptied(actor[b])' /\ Copied(actor[b])')
    <3>1. actor'[b].meddled \/ actor'[b].at = "idle"
      BY <2>1, <2>5 DEF Others, Keep, At
    <3> QED
      BY <3>1 DEF Emptied, Copied
  <2> QED
    BY <1>0, <2>1, <2>3, <2>4, <2>5 DEF LibInv, Became
<1>18. ASSUME NEW jar \in Deps, Copy(a, jar) PROVE LibInv'
  <2>1. /\ Became(a, actor[a].kind, actor[a].at, actor[a].doc, actor[a].todo \ {jar},
                  actor[a].crossed, actor[a].meddled)
        /\ Others(a, {}, Is("reparse") \ At("idle"))
    BY <1>0, <1>18, MeddleFields DEF Copy
  <2>2. actor[a].at = "copy" /\ jar \in actor[a].todo /\ lib' = lib \union {jar} /\ stuck' = stuck
    BY <1>18 DEF Copy
  <2>3. Emptied(actor[a]) /\ Copied(actor[a]) => Emptied(actor[a])'
    BY <2>1, <2>2 DEF Emptied, Copied, Became
  <2>4. Copied(actor[a]) => Copied(actor[a])'
    BY <2>1, <2>2 DEF Copied, Became
  <2>5. ASSUME NEW b \in Actors, b # a
        PROVE  actor'[b].meddled \/ (Emptied(actor[b])' /\ Copied(actor[b])')
    <3>1. Keep(b) /\ (actor[b].meddled => actor'[b].meddled)
          /\ (actor'[b].meddled \/ actor[b].kind # "reparse" \/ actor[b].at = "idle")
      BY <2>1, <2>5 DEF Others, Keep, At, Is
    <3>2. Copied(actor[b]) => Copied(actor[b])'
      BY <2>2, <3>1 DEF Copied, Keep
    <3> QED
      BY <3>1, <3>2 DEF LibInv, Emptied, Keep
  <2> QED
    BY <1>0, <2>1, <2>3, <2>4, <2>5 DEF LibInv, Became
<1> QED
  BY <1>3, <1>4, <1>5, <1>6, <1>7, <1>8, <1>9, <1>10, <1>11, <1>12, <1>13, <1>14, <1>15, <1>16,
     <1>17, <1>18 DEF Download, DeleteJars, EditPom, Maven

LEMMA LibNext == TypeOK /\ LibInv /\ [Next]_vars => LibInv'
<1> SUFFICES ASSUME TypeOK, LibInv, [Next]_vars PROVE LibInv'
  OBVIOUS
<1>1. CASE Restart
  <2>1. lib' = lib /\ stuck' = stuck
    BY <1>1 DEF Restart
  <2>2. ASSUME NEW b \in Actors
        PROVE  actor'[b].meddled \/ (Emptied(actor[b])' /\ Copied(actor[b])')
    <3>1. /\ actor'[b].kind = actor[b].kind /\ actor'[b].todo = actor[b].todo
          /\ actor'[b].doc = actor[b].doc /\ actor'[b].meddled = actor[b].meddled
          /\ actor'[b].at \notin {"delete", "execute", "task"}
          /\ actor'[b].at \in {"copy", "done"} => actor[b].at = actor'[b].at
      BY <1>1, RestartFields DEF TypeOK
    <3> QED
      BY <2>1, <3>1 DEF LibInv, Emptied, Copied
  <2> QED
    BY <2>2 DEF LibInv
<1>2. CASE UNCHANGED vars
  BY <1>2 DEF vars, LibInv, Emptied, Copied
<1> QED
  BY <1>1, <1>2, LibStep DEF Next

(* When maven has succeeded the jars of its pom are in the directory, and, *)
(* after a reparse, no others that could be deleted.                       *)
THEOREM LibFollows == Spec => []LibFollowsPom
<1>1. Init => LibInv
  BY IdleFacts DEF Init, LibInv, Emptied, Copied
<1>2. LibInv => LibFollowsPom
  BY DEF LibInv, Emptied, Copied, LibFollowsPom, At
<1> QED
  BY <1>1, <1>2, TypeInit, TypeNext, LibNext, PTL DEF Spec

=============================================================================
