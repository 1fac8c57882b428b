------------------------- MODULE FaceLibraryProofs -------------------------
(***************************************************************************)
(* Whatever handlers overlap, a photo of an import is stored at most once; *)
(* ImportInv is inductive. For handlers in turn (Alone), the cache follows *)
(* the table (CacheInv), and, when matching faces are faces of one person, *)
(* no two students have matching faces (FaceInv) and the handlers          *)
(* implement FaceContract. All of it for every similarity function, and    *)
(* any number of students, photos and handlers.                            *)
(***************************************************************************)
EXTENDS FaceLibrary, TLAPS

\* The values handlers start from are typed.
LEMMA IdleTyped == Idle \in RequestType /\ NoFeature \in Features /\ SomeImport \in Imports
<1>1. NoFeature \in Features BY LibraryAssumption DEF NoFeature
<1>2. SomeImport \in Imports BY LibraryAssumption DEF SomeImport
<1> QED BY <1>1, <1>2 DEF Idle, RequestType, Kinds, RowSets

\* The initial state satisfies the invariant.
LEMMA InitInv == Init => ImportInv
<1> SUFFICES ASSUME Init PROVE ImportInv OBVIOUS
<1> USE DEF Init
<1>1. TablesOK BY LibraryAssumption DEF TablesOK
<1>2. cache \in [loaded : BOOLEAN, rows : RowSets] BY DEF Cached, RowSets
<1>3. imports \in [Imports -> [open : BOOLEAN, items : [Photos -> ItemType]]]
  BY IdleTyped DEF NoImport, NoItem, ItemType
<1>4. req \in [Requests -> RequestType] BY IdleTyped
<1>5. StoredIsCommitted BY DEF StoredIsCommitted, NoImport, NoItem
<1>6. OneCommit /\ ItemInHand BY DEF OneCommit, ItemInHand, Inside, Idle, Working
<1> QED BY <1>1, <1>2, <1>3, <1>4, <1>5, <1>6 DEF ImportInv, TypeOK

\* A step of one handler that leaves the imports alone: it may come past the
\* mutex only when it is free, and pick up a photo only when it is not marked.
LEMMA Local ==
  ASSUME ImportInv, TablesOK', cache' \in [loaded : BOOLEAN, rows : RowSets],
         UNCHANGED imports,
         NEW r \in Requests, NEW q \in RequestType, req' = [req EXCEPT ![r] = q],
         q.kind = "import" /\ q.pc \notin {"idle", "lock"} => Inside(r, q.i) \/ Free(q.i),
         q.kind = "import" /\ q.pc \in Working
           => q.p \in Photos /\ ~ imports[q.i].items[q.p].committed
  PROVE  ImportInv'
<1>1. TypeOK' BY DEF ImportInv, TypeOK
<1>2. StoredIsCommitted' BY DEF ImportInv, StoredIsCommitted
<1>3. OneCommit'
  <2> SUFFICES ASSUME NEW i \in Imports, NEW a \in Requests, NEW o \in Requests,
                      Inside(a, i)', Inside(o, i)'
               PROVE a = o
    BY DEF OneCommit
  <2>1. req \in [Requests -> RequestType] BY DEF ImportInv, TypeOK
  <2>2. req'[r] = q /\ \A x \in Requests \ {r} : req'[x] = req[x] BY <2>1
  <2>3. \A x \in Requests \ {r} : Inside(x, i)' => Inside(x, i) BY <2>2 DEF Inside
  <2>4. Inside(r, i)' => Inside(r, i) \/ Free(i) BY <2>2 DEF Inside
  <2>5. OneCommit BY DEF ImportInv
  <2> QED BY <2>3, <2>4, <2>5 DEF OneCommit, Free
<1>4. ItemInHand'
  <2> SUFFICES ASSUME NEW a \in Requests, req'[a].kind = "import", req'[a].pc \in Working
               PROVE  req'[a].p \in Photos /\ ~ imports'[req'[a].i].items[req'[a].p].committed
    BY DEF ItemInHand
  <2>1. req \in [Requests -> RequestType] BY DEF ImportInv, TypeOK
  <2>2. req'[r] = q /\ \A x \in Requests \ {r} : req'[x] = req[x] BY <2>1
  <2>3. CASE a = r BY <2>2, <2>3
  <2>4. CASE a # r
    <3>1. req'[a] = req[a] BY <2>2, <2>4
    <3> QED BY <3>1 DEF ImportInv, ItemInHand
  <2> QED BY <2>3, <2>4
<1> QED BY <1>1, <1>2, <1>3, <1>4 DEF ImportInv

\* A handler arrives, whatever tables it has already changed.
LEMMA Arrivals ==
  ASSUME ImportInv, NEW r \in Requests, Arrive(r) PROVE ImportInv'
<1> USE IdleTyped
<1>1. TypeOK /\ TablesOK BY DEF ImportInv, TypeOK
<1>2. ASSUME NEW q \in RequestType, Begin(r, q), TablesOK', UNCHANGED <<cache, imports>>,
             q.kind = "import" => q.pc \in {"idle", "lock"}
      PROVE ImportInv'
  <2>1. cache' \in [loaded : BOOLEAN, rows : RowSets] BY <1>1, <1>2 DEF TypeOK
  <2> QED BY <1>2, <2>1, Local DEF Begin, Working
<1>3. UNCHANGED <<students, samples>> => TablesOK' BY <1>1 DEF TablesOK
<1>4. Changing \in RequestType /\ Changing.kind # "import"
  BY DEF Changing, Idle, RequestType, Kinds
<1>5. CASE \E f \in Features : Enrol(r, f)
  <2> PICK f \in Features : Enrol(r, f) BY <1>5
  <2> DEFINE q == [Idle EXCEPT !.pc = "look", !.kind = "enrol", !.f = f]
  <2>1. q \in RequestType /\ q.kind # "import" BY DEF Idle, RequestType, Kinds
  <2> QED BY <1>2, <1>3, <2>1 DEF Enrol
<1>6. CASE \E s \in Students, f \in Features : AddSample(r, s, f)
  <2> PICK s \in Students, f \in Features : AddSample(r, s, f) BY <1>6
  <2> DEFINE q == [Idle EXCEPT !.pc = "look", !.kind = "add", !.s = s, !.f = f]
  <2>1. q \in RequestType /\ q.kind # "import" BY DEF Idle, RequestType, Kinds
  <2> QED BY <1>2, <1>3, <2>1 DEF AddSample
<1>7. CASE \E s \in Students, f \in Features : DeleteFaceSample(r, s, f)
  <2> PICK s \in Students, f \in Features : DeleteFaceSample(r, s, f) BY <1>7
  <2>1. TablesOK'
    BY <1>1, LibraryAssumption DEF DeleteFaceSample, TablesOK
  <2> QED BY <1>2, <1>4, <2>1 DEF DeleteFaceSample
<1>8. CASE \E s \in Students : DeleteStudent(r, s)
  <2> PICK s \in Students : DeleteStudent(r, s) BY <1>8
  <2>1. TablesOK'
    BY <1>1, LibraryAssumption DEF DeleteStudent, TablesOK, Cascade
  <2> QED BY <1>2, <1>4, <2>1 DEF DeleteStudent
<1>9. CASE Recognize(r)
  <2> DEFINE q == [Idle EXCEPT !.pc = "look"]
  <2>1. q \in RequestType /\ q.kind # "import" BY DEF Idle, RequestType, Kinds
  <2> QED BY <1>2, <1>3, <1>9, <2>1 DEF Recognize
<1>10. CASE Rename(r) BY <1>2, <1>3, <1>4, <1>10 DEF Rename
<1>11. CASE Analyze(r)
  <2> DEFINE q == [Idle EXCEPT !.pc = "look", !.kind = "analyze"]
  <2>1. q \in RequestType /\ q.kind # "import" BY DEF Idle, RequestType, Kinds
  <2> QED BY <1>2, <1>3, <1>11, <2>1 DEF Analyze
<1>12. CASE \E i \in Imports : Import(r, i)
  <2> PICK i \in Imports : Import(r, i) BY <1>12
  <2> DEFINE q == [Idle EXCEPT !.pc = "lock", !.kind = "import", !.i = i]
  <2>1. q \in RequestType /\ q.pc = "lock" BY DEF Idle, RequestType, Kinds
  <2> QED BY <1>2, <1>3, <2>1 DEF Import
<1> QED
  BY <1>5, <1>6, <1>7, <1>8, <1>9, <1>10, <1>11, <1>12 DEF Arrive

\* A handler goes on without touching the tables or the imports.
LEMMA Proceed ==
  ASSUME ImportInv, NEW r \in Requests, NEW q \in RequestType, req' = [req EXCEPT ![r] = q],
         UNCHANGED <<students, samples, imports>>,
         cache' \in [loaded : BOOLEAN, rows : RowSets],
         \/ q.kind # "import" \/ q.pc = "idle"
         \/ /\ q.kind = req[r].kind /\ q.i = req[r].i
            /\ Inside(r, req[r].i) \/ Free(req[r].i)
            /\ q.pc \in Working =>
                 /\ q.p \in Photos /\ ~ imports[q.i].items[q.p].committed
  PROVE  ImportInv'
<1>1. TablesOK' BY DEF ImportInv, TypeOK, TablesOK
<1>2. q.kind = "import" /\ q.pc \notin {"idle", "lock"} => Inside(r, q.i) \/ Free(q.i) OBVIOUS
<1>3. q.kind = "import" /\ q.pc \in Working
        => q.p \in Photos /\ ~ imports[q.i].items[q.p].committed
  BY DEF Working
<1> QED BY <1>1, <1>2, <1>3, Local

\* The cache and the decisions that do not touch the imports.
LEMMA LocalSteps ==
  ASSUME ImportInv, NEW r \in Requests,
         \/ Look(r) \/ Load(r) \/ Install(r) \/ LookAgain(r)
         \/ Refresh(r) \/ Store(r) \/ Drop(r) \/ Refuse(r) \/ Lock(r) \/ ItemsDone(r)
         \/ \E p \in Photos : Item(r, p)
  PROVE  ImportInv'
<1> USE IdleTyped
<1>1. req \in [Requests -> RequestType] /\ cache \in [loaded : BOOLEAN, rows : RowSets]
  BY DEF ImportInv, TypeOK
<1>2. req[r] \in RequestType BY <1>1
<1>3. Rows \in RowSets BY DEF Rows, RowSets
<1>4. req[r].kind = "import" /\ req[r].pc \in Working
        => req[r].p \in Photos /\ ~ imports[req[r].i].items[req[r].p].committed
  BY DEF ImportInv, ItemInHand
<1>5. req[r].kind = "import" /\ req[r].pc \notin {"idle", "lock"} => Inside(r, req[r].i)
  BY DEF Inside
<1>6. Idle \in RequestType /\ Idle.pc = "idle" BY DEF Idle
<1>7. Onward(req[r]) \in RequestType
      /\ (Onward(req[r]).pc = "idle"
          \/ /\ Onward(req[r]).pc = "items" /\ req[r].kind = "import"
             /\ Onward(req[r]).kind = "import" /\ Onward(req[r]).i = req[r].i)
  <2>1. CASE req[r].kind = "import"
    <3>1. Onward(req[r]) = [req[r] EXCEPT !.pc = "items", !.rows = {}]
      BY <2>1 DEF Onward
    <3>2. {} \in RowSets BY DEF RowSets
    <3> QED BY <1>2, <2>1, <3>1, <3>2 DEF RequestType
  <2>2. CASE req[r].kind # "import"
    BY <1>6, <2>2 DEF Onward
  <2> QED BY <2>1, <2>2
<1>8. ASSUME Refused(r), req[r].pc \notin {"idle", "lock"},
             UNCHANGED <<students, samples, cache, imports>>
      PROVE ImportInv'
  BY <1>1, <1>5, <1>7, <1>8, Proceed DEF Refused, Working
<1>9. CASE Look(r)
  <2> DEFINE q == [req[r] EXCEPT !.pc = IF cache.loaded THEN "decide" ELSE "load",
                                 !.rows = cache.rows]
  <2>1. q \in RequestType /\ q.kind = req[r].kind /\ q.i = req[r].i /\ q.p = req[r].p
    BY <1>1, <1>2 DEF RequestType
  <2>2. req' = [req EXCEPT ![r] = q] BY <1>1, <1>9 DEF Look
  <2>3. req[r].pc \in Working /\ req[r].pc \notin {"idle", "lock"} BY <1>9 DEF Look, At, Working
  <2>4. UNCHANGED <<students, samples, cache, imports>> BY <1>9 DEF Look
  <2> HIDE DEF q
  <2> QED BY <1>1, <1>4, <1>5, <2>1, <2>2, <2>3, <2>4, Proceed
<1>10. CASE Load(r)
  <2> DEFINE q == [req[r] EXCEPT !.pc = "install", !.rows = Rows]
  <2>1. q \in RequestType /\ q.kind = req[r].kind /\ q.i = req[r].i /\ q.p = req[r].p
    BY <1>2, <1>3 DEF RequestType
  <2>2. req' = [req EXCEPT ![r] = q] \/ Refused(r) BY <1>1, <1>10 DEF Load
  <2>3. req[r].pc \in Working /\ req[r].pc \notin {"idle", "lock"} BY <1>10 DEF Load, At, Working
  <2>4. UNCHANGED <<students, samples, cache, imports>> BY <1>10 DEF Load
  <2> HIDE DEF q
  <2> QED BY <1>1, <1>4, <1>5, <1>8, <2>1, <2>2, <2>3, <2>4, Proceed
<1>11. CASE Install(r)
  <2> DEFINE q == [req[r] EXCEPT !.pc = "again"]
  <2>1. q \in RequestType /\ q.kind = req[r].kind /\ q.i = req[r].i /\ q.p = req[r].p
    BY <1>2 DEF RequestType
  <2>2. req' = [req EXCEPT ![r] = q] BY <1>1, <1>11 DEF Install, To
  <2>3. req[r].pc \in Working /\ req[r].pc \notin {"idle", "lock"} BY <1>11 DEF Install, At, Working
  <2>4. UNCHANGED <<students, samples, imports>> BY <1>11 DEF Install
  <2>5. cache' \in [loaded : BOOLEAN, rows : RowSets]
    <3>1. req[r].rows \in RowSets BY <1>2 DEF RequestType
    <3> QED BY <3>1, <1>11 DEF Install, Cached
  <2> HIDE DEF q
  <2> QED BY <1>4, <1>5, <2>1, <2>2, <2>3, <2>4, <2>5, Proceed
<1>12. CASE LookAgain(r)
  <2> DEFINE q == [req[r] EXCEPT !.pc = "decide", !.rows = cache.rows]
  <2>1. q \in RequestType /\ q.kind = req[r].kind /\ q.i = req[r].i /\ q.p = req[r].p
    BY <1>1, <1>2 DEF RequestType
  <2>2. req' = [req EXCEPT ![r] = q] BY <1>1, <1>12 DEF LookAgain
  <2>3. req[r].pc \in Working /\ req[r].pc \notin {"idle", "lock"} BY <1>12 DEF LookAgain, At, Working
  <2>4. UNCHANGED <<students, samples, cache, imports>> BY <1>12 DEF LookAgain
  <2> HIDE DEF q
  <2> QED BY <1>1, <1>4, <1>5, <2>1, <2>2, <2>3, <2>4, Proceed
<1>13. CASE Refresh(r)
  <2>1. PICK q \in {[req[r] EXCEPT !.pc = "store", !.rows = Rows], [req[r] EXCEPT !.pc = "drop"]} :
          req' = [req EXCEPT ![r] = q]
    BY <1>1, <1>13 DEF Refresh, To
  <2>2. q \in RequestType /\ q.kind = req[r].kind /\ q.i = req[r].i /\ q.pc \notin Working
    <3> DEFINE a == [req[r] EXCEPT !.pc = "store", !.rows = Rows]
               b == [req[r] EXCEPT !.pc = "drop"]
    <3>1. a \in RequestType /\ a.kind = req[r].kind /\ a.i = req[r].i /\ a.pc = "store"
      BY <1>2, <1>3 DEF RequestType
    <3>2. b \in RequestType /\ b.kind = req[r].kind /\ b.i = req[r].i /\ b.pc = "drop"
      BY <1>2 DEF RequestType
    <3>3. q = a \/ q = b BY <2>1
    <3>4. "store" \notin Working /\ "drop" \notin Working BY DEF Working
    <3> HIDE DEF a, b
    <3> QED BY <3>1, <3>2, <3>3, <3>4
  <2>3. req[r].pc \notin {"idle", "lock"} BY <1>13 DEF Refresh, At
  <2>4. UNCHANGED <<students, samples, cache, imports>> BY <1>13 DEF Refresh
  <2> QED BY <1>1, <1>5, <2>1, <2>2, <2>3, <2>4, Proceed
<1>14. CASE Store(r) \/ Drop(r)
  <2>1. req' = [req EXCEPT ![r] = Idle] BY <1>14 DEF Store, Drop, Finish
  <2>2. UNCHANGED <<students, samples, imports>> BY <1>14 DEF Store, Drop
  <2>3. cache' \in [loaded : BOOLEAN, rows : RowSets]
    <3>1. CASE Store(r) BY <1>2, <3>1 DEF Store, Cached, RequestType
    <3>2. CASE Drop(r) BY <3>2 DEF Drop, Dropped, Unloaded, RowSets
    <3> QED BY <1>14, <3>1, <3>2
  <2> QED BY <1>6, <2>1, <2>2, <2>3, Proceed
<1>15. CASE Refuse(r) BY <1>8, <1>15 DEF Refuse, At
<1>16. CASE Lock(r)
  <2> DEFINE q == [req[r] EXCEPT !.pc = "items"]
  <2>1. q \in RequestType /\ q.kind = req[r].kind /\ q.i = req[r].i /\ q.pc \notin Working
    BY <1>2 DEF RequestType, Working
  <2>2. req' = [req EXCEPT ![r] = q] BY <1>1, <1>16 DEF Lock, To
  <2>3. UNCHANGED <<students, samples, cache, imports>> /\ Free(req[r].i)
    BY <1>16 DEF Lock
  <2> HIDE DEF q
  <2> QED BY <1>1, <2>1, <2>2, <2>3, Proceed
<1>17. CASE ItemsDone(r)
  <2>1. PICK q \in {[req[r] EXCEPT !.pc = "refresh"], Idle} : req' = [req EXCEPT ![r] = q]
    BY <1>1, <1>17 DEF ItemsDone, To, Finish
  <2>2. /\ q \in RequestType
        /\ \/ q.pc = "idle"
           \/ q.kind = req[r].kind /\ q.i = req[r].i /\ q.pc \notin Working
    BY <1>2, <1>6, <2>1 DEF RequestType, Working
  <2>3. UNCHANGED <<students, samples, cache, imports>> /\ req[r].pc \notin {"idle", "lock"}
    BY <1>17 DEF ItemsDone, At
  <2> QED BY <1>1, <1>5, <2>1, <2>2, <2>3, Proceed
<1>18. CASE \E p \in Photos : Item(r, p)
  <2> PICK p \in Photos : Item(r, p) BY <1>18
  <2> DEFINE item == imports[req[r].i].items[p]
             q == [req[r] EXCEPT !.pc = "look", !.p = p, !.f = item.feature, !.s = item.existing]
  <2>1. item \in ItemType BY <1>2 DEF ImportInv, TypeOK, RequestType
  <2>2. q \in RequestType /\ q.kind = req[r].kind /\ q.i = req[r].i /\ q.p = p
    BY <1>2, <2>1 DEF RequestType, ItemType
  <2>3. req' = [req EXCEPT ![r] = q] BY <1>1 DEF Item
  <2>4. UNCHANGED <<students, samples, cache, imports>> /\ ~ item.committed
        /\ req[r].pc \notin {"idle", "lock"}
    BY DEF Item, At
  <2>5. ~ imports[q.i].items[q.p].committed BY <2>2, <2>4
  <2> HIDE DEF q, item
  <2> QED BY <1>1, <1>5, <2>2, <2>3, <2>4, <2>5, Proceed
<1> QED
  BY <1>9, <1>10, <1>11, <1>12, <1>13, <1>14, <1>15, <1>16, <1>17, <1>18

\* Only one handler has an import in hand, so that marking a photo takes it
\* from nobody else.
LEMMA NobodyElse ==
  ASSUME ImportInv, NEW r \in Requests, Inside(r, req[r].i),
         NEW o \in Requests \ {r}, req[o].kind = "import", req[o].pc \in Working
  PROVE  req[o].i # req[r].i
<1>1. req \in [Requests -> RequestType] BY DEF ImportInv, TypeOK
<1>2. req[r].i \in Imports BY <1>1 DEF RequestType
<1>3. Inside(o, req[o].i) BY DEF Inside, Working
<1> QED BY <1>2, <1>3 DEF ImportInv, OneCommit

\* Marking the photo in hand, as stored or as not needed, and going on.
LEMMA Mark ==
  ASSUME ImportInv, TablesOK', UNCHANGED cache, NEW r \in Requests,
         req[r].kind = "import", req[r].pc \in Working, NEW item \in ItemType,
         imports' = [imports EXCEPT ![req[r].i].items[req[r].p] = item],
         item.stored > 0 => item.committed /\ item.stored = 1,
         NEW q \in RequestType, req' = [req EXCEPT ![r] = q],
         q.pc = "items", q.kind = "import", q.i = req[r].i
  PROVE  ImportInv'
<1>1. /\ req \in [Requests -> RequestType] /\ cache \in [loaded : BOOLEAN, rows : RowSets]
      /\ imports \in [Imports -> [open : BOOLEAN, items : [Photos -> ItemType]]]
  BY DEF ImportInv, TypeOK
<1>2. req[r].i \in Imports /\ req[r].p \in Photos
  BY <1>1 DEF ImportInv, ItemInHand, RequestType
<1>3. TypeOK' BY <1>1, <1>2 DEF TypeOK
<1>4. StoredIsCommitted'
  <2> SUFFICES ASSUME NEW i \in Imports, NEW p \in Photos,
                      imports'[i].items[p].stored > 0
               PROVE  imports'[i].items[p].committed /\ imports'[i].items[p].stored = 1
    BY DEF StoredIsCommitted
  <2>1. CASE i = req[r].i /\ p = req[r].p
    <3>1. imports'[i].items[p] = item BY <1>1, <1>2, <2>1
    <3> QED BY <3>1
  <2>2. CASE ~ (i = req[r].i /\ p = req[r].p)
    <3>1. imports'[i].items[p] = imports[i].items[p] BY <1>1, <1>2, <2>2
    <3> QED BY <3>1 DEF ImportInv, StoredIsCommitted
  <2> QED BY <2>1, <2>2
<1>5. req'[r] = q /\ \A x \in Requests \ {r} : req'[x] = req[x] BY <1>1
<1>6. OneCommit'
  <2>1. Inside(r, req[r].i) BY DEF Inside, Working
  <2>2. \A x \in Requests, i \in Imports : Inside(x, i)' => Inside(x, i)
    BY <1>5, <2>1 DEF Inside
  <2> QED BY <2>2 DEF ImportInv, OneCommit
<1>7. ItemInHand'
  <2> SUFFICES ASSUME NEW o \in Requests, req'[o].kind = "import", req'[o].pc \in Working
               PROVE  req'[o].p \in Photos /\ ~ imports'[req'[o].i].items[req'[o].p].committed
    BY DEF ItemInHand
  <2>1. o # r BY <1>5 DEF Working
  <2>2. req'[o] = req[o] BY <1>5, <2>1
  <2>3. req[o].p \in Photos /\ ~ imports[req[o].i].items[req[o].p].committed
    BY <2>2 DEF ImportInv, ItemInHand
  <2>4. req[o].i # req[r].i
    BY <2>1, <2>2, NobodyElse DEF Inside, Working
  <2>5. req[o].i \in Imports BY <1>1 DEF RequestType
  <2>6. imports'[req[o].i] = imports[req[o].i] BY <1>1, <1>2, <2>4, <2>5
  <2> QED BY <2>2, <2>3, <2>6
<1> QED BY <1>3, <1>4, <1>6, <1>7 DEF ImportInv

\* The decision about a compared face.
LEMMA DecideInv ==
  ASSUME ImportInv, NEW r \in Requests, Decide(r) PROVE ImportInv'
<1>1. /\ req \in [Requests -> RequestType] /\ cache \in [loaded : BOOLEAN, rows : RowSets]
      /\ imports \in [Imports -> [open : BOOLEAN, items : [Photos -> ItemType]]]
  BY DEF ImportInv, TypeOK
<1>2. req[r] \in RequestType BY <1>1
<1>3. req[r].pc = "decide" /\ req[r].pc \in Working /\ UNCHANGED <<students, samples, cache>>
  BY DEF Decide, At, Working
<1>4. req[r].kind = "import"
        => /\ req[r].p \in Photos /\ ~ imports[req[r].i].items[req[r].p].committed
           /\ Inside(r, req[r].i)
  BY <1>3 DEF ImportInv, ItemInHand, Inside
<1>5. CASE AlreadyThere(req[r])
  <2>1. req[r].kind = "import" /\ req[r].p \in Photos /\ req[r].i \in Imports
    BY <1>2, <1>4, <1>5 DEF AlreadyThere, RequestType
  <2>2. ~ MayWrite(req[r]) BY <1>5 DEF AlreadyThere, MayWrite, Equal
  <2> DEFINE q == [req[r] EXCEPT !.pc = "items", !.rows = {}]
             old == imports[req[r].i].items[req[r].p]
             item == [old EXCEPT !.committed = TRUE]
  <2>3. req' = [req EXCEPT ![r] = q] BY <2>1, <2>2 DEF Decide, Refused, Onward
  <2>4. q \in RequestType /\ q.pc = "items" /\ q.kind = "import" /\ q.i = req[r].i
    BY <1>2, <2>1 DEF RequestType, RowSets
  <2>5. old \in ItemType /\ (old.stored > 0 => old.stored = 1)
    BY <1>1, <2>1 DEF ImportInv, StoredIsCommitted
  <2>6. item \in ItemType /\ item.committed /\ item.stored = old.stored BY <2>5 DEF ItemType
  <2>7. imports' = [imports EXCEPT ![req[r].i].items[req[r].p] = item]
    BY <1>1, <1>5, <2>1 DEF Decide
  <2>8. TablesOK' BY <1>3 DEF ImportInv, TypeOK, TablesOK
  <2> HIDE DEF q, item, old
  <2> QED BY <1>3, <2>1, <2>3, <2>4, <2>5, <2>6, <2>7, <2>8, Mark
<1>6. CASE ~ AlreadyThere(req[r])
  <2>1. UNCHANGED imports BY <1>6 DEF Decide
  <2> DEFINE w == [req[r] EXCEPT !.pc = "write"]
  <2>2. w \in RequestType /\ w.kind = req[r].kind /\ w.i = req[r].i /\ w.p = req[r].p
    BY <1>2 DEF RequestType
  <2>3. /\ Onward(req[r]) \in RequestType
        /\ \/ Onward(req[r]).pc = "idle"
           \/ /\ Onward(req[r]).pc = "items" /\ Onward(req[r]).kind = req[r].kind
              /\ Onward(req[r]).i = req[r].i
    <3>1. CASE req[r].kind = "import"
      <4>1. Onward(req[r]) = [req[r] EXCEPT !.pc = "items", !.rows = {}]
        BY <3>1 DEF Onward
      <4>2. {} \in RowSets BY DEF RowSets
      <4> QED BY <1>2, <4>1, <4>2 DEF RequestType
    <3>2. CASE req[r].kind # "import"
      <4>1. Onward(req[r]) = Idle BY <3>2 DEF Onward
      <4>2. Idle.pc = "idle" BY DEF Idle
      <4> QED BY <4>1, <4>2, IdleTyped
    <3> QED BY <3>1, <3>2
  <2>4. req' = [req EXCEPT ![r] = w] \/ req' = [req EXCEPT ![r] = Onward(req[r])]
    BY <1>1 DEF Decide, Refused, To
  <2>5. CASE req' = [req EXCEPT ![r] = w]
    <3> HIDE DEF w
    <3> QED BY <1>1, <1>3, <1>4, <2>1, <2>2, <2>5, Proceed
  <2>6. CASE req' = [req EXCEPT ![r] = Onward(req[r])]
    <3>1. req[r].kind # "import" => Onward(req[r]) = Idle BY DEF Onward
    <3>2. Idle.pc = "idle" BY DEF Idle
    <3> QED BY <1>1, <1>3, <1>4, <2>1, <2>3, <2>6, <3>1, <3>2, Proceed DEF Working
  <2> QED BY <2>4, <2>5, <2>6
<1> QED BY <1>5, <1>6

\* Storing a photo for the first time.
LEMMA StoredTyped ==
  ASSUME NEW old \in ItemType, old.stored = 0
  PROVE  Stored(old) \in ItemType /\ Stored(old).committed /\ Stored(old).stored = 1
<1>1. Stored(old) = [old EXCEPT !.committed = TRUE, !.stored = 1] BY DEF Stored, ItemType
<1>2. 1 \in 0..2 OBVIOUS
<1>3. ASSUME NEW n \in 0..2
      PROVE  [old EXCEPT !.committed = TRUE, !.stored = n] \in ItemType
  BY DEF ItemType
<1> QED BY <1>1, <1>2, <1>3 DEF ItemType

\* A sample was inserted, and the tables are in order.
LEMMA WriteInv ==
  ASSUME ImportInv, NEW r \in Requests, req[r].pc = "write", Written(r), TablesOK',
         UNCHANGED cache
  PROVE  ImportInv'
<1>1. /\ req \in [Requests -> RequestType] /\ cache \in [loaded : BOOLEAN, rows : RowSets]
      /\ imports \in [Imports -> [open : BOOLEAN, items : [Photos -> ItemType]]]
  BY DEF ImportInv, TypeOK
<1>2. req[r] \in RequestType /\ req[r].pc \in Working BY <1>1 DEF Working
<1>3. CASE req[r].kind = "import"
  <2> DEFINE old == imports[req[r].i].items[req[r].p]
             item == Stored(old)
             q == [[req[r] EXCEPT !.pc = "items", !.rows = {}] EXCEPT !.imported = TRUE]
  <2>1. req[r].p \in Photos /\ req[r].i \in Imports /\ ~ old.committed
    BY <1>2, <1>3 DEF ImportInv, ItemInHand, RequestType
  <2>2. old \in ItemType BY <1>1, <2>1
  <2>3. old.stored = 0 BY <2>1, <2>2 DEF ImportInv, StoredIsCommitted, ItemType
  <2>4. item \in ItemType /\ item.committed /\ item.stored = 1 BY <2>2, <2>3, StoredTyped
  <2>5. imports' = [imports EXCEPT ![req[r].i].items[req[r].p] = item]
    BY <1>1, <1>3, <2>1 DEF Written
  <2>6. req' = [req EXCEPT ![r] = q] BY <1>3 DEF Written, Onward
  <2>7. q \in RequestType /\ q.pc = "items" /\ q.kind = "import" /\ q.i = req[r].i
    BY <1>2, <1>3 DEF RequestType, RowSets
  <2> HIDE DEF q, item, old
  <2> QED BY <1>2, <1>3, <2>4, <2>5, <2>6, <2>7, Mark
<1>4. CASE req[r].kind # "import"
  <2> DEFINE q == [req[r] EXCEPT !.pc = "refresh"]
  <2>1. q \in RequestType /\ q.kind # "import" BY <1>2, <1>4 DEF RequestType
  <2>2. req' = [req EXCEPT ![r] = q] /\ UNCHANGED imports BY <1>4 DEF Written, To
  <2>3. cache' \in [loaded : BOOLEAN, rows : RowSets] BY <1>1
  <2> HIDE DEF q
  <2> QED BY <2>1, <2>2, <2>3, Local
<1> QED BY <1>3, <1>4

\* Both ways of writing a sample.
LEMMA Writes ==
  ASSUME ImportInv, NEW r \in Requests,
         WriteSample(r) \/ \E s \in Students : CreateStudent(r, s)
  PROVE  ImportInv'
<1>1. req[r] \in RequestType /\ TablesOK BY DEF ImportInv, TypeOK
<1>2. CASE WriteSample(r)
  <2> DEFINE s == req[r].s
             f == req[r].f
  <2>1. s \in Students /\ f \in Features /\ students[s] = "here" /\ samples[s][f] < MaxCopies
    BY <1>1, <1>2 DEF WriteSample, RequestType
  <2>2. samples' = [samples EXCEPT ![s][f] = @ + 1] /\ UNCHANGED <<students, cache>>
    BY <1>2 DEF WriteSample
  <2> HIDE DEF s, f
  <2>3. samples[s][f] + 1 \in 0..MaxCopies BY <1>1, <2>1, LibraryAssumption DEF TablesOK
  <2>4. TablesOK' BY <1>1, <2>1, <2>2, <2>3 DEF TablesOK
  <2> QED BY <1>2, <2>2, <2>4, WriteInv DEF WriteSample, At
<1>3. CASE \E s \in Students : CreateStudent(r, s)
  <2> PICK s \in Students : CreateStudent(r, s) BY <1>3
  <2> DEFINE f == req[r].f
  <2>1. f \in Features BY <1>1 DEF RequestType
  <2>2. /\ students' = [students EXCEPT ![s] = "here"]
        /\ samples' = [samples EXCEPT ![s][f] = 1] /\ UNCHANGED cache
    BY DEF CreateStudent
  <2> HIDE DEF f
  <2>4. 1 \in 0..MaxCopies BY LibraryAssumption
  <2>3. TablesOK' BY <1>1, <2>1, <2>2, <2>4 DEF TablesOK
  <2> QED BY <2>2, <2>3, WriteInv DEF CreateStudent, At
<1> QED BY <1>2, <1>3

\* An analysis publishes an import nobody is working on, with nothing stored.
LEMMA PublishInv ==
  ASSUME ImportInv, NEW r \in Requests, NEW i \in Imports, NEW photos \in SUBSET Photos,
         NEW feature \in [photos -> Features], Publish(r, i, feature)
  PROVE  ImportInv'
<1>1. /\ req \in [Requests -> RequestType] /\ cache \in [loaded : BOOLEAN, rows : RowSets]
      /\ imports \in [Imports -> [open : BOOLEAN, items : [Photos -> ItemType]]] /\ TablesOK
  BY DEF ImportInv, TypeOK
<1> DEFINE rows == req[r].rows
           new(ready, owner) ==
             [open |-> TRUE,
              items |-> [p \in Photos |-> AnalyzedItem(p, rows, feature, ready, owner)]]
<1>2. PICK ready \in SUBSET Unknown(rows, feature), owner \in [Known(rows, feature) -> Students] :
        imports' = [imports EXCEPT ![i] = new(ready, owner)]
  BY DEF Publish
<1> DEFINE session == new(ready, owner)
<1> HIDE DEF rows
<1>3. /\ session \in [open : BOOLEAN, items : [Photos -> ItemType]]
      /\ \A p \in Photos : session.items[p].stored = 0
  <2>1. NoItem \in ItemType /\ NoItem.stored = 0 BY IdleTyped DEF NoItem, ItemType
  <2>2. ASSUME NEW p \in Photos
        PROVE  LET item == AnalyzedItem(p, rows, feature, ready, owner)
               IN  item \in ItemType /\ item.stored = 0
    <3> DEFINE st == Status(p, rows, feature, ready)
               ex == IF p \in Known(rows, feature) THEN owner[p] ELSE None
    <3>1. CASE p \notin photos BY <2>1, <3>1 DEF AnalyzedItem
    <3>2. CASE p \in photos
      <4>1. feature[p] \in Features BY <3>2
      <4>2. st \in {"existing", "ready", "package_duplicate", "review"} BY DEF Status
      <4>3. ex \in Students \cup {None} OBVIOUS
      <4>4. AnalyzedItem(p, rows, feature, ready, owner)
              = [NoItem EXCEPT !.feature = feature[p], !.status = st, !.existing = ex]
        BY <3>2 DEF AnalyzedItem
      <4> HIDE DEF st, ex
      <4>5. AnalyzedItem(p, rows, feature, ready, owner)
              = [feature |-> feature[p], status |-> st, existing |-> ex,
                 committed |-> FALSE, stored |-> 0]
        BY <4>4 DEF NoItem
      <4> QED BY <4>1, <4>2, <4>3, <4>5 DEF ItemType
    <3> QED BY <3>1, <3>2
  <2> QED BY <2>2
<1> HIDE DEF session
<1>4. req' = [req EXCEPT ![r] = Idle] /\ UNCHANGED <<students, samples, cache>>
      /\ (\A o \in Requests : req[o].kind = "import" => req[o].i # i)
  BY DEF Publish, Finish
<1>5. imports' = [imports EXCEPT ![i] = session] BY <1>2 DEF session
<1>6. TypeOK' BY <1>1, <1>3, <1>4, <1>5, IdleTyped DEF TypeOK, TablesOK
<1>7. StoredIsCommitted'
  <2> SUFFICES ASSUME NEW j \in Imports, NEW p \in Photos, imports'[j].items[p].stored > 0
               PROVE  imports'[j].items[p].committed /\ imports'[j].items[p].stored = 1
    BY DEF StoredIsCommitted
  <2>1. j # i BY <1>1, <1>3, <1>5
  <2>2. imports'[j] = imports[j] BY <1>1, <1>5, <2>1
  <2> QED BY <2>2 DEF ImportInv, StoredIsCommitted
<1>8. Idle.pc = "idle" /\ req'[r] = Idle /\ \A x \in Requests \ {r} : req'[x] = req[x]
  BY <1>1, <1>4 DEF Idle
<1>9. OneCommit'
  <2>1. \A x \in Requests, j \in Imports : Inside(x, j)' => Inside(x, j) BY <1>8 DEF Inside
  <2> QED BY <2>1 DEF ImportInv, OneCommit
<1>10. ItemInHand'
  <2> SUFFICES ASSUME NEW o \in Requests, req'[o].kind = "import", req'[o].pc \in Working
               PROVE  req'[o].p \in Photos /\ ~ imports'[req'[o].i].items[req'[o].p].committed
    BY DEF ItemInHand
  <2>1. req'[o] = req[o] BY <1>8 DEF Working
  <2>2. req[o].i # i /\ req[o].i \in Imports BY <1>1, <1>4, <2>1 DEF RequestType
  <2>3. imports'[req[o].i] = imports[req[o].i] BY <1>1, <1>5, <2>2
  <2> QED BY <2>1, <2>3 DEF ImportInv, ItemInHand
<1> QED BY <1>6, <1>7, <1>9, <1>10 DEF ImportInv

\* What is not a handler's step.
LEMMA Rest ==
  ASSUME ImportInv, (\E s \in Students : Register(s)) \/ (\E i \in Imports : Expire(i)) \/ Restart
  PROVE  ImportInv'
<1>1. /\ req \in [Requests -> RequestType] /\ cache \in [loaded : BOOLEAN, rows : RowSets]
      /\ imports \in [Imports -> [open : BOOLEAN, items : [Photos -> ItemType]]] /\ TablesOK
  BY DEF ImportInv, TypeOK
<1>2. CASE \E s \in Students : Register(s)
  <2> PICK s \in Students : Register(s) BY <1>2
  <2>1. TablesOK' BY <1>1 DEF TablesOK, Register
  <2>2. UNCHANGED <<cache, imports, req>> BY DEF Register
  <2>3. TypeOK' BY <1>1, <2>1, <2>2 DEF TypeOK
  <2> QED BY <2>2, <2>3
       DEF ImportInv, StoredIsCommitted, OneCommit, ItemInHand, Inside
<1>3. CASE \E i \in Imports : Expire(i)
  <2> PICK i \in Imports : Expire(i) BY <1>3
  <2>1. /\ imports' = [imports EXCEPT ![i].open = FALSE]
        /\ UNCHANGED <<students, samples, cache, req>>
    BY DEF Expire
  <2>2. \A j \in Imports : imports'[j].items = imports[j].items BY <1>1, <2>1
  <2>3. TypeOK' BY <1>1, <2>1 DEF TypeOK, TablesOK
  <2>4. StoredIsCommitted' BY <2>2 DEF ImportInv, StoredIsCommitted
  <2>5. OneCommit' BY <2>1 DEF ImportInv, OneCommit, Inside
  <2>6. ItemInHand' BY <1>1, <2>1, <2>2 DEF ImportInv, ItemInHand, RequestType
  <2> QED BY <2>3, <2>4, <2>5, <2>6 DEF ImportInv
<1>4. CASE Restart
  <2>1. /\ cache' = Cached(Rows) /\ imports' = [i \in Imports |-> NoImport]
        /\ req' = [r \in Requests |-> Idle] /\ UNCHANGED <<students, samples>>
    BY <1>4 DEF Restart
  <2>2. Cached(Rows) \in [loaded : BOOLEAN, rows : RowSets] BY DEF Cached, Rows, RowSets
  <2>3. NoImport \in [open : BOOLEAN, items : [Photos -> ItemType]]
    BY IdleTyped DEF NoImport, NoItem, ItemType
  <2>4. TypeOK' BY <1>1, <2>1, <2>2, <2>3, IdleTyped DEF TypeOK, TablesOK
  <2>5. StoredIsCommitted' BY <2>1 DEF StoredIsCommitted, NoImport, NoItem
  <2>6. OneCommit' /\ ItemInHand' BY <2>1 DEF OneCommit, ItemInHand, Inside, Idle, Working
  <2> QED BY <2>4, <2>5, <2>6 DEF ImportInv
<1> QED BY <1>2, <1>3, <1>4

\* Every step keeps the invariant.
LEMMA StepInv == ImportInv /\ [Next]_vars => ImportInv'
<1> SUFFICES ASSUME ImportInv, [Next]_vars PROVE ImportInv' OBVIOUS
<1>1. CASE \E r \in Requests : Arrive(r) BY <1>1, Arrivals
<1>2. CASE \E r \in Requests : Handle(r)
  <2> PICK r \in Requests : Handle(r) BY <1>2
  <2>1. CASE Decide(r) BY <2>1, DecideInv
  <2>2. CASE WriteSample(r) \/ \E s \in Students : CreateStudent(r, s) BY <2>2, Writes
  <2>3. CASE \E i \in Imports, photos \in SUBSET Photos :
               \E feature \in [photos -> Features] : Publish(r, i, feature)
    BY <2>3, PublishInv
  <2> QED BY <2>1, <2>2, <2>3, LocalSteps DEF Handle
<1>3. CASE (\E s \in Students : Register(s)) \/ (\E i \in Imports : Expire(i)) \/ Restart
  BY <1>3, Rest
<1>4. CASE UNCHANGED vars
  BY <1>4 DEF vars, ImportInv, TypeOK, TablesOK, StoredIsCommitted, OneCommit, ItemInHand, Inside
<1> QED BY <1>1, <1>2, <1>3, <1>4 DEF Next

\* Every variable keeps its type and the tables their foreign key, and a photo
\* is stored at most once (photoImportCommit), whatever overlaps.
THEOREM Typed == Spec => []TypeOK
<1>1. ImportInv => TypeOK BY DEF ImportInv
<1> QED BY <1>1, InitInv, StepInv, PTL DEF Spec

THEOREM PhotosStoredOnce == Spec => []ImportedOnce
<1>1. ImportInv => ImportedOnce
  <2> SUFFICES ASSUME ImportInv, NEW i \in Imports, NEW p \in Photos
               PROVE  imports[i].items[p].stored <= 1
    BY DEF ImportedOnce
  <2>1. imports[i].items[p] \in ItemType BY DEF ImportInv, TypeOK
  <2>2. imports[i].items[p].stored \in 0..2 BY <2>1 DEF ItemType
  <2> QED BY <2>2 DEF ImportInv, StoredIsCommitted
<1> QED BY <1>1, InitInv, StepInv, PTL DEF Spec

-----------------------------------------------------------------------------
(* Handlers in turn                                                         *)
(*                                                                          *)
(* The code does not keep two handlers from changing the samples at a time, *)
(* so what follows is about the handlers of a client that sends its         *)
(* requests one after the other, except that the commit of an import may be *)
(* sent again before it was answered: its own mutex then makes it wait.     *)

Alone ==
  \/ Overlap = {}
  \/ Overlap = {<<"import", "import">>} /\ \A i, j \in Imports : i = j

AtWork(r) == req[r].pc \notin {"idle", "lock"}

Turns ==
  /\ \A r, o \in Requests : r # o /\ req[r].pc # "idle" /\ req[o].pc # "idle"
       => req[r].kind = "import" /\ req[o].kind = "import" /\ req[r].i = req[o].i
  /\ \A r \in Requests : req[r].imported => req[r].kind = "import" /\ req[r].pc # "lock"

\* The requests of a state that satisfies the invariant are typed.
LEMMA Typings ==
  ASSUME ImportInv
  PROVE  /\ req \in [Requests -> RequestType] /\ cache \in [loaded : BOOLEAN, rows : RowSets]
         /\ imports \in [Imports -> [open : BOOLEAN, items : [Photos -> ItemType]]] /\ TablesOK
         /\ Rows \in RowSets
BY DEF ImportInv, TypeOK, Rows, RowSets

\* At most one handler is past its mutex.
LEMMA OneAtWork ==
  ASSUME ImportInv, Turns, NEW r \in Requests, NEW o \in Requests \ {r}, AtWork(r)
  PROVE  ~ AtWork(o)
<1> SUFFICES ASSUME AtWork(o) PROVE FALSE OBVIOUS
<1>1. req[r].kind = "import" /\ req[o].kind = "import" /\ req[r].i = req[o].i
  BY DEF Turns, AtWork
<1>2. Inside(r, req[r].i) /\ Inside(o, req[r].i) BY <1>1 DEF Inside, AtWork
<1>3. req[r].i \in Imports BY Typings DEF RequestType
<1> QED BY <1>2, <1>3 DEF ImportInv, OneCommit

\* Nor is anybody past it when one comes past it, or when one begins that may
\* not overlap with others.
LEMMA NobodyAtWork ==
  ASSUME ImportInv, Turns, NEW r \in Requests, NEW o \in Requests \ {r}, Lock(r)
  PROVE  ~ AtWork(o)
<1> SUFFICES ASSUME AtWork(o) PROVE FALSE OBVIOUS
<1>1. req[r].pc = "lock" /\ Free(req[r].i) BY DEF Lock, At
<1>2. req[o].kind = "import" /\ req[r].i = req[o].i BY <1>1 DEF Turns, AtWork
<1> QED BY <1>1, <1>2 DEF Free, Inside, AtWork

LEMMA BeginsAlone ==
  ASSUME Alone, NEW r \in Requests, NEW q, q.kind # "import", Begin(r, q),
         NEW o \in Requests
  PROVE  req[o].pc = "idle"
BY DEF Begin, Alone

\* How a handler's request arrives, and how it goes on.
NewRequests ==
  {q \in RequestType : /\ ~ q.imported /\ q.pc \notin {"items", "write"}
                       /\ q.kind = "import" <=> q.pc = "lock"
                       /\ q.kind = "enrol" => q.s = None}

LEMMA ArriveMoves ==
  ASSUME ImportInv, NEW r \in Requests, Arrive(r)
  PROVE  \E q \in NewRequests : Begin(r, q) /\ (q.kind = "import" => UNCHANGED samples)
<1> USE IdleTyped DEF Arrive, NewRequests
<1>1. \A f \in Features : [Idle EXCEPT !.pc = "look", !.kind = "enrol", !.f = f]
                            \in NewRequests
  BY DEF Idle, RequestType, Kinds
<1>2. \A s \in Students, f \in Features :
        [Idle EXCEPT !.pc = "look", !.kind = "add", !.s = s, !.f = f]
          \in NewRequests
  BY DEF Idle, RequestType, Kinds
<1>3. Changing \in NewRequests /\ Changing.kind # "import"
  BY DEF Changing, Idle, RequestType, Kinds
<1>4. [Idle EXCEPT !.pc = "look"] \in NewRequests
  BY DEF Idle, RequestType, Kinds
<1>5. [Idle EXCEPT !.pc = "look", !.kind = "analyze"] \in NewRequests
  BY DEF Idle, RequestType, Kinds
<1>6. \A i \in Imports : [Idle EXCEPT !.pc = "lock", !.kind = "import", !.i = i]
                           \in NewRequests
  BY DEF Idle, RequestType, Kinds
<1>7. CASE \E f \in Features : Enrol(r, f) BY <1>1, <1>7 DEF Enrol
<1>8. CASE \E s \in Students, f \in Features : AddSample(r, s, f)
  BY <1>2, <1>8 DEF AddSample
<1>9. CASE \/ \E s \in Students, f \in Features : DeleteFaceSample(r, s, f)
           \/ \E s \in Students : DeleteStudent(r, s)
           \/ Rename(r)
  BY <1>3, <1>9 DEF DeleteFaceSample, DeleteStudent, Rename
<1>10. CASE Recognize(r) BY <1>4, <1>10 DEF Recognize
<1>11. CASE Analyze(r) BY <1>5, <1>11 DEF Analyze
<1>12. CASE \E i \in Imports : Import(r, i) BY <1>6, <1>12 DEF Import
<1> QED BY <1>7, <1>8, <1>9, <1>10, <1>11, <1>12

LEMMA HandleMoves ==
  ASSUME ImportInv, NEW r \in Requests, Handle(r)
  PROVE  /\ req[r].pc # "idle"
         /\ \E q : /\ req' = [req EXCEPT ![r] = q]
                   /\ \/ q = Idle
                      \/ /\ q.kind = req[r].kind /\ q.i = req[r].i /\ q.pc # "lock"
                         /\ q.imported => req[r].imported \/ req[r].kind = "import"
                         /\ q.s = req[r].s \/ req[r].pc = "items"
                         /\ q.pc = "items" => req[r].pc = "lock" \/ req[r].kind = "import"
<1> DEFINE Goes == \E q : /\ req' = [req EXCEPT ![r] = q]
                          /\ \/ q = Idle
                             \/ /\ q.kind = req[r].kind /\ q.i = req[r].i /\ q.pc # "lock"
                                /\ q.imported => req[r].imported \/ req[r].kind = "import"
                                /\ q.s = req[r].s \/ req[r].pc = "items"
                                /\ q.pc = "items" => req[r].pc = "lock" \/ req[r].kind = "import"
<1>1. req \in [Requests -> RequestType] /\ req[r] \in RequestType BY Typings
<1>2. Onward(req[r]) = Idle
      \/ /\ Onward(req[r]).kind = req[r].kind /\ Onward(req[r]).i = req[r].i
         /\ Onward(req[r]).pc = "items" /\ Onward(req[r]).s = req[r].s
         /\ req[r].kind = "import"
  BY <1>1 DEF Onward, RequestType
<1>3. Refused(r) => Goes BY <1>1, <1>2 DEF Refused
<1>4. ASSUME NEW pc, To(r, pc), pc # "lock", pc = "items" => req[r].pc = "lock" PROVE Goes
  <2>1. [req[r] EXCEPT !.pc = pc].kind = req[r].kind /\ [req[r] EXCEPT !.pc = pc].i = req[r].i
        /\ [req[r] EXCEPT !.pc = pc].imported = req[r].imported
        /\ [req[r] EXCEPT !.pc = pc].pc = pc /\ [req[r] EXCEPT !.pc = pc].s = req[r].s
    BY <1>1 DEF RequestType
  <2> QED BY <1>1, <1>4, <2>1 DEF To
<1>5. ASSUME NEW pc, NEW rows, req' = [req EXCEPT ![r].pc = pc, ![r].rows = rows],
             pc \notin {"lock", "items"}
      PROVE  Goes
  <2> DEFINE q == [req[r] EXCEPT !.pc = pc, !.rows = rows]
  <2>1. /\ q.kind = req[r].kind /\ q.i = req[r].i /\ q.s = req[r].s
        /\ q.imported = req[r].imported /\ q.pc = pc
    BY <1>1 DEF RequestType
  <2>2. req' = [req EXCEPT ![r] = q] BY <1>1, <1>5
  <2> QED BY <1>5, <2>1, <2>2
<1>6. Finish(r) => Goes BY DEF Finish
<1>7. Written(r) => Goes
  <2>1. CASE req[r].kind = "import"
    <3> DEFINE q == [Onward(req[r]) EXCEPT !.imported = TRUE]
    <3>1. q.kind = req[r].kind /\ q.i = req[r].i /\ q.s = req[r].s /\ q.pc = "items"
      BY <1>1, <2>1 DEF Onward, RequestType
    <3>2. Written(r) => req' = [req EXCEPT ![r] = q] BY <2>1 DEF Written
    <3> QED BY <2>1, <3>1, <3>2
  <2> QED BY <1>4, <2>1 DEF Written
<1> SUFFICES req[r].pc # "idle" /\ Goes OBVIOUS
<1> HIDE DEF Goes
<1>8. CASE Look(r) \/ LookAgain(r) BY <1>5, <1>8 DEF Look, LookAgain, At
<1>9. CASE Load(r) BY <1>3, <1>5, <1>9 DEF Load, At
<1>10. CASE Install(r) \/ Lock(r) BY <1>4, <1>10 DEF Install, Lock, At
<1>11. CASE Refresh(r) BY <1>4, <1>5, <1>11 DEF Refresh, At
<1>12. CASE Store(r) \/ Drop(r) BY <1>6, <1>12 DEF Store, Drop, At
<1>13. CASE Decide(r) BY <1>3, <1>4, <1>13 DEF Decide, At
<1>14. CASE Refuse(r) BY <1>3, <1>14 DEF Refuse, At
<1>15. CASE WriteSample(r) BY <1>7, <1>15 DEF WriteSample, At
<1>16. CASE \E s \in Students : CreateStudent(r, s) BY <1>7, <1>16 DEF CreateStudent, At
<1>17. CASE \E i \in Imports, photos \in SUBSET Photos :
              \E feature \in [photos -> Features] : Publish(r, i, feature)
  BY <1>6, <1>17 DEF Publish, At
<1>18. CASE ItemsDone(r) BY <1>4, <1>6, <1>18 DEF ItemsDone, At
<1>19. CASE \E p \in Photos : Item(r, p)
  <2> PICK p \in Photos : Item(r, p) BY <1>19
  <2> DEFINE item == imports[req[r].i].items[p]
             q == [req[r] EXCEPT !.pc = "look", !.p = p, !.f = item.feature, !.s = item.existing]
  <2>1. q.kind = req[r].kind /\ q.i = req[r].i /\ q.imported = req[r].imported /\ q.pc = "look"
    BY <1>1 DEF RequestType
  <2>2. req' = [req EXCEPT ![r] = q] BY <1>1 DEF Item
  <2> QED BY <2>1, <2>2 DEF Goes, Item, At
<1> QED
  BY <1>8, <1>9, <1>10, <1>11, <1>12, <1>13, <1>14, <1>15, <1>16, <1>17, <1>18, <1>19
  DEF Handle

\* Handlers stay in turn.
LEMMA TurnsStep ==
  ASSUME Alone, ImportInv, Turns, [Next]_vars PROVE Turns'
<1> USE Typings
<1>1. ASSUME NEW r \in Requests, Arrive(r) PROVE Turns'
  <2>1. PICK q \in RequestType : Begin(r, q) /\ ~ q.imported
    BY <1>1, ArriveMoves DEF NewRequests
  <2>2. req'[r] = q /\ \A o \in Requests \ {r} : req'[o] = req[o] BY <2>1 DEF Begin
  <2>3. \A o \in Requests : req[o].pc # "idle" =>
          q.kind = "import" /\ req[o].kind = "import" /\ q.i = req[o].i
    BY <2>1 DEF Begin, Alone, RequestType
  <2> QED BY <2>1, <2>2, <2>3 DEF Turns
<1>2. ASSUME NEW r \in Requests, Handle(r) PROVE Turns'
  <2>1. PICK q : /\ req' = [req EXCEPT ![r] = q]
                 /\ \/ q = Idle
                    \/ /\ q.kind = req[r].kind /\ q.i = req[r].i /\ q.pc # "lock"
                       /\ q.imported => req[r].imported \/ req[r].kind = "import"
    BY <1>2, HandleMoves
  <2>2. req[r].pc # "idle" BY <1>2, HandleMoves
  <2>3. req'[r] = q /\ \A o \in Requests \ {r} : req'[o] = req[o] BY <2>1
  <2>4. Idle.pc = "idle" /\ ~ Idle.imported BY DEF Idle
  <2> QED BY <2>1, <2>2, <2>3, <2>4 DEF Turns
<1>3. CASE \E s \in Students : Register(s) BY <1>3 DEF Register, Turns
<1>4. CASE \E i \in Imports : Expire(i) BY <1>4 DEF Expire, Turns
<1>5. CASE Restart BY <1>5 DEF Restart, Turns, Idle
<1>6. CASE UNCHANGED vars BY <1>6 DEF vars, Turns
<1> QED BY <1>1, <1>2, <1>3, <1>4, <1>5, <1>6 DEF Next

-----------------------------------------------------------------------------
(* The cache and the table                                                  *)

\* Handlers that reload the cache before they end.
Behind(q) == q.pc \in {"refresh", "store", "drop"} \/ q.imported

\* What the handler at work knows of the cache c and of the rows R.
Fresh(q, c, R) ==
  /\ q.pc \in {"install", "store"} => q.rows = R
  /\ q.pc \in {"again", "decide", "write"} => c.loaded
  /\ q.pc \in {"decide", "write"} => q.rows = c.rows
  /\ c.loaded => c.rows = R \/ Behind(q)

Current(c, R) == c.loaded => c.rows = R

CacheInv ==
  /\ \A r \in Requests : AtWork(r) => Fresh(req[r], cache, Rows)
  /\ (\A r \in Requests : ~ AtWork(r)) => Current(cache, Rows)

\* The only handler at work makes a step, or comes to work.
LEMMA CacheByOne ==
  ASSUME ImportInv, NEW r \in Requests, NEW q, req' = [req EXCEPT ![r] = q],
         \A o \in Requests \ {r} : ~ AtWork(o),
         q.pc \notin {"idle", "lock"} => Fresh(q, cache', Rows'),
         q.pc \in {"idle", "lock"} => Current(cache', Rows')
  PROVE  CacheInv'
<1>1. req'[r] = q /\ \A o \in Requests \ {r} : req'[o] = req[o] BY Typings
<1>2. \A o \in Requests \ {r} : ~ AtWork(o)' BY <1>1 DEF AtWork
<1>3. AtWork(r)' <=> q.pc \notin {"idle", "lock"} BY <1>1 DEF AtWork
<1> QED BY <1>1, <1>2, <1>3 DEF CacheInv

\* A step that leaves the samples, the cache and those at work alone.
LEMMA CacheAlone ==
  ASSUME CacheInv, UNCHANGED <<samples, cache>>,
         \A r \in Requests : req'[r] = req[r] \/ (~ AtWork(r) /\ ~ AtWork(r)')
  PROVE  CacheInv'
<1>1. Rows' = Rows BY DEF Rows
<1>2. \A r \in Requests : AtWork(r)' => AtWork(r) /\ req'[r] = req[r] BY DEF AtWork
<1>3. \A r \in Requests : AtWork(r) => AtWork(r)' BY DEF AtWork
<1> QED BY <1>1, <1>2, <1>3 DEF CacheInv

\* Who is at work knows that he is alone, and what he knows of the cache.
LEMMA AloneAtWork ==
  ASSUME ImportInv, Turns, CacheInv, NEW r \in Requests, AtWork(r)
  PROVE  /\ \A o \in Requests \ {r} : ~ AtWork(o)
         /\ Fresh(req[r], cache, Rows)
         /\ req[r] \in RequestType /\ (req[r].imported => req[r].kind = "import")
BY OneAtWork, Typings DEF CacheInv, Turns

\* A handler arrives.
LEMMA CacheArrives ==
  ASSUME Alone, ImportInv, Turns, CacheInv, NEW r \in Requests, Arrive(r)
  PROVE  CacheInv'
<1> USE Typings
<1>1. ASSUME NEW q, q.kind # "import", Begin(r, q), UNCHANGED cache,
             \/ q.pc = "look" /\ UNCHANGED samples
             \/ q.pc = "refresh"
      PROVE  CacheInv'
  <2>1. \A o \in Requests : ~ AtWork(o) BY <1>1, BeginsAlone DEF AtWork
  <2>2. Current(cache, Rows) BY <2>1 DEF CacheInv
  <2>3. UNCHANGED samples => Rows' = Rows BY DEF Rows
  <2>4. Fresh(q, cache', Rows') BY <1>1, <2>2, <2>3 DEF Fresh, Current, Behind
  <2> QED BY <1>1, <2>1, <2>4, CacheByOne DEF Begin
<1>3. CASE \E f \in Features : Enrol(r, f)
  <2> PICK f \in Features : Enrol(r, f) BY <1>3
  <2> DEFINE q == [Idle EXCEPT !.pc = "look", !.kind = "enrol", !.f = f]
  <2>1. q.kind # "import" /\ q.pc = "look" BY DEF Idle
  <2>2. Begin(r, q) /\ UNCHANGED <<samples, cache>> BY DEF Enrol
  <2> HIDE DEF q
  <2> QED BY <1>1, <2>1, <2>2
<1>4. CASE \E s \in Students, f \in Features : AddSample(r, s, f)
  <2> PICK s \in Students, f \in Features : AddSample(r, s, f) BY <1>4
  <2> DEFINE q == [Idle EXCEPT !.pc = "look", !.kind = "add", !.s = s, !.f = f]
  <2>1. q.kind # "import" /\ q.pc = "look" BY DEF Idle
  <2>2. Begin(r, q) /\ UNCHANGED <<samples, cache>> BY DEF AddSample
  <2> HIDE DEF q
  <2> QED BY <1>1, <2>1, <2>2
<1>5. CASE \/ \E s \in Students, f \in Features : DeleteFaceSample(r, s, f)
           \/ \E s \in Students : DeleteStudent(r, s)
           \/ Rename(r)
  <2>1. Begin(r, Changing) /\ UNCHANGED cache
    BY <1>5 DEF DeleteFaceSample, DeleteStudent, Rename
  <2>2. Changing.kind = "change" /\ Changing.pc = "refresh" BY DEF Changing, Idle
  <2> QED BY <1>1, <2>1, <2>2
<1>6. CASE Recognize(r)
  <2> DEFINE q == [Idle EXCEPT !.pc = "look"]
  <2>1. q.kind # "import" /\ q.pc = "look" BY DEF Idle
  <2>2. Begin(r, q) /\ UNCHANGED <<samples, cache>> BY <1>6 DEF Recognize
  <2> HIDE DEF q
  <2> QED BY <1>1, <2>1, <2>2
<1>7. CASE Analyze(r)
  <2> DEFINE q == [Idle EXCEPT !.pc = "look", !.kind = "analyze"]
  <2>1. q.kind # "import" /\ q.pc = "look" BY DEF Idle
  <2>2. Begin(r, q) /\ UNCHANGED <<samples, cache>> BY <1>7 DEF Analyze
  <2> HIDE DEF q
  <2> QED BY <1>1, <2>1, <2>2
<1>8. CASE \E i \in Imports : Import(r, i)
  <2> PICK i \in Imports : Import(r, i) BY <1>8
  <2> DEFINE q == [Idle EXCEPT !.pc = "lock", !.kind = "import", !.i = i]
  <2>1. q.pc = "lock" BY DEF Idle
  <2>2. req' = [req EXCEPT ![r] = q] /\ req[r].pc = "idle" /\ UNCHANGED <<samples, cache>>
    BY DEF Import, Begin
  <2> HIDE DEF q
  <2>3. \A o \in Requests : req'[o] = req[o] \/ (~ AtWork(o) /\ ~ AtWork(o)')
    BY <2>1, <2>2 DEF AtWork
  <2> QED BY <2>2, <2>3, CacheAlone
<1> QED BY <1>3, <1>4, <1>5, <1>6, <1>7, <1>8 DEF Arrive

\* A handler looks at the cache, reloads it or gives up.
LEMMA CacheReads ==
  ASSUME ImportInv, Turns, CacheInv, NEW r \in Requests,
         \/ Look(r) \/ Load(r) \/ Install(r) \/ LookAgain(r)
         \/ Refresh(r) \/ Store(r) \/ Drop(r) \/ Refuse(r)
  PROVE  CacheInv'
<1> USE Typings
<1>1. AtWork(r)
  BY DEF Look, Load, Install, LookAgain, Refresh, Store, Drop, Refuse, At, AtWork
<1>2. /\ \A o \in Requests \ {r} : ~ AtWork(o)
      /\ Fresh(req[r], cache, Rows)
      /\ req[r] \in RequestType /\ (req[r].imported => req[r].kind = "import")
  BY <1>1, AloneAtWork
<1>3. UNCHANGED samples /\ Rows' = Rows
  BY DEF Look, Load, Install, LookAgain, Refresh, Store, Drop, Refuse, Rows
<1>4. Idle.pc = "idle" BY DEF Idle
<1>5. ASSUME Refused(r), UNCHANGED cache, req[r].pc \in {"load", "write"} PROVE CacheInv'
  <2>1. req' = [req EXCEPT ![r] = Onward(req[r])] BY <1>5 DEF Refused
  <2>2. CASE req[r].kind = "import"
    <3>1. Onward(req[r]).pc = "items" /\ (Onward(req[r]).imported <=> req[r].imported)
      BY <1>2, <2>2 DEF Onward, RequestType
    <3>2. Fresh(Onward(req[r]), cache', Rows')
      BY <1>2, <1>3, <1>5, <3>1 DEF Fresh, Behind
    <3> QED BY <1>2, <2>1, <3>1, <3>2, CacheByOne
  <2>3. CASE req[r].kind # "import"
    <3>1. Onward(req[r]) = Idle BY <2>3 DEF Onward
    <3>2. Current(cache', Rows') BY <1>2, <1>3, <1>5, <2>3 DEF Fresh, Behind, Current
    <3> QED BY <1>2, <1>4, <2>1, <3>1, <3>2, CacheByOne
  <2> QED BY <2>2, <2>3
<1>6. ASSUME NEW q, req' = [req EXCEPT ![r] = q], Fresh(q, cache', Rows'),
             q.pc \notin {"idle", "lock"}
      PROVE  CacheInv'
  BY <1>2, <1>6, CacheByOne
<1>7. ASSUME NEW pc, To(r, pc)
      PROVE  \E q : /\ req' = [req EXCEPT ![r] = q] /\ q.pc = pc
                    /\ q.imported <=> req[r].imported
  <2> DEFINE q == [req[r] EXCEPT !.pc = pc]
  <2>1. q.pc = pc /\ (q.imported <=> req[r].imported) BY <1>2 DEF RequestType
  <2> QED BY <1>7, <2>1 DEF To
<1>8. CASE Look(r)
  <2> DEFINE pc == IF cache.loaded THEN "decide" ELSE "load"
             q == [req[r] EXCEPT !.pc = pc, !.rows = cache.rows]
  <2>1. q.pc = pc /\ q.rows = cache.rows /\ (q.imported <=> req[r].imported)
    BY <1>2 DEF RequestType
  <2>2. req' = [req EXCEPT ![r] = q] BY <1>8 DEF Look
  <2>3. UNCHANGED cache /\ req[r].pc = "look" BY <1>8 DEF Look, At
  <2> HIDE DEF q
  <2>4. Fresh(q, cache', Rows') BY <1>2, <1>3, <2>1, <2>3 DEF Fresh, Behind
  <2> QED BY <1>6, <2>1, <2>2, <2>4
<1>9. CASE Load(r)
  <2>1. UNCHANGED cache /\ req[r].pc = "load" BY <1>9 DEF Load, At
  <2>2. CASE Refused(r) BY <1>5, <2>1, <2>2
  <2>3. CASE req' = [req EXCEPT ![r].pc = "install", ![r].rows = Rows]
    <3> DEFINE q == [req[r] EXCEPT !.pc = "install", !.rows = Rows]
    <3>1. q.pc = "install" /\ q.rows = Rows /\ (q.imported <=> req[r].imported)
      BY <1>2 DEF RequestType
    <3>2. req' = [req EXCEPT ![r] = q] BY <2>3
    <3> HIDE DEF q
    <3>3. Fresh(q, cache', Rows') BY <1>2, <1>3, <2>1, <3>1 DEF Fresh, Behind
    <3> QED BY <1>6, <3>1, <3>2, <3>3
  <2> QED BY <1>9, <2>2, <2>3 DEF Load
<1>10. CASE Install(r)
  <2>1. To(r, "again") /\ cache' = Cached(req[r].rows) /\ req[r].pc = "install"
    BY <1>10 DEF Install, At
  <2>2. PICK q : req' = [req EXCEPT ![r] = q] /\ q.pc = "again" BY <1>7, <2>1
  <2>3. Fresh(q, cache', Rows') BY <1>2, <1>3, <2>1, <2>2 DEF Fresh, Cached
  <2> QED BY <1>6, <2>2, <2>3
<1>11. CASE LookAgain(r)
  <2> DEFINE q == [req[r] EXCEPT !.pc = "decide", !.rows = cache.rows]
  <2>1. q.pc = "decide" /\ q.rows = cache.rows /\ (q.imported <=> req[r].imported)
    BY <1>2 DEF RequestType
  <2>2. req' = [req EXCEPT ![r] = q] BY <1>11 DEF LookAgain
  <2>3. UNCHANGED cache /\ req[r].pc = "again" BY <1>11 DEF LookAgain, At
  <2> HIDE DEF q
  <2>4. Fresh(q, cache', Rows') BY <1>2, <1>3, <2>1, <2>3 DEF Fresh, Behind
  <2> QED BY <1>6, <2>1, <2>2, <2>4
<1>12. CASE Refresh(r)
  <2>1. CASE req' = [req EXCEPT ![r].pc = "store", ![r].rows = Rows]
    <3> DEFINE q == [req[r] EXCEPT !.pc = "store", !.rows = Rows]
    <3>1. q.pc = "store" /\ q.rows = Rows BY <1>2 DEF RequestType
    <3>2. req' = [req EXCEPT ![r] = q] BY <2>1
    <3> HIDE DEF q
    <3>3. Fresh(q, cache', Rows') BY <1>3, <3>1 DEF Fresh, Behind
    <3> QED BY <1>6, <3>1, <3>2, <3>3
  <2>2. CASE To(r, "drop")
    <3>1. PICK q : req' = [req EXCEPT ![r] = q] /\ q.pc = "drop" BY <1>7, <2>2
    <3>2. Fresh(q, cache', Rows') BY <3>1 DEF Fresh, Behind
    <3> QED BY <1>6, <3>1, <3>2
  <2> QED BY <1>12, <2>1, <2>2 DEF Refresh
<1>13. CASE Store(r)
  <2>1. req' = [req EXCEPT ![r] = Idle] /\ cache' = Cached(req[r].rows) /\ req[r].pc = "store"
    BY <1>13 DEF Store, Finish, At
  <2>2. Current(cache', Rows') BY <1>2, <1>3, <2>1 DEF Fresh, Cached, Current
  <2> QED BY <1>2, <1>4, <2>1, <2>2, CacheByOne
<1>14. CASE Drop(r)
  <2>1. req' = [req EXCEPT ![r] = Idle] /\ ~ cache'.loaded
    BY <1>14 DEF Drop, Finish, Dropped, Unloaded
  <2> QED BY <1>2, <1>4, <2>1, CacheByOne DEF Current
<1>15. CASE Refuse(r) BY <1>5, <1>15 DEF Refuse, At
<1> QED BY <1>8, <1>9, <1>10, <1>11, <1>12, <1>13, <1>14, <1>15

\* Decisions, writes, and the other steps of an import.
LEMMA CacheWrites ==
  ASSUME ImportInv, Turns, CacheInv, NEW r \in Requests,
         \/ Decide(r) \/ WriteSample(r) \/ (\E s \in Students : CreateStudent(r, s))
         \/ ItemsDone(r) \/ (\E p \in Photos : Item(r, p))
         \/ \E i \in Imports, photos \in SUBSET Photos :
              \E feature \in [photos -> Features] : Publish(r, i, feature)
  PROVE  CacheInv'
<1> USE Typings
<1>1. AtWork(r)
  BY DEF Decide, WriteSample, CreateStudent, ItemsDone, Item, Publish, At, AtWork
<1>2. /\ \A o \in Requests \ {r} : ~ AtWork(o)
      /\ Fresh(req[r], cache, Rows)
      /\ req[r] \in RequestType /\ (req[r].imported => req[r].kind = "import")
  BY <1>1, AloneAtWork
<1>3. UNCHANGED cache
  BY DEF Decide, WriteSample, CreateStudent, ItemsDone, Item, Publish
<1>4. Idle.pc = "idle" BY DEF Idle
<1>5. UNCHANGED samples => Rows' = Rows BY DEF Rows
<1>6. ASSUME Finish(r), UNCHANGED samples, ~ Behind(req[r]) PROVE CacheInv'
  <2>1. Current(cache', Rows') BY <1>2, <1>3, <1>5, <1>6 DEF Fresh, Current
  <2> QED BY <1>2, <1>4, <1>6, <2>1, CacheByOne DEF Finish
<1>7. CASE Decide(r)
  <2>1. /\ req[r].pc = "decide" /\ UNCHANGED samples
        /\ To(r, "write") \/ Refused(r)
    BY <1>7 DEF Decide, At
  <2>2. CASE To(r, "write")
    <3> DEFINE q == [req[r] EXCEPT !.pc = "write"]
    <3>1. q.pc = "write" /\ q.rows = req[r].rows /\ (q.imported <=> req[r].imported)
      BY <1>2 DEF RequestType
    <3>2. req' = [req EXCEPT ![r] = q] BY <2>2 DEF To
    <3> HIDE DEF q
    <3>3. Fresh(q, cache', Rows') BY <1>2, <1>3, <1>5, <2>1, <3>1 DEF Fresh, Behind
    <3> QED BY <1>2, <3>1, <3>2, <3>3, CacheByOne
  <2>3. CASE Refused(r)
    <3>1. CASE req[r].kind = "import"
      <4>1. Onward(req[r]).pc = "items" /\ (Onward(req[r]).imported <=> req[r].imported)
        BY <1>2, <3>1 DEF Onward, RequestType
      <4>2. Fresh(Onward(req[r]), cache', Rows')
        BY <1>2, <1>3, <1>5, <2>1, <4>1 DEF Fresh, Behind
      <4> QED BY <1>2, <2>3, <4>1, <4>2, CacheByOne DEF Refused
    <3>2. CASE req[r].kind # "import"
      <4>1. Onward(req[r]) = Idle BY <3>2 DEF Onward
      <4> QED BY <1>2, <1>6, <2>1, <2>3, <3>2, <4>1 DEF Refused, Finish, Behind
    <3> QED BY <3>1, <3>2
  <2> QED BY <2>1, <2>2, <2>3
<1>8. CASE WriteSample(r) \/ \E s \in Students : CreateStudent(r, s)
  <2>1. Written(r) BY <1>8 DEF WriteSample, CreateStudent
  <2>2. CASE req[r].kind = "import"
    <3> DEFINE q == [Onward(req[r]) EXCEPT !.imported = TRUE]
    <3>1. q.pc = "items" /\ q.imported BY <1>2, <2>2 DEF Onward, RequestType
    <3>2. req' = [req EXCEPT ![r] = q] BY <2>1, <2>2 DEF Written
    <3> HIDE DEF q
    <3>3. Fresh(q, cache', Rows') BY <3>1 DEF Fresh, Behind
    <3> QED BY <1>2, <3>1, <3>2, <3>3, CacheByOne
  <2>3. CASE req[r].kind # "import"
    <3> DEFINE q == [req[r] EXCEPT !.pc = "refresh"]
    <3>1. q.pc = "refresh" BY <1>2 DEF RequestType
    <3>2. req' = [req EXCEPT ![r] = q] BY <2>1, <2>3 DEF Written, To
    <3> HIDE DEF q
    <3>3. Fresh(q, cache', Rows') BY <3>1 DEF Fresh, Behind
    <3> QED BY <1>2, <3>1, <3>2, <3>3, CacheByOne
  <2> QED BY <2>2, <2>3
<1>9. CASE ItemsDone(r)
  <2>1. UNCHANGED samples /\ req[r].pc = "items" BY <1>9 DEF ItemsDone, At
  <2>2. CASE req[r].imported
    <3> DEFINE q == [req[r] EXCEPT !.pc = "refresh"]
    <3>1. q.pc = "refresh" BY <1>2 DEF RequestType
    <3>2. req' = [req EXCEPT ![r] = q] BY <1>9, <2>2 DEF ItemsDone, To
    <3> HIDE DEF q
    <3>3. Fresh(q, cache', Rows') BY <3>1 DEF Fresh, Behind
    <3> QED BY <1>2, <3>1, <3>2, <3>3, CacheByOne
  <2>3. CASE ~ req[r].imported
    BY <1>6, <1>9, <2>1, <2>3 DEF ItemsDone, Behind
  <2> QED BY <2>2, <2>3
<1>10. CASE \E p \in Photos : Item(r, p)
  <2> PICK p \in Photos : Item(r, p) BY <1>10
  <2> DEFINE item == imports[req[r].i].items[p]
             q == [req[r] EXCEPT !.pc = "look", !.p = p, !.f = item.feature, !.s = item.existing]
  <2>1. q.pc = "look" /\ (q.imported <=> req[r].imported) BY <1>2 DEF RequestType
  <2>2. req' = [req EXCEPT ![r] = q] /\ UNCHANGED samples /\ req[r].pc = "items"
    BY DEF Item, At
  <2> HIDE DEF q
  <2>3. Fresh(q, cache', Rows') BY <1>2, <1>3, <1>5, <2>1, <2>2 DEF Fresh, Behind
  <2> QED BY <1>2, <2>1, <2>2, <2>3, CacheByOne
<1>11. CASE \E i \in Imports, photos \in SUBSET Photos :
              \E feature \in [photos -> Features] : Publish(r, i, feature)
  <2>1. Finish(r) /\ UNCHANGED samples /\ req[r].pc = "decide" /\ req[r].kind = "analyze"
    BY <1>11 DEF Publish, At
  <2> QED BY <1>2, <1>6, <2>1 DEF Behind
<1> QED BY <1>7, <1>8, <1>9, <1>10, <1>11

\* Every step keeps the cache in order.
LEMMA CacheStep ==
  ASSUME Alone, ImportInv, Turns, CacheInv, [Next]_vars PROVE CacheInv'
<1> USE Typings
<1>1. ASSUME NEW r \in Requests, Arrive(r) PROVE CacheInv' BY <1>1, CacheArrives
<1>2. ASSUME NEW r \in Requests, Handle(r) PROVE CacheInv'
  <2>1. CASE Lock(r)
    <3> DEFINE q == [req[r] EXCEPT !.pc = "items"]
    <3>1. /\ req' = [req EXCEPT ![r] = q] /\ UNCHANGED <<samples, cache>>
          /\ req[r].pc = "lock" /\ req[r] \in RequestType
      BY <2>1 DEF Lock, To, At
    <3>2. q.pc = "items" BY <3>1 DEF RequestType
    <3> HIDE DEF q
    <3>3. (\A o \in Requests \ {r} : ~ AtWork(o)) /\ ~ AtWork(r)
      BY <2>1, <3>1, NobodyAtWork DEF AtWork
    <3>4. Current(cache, Rows) /\ Rows' = Rows BY <3>1, <3>3 DEF CacheInv, Rows
    <3>5. Fresh(q, cache', Rows') BY <3>1, <3>2, <3>4 DEF Fresh, Current
    <3> QED BY <3>1, <3>2, <3>3, <3>5, CacheByOne
  <2> QED BY <1>2, <2>1, CacheReads, CacheWrites DEF Handle
<1>3. CASE \E s \in Students : Register(s) BY <1>3, CacheAlone DEF Register
<1>4. CASE \E i \in Imports : Expire(i) BY <1>4, CacheAlone DEF Expire
<1>5. CASE Restart
  <2>1. \A r \in Requests : ~ AtWork(r)' BY <1>5 DEF Restart, AtWork, Idle
  <2>2. Current(cache, Rows)' BY <1>5 DEF Restart, Current, Cached, Rows
  <2> QED BY <2>1, <2>2 DEF CacheInv
<1>6. CASE UNCHANGED vars BY <1>6, CacheAlone DEF vars
<1> QED BY <1>1, <1>2, <1>3, <1>4, <1>5, <1>6 DEF Next

LEMMA InTurns == Init => Turns /\ CacheInv
<1> SUFFICES ASSUME Init PROVE Turns /\ CacheInv OBVIOUS
<1>1. Rows = {} BY DEF Init, Rows
<1>2. \A r \in Requests : req[r] = Idle BY DEF Init
<1>3. Idle.pc = "idle" /\ ~ Idle.imported BY DEF Idle
<1>4. \A r \in Requests : ~ AtWork(r) BY <1>2, <1>3 DEF AtWork
<1>5. Turns BY <1>2, <1>3 DEF Turns
<1>6. Current(cache, Rows) BY <1>1 DEF Init, Current, Cached
<1> QED BY <1>4, <1>5, <1>6 DEF CacheInv

\* For a client that sends its requests in turn, the cache is the table or
\* empty whenever nothing is in progress: no failed query, no refused item, no
\* half-done or twice-sent import and no restart leaves it behind
\* (refreshFaceCacheAfterMutation, photoImportCommit).
THEOREM CacheFollowsTable == ASSUME Alone PROVE Spec => []CacheIsTable
<1>1. ImportInv /\ Turns /\ CacheInv => CacheIsTable
  BY DEF CacheIsTable, CacheInv, AtWork, Current
<1>2. Init => ImportInv /\ Turns /\ CacheInv BY InitInv, InTurns
<1>3. ImportInv /\ Turns /\ CacheInv /\ [Next]_vars => (ImportInv /\ Turns /\ CacheInv)'
  BY StepInv, TurnsStep, CacheStep
<1> QED BY <1>1, <1>2, <1>3, PTL DEF Spec

-----------------------------------------------------------------------------
(* Matching faces                                                           *)

Alike(f, g) == Similarity[f][g] >= Match

\* The faces of a person match one another, and no faces of others.
SamePerson == \A f, g, h \in Features : Alike(f, g) /\ Alike(g, h) => Alike(f, h)

\* The best similarity is a bound, and it is some row's unless it is 0.
LEMMA BestBounds ==
  ASSUME NEW rows \in RowSets, NEW f \in Features
  PROVE  /\ Best(rows, f) \in Nothing..Equal
         /\ \A x \in rows : Similarity[f][x[2]] <= Best(rows, f)
         /\ Best(rows, f) # Nothing => \E x \in rows : Similarity[f][x[2]] = Best(rows, f)
<1> DEFINE S == {Nothing} \cup {Similarity[f][x[2]] : x \in rows}
<1>1. S \subseteq Nothing..Equal /\ Nothing \in S
  BY LibraryAssumption DEF RowSets, Nothing, Equal
<1>2. \A x \in rows : Similarity[f][x[2]] \in S OBVIOUS
<1>3. \A v \in S : v # Nothing => \E x \in rows : Similarity[f][x[2]] = v OBVIOUS
<1> HIDE DEF S
<1>4. \E v \in S : \A w \in S : v >= w
  <2>1. CASE 3 \in S BY <1>1, <2>1 DEF Nothing, Equal
  <2>2. CASE 3 \notin S /\ 2 \in S BY <1>1, <2>2 DEF Nothing, Equal
  <2>3. CASE 3 \notin S /\ 2 \notin S /\ 1 \in S BY <1>1, <2>3 DEF Nothing, Equal
  <2>4. CASE 3 \notin S /\ 2 \notin S /\ 1 \notin S BY <1>1, <2>4 DEF Nothing, Equal
  <2> QED BY <2>1, <2>2, <2>3, <2>4
<1>5. Best(rows, f) = CHOOSE v \in S : \A w \in S : v >= w BY DEF Best, Max, S
<1>6. Best(rows, f) \in S /\ \A w \in S : Best(rows, f) >= w BY <1>4, <1>5
<1> HIDE DEF Nothing, Equal
<1>7. S \subseteq Int BY <1>1 DEF Nothing, Equal
<1> QED BY <1>1, <1>2, <1>3, <1>6, <1>7

\* What a decision to write says of the faces it was compared with: nobody has
\* the face, or the student who shall get it has one like it.
LEMMA WriteMeans ==
  ASSUME NEW q \in RequestType, MayWrite(q)
  PROVE  \/ /\ \A x \in q.rows : ~ Alike(q.f, x[2])
            /\ q.kind = "import" => q.s = None
            /\ q.kind = "add" => Of(q.rows, q.s) = {}
         \/ \E g \in q.rows : g[1] = q.s /\ Alike(q.f, g[2])
<1> DEFINE rows == q.rows
           f == q.f
           same == Of(rows, q.s)
           others == Others(rows, q.s)
<1>1. rows \in RowSets /\ f \in Features BY DEF RequestType
<1>2. same \in RowSets /\ others \in RowSets BY <1>1 DEF Of, Others, RowSets
<1>3. \A x \in rows : x \in same \/ x \in others BY DEF Of, Others
<1>4. \A x \in same : x \in rows /\ x[1] = q.s BY DEF Of
<1>5. \A S \in RowSets : \A x \in S : Similarity[f][x[2]] \in Nothing..Equal
  BY <1>1, LibraryAssumption DEF RowSets
<1>6. NewFace(rows, f) => \A x \in rows : ~ Alike(f, x[2])
  BY <1>1, <1>5, BestBounds DEF NewFace, Alike, Match, Nothing, Equal
<1>7. Best(same, f) >= Match => \E g \in rows : g[1] = q.s /\ Alike(f, g[2])
  BY <1>1, <1>2, <1>4, BestBounds DEF Alike, Match, Nothing
<1>8. same = {} /\ ~ CloserToOther(rows, f, q.s) => \A x \in rows : ~ Alike(f, x[2])
  BY <1>1, <1>2, <1>3, <1>5, BestBounds DEF CloserToOther, Alike, Match, Nothing, Equal
<1> HIDE DEF rows, f, same, others
<1>9. CASE q.kind = "enrol" /\ NewFace(rows, f) BY <1>6, <1>9 DEF rows, f
<1>10. CASE q.kind = "add" /\ Acceptable(rows, f, q.s)
  <2>1. \/ same = {} /\ ~ CloserToOther(rows, f, q.s)
        \/ Best(same, f) = Match
    BY <1>10 DEF Acceptable, same
  <2> QED BY <1>7, <1>8, <1>10, <2>1 DEF rows, f, same, Match
<1>11. CASE q.kind = "import" /\ q.s = None /\ NewFace(rows, f) BY <1>6, <1>11 DEF rows, f
<1>12. CASE q.kind = "import" /\ q.s # None /\ Confirmed(rows, f, q.s)
  BY <1>7, <1>12 DEF Confirmed, rows, f, same
<1> QED BY <1>9, <1>10, <1>11, <1>12 DEF MayWrite, rows, f

-----------------------------------------------------------------------------
(* One face, one student                                                    *)

\* A row the cache of an import does not show yet: a photo of this import that
\* was stored as a new student, or one more face of a student the cache knows.
Explained(y, rows, items) ==
  \/ \E p \in Photos : items[p].committed /\ items[p].status = "ready" /\ items[p].feature = y[2]
  \/ \E g \in rows : g[1] = y[1] /\ Alike(g[2], y[2])

Explains(c, R, items) ==
  c.loaded => c.rows \subseteq R /\ \A y \in R \ c.rows : Explained(y, c.rows, items)

\* What a handler at work knows of its photo, its decision and the table.
Photo(q, items) ==
  q.kind = "import" /\ q.pc \in Working
    => /\ items[q.p].feature = q.f /\ items[q.p].existing = q.s
       /\ q.s = None => items[q.p].status = "ready"

Settled(q, c, R, items) ==
  /\ Photo(q, items)
  /\ q.pc = "write" => MayWrite(q)
  /\ q.imported => Explains(c, R, items)

\* A photo of a known student names him; the new faces of an import differ.
ItemsOK ==
  \A i \in Imports, p, o \in Photos :
    LET item == imports[i].items[p]
        other == imports[i].items[o]
    IN  /\ item.status = "existing" => item.existing # None
        /\ item.status = "ready" /\ other.status = "ready" /\ p # o
             => ~ Alike(item.feature, other.feature)

FaceInv ==
  /\ OneFaceOneStudent /\ ItemsOK
  /\ \A r \in Requests : AtWork(r) => Settled(req[r], cache, Rows, imports[req[r].i].items)

\* The photos keep what was found out about them, and their marks.
Kept(a, b) ==
  \A p \in Photos :
    /\ b[p].feature = a[p].feature /\ b[p].status = a[p].status /\ b[p].existing = a[p].existing
    /\ a[p].committed => b[p].committed

SameItems == \A i \in Imports : Kept(imports[i].items, imports'[i].items)

LEMMA ItemsKept == ASSUME ItemsOK, SameItems PROVE ItemsOK'
BY DEF ItemsOK, SameItems, Kept

LEMMA ExplainsKept ==
  ASSUME NEW c, NEW R, NEW a, NEW b, Kept(a, b), Explains(c, R, a) PROVE Explains(c, R, b)
BY DEF Explains, Explained, Kept

LEMMA FewerRows ==
  ASSUME OneFaceOneStudent, Rows' \subseteq Rows PROVE OneFaceOneStudent'
BY DEF OneFaceOneStudent

\* The only handler at work makes a step, or comes to work.
LEMMA FaceByOne ==
  ASSUME ImportInv, NEW r \in Requests, NEW q, req' = [req EXCEPT ![r] = q],
         \A o \in Requests \ {r} : ~ AtWork(o), OneFaceOneStudent', ItemsOK',
         q.pc \notin {"idle", "lock"} => Settled(q, cache', Rows', imports'[q.i].items)
  PROVE  FaceInv'
<1>1. req'[r] = q /\ \A o \in Requests \ {r} : req'[o] = req[o] BY Typings
<1>2. \A o \in Requests \ {r} : ~ AtWork(o)' BY <1>1 DEF AtWork
<1>3. AtWork(r)' => q.pc \notin {"idle", "lock"} BY <1>1 DEF AtWork
<1> QED BY <1>1, <1>2, <1>3 DEF FaceInv

\* A step that leaves the samples, the cache, the photos and those at work alone.
LEMMA FaceAlone ==
  ASSUME ImportInv, FaceInv, UNCHANGED <<samples, cache>>, SameItems,
         \A r \in Requests : req'[r] = req[r] \/ ~ AtWork(r)'
  PROVE  FaceInv'
<1>1. Rows' = Rows BY DEF Rows
<1>2. OneFaceOneStudent' BY <1>1, FewerRows DEF FaceInv
<1>3. ItemsOK' BY ItemsKept DEF FaceInv
<1>4. ASSUME NEW r \in Requests, AtWork(r)'
      PROVE  Settled(req'[r], cache', Rows', imports'[req'[r].i].items)
  <2>1. req'[r] = req[r] /\ AtWork(r) BY <1>4 DEF AtWork
  <2>2. req[r] \in RequestType BY Typings
  <2>3. Kept(imports[req[r].i].items, imports'[req[r].i].items)
    BY <2>2 DEF SameItems, RequestType
  <2>4. Settled(req[r], cache, Rows, imports[req[r].i].items) BY <2>1 DEF FaceInv
  <2>5. req[r].kind = "import" /\ req[r].pc \in Working => req[r].p \in Photos
    BY DEF ImportInv, ItemInHand
  <2>6. Photo(req[r], imports'[req[r].i].items)
    BY <2>3, <2>4, <2>5 DEF Settled, Photo, Kept
  <2> QED BY <1>1, <2>1, <2>3, <2>4, <2>6, ExplainsKept DEF Settled
<1> QED BY <1>2, <1>3, <1>4 DEF FaceInv

\* The handler at work goes on with the same photo, or with none.
LEMMA FaceMoves ==
  ASSUME ImportInv, Turns, CacheInv, FaceInv, NEW r \in Requests, AtWork(r),
         NEW q, req' = [req EXCEPT ![r] = q], UNCHANGED samples, SameItems,
         \/ q.pc = "idle"
         \/ /\ q.kind = req[r].kind /\ q.i = req[r].i /\ q.p = req[r].p
            /\ q.f = req[r].f /\ q.s = req[r].s
            /\ q.imported => req[r].imported
            /\ q.pc \in Working => req[r].pc \in Working
            /\ q.pc = "write" => MayWrite(q)
            /\ UNCHANGED cache \/ cache' = Cached(Rows)
  PROVE  FaceInv'
<1>1. Rows' = Rows BY DEF Rows
<1>2. OneFaceOneStudent' BY <1>1, FewerRows DEF FaceInv
<1>3. ItemsOK' BY ItemsKept DEF FaceInv
<1>4. /\ \A o \in Requests \ {r} : ~ AtWork(o)
      /\ req[r] \in RequestType
  BY AloneAtWork
<1>5. ASSUME q.pc \notin {"idle", "lock"}
      PROVE  Settled(q, cache', Rows', imports'[q.i].items)
  <2>1. /\ q.kind = req[r].kind /\ q.i = req[r].i /\ q.p = req[r].p
        /\ q.f = req[r].f /\ q.s = req[r].s
        /\ q.imported => req[r].imported
        /\ q.pc \in Working => req[r].pc \in Working
        /\ q.pc = "write" => MayWrite(q)
        /\ UNCHANGED cache \/ cache' = Cached(Rows)
    BY <1>5
  <2>2. Kept(imports[req[r].i].items, imports'[req[r].i].items)
    BY <1>4 DEF SameItems, RequestType
  <2>3. Settled(req[r], cache, Rows, imports[req[r].i].items) BY DEF FaceInv
  <2>4. req[r].kind = "import" /\ req[r].pc \in Working => req[r].p \in Photos
    BY DEF ImportInv, ItemInHand
  <2>5. Photo(q, imports'[q.i].items)
    <3> SUFFICES ASSUME q.kind = "import", q.pc \in Working
                 PROVE  /\ imports'[q.i].items[q.p].feature = q.f
                        /\ imports'[q.i].items[q.p].existing = q.s
                        /\ q.s = None => imports'[q.i].items[q.p].status = "ready"
      BY DEF Photo
    <3> DEFINE old == imports[req[r].i].items[req[r].p]
               new == imports'[req[r].i].items[req[r].p]
    <3>1. req[r].kind = "import" /\ req[r].pc \in Working /\ req[r].p \in Photos
      BY <2>1, <2>4
    <3>2. /\ old.feature = req[r].f /\ old.existing = req[r].s
          /\ req[r].s = None => old.status = "ready"
      BY <2>3, <3>1 DEF Settled, Photo
    <3>3. /\ new.feature = old.feature /\ new.existing = old.existing
          /\ new.status = old.status
      BY <2>2, <3>1 DEF Kept
    <3>4. q.i = req[r].i /\ q.p = req[r].p /\ q.f = req[r].f /\ q.s = req[r].s
      BY <2>1
    <3>5. imports'[q.i].items[q.p] = new
      BY <3>4
    <3> HIDE DEF old, new
    <3> QED BY <3>2, <3>3, <3>4, <3>5
  <2>6. Explains(Cached(Rows), Rows, imports'[q.i].items) BY DEF Explains, Cached
  <2>7. q.imported => Explains(cache', Rows', imports'[q.i].items)
    BY <1>1, <2>1, <2>2, <2>3, <2>6, ExplainsKept DEF Settled
  <2> QED BY <2>1, <2>5, <2>7 DEF Settled
<1> QED BY <1>2, <1>3, <1>4, <1>5, FaceByOne

\* A handler arrives.
LEMMA FaceArrives ==
  ASSUME Alone, ImportInv, Turns, CacheInv, FaceInv, NEW r \in Requests, Arrive(r)
  PROVE  FaceInv'
<1>1. PICK q \in NewRequests : Begin(r, q) /\ (q.kind = "import" => UNCHANGED samples)
  BY ArriveMoves
<1>2. UNCHANGED <<cache, imports>>
  BY DEF Arrive, Enrol, AddSample, DeleteFaceSample, DeleteStudent, Recognize, Rename,
         Analyze, Import
<1>3. SameItems BY <1>2 DEF SameItems, Kept
<1>4. req' = [req EXCEPT ![r] = q] BY <1>1 DEF Begin
<1>5. req'[r] = q /\ \A o \in Requests \ {r} : req'[o] = req[o] BY <1>4, Typings
<1>6. CASE q.kind = "import"
  <2>1. req'[r].pc = "lock" BY <1>5, <1>6 DEF NewRequests
  <2> QED BY <1>1, <1>2, <1>3, <1>5, <1>6, <2>1, FaceAlone DEF AtWork
<1>7. CASE q.kind # "import"
  <2>2. \A o \in Requests : ~ AtWork(o) BY <1>1, <1>7, BeginsAlone DEF AtWork
  <2>3. Rows' \subseteq Rows
    <3>1. UNCHANGED samples => Rows' = Rows BY DEF Rows
    <3>2. samples \in [Students -> [Features -> 0..MaxCopies]] BY Typings DEF TablesOK
    <3>3. ASSUME NEW s \in Students, DeleteStudent(r, s) PROVE Rows' \subseteq Rows
      <4>1. samples' = [samples EXCEPT ![s] = [f \in Features |-> 0]]
        BY <3>3 DEF DeleteStudent, Cascade
      <4>2. \A x \in Students \X Features : samples'[x[1]][x[2]] > 0 => samples[x[1]][x[2]] > 0
        BY <3>2, <4>1
      <4> QED BY <4>2 DEF Rows
    <3>4. ASSUME NEW s \in Students, NEW f \in Features, DeleteFaceSample(r, s, f)
          PROVE  Rows' \subseteq Rows
      <4>1. samples' = [samples EXCEPT ![s][f] = @ - 1] /\ samples[s][f] > 0
        BY <3>4 DEF DeleteFaceSample
      <4>2. \A x \in Students \X Features : samples'[x[1]][x[2]] > 0 => samples[x[1]][x[2]] > 0
        BY <3>2, <4>1, LibraryAssumption
      <4> QED BY <4>2 DEF Rows
    <3>5. (\E s \in Students : DeleteStudent(r, s))
          \/ (\E s \in Students, f \in Features : DeleteFaceSample(r, s, f))
          \/ UNCHANGED samples
      BY DEF Arrive, Import, Enrol, AddSample, Recognize, Rename, Analyze
    <3> QED BY <3>1, <3>3, <3>4, <3>5
  <2>4. OneFaceOneStudent' BY <2>3, FewerRows DEF FaceInv
  <2>5. ItemsOK' BY <1>3, ItemsKept DEF FaceInv
  <2>6. Settled(q, cache', Rows', imports'[q.i].items)
    BY <1>7 DEF NewRequests, Settled, Photo
  <2> QED BY <1>4, <2>2, <2>4, <2>5, <2>6, FaceByOne
<1> QED BY <1>6, <1>7

\* Looking at the cache, reloading it, giving up, deciding.
LEMMA FaceReads ==
  ASSUME ImportInv, Turns, CacheInv, FaceInv, NEW r \in Requests,
         \/ Look(r) \/ Load(r) \/ Install(r) \/ LookAgain(r) \/ Refresh(r) \/ Store(r)
         \/ Drop(r) \/ Refuse(r) \/ ItemsDone(r) \/ Decide(r)
  PROVE  FaceInv'
<1>1. AtWork(r)
  BY DEF Look, Load, Install, LookAgain, Refresh, Store, Drop, Refuse, ItemsDone, Decide,
         At, AtWork
<1>2. /\ \A o \in Requests \ {r} : ~ AtWork(o)
      /\ Fresh(req[r], cache, Rows)
      /\ req[r] \in RequestType /\ (req[r].imported => req[r].kind = "import")
  BY <1>1, AloneAtWork
<1>3. UNCHANGED samples
  BY DEF Look, Load, Install, LookAgain, Refresh, Store, Drop, Refuse, ItemsDone, Decide
<1>4. SameItems
  <2>1. UNCHANGED imports => SameItems BY DEF SameItems, Kept
  <2>2. CASE Decide(r) /\ AlreadyThere(req[r])
    <3> DEFINE i == req[r].i
               p == req[r].p
    <3>1. imports' = [imports EXCEPT ![i].items[p].committed = TRUE]
      BY <2>2 DEF Decide
    <3>2. req[r].kind = "import" /\ req[r].pc \in Working
      BY <2>2 DEF Decide, At, AlreadyThere, Working
    <3>3. i \in Imports /\ p \in Photos
      BY <1>2, <3>2 DEF ImportInv, ItemInHand, RequestType
    <3> HIDE DEF i, p
    <3> SUFFICES ASSUME NEW j \in Imports, NEW o \in Photos
                 PROVE  LET a == imports[j].items[o]
                            b == imports'[j].items[o]
                        IN  /\ b.feature = a.feature /\ b.status = a.status
                            /\ b.existing = a.existing /\ (a.committed => b.committed)
      BY DEF SameItems, Kept
    <3>4. imports[j].items[o] \in ItemType BY Typings
    <3>5. imports'[j].items[o]
            = IF j = i /\ o = p THEN [imports[j].items[o] EXCEPT !.committed = TRUE]
                                ELSE imports[j].items[o]
      BY <3>1, <3>3, Typings
    <3> QED BY <3>4, <3>5 DEF ItemType
  <2> QED
    BY <2>1, <2>2
    DEF Look, Load, Install, LookAgain, Refresh, Store, Drop, Refuse, ItemsDone, Decide
<1>5. Idle.pc = "idle" BY DEF Idle
<1>6. Finish(r) => FaceInv' BY <1>1, <1>3, <1>4, <1>5, FaceMoves DEF Finish
<1>7. ASSUME Refused(r), UNCHANGED cache PROVE FaceInv'
  <2>1. CASE req[r].kind = "import"
    <3> DEFINE q == [req[r] EXCEPT !.pc = "items", !.rows = {}]
    <3>1. /\ q.kind = req[r].kind /\ q.i = req[r].i /\ q.p = req[r].p
          /\ q.f = req[r].f /\ q.s = req[r].s /\ (q.imported => req[r].imported)
          /\ q.pc = "items"
      BY <1>2 DEF RequestType
    <3>2. req' = [req EXCEPT ![r] = q] BY <1>7, <2>1 DEF Refused, Onward
    <3> HIDE DEF q
    <3> QED BY <1>1, <1>3, <1>4, <1>7, <3>1, <3>2, FaceMoves DEF Working
  <2>2. CASE req[r].kind # "import" BY <1>6, <1>7, <2>2 DEF Refused, Onward, Finish
  <2> QED BY <2>1, <2>2
<1>8. ASSUME NEW pc, To(r, pc), UNCHANGED cache \/ cache' = Cached(Rows),
             pc = "write" => MayWrite(req[r]),
             pc \in Working => req[r].pc \in Working
      PROVE  FaceInv'
  <2> DEFINE q == [req[r] EXCEPT !.pc = pc]
  <2>1. /\ q.kind = req[r].kind /\ q.i = req[r].i /\ q.p = req[r].p
        /\ q.f = req[r].f /\ q.s = req[r].s /\ (q.imported => req[r].imported)
        /\ q.pc = pc /\ q.rows = req[r].rows
    BY <1>2 DEF RequestType
  <2>2. req' = [req EXCEPT ![r] = q] BY <1>8 DEF To
  <2> HIDE DEF q
  <2>3. MayWrite(req[r]) => MayWrite(q) BY <2>1 DEF MayWrite
  <2> QED BY <1>1, <1>3, <1>4, <1>8, <2>1, <2>2, <2>3, FaceMoves
<1>9. ASSUME NEW pc, NEW rows, req' = [req EXCEPT ![r] = [req[r] EXCEPT !.pc = pc, !.rows = rows]],
             UNCHANGED cache, pc # "write", pc \in Working => req[r].pc \in Working
      PROVE  FaceInv'
  <2> DEFINE q == [req[r] EXCEPT !.pc = pc, !.rows = rows]
  <2>1. /\ q.kind = req[r].kind /\ q.i = req[r].i /\ q.p = req[r].p
        /\ q.f = req[r].f /\ q.s = req[r].s /\ (q.imported => req[r].imported)
        /\ q.pc = pc
    BY <1>2 DEF RequestType
  <2>2. req' = [req EXCEPT ![r] = q] BY <1>9
  <2> HIDE DEF q
  <2> QED BY <1>1, <1>3, <1>4, <1>9, <2>1, <2>2, FaceMoves
<1>10. CASE Look(r)
  <2> DEFINE pc == IF cache.loaded THEN "decide" ELSE "load"
  <2>1. req' = [req EXCEPT ![r] = [req[r] EXCEPT !.pc = pc, !.rows = cache.rows]]
    BY <1>10 DEF Look
  <2>2. UNCHANGED cache /\ req[r].pc \in Working BY <1>10 DEF Look, At, Working
  <2>3. pc # "write" OBVIOUS
  <2> HIDE DEF pc
  <2> QED BY <1>9, <2>1, <2>2, <2>3
<1>11. CASE Load(r)
  <2>1. \/ req' = [req EXCEPT ![r] = [req[r] EXCEPT !.pc = "install", !.rows = Rows]]
        \/ Refused(r)
    BY <1>11 DEF Load
  <2>2. UNCHANGED cache /\ req[r].pc \in Working BY <1>11 DEF Load, At, Working
  <2> QED BY <1>7, <1>9, <2>1, <2>2
<1>12. CASE Install(r)
  <2>1. To(r, "again") /\ cache' = Cached(Rows) /\ req[r].pc \in Working
    BY <1>2, <1>12 DEF Install, At, Fresh, Working
  <2> QED BY <1>8, <2>1
<1>13. CASE LookAgain(r)
  <2>1. req' = [req EXCEPT ![r] = [req[r] EXCEPT !.pc = "decide", !.rows = cache.rows]]
    BY <1>13 DEF LookAgain
  <2>2. UNCHANGED cache /\ req[r].pc \in Working BY <1>13 DEF LookAgain, At, Working
  <2> QED BY <1>9, <2>1, <2>2
<1>14. CASE Refresh(r)
  <2>1. \/ req' = [req EXCEPT ![r] = [req[r] EXCEPT !.pc = "store", !.rows = Rows]]
        \/ To(r, "drop")
    BY <1>14 DEF Refresh
  <2>2. UNCHANGED cache BY <1>14 DEF Refresh
  <2> QED BY <1>8, <1>9, <2>1, <2>2 DEF Working
<1>15. CASE Store(r) \/ Drop(r) BY <1>6, <1>15 DEF Store, Drop
<1>16. CASE Refuse(r) BY <1>7, <1>16 DEF Refuse
<1>17. CASE ItemsDone(r) BY <1>6, <1>8, <1>17 DEF ItemsDone, Working
<1>18. CASE Decide(r)
  <2>1. UNCHANGED cache /\ req[r].pc \in Working BY <1>18 DEF Decide, At, Working
  <2>2. CASE MayWrite(req[r]) BY <1>8, <1>18, <2>1, <2>2 DEF Decide
  <2>3. CASE ~ MayWrite(req[r]) BY <1>7, <1>18, <2>1, <2>3 DEF Decide
  <2> QED BY <2>2, <2>3
<1> QED BY <1>10, <1>11, <1>12, <1>13, <1>14, <1>15, <1>16, <1>17, <1>18

\* An import takes its next photo.
LEMMA FaceItem ==
  ASSUME ImportInv, Turns, CacheInv, FaceInv, NEW r \in Requests, NEW p \in Photos, Item(r, p)
  PROVE  FaceInv'
<1> DEFINE item == imports[req[r].i].items[p]
           q == [req[r] EXCEPT !.pc = "look", !.p = p, !.f = item.feature, !.s = item.existing]
<1>1. req[r].pc = "items" /\ AtWork(r) BY DEF Item, At, AtWork
<1>2. (\A o \in Requests \ {r} : ~ AtWork(o)) /\ req[r] \in RequestType BY <1>1, AloneAtWork
<1>3. UNCHANGED <<samples, cache, imports>> /\ Rows' = Rows BY DEF Item, Rows
<1>4. req' = [req EXCEPT ![r] = q] BY <1>2 DEF Item
<1>5. item \in ItemType /\ req[r].i \in Imports BY <1>2, Typings DEF RequestType
<1>6. /\ q.pc = "look" /\ q.i = req[r].i /\ q.p = p /\ q.f = item.feature
      /\ q.s = item.existing /\ (q.imported => req[r].imported)
  BY <1>2 DEF RequestType
<1>7. item.existing = None => item.status = "ready"
  BY <1>5 DEF Item, FaceInv, ItemsOK
<1> HIDE DEF q
<1>8. Photo(q, imports'[q.i].items) BY <1>3, <1>6, <1>7 DEF Photo, item
<1> HIDE DEF item
<1>9. Settled(req[r], cache, Rows, imports[req[r].i].items) BY <1>1 DEF FaceInv
<1>10. Settled(q, cache', Rows', imports'[q.i].items)
  BY <1>3, <1>6, <1>8, <1>9 DEF Settled
<1>11. OneFaceOneStudent' BY <1>3, FewerRows DEF FaceInv
<1>12. ItemsOK' BY <1>3 DEF FaceInv, ItemsOK
<1> QED BY <1>2, <1>4, <1>10, <1>11, <1>12, FaceByOne

\* Nobody else has a face that a handler is about to write, whatever was
\* written since the cache was loaded.
LEMMA Fits ==
  ASSUME SamePerson, ImportInv, Turns, CacheInv, FaceInv, NEW r \in Requests,
         req[r].pc = "write", NEW y \in Rows, y[1] # req[r].s
  PROVE  ~ Alike(req[r].f, y[2])
<1> SUFFICES ASSUME Alike(req[r].f, y[2]) PROVE FALSE OBVIOUS
<1> DEFINE rows == req[r].rows
           f == req[r].f
           items == imports[req[r].i].items
<1>1. AtWork(r) BY DEF AtWork
<1>2. /\ Fresh(req[r], cache, Rows) /\ req[r] \in RequestType
      /\ req[r].imported => req[r].kind = "import"
  BY <1>1, AloneAtWork
<1>3. Settled(req[r], cache, Rows, items) BY <1>1 DEF FaceInv
<1>4. cache.loaded /\ rows = cache.rows /\ (rows = Rows \/ req[r].imported)
  BY <1>2 DEF Fresh, Behind
<1>5. rows \subseteq Rows /\ \A x \in Rows \ rows : req[r].kind = "import" /\ Explained(x, rows, items)
  BY <1>2, <1>3, <1>4 DEF Settled, Explains
<1>6. Rows \subseteq Students \X Features /\ f \in Features BY <1>2 DEF Rows, RequestType
<1>7. \A a, b \in Features : Alike(a, b) <=> Alike(b, a) BY LibraryAssumption DEF Alike
<1>8. CASE \E g \in rows : g[1] = req[r].s /\ Alike(f, g[2])
  <2> PICK g \in rows : g[1] = req[r].s /\ Alike(f, g[2]) BY <1>8
  <2>1. g \in Rows /\ g[1] # y[1] /\ g[2] \in Features /\ y[2] \in Features BY <1>5, <1>6
  <2>2. Alike(g[2], y[2]) BY <1>6, <1>7, <2>1 DEF SamePerson
  <2>3. Similarity[g[2]][y[2]] < Match BY <2>1 DEF FaceInv, OneFaceOneStudent
  <2>4. Similarity[g[2]][y[2]] \in 0..3 BY <2>1, LibraryAssumption DEF Nothing, Equal
  <2> QED BY <2>2, <2>3, <2>4 DEF Alike, Match
<1>9. CASE (\A x \in rows : ~ Alike(f, x[2])) /\ (req[r].kind = "import" => req[r].s = None)
  <2>1. y \in Rows \ rows BY <1>9
  <2>2. req[r].kind = "import" /\ Explained(y, rows, items) BY <1>5, <2>1
  <2>3. CASE \E g \in rows : g[1] = y[1] /\ Alike(g[2], y[2])
    <3> PICK g \in rows : Alike(g[2], y[2]) BY <2>3
    <3>1. g[2] \in Features /\ y[2] \in Features BY <1>5, <1>6
    <3>2. Alike(f, g[2]) BY <1>6, <1>7, <3>1 DEF SamePerson
    <3> QED BY <1>9, <3>2
  <2>4. CASE \E p \in Photos : /\ items[p].committed /\ items[p].status = "ready"
                               /\ items[p].feature = y[2]
    <3> PICK p \in Photos : /\ items[p].committed /\ items[p].status = "ready"
                            /\ items[p].feature = y[2]
      BY <2>4
    <3> DEFINE o == req[r].p
    <3>1. o \in Photos /\ ~ items[o].committed BY <2>2 DEF ImportInv, ItemInHand, Working
    <3>2. items[o].feature = f /\ items[o].status = "ready"
      BY <1>3, <1>9, <2>2 DEF Settled, Photo, Working
    <3>3. req[r].i \in Imports BY <1>2 DEF RequestType
    <3>4. ~ Alike(items[o].feature, items[p].feature)
      BY <3>1, <3>2, <3>3 DEF FaceInv, ItemsOK
    <3> QED BY <3>2, <3>4
  <2> QED BY <2>2, <2>3, <2>4 DEF Explained
<1>10. MayWrite(req[r]) BY <1>3 DEF Settled
<1> QED BY <1>2, <1>8, <1>9, <1>10, WriteMeans

\* The rows of a table with one sample more.
LEMMA OneRowMore ==
  ASSUME TablesOK, NEW s \in Students, NEW f \in Features, NEW n \in Nat \ {0},
         samples' = [samples EXCEPT ![s][f] = n]
  PROVE  Rows' = Rows \cup {<<s, f>>}
<1>1. samples \in [Students -> [Features -> 0..MaxCopies]] BY DEF TablesOK
<1>2. \A a \in Students, b \in Features :
        samples'[a][b] = IF a = s /\ b = f THEN n ELSE samples[a][b]
  BY <1>1
<1>3. ASSUME NEW x \in Students \X Features
      PROVE  samples'[x[1]][x[2]] > 0 <=> samples[x[1]][x[2]] > 0 \/ x = <<s, f>>
  <2>1. x[1] \in Students /\ x[2] \in Features /\ x = <<x[1], x[2]>> OBVIOUS
  <2>2. samples'[x[1]][x[2]] = IF x[1] = s /\ x[2] = f THEN n ELSE samples[x[1]][x[2]]
    BY <1>2, <2>1
  <2>3. x = <<s, f>> <=> x[1] = s /\ x[2] = f BY <2>1
  <2> QED BY <2>2, <2>3
<1> QED BY <1>3 DEF Rows

\* A sample is written for student s, whom the handler names unless he is new.
LEMMA FaceWritten ==
  ASSUME SamePerson, ImportInv, Turns, CacheInv, FaceInv, NEW r \in Requests,
         req[r].pc = "write", Written(r), UNCHANGED cache,
         NEW s \in Students, req[r].s \in {None, s}, Rows' = Rows \cup {<<s, req[r].f>>}
  PROVE  FaceInv'
<1> DEFINE f == req[r].f
           i == req[r].i
           p == req[r].p
           items == imports[i].items
<1>1. AtWork(r) BY DEF AtWork
<1>2. /\ \A o \in Requests \ {r} : ~ AtWork(o)
      /\ Fresh(req[r], cache, Rows) /\ req[r] \in RequestType
      /\ req[r].imported => req[r].kind = "import"
  BY <1>1, AloneAtWork
<1>3. Rows \subseteq Students \X Features /\ f \in Features BY <1>2 DEF Rows, RequestType
<1>4. \A y \in Rows : y[1] # s => ~ Alike(f, y[2])
  BY <1>3, Fits, LibraryAssumption
<1>5. OneFaceOneStudent'
  <2> SUFFICES ASSUME NEW x \in Rows', NEW y \in Rows', x[1] # y[1]
               PROVE  Similarity[x[2]][y[2]] < Match
    BY DEF OneFaceOneStudent
  <2>1. x[2] \in Features /\ y[2] \in Features BY <1>3
  <2>2. Similarity[x[2]][y[2]] \in 0..3 /\ Similarity[x[2]][y[2]] = Similarity[y[2]][x[2]]
    BY <2>1, LibraryAssumption DEF Nothing, Equal
  <2>3. CASE x \in Rows /\ y \in Rows BY <2>3 DEF FaceInv, OneFaceOneStudent
  <2>4. CASE x = <<s, f>> /\ y \in Rows BY <1>4, <2>2, <2>4 DEF Alike, Match
  <2>5. CASE y = <<s, f>> /\ x \in Rows BY <1>4, <2>2, <2>5 DEF Alike, Match
  <2> QED BY <2>3, <2>4, <2>5
<1>6. CASE req[r].kind # "import"
  <2> DEFINE q == [req[r] EXCEPT !.pc = "refresh"]
  <2>1. q.pc = "refresh" /\ ~ q.imported BY <1>2, <1>6 DEF RequestType
  <2>2. req' = [req EXCEPT ![r] = q] /\ UNCHANGED imports BY <1>6 DEF Written, To
  <2> HIDE DEF q
  <2>3. Settled(q, cache', Rows', imports'[q.i].items)
    BY <2>1 DEF Settled, Photo, Working
  <2>4. ItemsOK' BY <2>2 DEF FaceInv, ItemsOK
  <2> QED BY <1>2, <1>5, <2>2, <2>3, <2>4, FaceByOne
<1>7. CASE req[r].kind = "import"
  <2> DEFINE q == [[req[r] EXCEPT !.pc = "items", !.rows = {}] EXCEPT !.imported = TRUE]
  <2>1. q.pc = "items" /\ q.i = i BY <1>2 DEF RequestType
  <2>2. req' = [req EXCEPT ![r] = q] BY <1>7 DEF Written, Onward
  <2>3. i \in Imports /\ p \in Photos
    BY <1>2, <1>7 DEF ImportInv, ItemInHand, RequestType, Working
  <2>4. imports' = [imports EXCEPT ![i].items[p] = Stored(@)] BY <1>7 DEF Written
  <2> HIDE DEF q
  <2>5. /\ imports'[i].items[p].committed
        /\ \A j \in Imports, o \in Photos :
             LET a == imports[j].items[o]
                 b == imports'[j].items[o]
             IN  /\ b.feature = a.feature /\ b.status = a.status
                 /\ b.existing = a.existing /\ (a.committed => b.committed)
    <3> HIDE DEF i, p
    <3>1. \A j \in Imports, o \in Photos : imports[j].items[o] \in ItemType BY Typings
    <3>2. \A j \in Imports, o \in Photos :
            imports'[j].items[o] = IF j = i /\ o = p THEN Stored(imports[j].items[o])
                                                    ELSE imports[j].items[o]
      BY <2>3, <2>4, Typings
    <3>3. \A a \in ItemType : /\ Stored(a).feature = a.feature /\ Stored(a).status = a.status
                              /\ Stored(a).existing = a.existing /\ Stored(a).committed
      BY DEF Stored, ItemType
    <3> QED BY <2>3, <3>1, <3>2, <3>3
  <2>6. SameItems BY <2>5 DEF SameItems, Kept
  <2>7. Kept(items, imports'[i].items) BY <2>3, <2>6 DEF SameItems
  <2>8. ItemsOK' BY <2>6, ItemsKept DEF FaceInv
  <2>9. Settled(req[r], cache, Rows, items) BY <1>1 DEF FaceInv
  <2>10. /\ items[p].feature = f /\ items[p].existing = req[r].s
         /\ req[r].s = None => items[p].status = "ready"
    BY <1>7, <2>9 DEF Settled, Photo, Working
  <2>11. cache.loaded /\ req[r].rows = cache.rows /\ (cache.rows = Rows \/ req[r].imported)
    BY <1>2 DEF Fresh, Behind
  <2>12. cache.rows \subseteq Rows /\ \A y \in Rows \ cache.rows : Explained(y, cache.rows, items)
    BY <2>9, <2>11 DEF Settled, Explains
  <2>13. \A y \in Rows \ cache.rows : Explained(y, cache.rows, imports'[i].items)
    BY <2>7, <2>12 DEF Explained, Kept
  <2>14. <<s, f>> \notin cache.rows => Explained(<<s, f>>, cache.rows, imports'[i].items)
    <3>1. CASE req[r].s = None
      <4>1. imports'[i].items[p].feature = f /\ imports'[i].items[p].status = "ready"
        BY <2>3, <2>5, <2>10, <3>1
      <4> QED BY <2>3, <2>5, <4>1 DEF Explained
    <3>2. CASE req[r].s # None
      <4>1. req[r].s = s BY <3>2
      <4>2. MayWrite(req[r]) BY <2>9 DEF Settled
      <4>3. PICK g \in cache.rows : g[1] = s /\ Alike(f, g[2])
        BY <1>2, <1>7, <2>11, <3>2, <4>1, <4>2, WriteMeans
      <4>4. g[2] \in Features BY <1>3, <2>12
      <4>5. Alike(g[2], f) BY <1>3, <4>3, <4>4, LibraryAssumption DEF Alike
      <4> QED BY <4>3, <4>5 DEF Explained
    <3> QED BY <3>1, <3>2
  <2>15. Explains(cache', Rows', imports'[i].items)
    BY <2>12, <2>13, <2>14 DEF Explains
  <2>16. Settled(q, cache', Rows', imports'[q.i].items)
    BY <2>1, <2>15 DEF Settled, Photo, Working
  <2> QED BY <1>2, <1>5, <2>2, <2>8, <2>16, FaceByOne
<1> QED BY <1>6, <1>7

LEMMA FaceWrites ==
  ASSUME SamePerson, ImportInv, Turns, CacheInv, FaceInv, NEW r \in Requests,
         WriteSample(r) \/ \E s \in Students : CreateStudent(r, s)
  PROVE  FaceInv'
<1>1. req[r] \in RequestType /\ TablesOK BY Typings
<1>2. CASE WriteSample(r)
  <2> DEFINE s == req[r].s
             f == req[r].f
             n == samples[s][f] + 1
  <2>1. s \in Students /\ f \in Features /\ req[r].pc = "write"
    BY <1>1, <1>2 DEF WriteSample, RequestType, At
  <2>2. n \in Nat \ {0} BY <1>1, <2>1, LibraryAssumption DEF TablesOK
  <2>3. samples' = [samples EXCEPT ![s][f] = n] /\ Written(r) /\ UNCHANGED cache
    BY <1>2 DEF WriteSample
  <2> HIDE DEF n
  <2>4. Rows' = Rows \cup {<<s, f>>} BY <1>1, <2>1, <2>2, <2>3, OneRowMore
  <2> QED BY <2>1, <2>3, <2>4, FaceWritten
<1>3. CASE \E s \in Students : CreateStudent(r, s)
  <2> PICK s \in Students : CreateStudent(r, s) BY <1>3
  <2>1. /\ req[r].f \in Features /\ req[r].pc = "write" /\ req[r].s = None
        /\ samples' = [samples EXCEPT ![s][req[r].f] = 1] /\ Written(r) /\ UNCHANGED cache
    BY <1>1 DEF CreateStudent, RequestType, At
  <2>2. 1 \in Nat \ {0} OBVIOUS
  <2>3. Rows' = Rows \cup {<<s, req[r].f>>} BY <1>1, <2>1, <2>2, OneRowMore
  <2> QED BY <2>1, <2>3, FaceWritten
<1> QED BY <1>2, <1>3

\* An analysis publishes new faces that differ from one another.
LEMMA FacePublish ==
  ASSUME ImportInv, Turns, CacheInv, FaceInv, NEW r \in Requests,
         NEW i \in Imports, NEW photos \in SUBSET Photos,
         NEW feature \in [photos -> Features], Publish(r, i, feature)
  PROVE  FaceInv'
<1> DEFINE rows == req[r].rows
<1>1. PICK ready \in SUBSET Unknown(rows, feature), owner \in [Known(rows, feature) -> Students] :
        /\ Distinct(ready, Unknown(rows, feature), feature)
        /\ imports' = [imports EXCEPT ![i] =
             [open |-> TRUE,
              items |-> [p \in Photos |-> AnalyzedItem(p, rows, feature, ready, owner)]]]
  BY DEF Publish
<1>2. /\ AtWork(r) /\ req' = [req EXCEPT ![r] = Idle] /\ UNCHANGED samples
  BY DEF Publish, At, AtWork, Finish
<1>3. \A o \in Requests \ {r} : ~ AtWork(o) BY <1>2, AloneAtWork
<1> HIDE DEF rows
<1>4. Rows' = Rows BY <1>2 DEF Rows
<1>5. OneFaceOneStudent' BY <1>4, FewerRows DEF FaceInv
<1>6. \A p \in Photos : imports'[i].items[p] = AnalyzedItem(p, rows, feature, ready, owner)
  BY <1>1, Typings
<1>7. \A j \in Imports \ {i} : imports'[j] = imports[j] BY <1>1, Typings
<1>8. ASSUME NEW p \in Photos
      PROVE  LET item == AnalyzedItem(p, rows, feature, ready, owner)
             IN  /\ item.status = "existing" => item.existing # None
                 /\ item.status = "ready"
                      => p \in ready /\ p \in photos /\ item.feature = feature[p]
  <2> DEFINE st == Status(p, rows, feature, ready)
             ex == IF p \in Known(rows, feature) THEN owner[p] ELSE None
  <2>1. CASE p \notin photos
    <3>1. AnalyzedItem(p, rows, feature, ready, owner).status = "none"
      BY <2>1 DEF AnalyzedItem, NoItem
    <3> QED BY <3>1
  <2>2. CASE p \in photos
    <3>1. AnalyzedItem(p, rows, feature, ready, owner)
            = [NoItem EXCEPT !.feature = feature[p], !.status = st, !.existing = ex]
      BY <2>2 DEF AnalyzedItem
    <3>2. st = "existing" => p \in Known(rows, feature) BY DEF Status
    <3>3. st = "existing" => ex # None BY <3>2, LibraryAssumption
    <3>4. st = "ready" => p \in ready BY DEF Status
    <3> HIDE DEF st, ex
    <3>5. AnalyzedItem(p, rows, feature, ready, owner)
            = [feature |-> feature[p], status |-> st, existing |-> ex,
               committed |-> FALSE, stored |-> 0]
      BY <3>1 DEF NoItem
    <3> QED BY <2>2, <3>3, <3>4, <3>5
  <2> QED BY <2>1, <2>2
<1>9. ItemsOK'
  <2> SUFFICES ASSUME NEW j \in Imports, NEW p \in Photos, NEW o \in Photos
               PROVE  LET item == imports'[j].items[p]
                          other == imports'[j].items[o]
                      IN  /\ item.status = "existing" => item.existing # None
                          /\ item.status = "ready" /\ other.status = "ready" /\ p # o
                               => ~ Alike(item.feature, other.feature)
    BY DEF ItemsOK
  <2>1. CASE j # i BY <1>7, <2>1 DEF FaceInv, ItemsOK
  <2>2. CASE j = i
    <3>1. ASSUME p \in ready, o \in ready, p \in photos, o \in photos, p # o
          PROVE  ~ Alike(feature[p], feature[o])
      <4>1. Similarity[feature[p]][feature[o]] < Match BY <1>1, <3>1 DEF Distinct
      <4>2. Similarity[feature[p]][feature[o]] \in 0..3
        BY <3>1, LibraryAssumption DEF Nothing, Equal
      <4> QED BY <4>1, <4>2 DEF Alike, Match
    <3> QED BY <1>6, <1>8, <2>2, <3>1
  <2> QED BY <2>1, <2>2
<1>10. Idle.pc = "idle" BY DEF Idle
<1> QED BY <1>2, <1>3, <1>5, <1>9, <1>10, FaceByOne

\* Every step keeps the faces apart.
LEMMA FaceStep ==
  ASSUME Alone, SamePerson, ImportInv, Turns, CacheInv, FaceInv, [Next]_vars PROVE FaceInv'
<1>1. ASSUME NEW r \in Requests, Arrive(r) PROVE FaceInv' BY <1>1, FaceArrives
<1>2. ASSUME NEW r \in Requests, Handle(r) PROVE FaceInv'
  <2>1. CASE Lock(r)
    <3> DEFINE q == [req[r] EXCEPT !.pc = "items"]
    <3>1. /\ req' = [req EXCEPT ![r] = q] /\ UNCHANGED <<samples, cache, imports>>
          /\ req[r].pc = "lock" /\ req[r] \in RequestType
      BY <2>1, Typings DEF Lock, To, At
    <3>2. q.pc = "items" /\ ~ q.imported BY <3>1 DEF RequestType, Turns
    <3> HIDE DEF q
    <3>3. \A o \in Requests \ {r} : ~ AtWork(o) BY <2>1, NobodyAtWork
    <3>4. Rows' = Rows BY <3>1 DEF Rows
    <3>5. OneFaceOneStudent' BY <3>4, FewerRows DEF FaceInv
    <3>6. ItemsOK' BY <3>1 DEF FaceInv, ItemsOK
    <3>7. Settled(q, cache', Rows', imports'[q.i].items)
      BY <3>2 DEF Settled, Photo, Working
    <3> QED BY <3>1, <3>3, <3>5, <3>6, <3>7, FaceByOne
  <2>2. CASE \E p \in Photos : Item(r, p) BY <2>2, FaceItem
  <2>3. CASE WriteSample(r) \/ \E s \in Students : CreateStudent(r, s) BY <2>3, FaceWrites
  <2>4. CASE \E i \in Imports, photos \in SUBSET Photos :
               \E feature \in [photos -> Features] : Publish(r, i, feature)
    BY <2>4, FacePublish
  <2> QED BY <1>2, <2>1, <2>2, <2>3, <2>4, FaceReads DEF Handle
<1>3. CASE \E s \in Students : Register(s)
  <2>1. UNCHANGED <<samples, cache, imports, req>> BY <1>3 DEF Register
  <2> QED BY <2>1, FaceAlone DEF SameItems, Kept
<1>4. CASE \E i \in Imports : Expire(i)
  <2> PICK i \in Imports : Expire(i) BY <1>4
  <2>1. UNCHANGED <<samples, cache, req>> BY DEF Expire
  <2>2. \A j \in Imports : imports'[j].items = imports[j].items BY Typings DEF Expire
  <2> QED BY <2>1, <2>2, FaceAlone DEF SameItems, Kept
<1>5. CASE Restart
  <2>1. Rows' = Rows /\ imports' = [i \in Imports |-> NoImport] BY <1>5 DEF Restart, Rows
  <2>2. \A r \in Requests : ~ AtWork(r)' BY <1>5 DEF Restart, AtWork, Idle
  <2>3. ItemsOK' BY <2>1 DEF ItemsOK, NoImport, NoItem
  <2>4. OneFaceOneStudent' BY <2>1, FewerRows DEF FaceInv
  <2> QED BY <2>2, <2>3, <2>4 DEF FaceInv
<1>6. CASE UNCHANGED vars
  <2>1. UNCHANGED <<samples, cache, imports, req>> BY <1>6 DEF vars
  <2> QED BY <2>1, FaceAlone DEF SameItems, Kept
<1> QED BY <1>1, <1>2, <1>3, <1>4, <1>5, <1>6 DEF Next

LEMMA FaceInit == Init => FaceInv
<1> SUFFICES ASSUME Init PROVE FaceInv OBVIOUS
<1>1. Rows = {} BY DEF Init, Rows
<1>2. \A r \in Requests : req[r].pc = "idle" BY DEF Init, Idle
<1>3. ItemsOK BY DEF Init, ItemsOK, NoImport, NoItem
<1> QED BY <1>1, <1>2, <1>3 DEF FaceInv, OneFaceOneStudent, AtWork

\* For such a client, and a matcher that tells persons apart, enrolment, further
\* samples and photo imports never give two students matching faces, although an
\* import decides on the cache as it was before its first photo
\* (compareFeature, addFaceSample, photoImportCommit).
THEOREM StudentsKeptApart == ASSUME Alone, SamePerson PROVE Spec => []OneFaceOneStudent
<1> DEFINE Inv == ImportInv /\ Turns /\ CacheInv /\ FaceInv
<1>1. Inv => OneFaceOneStudent BY DEF FaceInv
<1>2. Init => Inv BY InitInv, InTurns, FaceInit
<1>3. Inv /\ [Next]_vars => Inv' BY StepInv, TurnsStep, CacheStep, FaceStep
<1> HIDE DEF Inv
<1> QED BY <1>1, <1>2, <1>3, PTL DEF Spec

-----------------------------------------------------------------------------
(* The contract                                                             *)

\* Only an import waits or goes from photo to photo, and an enrolment names
\* nobody.
Targets ==
  \A r \in Requests :
    /\ req[r].pc \in {"lock", "items"} => req[r].kind = "import"
    /\ req[r].kind = "enrol" => req[r].s = None

LEMMA TargetsStep == ASSUME ImportInv, Targets, [Next]_vars PROVE Targets'
<1> USE Typings
<1>1. Idle.pc = "idle" /\ Idle.kind = "read" BY DEF Idle
<1>2. ASSUME NEW r \in Requests, Arrive(r) PROVE Targets'
  <2>1. PICK q \in NewRequests : Begin(r, q) BY <1>2, ArriveMoves
  <2>2. req'[r] = q /\ \A o \in Requests \ {r} : req'[o] = req[o] BY <2>1 DEF Begin
  <2> QED BY <2>1, <2>2 DEF NewRequests, Targets
<1>3. ASSUME NEW r \in Requests, Handle(r) PROVE Targets'
  <2>1. PICK q : /\ req' = [req EXCEPT ![r] = q]
                 /\ \/ q = Idle
                    \/ /\ q.kind = req[r].kind /\ q.pc # "lock"
                       /\ q.s = req[r].s \/ req[r].pc = "items"
                       /\ q.pc = "items" => req[r].pc = "lock" \/ req[r].kind = "import"
    BY <1>3, HandleMoves
  <2>2. req'[r] = q /\ \A o \in Requests \ {r} : req'[o] = req[o] BY <2>1
  <2> QED BY <1>1, <2>1, <2>2 DEF Targets
<1>4. CASE \E s \in Students : Register(s) BY <1>4 DEF Register, Targets
<1>5. CASE \E i \in Imports : Expire(i) BY <1>5 DEF Expire, Targets
<1>6. CASE Restart BY <1>1, <1>6 DEF Restart, Targets
<1>7. CASE UNCHANGED vars BY <1>7 DEF vars, Targets
<1> QED BY <1>2, <1>3, <1>4, <1>5, <1>6, <1>7 DEF Next

\* A student's book holds the features of his rows.
LEMMA Books ==
  /\ Book \in [Students -> SUBSET Features]
  /\ \A s \in Students, g \in Features : g \in Book[s] <=> <<s, g>> \in Rows
BY DEF Book, Rows

\* What a step does to the samples of one student it does to his book.
LEMMA BookChanges ==
  ASSUME ImportInv, NEW s \in Students, NEW row,
         samples' = [samples EXCEPT ![s] = row]
  PROVE  Book' = [Book EXCEPT ![s] = {f \in Features : row[f] > 0}]
<1>1. samples \in [Students -> [Features -> 0..MaxCopies]] BY Typings DEF TablesOK
<1>2. samples'[s] = row /\ \A o \in Students \ {s} : samples'[o] = samples[o] BY <1>1
<1> QED BY <1>2 DEF Book

\* The student a sample is written for is the only one with a face like it.
LEMMA FitsBook ==
  ASSUME SamePerson, ImportInv, Turns, CacheInv, FaceInv, NEW r \in Requests,
         req[r].pc = "write", NEW s \in Students, req[r].s \in {None, s}
  PROVE  Contract!Unclaimed(req[r].f, s)
<1>1. SUFFICES ASSUME NEW o \in Students \ {s}, NEW g \in Book[o]
               PROVE  ~ Alike(req[r].f, g)
  BY DEF Contract!Unclaimed, Alike
<1>2. g \in Features BY Books
<1>3. <<o, g>> \in Rows BY <1>2, Books
<1>4. o # req[r].s BY LibraryAssumption
<1> QED BY <1>3, <1>4, Fits

\* CreateStudentWithFace.
LEMMA CreateContract ==
  ASSUME SamePerson, ImportInv, Turns, CacheInv, FaceInv, NEW r \in Requests,
         NEW s \in Students, CreateStudent(r, s)
  PROVE  Contract!Next
<1> DEFINE f == req[r].f
           row == [samples[s] EXCEPT ![f] = 1]
<1>1. f \in Features /\ samples \in [Students -> [Features -> 0..MaxCopies]]
  BY Typings DEF TablesOK, RequestType
<1>2. /\ req[r].pc = "write" /\ req[r].s = None /\ students[s] = "free"
      /\ students' = [students EXCEPT ![s] = "here"]
      /\ samples' = [samples EXCEPT ![s][f] = 1]
  BY DEF CreateStudent, At
<1>3. \A g \in Features : samples[s][g] = 0 BY <1>1, <1>2, Typings DEF TablesOK
<1>4. samples' = [samples EXCEPT ![s] = row] BY <1>1, <1>2
<1>5. {g \in Features : row[g] > 0} = {f} BY <1>1, <1>3
<1> HIDE DEF row
<1>6. Book' = [Book EXCEPT ![s] = {f}] BY <1>4, <1>5, BookChanges
<1>7. Contract!Unclaimed(f, s) BY <1>2, FitsBook
<1>8. Contract!Enrol(s, f) BY <1>2, <1>6, <1>7 DEF Contract!Enrol
<1> QED BY <1>1, <1>8 DEF Contract!Next

\* A student with samples already has one like that which is written.
LEMMA OwnFace ==
  ASSUME ImportInv, Turns, CacheInv, FaceInv, Targets, NEW r \in Requests,
         req[r].pc = "write", req[r].s \in Students
  PROVE  Book[req[r].s] = {} \/ \E g \in Book[req[r].s] : Alike(req[r].f, g)
<1> DEFINE s == req[r].s
           rows == req[r].rows
           items == imports[req[r].i].items
<1>1. AtWork(r) BY DEF AtWork
<1>2. /\ Fresh(req[r], cache, Rows) /\ req[r] \in RequestType
      /\ req[r].imported => req[r].kind = "import"
  BY <1>1, AloneAtWork
<1>3. Settled(req[r], cache, Rows, items) BY <1>1 DEF FaceInv
<1>4. cache.loaded /\ rows = cache.rows /\ (rows = Rows \/ req[r].imported)
  BY <1>2 DEF Fresh, Behind
<1>5. rows \subseteq Rows BY <1>3, <1>4 DEF Settled, Explains
<1>6. Rows \subseteq Students \X Features BY DEF Rows
<1>7. MayWrite(req[r]) BY <1>3 DEF Settled
<1>8. CASE \E g \in rows : g[1] = s /\ Alike(req[r].f, g[2])
  <2> PICK g \in rows : g[1] = s /\ Alike(req[r].f, g[2]) BY <1>8
  <2>1. g \in Rows /\ g = <<s, g[2]>> /\ g[2] \in Features BY <1>5, <1>6
  <2>2. g[2] \in Book[s] BY <2>1, Books
  <2> QED BY <2>2
<1>9. CASE /\ req[r].kind = "import" => s = None
           /\ req[r].kind = "add" => Of(rows, s) = {}
  <2>1. s # None BY LibraryAssumption
  <2>2. req[r].kind \in {"enrol", "add", "import"} BY <1>7 DEF MayWrite
  <2>3. req[r].kind = "add" BY <1>9, <2>1, <2>2 DEF Targets
  <2>4. rows = Rows /\ Of(Rows, s) = {} BY <1>2, <1>4, <1>9, <2>3
  <2>5. \A g \in Features : <<s, g>> \notin Rows BY <2>4 DEF Of
  <2> QED BY <2>5, Books
<1> QED BY <1>2, <1>7, <1>8, <1>9, WriteMeans

\* AddFaceSample, and an import that adds to a student.
LEMMA AddContract ==
  ASSUME SamePerson, ImportInv, Turns, CacheInv, FaceInv, Targets, NEW r \in Requests,
         WriteSample(r)
  PROVE  Contract!Next
<1> DEFINE s == req[r].s
           f == req[r].f
           n == samples[s][f] + 1
           row == [samples[s] EXCEPT ![f] = n]
<1>1. /\ f \in Features /\ s \in Students
      /\ samples \in [Students -> [Features -> 0..MaxCopies]]
  BY Typings DEF TablesOK, RequestType, WriteSample
<1>2. /\ req[r].pc = "write" /\ students[s] = "here" /\ UNCHANGED students
      /\ samples' = [samples EXCEPT ![s][f] = n]
  BY DEF WriteSample, At
<1>3. n \in Nat /\ n > 0 BY <1>1, LibraryAssumption
<1>4. samples' = [samples EXCEPT ![s] = row] BY <1>1, <1>2
<1> HIDE DEF n
<1>5. {g \in Features : row[g] > 0} = Book[s] \cup {f} BY <1>1, <1>3 DEF Book
<1> HIDE DEF row
<1>6. Book' = [Book EXCEPT ![s] = Book[s] \cup {f}] BY <1>1, <1>4, <1>5, BookChanges
<1>7. Contract!Unclaimed(f, s) BY <1>1, <1>2, FitsBook
<1>8. Book[s] = {} \/ \E g \in Book[s] : Alike(f, g) BY <1>1, <1>2, OwnFace
<1>9. Book[s] \subseteq Features BY <1>1, Books
<1>10. Contract!Add(s, f)
  BY <1>1, <1>2, <1>6, <1>7, <1>8, <1>9 DEF Contract!Add, Alike
<1> QED BY <1>1, <1>10 DEF Contract!Next

\* A student goes, or one of his samples.
LEMMA RemoveContract ==
  ASSUME ImportInv, NEW r \in Requests,
         \/ \E s \in Students : DeleteStudent(r, s)
         \/ \E s \in Students, f \in Features : DeleteFaceSample(r, s, f)
  PROVE  Contract!Next \/ UNCHANGED Contract!vars
<1>1. samples \in [Students -> [Features -> 0..MaxCopies]] BY Typings DEF TablesOK
<1>2. ASSUME NEW s \in Students, DeleteStudent(r, s) PROVE Contract!Next
  <2> DEFINE row == [f \in Features |-> 0]
  <2>1. samples' = [samples EXCEPT ![s] = row] BY <1>2 DEF DeleteStudent, Cascade
  <2>2. {g \in Features : row[g] > 0} = {} OBVIOUS
  <2> HIDE DEF row
  <2>3. Book' = [Book EXCEPT ![s] = {g \in Features : row[g] > 0}] BY <2>1, BookChanges
  <2>4. Book' = [Book EXCEPT ![s] = {}] BY <2>2, <2>3
  <2>5. Contract!Delete(s) BY <1>2, <2>4 DEF DeleteStudent, Contract!Delete
  <2> QED BY <2>5 DEF Contract!Next
<1>3. ASSUME NEW s \in Students, NEW f \in Features, DeleteFaceSample(r, s, f)
      PROVE  Contract!Next \/ UNCHANGED Contract!vars
  <2> DEFINE n == samples[s][f] - 1
             row == [samples[s] EXCEPT ![f] = n]
  <2>1. /\ samples[s][f] > 0 /\ UNCHANGED students
        /\ samples' = [samples EXCEPT ![s][f] = n]
    BY <1>3 DEF DeleteFaceSample
  <2>2. samples' = [samples EXCEPT ![s] = row] BY <1>1, <2>1
  <2>3. n \in Nat BY <1>1, <2>1, LibraryAssumption
  <2> HIDE DEF n
  <2>4. {g \in Features : row[g] > 0} = IF n = 0 THEN Book[s] \ {f} ELSE Book[s]
    BY <1>1, <2>1, <2>3 DEF Book
  <2> HIDE DEF row
  <2>5. Book' = [Book EXCEPT ![s] = IF n = 0 THEN Book[s] \ {f} ELSE Book[s]]
    BY <2>2, <2>4, BookChanges
  <2>6. CASE n = 0
    <3>1. Contract!Forget(s, f) BY <2>1, <2>5, <2>6 DEF Contract!Forget
    <3> QED BY <3>1 DEF Contract!Next
  <2>7. CASE n # 0
    <3>1. Book' = Book BY <2>5, <2>7, Books
    <3> QED BY <2>1, <3>1 DEF Contract!vars
  <2> QED BY <2>6, <2>7
<1> QED BY <1>2, <1>3

\* Every step does to the table what the contract allows.
LEMMA ContractStep ==
  ASSUME SamePerson, ImportInv, Turns, CacheInv, FaceInv, Targets, [Next]_vars
  PROVE  [Contract!Next]_(Contract!vars)
<1> SUFFICES Contract!Next \/ UNCHANGED Contract!vars OBVIOUS
<1>1. UNCHANGED <<students, samples>> => UNCHANGED Contract!vars BY DEF Contract!vars, Book
<1>2. ASSUME NEW r \in Requests, Arrive(r) PROVE Contract!Next \/ UNCHANGED Contract!vars
  BY <1>1, <1>2, RemoveContract
  DEF Arrive, Enrol, AddSample, Recognize, Rename, Analyze, Import
<1>3. ASSUME NEW r \in Requests, Handle(r) PROVE Contract!Next \/ UNCHANGED Contract!vars
  <2>1. CASE WriteSample(r) BY <2>1, AddContract
  <2>2. CASE \E s \in Students : CreateStudent(r, s) BY <2>2, CreateContract
  <2>3. CASE Look(r) \/ Load(r) \/ Install(r) \/ LookAgain(r) \/ Refresh(r) \/ Store(r)
             \/ Drop(r) \/ Decide(r) \/ Refuse(r) \/ Lock(r) \/ ItemsDone(r)
             \/ \E p \in Photos : Item(r, p)
    BY <1>1, <2>3
    DEF Look, Load, Install, LookAgain, Refresh, Store, Drop, Decide, Refuse, Lock,
        ItemsDone, Item
  <2>4. CASE \E i \in Imports, photos \in SUBSET Photos :
               \E feature \in [photos -> Features] : Publish(r, i, feature)
    BY <1>1, <2>4 DEF Publish
  <2> QED BY <1>3, <2>1, <2>2, <2>3, <2>4 DEF Handle
<1>4. CASE \E s \in Students : Register(s)
  <2>1. PICK s \in Students : Register(s) BY <1>4
  <2>2. Contract!Register(s) BY <2>1 DEF Register, Contract!Register, Book
  <2> QED BY <2>2 DEF Contract!Next
<1>5. CASE \E i \in Imports : Expire(i) BY <1>1, <1>5 DEF Expire
<1>6. CASE Restart BY <1>1, <1>6 DEF Restart
<1>7. CASE UNCHANGED vars BY <1>1, <1>7 DEF vars
<1> QED BY <1>2, <1>3, <1>4, <1>5, <1>6, <1>7 DEF Next

LEMMA ContractInit == Init => Contract!Init /\ Targets
BY DEF Init, Contract!Init, Book, Targets, Idle

\* For such a client and matcher the handlers implement FaceContract: what was
\* decided on the cache, be it older than the table, holds of the table the
\* sample is written to (compareFeature, addFaceSample, photoImportCommit).
THEOREM Refinement == ASSUME Alone, SamePerson PROVE Spec => ImplementsContract
<1> DEFINE Inv == ImportInv /\ Turns /\ CacheInv /\ FaceInv /\ Targets
<1>1. Init => Inv /\ Contract!Init BY InitInv, InTurns, FaceInit, ContractInit
<1>2. Inv /\ [Next]_vars => Inv' BY StepInv, TurnsStep, CacheStep, FaceStep, TargetsStep
<1>3. Inv /\ [Next]_vars => [Contract!Next]_(Contract!vars) BY ContractStep
<1> HIDE DEF Inv
<1> QED BY <1>1, <1>2, <1>3, PTL DEF Spec, ImplementsContract, Contract!Spec
=============================================================================
