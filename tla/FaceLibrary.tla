---------------------------- MODULE FaceLibrary ----------------------------
(***************************************************************************)
(* The face samples and everything that adds one: store/faces.go,          *)
(* web/face_cache.go, web/enrollment.go and web/photo_import.go.           *)
(*                                                                         *)
(* Faces are compared against a cache of the face_samples table, not       *)
(* against the table: a handler looks at the cache, decides, writes, and   *)
(* reloads the cache, which is a query and then, under the cache's mutex,  *)
(* an assignment. Every query and every section under a mutex is an        *)
(* action. A feature vector is a model value with its similarities in four *)
(* levels; names, numbers and classes of students are left out, and with   *)
(* them the reasons why a write may be refused.                            *)
(***************************************************************************)
EXTENDS Integers, FiniteSets, FiniteSetsExt

CONSTANTS
  Students,    \* student IDs, never handed out twice
  Features,
  Similarity,  \* [Features -> [Features -> 0..Equal]]
  Photos,      \* the images of a ZIP archive
  Imports,     \* import sessions in memory at a time
  Requests,    \* slots for handlers in progress
  Overlap,     \* pairs of kinds of handlers that may be in progress together
  MaxCopies,   \* bound on equal samples of one student
  None

Nothing == 0   \* below the review band
Review  == 1   \* reviewThreshold
Match   == 2   \* matchThreshold
Equal   == 3   \* 0.995

Kinds == {"enrol", "add", "change", "read", "analyze", "import"}

ASSUME LibraryAssumption ==
  /\ Features # {} /\ Imports # {}
  /\ Similarity \in [Features -> [Features -> Nothing..Equal]]
  /\ \A f, g \in Features : Similarity[f][g] = Similarity[g][f]
  /\ Overlap \subseteq Kinds \X Kinds
  /\ None \notin Students \cup Photos
  /\ MaxCopies \in Nat \ {0}

VARIABLES
  students,  \* [Students -> "free" (not yet created), "here", "gone"]
  samples,   \* [Students -> [Features -> number of rows of face_samples]]
  cache,     \* faceCache and faceCacheLoaded
  imports,   \* [Imports -> photoImportSession]
  req        \* [Requests -> the handler's locals]

vars == <<students, samples, cache, imports, req>>

-----------------------------------------------------------------------------
(* Comparing faces *)

\* ListFaceSamples.
Rows == {x \in Students \X Features : samples[x[1]][x[2]] > 0}

\* The best similarity of f with the given rows, 0 without any.
Best(rows, f) == Max({Nothing} \cup {Similarity[f][x[2]] : x \in rows})

Of(rows, s)     == {x \in rows : x[1] = s}
Others(rows, s) == {x \in rows : x[1] # s}

\* compareFeature with no target, and the test that follows it.
MutantNewFace(rows, f) == Best(rows, f) <= Match
NewFace(rows, f) == Best(rows, f) < Match

\* Somebody else is a match, and a better one than the target.
CloserToOther(rows, f, s) ==
  LET same == Of(rows, s)
      other == Best(Others(rows, s), f)
  IN  other >= Match /\ (same = {} \/ other > Best(same, f))

\* addFaceSample: the first sample of a student only has to be nobody else's.
MutantAcceptable(rows, f, s) == ~ CloserToOther(rows, f, s)
Acceptable(rows, f, s) ==
  /\ ~ CloserToOther(rows, f, s)
  /\ Of(rows, s) = {} \/ Best(Of(rows, s), f) = Match

Confirmed(rows, f, s) ==
  ~ CloserToOther(rows, f, s) /\ Best(Of(rows, s), f) >= Match

-----------------------------------------------------------------------------
NoFeature == CHOOSE f \in Features : TRUE
SomeImport == CHOOSE i \in Imports : TRUE

Idle == [pc |-> "idle", kind |-> "read", s |-> None, f |-> NoFeature, rows |-> {},
         i |-> SomeImport, p |-> None, imported |-> FALSE]

NoItem == [feature |-> NoFeature, status |-> "none", existing |-> None,
           committed |-> FALSE, stored |-> 0]
NoImport == [open |-> FALSE, items |-> [p \in Photos |-> NoItem]]

Cached(rows) == [loaded |-> TRUE, rows |-> rows]
Unloaded == [loaded |-> FALSE, rows |-> {}]

\* NewServer loads the cache.
Init ==
  /\ students = [s \in Students |-> "free"]
  /\ samples = [s \in Students |-> [f \in Features |-> 0]]
  /\ cache = Cached({})
  /\ imports = [i \in Imports |-> NoImport]
  /\ req = [r \in Requests |-> Idle]

Begin(r, q) ==
  /\ req[r].pc = "idle"
  /\ \A o \in Requests : req[o].pc # "idle" => <<q.kind, req[o].kind>> \in Overlap
  /\ req' = [req EXCEPT ![r] = q]

At(r, pc)   == req[r].pc = pc
To(r, pc)   == req' = [req EXCEPT ![r].pc = pc]
Finish(r)   == req' = [req EXCEPT ![r] = Idle]

\* A handler whose item or face is refused: the import takes the next item.
Onward(q) == IF q.kind = "import" THEN [q EXCEPT !.pc = "items", !.rows = {}] ELSE Idle
Refused(r) == req' = [req EXCEPT ![r] = Onward(@)]

-----------------------------------------------------------------------------
(* Handlers *)

\* POST /api/enrollment/create, POST /api/students/<id>/face.
Enrol(r, f) ==
  /\ Begin(r, [Idle EXCEPT !.pc = "look", !.kind = "enrol", !.f = f])
  /\ UNCHANGED <<students, samples, cache, imports>>

AddSample(r, s, f) ==
  /\ students[s] # "free"
  /\ Begin(r, [Idle EXCEPT !.pc = "look", !.kind = "add", !.s = s, !.f = f])
  /\ UNCHANGED <<students, samples, cache, imports>>

\* POST /api/recognize and /api/enrollment/check only read the cache.
Recognize(r) ==
  /\ Begin(r, [Idle EXCEPT !.pc = "look"])
  /\ UNCHANGED <<students, samples, cache, imports>>

\* POST /api/students: no face, no reload.
Register(s) ==
  /\ students[s] = "free"
  /\ students' = [students EXCEPT ![s] = "here"]
  /\ UNCHANGED <<samples, cache, imports, req>>

Changing == [Idle EXCEPT !.pc = "refresh", !.kind = "change"]

\* The foreign key cascades to the samples.
Cascade(s) == [samples EXCEPT ![s] = [f \in Features |-> 0]]

DeleteStudent(r, s) ==
  /\ students[s] = "here"
  /\ Begin(r, Changing)
  /\ students' = [students EXCEPT ![s] = "gone"]
  /\ samples' = Cascade(s)
  /\ UNCHANGED <<cache, imports>>

DeleteFaceSample(r, s, f) ==
  /\ samples[s][f] > 0
  /\ Begin(r, Changing)
  /\ samples' = [samples EXCEPT ![s][f] = @ - 1]
  /\ UNCHANGED <<students, cache, imports>>

\* A student's profile, or a class, was changed.
Rename(r) ==
  /\ Begin(r, Changing)
  /\ UNCHANGED <<students, samples, cache, imports>>

Analyze(r) ==
  /\ Begin(r, [Idle EXCEPT !.pc = "look", !.kind = "analyze"])
  /\ UNCHANGED <<students, samples, cache, imports>>

\* photoImportAction: the session is looked up, then its mutex is taken.
Import(r, i) ==
  /\ imports[i].open
  /\ Begin(r, [Idle EXCEPT !.pc = "lock", !.kind = "import", !.i = i])
  /\ UNCHANGED <<students, samples, cache, imports>>

-----------------------------------------------------------------------------
(* The cache *)

\* cachedFaceSamples: the cache, or else a reload and a second look.
Look(r) ==
  /\ At(r, "look")
  /\ req' = [req EXCEPT ![r].pc = IF cache.loaded THEN "decide" ELSE "load",
                        ![r].rows = cache.rows]
  /\ UNCHANGED <<students, samples, cache, imports>>

Load(r) ==
  /\ At(r, "load")
  /\ \/ req' = [req EXCEPT ![r].pc = "install", ![r].rows = Rows]
     \/ Refused(r)
  /\ UNCHANGED <<students, samples, cache, imports>>

Install(r) ==
  /\ At(r, "install")
  /\ cache' = Cached(req[r].rows)
  /\ To(r, "again")
  /\ UNCHANGED <<students, samples, imports>>

LookAgain(r) ==
  /\ At(r, "again")
  /\ req' = [req EXCEPT ![r].pc = "decide", ![r].rows = cache.rows]
  /\ UNCHANGED <<students, samples, cache, imports>>

\* refreshFaceCacheAfterMutation. The query fails, for one, when the client has
\* gone: its context is the request's.
Refresh(r) ==
  /\ At(r, "refresh")
  /\ \/ req' = [req EXCEPT ![r].pc = "store", ![r].rows = Rows]
     \/ To(r, "drop")
  /\ UNCHANGED <<students, samples, cache, imports>>

Store(r) ==
  /\ At(r, "store")
  /\ cache' = Cached(req[r].rows)
  /\ Finish(r)
  /\ UNCHANGED <<students, samples, imports>>

Dropped == Unloaded

Drop(r) ==
  /\ At(r, "drop")
  /\ cache' = Dropped
  /\ Finish(r)
  /\ UNCHANGED <<students, samples, imports>>

-----------------------------------------------------------------------------
(* Decisions and writes *)

MayWrite(q) ==
  \/ q.kind = "enrol" /\ NewFace(q.rows, q.f)
  \/ q.kind = "add" /\ Acceptable(q.rows, q.f, q.s)
  \/ q.kind = "import" /\ q.s = None /\ NewFace(q.rows, q.f)
  \/ q.kind = "import" /\ q.s # None
       /\ Confirmed(q.rows, q.f, q.s) /\ Best(Of(q.rows, q.s), q.f) < Equal

\* Nothing to write, though an imported photo counts as done when the student
\* has an equal sample.
AlreadyThere(q) ==
  /\ q.kind = "import" /\ q.s # None
  /\ Confirmed(q.rows, q.f, q.s) /\ Best(Of(q.rows, q.s), q.f) = Equal

Decide(r) ==
  /\ At(r, "decide") /\ req[r].kind # "analyze"
  /\ IF MayWrite(req[r]) THEN To(r, "write") ELSE Refused(r)
  /\ imports' = IF AlreadyThere(req[r])
                THEN [imports EXCEPT ![req[r].i].items[req[r].p].committed = TRUE]
                ELSE imports
  /\ UNCHANGED <<students, samples, cache>>

\* The class is gone, the number is taken, the statement fails.
Refuse(r) ==
  /\ At(r, "write")
  /\ Refused(r)
  /\ UNCHANGED <<students, samples, cache, imports>>

Stored(item) == [item EXCEPT !.committed = TRUE, !.stored = @ + 1]

\* A written sample: the import goes on to the next item, with the cache as it
\* was; the other handlers reload it.
Written(r) ==
  IF req[r].kind = "import"
  THEN /\ imports' = [imports EXCEPT ![req[r].i].items[req[r].p] = Stored(@)]
       /\ req' = [req EXCEPT ![r] = [Onward(@) EXCEPT !.imported = TRUE]]
  ELSE UNCHANGED imports /\ To(r, "refresh")

\* CreateStudentWithFace: one transaction.
CreateStudent(r, s) ==
  LET f == req[r].f IN
  /\ At(r, "write") /\ req[r].s = None
  /\ students[s] = "free"
  /\ students' = [students EXCEPT ![s] = "here"]
  /\ samples' = [samples EXCEPT ![s][f] = 1]
  /\ Written(r)
  /\ UNCHANGED cache

\* AddFaceSample: the foreign key refuses a deleted student (Refuse).
WriteSample(r) ==
  LET s == req[r].s
      f == req[r].f
  IN
  /\ At(r, "write") /\ s # None
  /\ students[s] = "here" /\ samples[s][f] < MaxCopies
  /\ samples' = [samples EXCEPT ![s][f] = @ + 1]
  /\ Written(r)
  /\ UNCHANGED <<students, cache>>

-----------------------------------------------------------------------------
(* Photo import *)

\* Of the faces nobody has, those that differ from all earlier ones of the
\* package are ready; in whatever order, they are a maximal such set.
Distinct(ready, fresh, feature) ==
  /\ \A p, q \in ready : p # q => Similarity[feature[p]][feature[q]] < Match
  /\ \A p \in fresh \ ready : \E q \in ready : Similarity[feature[p]][feature[q]] >= Match

Known(rows, feature) == {p \in DOMAIN feature : Best(rows, feature[p]) >= Match}
Unknown(rows, feature) == {p \in DOMAIN feature : Best(rows, feature[p]) < Review}

\* Between the two thresholds a photo is left to a review by hand.
Status(p, rows, feature, ready) ==
  CASE p \in Known(rows, feature)           -> "existing"
    [] p \in ready                          -> "ready"
    [] p \in Unknown(rows, feature) \ ready -> "package_duplicate"
    [] OTHER                                -> "review"

AnalyzedItem(p, rows, feature, ready, owner) ==
  IF p \notin DOMAIN feature THEN NoItem
  ELSE [NoItem EXCEPT !.feature = feature[p],
          !.status = Status(p, rows, feature, ready),
          !.existing = IF p \in Known(rows, feature) THEN owner[p] ELSE None]

\* photoImportAnalyze, from the samples it read to the session it publishes.
Publish(r, i, feature) ==
  LET rows == req[r].rows IN
  /\ At(r, "decide") /\ req[r].kind = "analyze"
  /\ ~ imports[i].open /\ \A o \in Requests : req[o].kind = "import" => req[o].i # i
  /\ \E ready \in SUBSET Unknown(rows, feature), owner \in [Known(rows, feature) -> Students] :
       /\ Distinct(ready, Unknown(rows, feature), feature)
       /\ \A p \in Known(rows, feature) :
            Best(Of(rows, owner[p]), feature[p]) = Best(rows, feature[p])
       /\ imports' = [imports EXCEPT ![i] =
            [open |-> TRUE,
             items |-> [p \in Photos |-> AnalyzedItem(p, rows, feature, ready, owner)]]]
  /\ Finish(r)
  /\ UNCHANGED <<students, samples, cache>>

\* photoImportTTL; a commit in progress keeps its session.
Expire(i) ==
  /\ imports[i].open
  /\ imports' = [imports EXCEPT ![i].open = FALSE]
  /\ UNCHANGED <<students, samples, cache, req>>

\* Who is past session.mu.Lock.
Inside(r, i) == req[r].kind = "import" /\ req[r].i = i /\ req[r].pc \notin {"idle", "lock"}

MutantFree(i) == i \in Imports
Free(i) == \A r \in Requests : ~ Inside(r, i)

Lock(r) ==
  /\ At(r, "lock") /\ Free(req[r].i)
  /\ To(r, "items")
  /\ UNCHANGED <<students, samples, cache, imports>>

\* The next item of the request that is not refused before its face is compared:
\* as a new student when it was ready, as a sample of the student it matched.
Item(r, p) ==
  LET item == imports[req[r].i].items[p] IN
  /\ At(r, "items")
  /\ ~ item.committed
  /\ item.status \in {"ready", "existing"}
  /\ req' = [req EXCEPT ![r].pc = "look", ![r].p = p,
                        ![r].f = item.feature, ![r].s = item.existing]
  /\ UNCHANGED <<students, samples, cache, imports>>

MutantItemsDone(r) ==
  /\ At(r, "items")
  /\ Finish(r)
  /\ UNCHANGED <<students, samples, cache, imports>>

ItemsDone(r) ==
  /\ At(r, "items")
  /\ IF req[r].imported THEN To(r, "refresh") ELSE Finish(r)
  /\ UNCHANGED <<students, samples, cache, imports>>

\* Sessions and requests are in memory; NewServer loads the cache or fails.
Restart ==
  /\ cache' = Cached(Rows)
  /\ imports' = [i \in Imports |-> NoImport]
  /\ req' = [r \in Requests |-> Idle]
  /\ UNCHANGED <<students, samples>>

-----------------------------------------------------------------------------
Arrive(r) ==
  \/ \E f \in Features : Enrol(r, f)
  \/ \E s \in Students, f \in Features : AddSample(r, s, f) \/ DeleteFaceSample(r, s, f)
  \/ \E s \in Students : DeleteStudent(r, s)
  \/ Recognize(r) \/ Rename(r) \/ Analyze(r)
  \/ \E i \in Imports : Import(r, i)

Handle(r) ==
  \/ Look(r) \/ Load(r) \/ Install(r) \/ LookAgain(r)
  \/ Refresh(r) \/ Store(r) \/ Drop(r)
  \/ Decide(r) \/ Refuse(r) \/ WriteSample(r)
  \/ \E s \in Students : CreateStudent(r, s)
  \/ \E i \in Imports, photos \in SUBSET Photos :
       \E feature \in [photos -> Features] : Publish(r, i, feature)
  \/ Lock(r) \/ ItemsDone(r)
  \/ \E p \in Photos : Item(r, p)

Next ==
  \/ \E r \in Requests : Arrive(r) \/ Handle(r)
  \/ \E s \in Students : Register(s)
  \/ \E i \in Imports : Expire(i)
  \/ Restart

Spec == Init /\ [][Next]_vars

-----------------------------------------------------------------------------
(* Properties *)

RowSets == SUBSET (Students \X Features)

ItemType == [feature : Features, status : {"none", "ready", "existing", "review", "package_duplicate"},
             existing : Students \cup {None}, committed : BOOLEAN, stored : 0..2]

RequestType ==
  [pc : {"idle", "lock", "items", "look", "load", "install", "again", "decide", "write",
         "refresh", "store", "drop"},
   kind : Kinds, s : Students \cup {None}, f : Features, rows : RowSets,
   i : Imports, p : Photos \cup {None}, imported : BOOLEAN]

\* The tables: samples belong to students that exist.
TablesOK ==
  /\ students \in [Students -> {"free", "here", "gone"}]
  /\ samples \in [Students -> [Features -> 0..MaxCopies]]
  /\ \A s \in Students, f \in Features : samples[s][f] > 0 => students[s] = "here"

\* Every variable has its type.
TypeOK ==
  /\ TablesOK
  /\ cache \in [loaded : BOOLEAN, rows : RowSets]
  /\ imports \in [Imports -> [open : BOOLEAN, items : [Photos -> ItemType]]]
  /\ req \in [Requests -> RequestType]

\* A photo of an import is stored at most once, however often its commit is
\* sent, also when two of them overlap or the session expires in between.
ImportedOnce == \A i \in Imports, p \in Photos : imports[i].items[p].stored <= 1

\* When nothing is in progress the cache is the table, or empty and about to be
\* reloaded: no failed query, refused item or half-done import leaves behind
\* faces that nobody can be recognised by, or recognised with after a deletion.
CacheIsTable ==
  (\A r \in Requests : req[r].pc = "idle") /\ cache.loaded => cache.rows = Rows

\* What ImportedOnce rests on: a stored photo is marked, only one commit of an
\* import is past the mutex, and the photo it is working on is not marked.
StoredIsCommitted ==
  \A i \in Imports, p \in Photos :
    LET item == imports[i].items[p] IN item.stored > 0 => item.committed /\ item.stored = 1

OneCommit ==
  \A i \in Imports, r, o \in Requests : Inside(r, i) /\ Inside(o, i) => r = o

Working == {"look", "load", "install", "again", "decide", "write"}

ItemInHand ==
  \A r \in Requests :
    req[r].kind = "import" /\ req[r].pc \in Working
      => req[r].p \in Photos /\ ~ imports[req[r].i].items[req[r].p].committed

ImportInv == TypeOK /\ StoredIsCommitted /\ OneCommit /\ ItemInHand

\* Two students never have matching faces (recognition could not tell them
\* apart), provided that a face matches all faces of the same person.
OneFaceOneStudent ==
  \A x, y \in Rows : x[1] # y[1] => Similarity[x[2]][y[2]] < Match

\* The faces each student has samples of.
Book == [s \in Students |-> {f \in Features : samples[s][f] > 0}]

Contract ==
  INSTANCE FaceContract
    WITH faces <- Book, Alike <- {x \in Features \X Features : Similarity[x[1]][x[2]] >= Match}

\* Handlers that compare with a cache, write a row at a time and may fail or be
\* cut off anywhere still do to the table only what FaceContract allows: the
\* decision taken on the cache holds of the table the sample is written to.
ImplementsContract == Contract!Spec
=============================================================================
