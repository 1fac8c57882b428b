------------------------------ MODULE Cameras ------------------------------
(***************************************************************************)
(* The saved cameras and the requests on one of them: store/cameras.go,    *)
(* the handlers cameras and cameraAction of web/cameras.go, their snapshot *)
(* cache, and the gate of web/recognition_gate.go.                         *)
(*                                                                         *)
(* A statement and a transaction are each one action (the database has one *)
(* connection). Settings stand for a name and the source that goes with    *)
(* it: two cameras never have the same name. The shared streams, which a   *)
(* camera with a continuous source uses first, are module StreamPool.      *)
(***************************************************************************)
EXTENDS Naturals

CONSTANTS
  Settings,     \* what a camera's row can hold
  Requests,     \* slots for handlers in progress
  Entries,      \* the networkCameraFrameCache objects
  MaxCameras,   \* bound on the rows ever inserted
  NoSettings, NoEntry

ASSUME CamerasAssumption ==
  /\ MaxCameras \in Nat
  /\ NoSettings \notin Settings /\ NoEntry \notin Entries

IDs == 1..MaxCameras

VARIABLES
  cams,       \* table cameras: ID -> [settings, default]
  lastID,     \* its AUTOINCREMENT
  entryOf,    \* Server.networkCameraFrames, by camera
  entry,      \* [Entries -> the settings its frame was taken with, and its mutex]
  busy,       \* Server.cameraRecognitionBusy
  req,        \* [Requests -> the handler's locals]
  overtaken,  \* history: an update wrote a default flag that had changed since
  late        \* history: cameras whose new settings met a handler with the old ones

table == <<cams, lastID, overtaken>>
cache == <<entryOf, entry, late>>
vars  == <<table, cache, busy, req>>

-----------------------------------------------------------------------------
Work(pc, c, settings, want) ==
  [pc |-> pc, c |-> c, settings |-> settings, default |-> FALSE,
   want |-> want, entry |-> NoEntry, gated |-> FALSE]

NoReq == Work("idle", 0, NoSettings, FALSE)

Empty == [frame |-> NoSettings, owner |-> NoEntry]

Init ==
  /\ cams = [c \in {} |-> 0]
  /\ lastID = 0
  /\ entryOf = [c \in IDs |-> NoEntry]
  /\ entry = [e \in Entries |-> Empty]
  /\ busy = {}
  /\ req = [r \in Requests |-> NoReq]
  /\ overtaken = FALSE
  /\ late = {}

Hold(r, q) == req' = [req EXCEPT ![r] = q]
To(r, pc)  == req' = [req EXCEPT ![r].pc = pc]
Finish(r)  == req' = [req EXCEPT ![r] = NoReq]
Begin(r, q) == req[r].pc = "idle" /\ Hold(r, q)

\* A handler of one transaction occupies a slot for that step only.
Free == \E r \in Requests : req[r].pc = "idle"

-----------------------------------------------------------------------------
(* The table *)

Taken(settings, c) == \E d \in DOMAIN cams \ {c} : cams[d].settings = settings

\* The columns of INSERT and UPDATE, by position.
Row(settings, default) == [settings |-> settings, default |-> default]

\* UPDATE cameras SET is_default=0, for every camera but c.
Cleared(c) == [d \in DOMAIN cams |-> [cams[d] EXCEPT !.default = d = c /\ @]]

\* tx.Commit, or the deferred Rollback when a statement was refused.
Committed(ok, new, c) == IF ok THEN new ELSE cams

Create(settings, want) ==
  LET makeDefault == want \/ DOMAIN cams = {}
      others      == IF makeDefault THEN Cleared(0) ELSE cams
      id          == lastID + 1
      ok          == ~ Taken(settings, 0)
  IN
  /\ Free
  /\ id \in IDs
  /\ cams' = Committed(ok,
       [d \in DOMAIN cams \cup {id} |->
          IF d = id THEN Row(settings, makeDefault) ELSE others[d]], 0)
  /\ lastID' = IF ok THEN id ELSE lastID
  /\ UNCHANGED <<overtaken, cache, busy, req>>

SetDefault(c) ==
  /\ Free
  /\ c \in DOMAIN cams
  /\ cams' = [d \in DOMAIN cams |-> [cams[d] EXCEPT !.default = d = c]]
  /\ UNCHANGED <<lastID, overtaken, cache, busy, req>>

\* PUT reads the row for its password, then UpdateCamera reads it again.
StartPut(r, c, settings, want) ==
  /\ c \in DOMAIN cams
  /\ Begin(r, Work("current", c, settings, want))
  /\ UNCHANGED <<table, cache, busy>>

ReadCurrent(r) ==
  /\ req[r].pc = "current"
  /\ IF req[r].c \in DOMAIN cams
     THEN Hold(r, [req[r] EXCEPT !.pc = "update", !.default = cams[req[r].c].default])
     ELSE Finish(r)
  /\ UNCHANGED <<table, cache, busy>>

\* The transaction of UpdateCamera: the default flag is decided by the row it
\* read before. A name that is taken, or a row that is gone, rolls it back.
Update(r) ==
  LET c           == req[r].c
      makeDefault == req[r].default \/ req[r].want
      others      == IF makeDefault THEN Cleared(c) ELSE cams
      ok          == c \in DOMAIN cams /\ ~ Taken(req[r].settings, c)
  IN
  /\ req[r].pc = "update"
  /\ cams' = Committed(ok,
       [d \in DOMAIN cams |->
          IF d = c THEN Row(req[r].settings, makeDefault) ELSE others[d]], c)
  /\ overtaken' = (overtaken \/ (ok /\ cams[c].default /\ ~ makeDefault))
  /\ IF ok THEN To(r, "reread") ELSE Finish(r)
  /\ UNCHANGED <<lastID, cache, busy>>

\* UpdateCamera ends by reading the row back. When that fails, because the
\* client is gone or the camera deleted, PUT answers an error and invalidates
\* nothing.
ReRead(r) ==
  /\ req[r].pc = "reread"
  /\ \/ req[r].c \in DOMAIN cams /\ To(r, "invalidate") /\ UNCHANGED late
     \/ Finish(r) /\ late' = late \cup {req[r].c}
  /\ UNCHANGED <<table, entryOf, entry, busy>>

\* DeleteCamera, a transaction: the oldest camera inherits the default.
MutantLeaves(rest) == cams' = rest
Leaves(rest) ==
  IF DOMAIN rest = {} THEN cams' = rest
  ELSE \E heir \in DOMAIN rest :
         /\ \A d \in DOMAIN rest : heir <= d
         /\ cams' = [rest EXCEPT ![heir].default = TRUE]

Delete(r, c) ==
  LET rest == [d \in DOMAIN cams \ {c} |-> cams[d]] IN
  /\ c \in DOMAIN cams
  /\ IF cams[c].default THEN Leaves(rest) ELSE cams' = rest
  /\ Begin(r, Work("invalidate", c, NoSettings, FALSE))
  /\ UNCHANGED <<lastID, overtaken, cache, busy>>

\* invalidateNetworkCameraFrame forgets the cache entry; a handler that is
\* filling it goes on with an object nobody will find again.
MutantDropped(c) == entryOf
Dropped(c) == [entryOf EXCEPT ![c] = NoEntry]

Invalidate(r) ==
  /\ req[r].pc = "invalidate"
  /\ entryOf' = Dropped(req[r].c)
  /\ late' = late \ {req[r].c}
  /\ Finish(r)
  /\ UNCHANGED <<table, entry, busy>>

-----------------------------------------------------------------------------
(* Requests for a frame *)

\* GET frame and POST recognize read the camera's row first.
Ask(r, c, gated) ==
  /\ c \in DOMAIN cams
  /\ Begin(r, Work(IF gated THEN "gate" ELSE "find", c, cams[c].settings, FALSE))
  /\ UNCHANGED <<table, cache, busy>>

\* tryBeginCameraRecognition: refused while the camera is at work, and within
\* cameraRecognitionMinIdle of the last time (at any time, in the model).
MutantOpen(c) == TRUE
Open(c) == c \notin busy

TryBegin(r) ==
  /\ req[r].pc = "gate"
  /\ \/ /\ Open(req[r].c)
        /\ busy' = busy \cup {req[r].c}
        /\ Hold(r, [req[r] EXCEPT !.pc = "find", !.gated = TRUE])
     \/ UNCHANGED busy /\ Finish(r)
  /\ UNCHANGED <<table, cache>>

\* An entry nothing refers to.
Garbage(e) ==
  /\ \A c \in IDs : entryOf[c] # e
  /\ \A r \in Requests : req[r].entry # e

\* cachedNetworkCameraFrameFor under networkCameraMu.
Find(r) ==
  /\ req[r].pc = "find"
  /\ \/ /\ entryOf[req[r].c] # NoEntry
        /\ Hold(r, [req[r] EXCEPT !.pc = "lock", !.entry = entryOf[req[r].c]])
        /\ UNCHANGED <<entryOf, entry>>
     \/ /\ entryOf[req[r].c] = NoEntry
        /\ \E e \in Entries :
             /\ Garbage(e)
             /\ entryOf' = [entryOf EXCEPT ![req[r].c] = e]
             /\ entry' = [entry EXCEPT ![e] = Empty]
             /\ Hold(r, [req[r] EXCEPT !.pc = "lock", !.entry = e])
  /\ UNCHANGED <<table, late, busy>>

\* cache.mu: a frame younger than networkCameraFrameInterval is taken (of any
\* age, in the model), otherwise the lock is kept for the fetch.
Lock(r) ==
  LET e == req[r].entry IN
  /\ req[r].pc = "lock"
  /\ entry[e].owner = NoEntry
  /\ \/ entry[e].frame # NoSettings /\ UNCHANGED entry /\ To(r, "answer")
     \/ entry' = [entry EXCEPT ![e].owner = r] /\ To(r, "fetch")
  /\ UNCHANGED <<table, entryOf, late, busy>>

\* The settings a handler works with are no longer the camera's.
Outdated(r) ==
  ~ (req[r].c \in DOMAIN cams /\ cams[req[r].c].settings = req[r].settings)

Fetched(r) ==
  /\ req[r].pc = "fetch"
  /\ entry' = [entry EXCEPT ![req[r].entry] =
       [frame |-> req[r].settings, owner |-> NoEntry]]
  /\ late' = IF entryOf[req[r].c] = req[r].entry /\ Outdated(r)
             THEN late \cup {req[r].c} ELSE late
  /\ To(r, "answer")
  /\ UNCHANGED <<table, entryOf, busy>>

\* The camera does not answer within its time limit, or the client is gone.
FetchFails(r) ==
  /\ req[r].pc = "fetch"
  /\ entry' = [entry EXCEPT ![req[r].entry].owner = NoEntry]
  /\ To(r, "answer")
  /\ UNCHANGED <<table, entryOf, late, busy>>

\* The answer (a frame, an error, or the result of the recognition, which
\* module Checkin models) and the deferred endCameraRecognition.
Answer(r) ==
  /\ req[r].pc = "answer"
  /\ IF req[r].gated
     THEN busy' = busy \ {req[r].c}
     ELSE UNCHANGED busy
  /\ Finish(r)
  /\ UNCHANGED <<table, cache>>

\* The process ends, at any point between two statements, and starts again.
Restart ==
  /\ entryOf' = [c \in IDs |-> NoEntry]
  /\ entry' = [e \in Entries |-> Empty]
  /\ busy' = {} /\ late' = {}
  /\ req' = [r \in Requests |-> NoReq]
  /\ UNCHANGED table

-----------------------------------------------------------------------------
Start(r) ==
  \E c \in IDs :
    \/ \E settings \in Settings, want \in BOOLEAN : StartPut(r, c, settings, want)
    \/ Delete(r, c)
    \/ \E gated \in BOOLEAN : Ask(r, c, gated)

Step(r) ==
  \/ ReadCurrent(r) \/ Update(r) \/ ReRead(r) \/ Invalidate(r)
  \/ TryBegin(r) \/ Find(r) \/ Lock(r) \/ Fetched(r) \/ FetchFails(r) \/ Answer(r)

Next ==
  \/ \E settings \in Settings, want \in BOOLEAN : Create(settings, want)
  \/ \E c \in IDs : SetDefault(c)
  \/ \E r \in Requests : Start(r) \/ Step(r)
  \/ Restart

Spec == Init /\ [][Next]_vars

-----------------------------------------------------------------------------
(* Properties *)

ReqType ==
  [pc : {"idle", "current", "update", "reread", "invalidate", "gate", "find",
         "lock", "fetch", "answer"},
   c : 0..MaxCameras, settings : Settings \cup {NoSettings}, default : BOOLEAN,
   want : BOOLEAN, entry : Entries \cup {NoEntry}, gated : BOOLEAN]

\* Every variable has its type.
TypeOK ==
  /\ lastID \in 0..MaxCameras
  /\ DOMAIN cams \subseteq 1..lastID
  /\ cams \in [DOMAIN cams -> [settings : Settings, default : BOOLEAN]]
  /\ entryOf \in [IDs -> Entries \cup {NoEntry}]
  /\ entry \in [Entries -> [frame : Settings \cup {NoSettings},
                            owner : Requests \cup {NoEntry}]]
  /\ busy \subseteq IDs /\ late \subseteq IDs
  /\ req \in [Requests -> ReqType]
  /\ overtaken \in BOOLEAN

\* "default camera was not promoted after delete" (store_test.go:650): while
\* there are cameras, one of them is the default, through creations, refused
\* updates, deletions and changes of the default, however they overlap, with
\* one exception: an update whose own camera became the default after it had
\* read its row (overtaken), which writes the old flag back.
DefaultKept ==
  DOMAIN cams # {} /\ ~ overtaken => \E c \in DOMAIN cams : cams[c].default

\* There are never two default cameras, so that idx_cameras_default never has
\* to refuse a request.
AtMostOneDefault ==
  \A c, d \in DOMAIN cams : cams[c].default /\ cams[d].default => c = d

\* One recognition per camera is at work, even for a camera that is deleted
\* meanwhile, and the gate is closed exactly as long.
OneRecognition ==
  /\ \A r1, r2 \in Requests :
       req[r1].gated /\ req[r2].gated /\ req[r1].c = req[r2].c => r1 = r2
  /\ busy = {req[r].c : r \in {q \in Requests : req[q].gated}}

\* A changed or deleted camera shows no picture of before: a cached frame is
\* of the camera's present settings, unless the change is not answered yet, or
\* met a handler that still worked with the old settings (late).
FreshSnapshot ==
  \A c \in IDs :
    entryOf[c] # NoEntry /\ entry[entryOf[c]].frame # NoSettings /\ c \notin late =>
      \/ c \in DOMAIN cams /\ cams[c].settings = entry[entryOf[c]].frame
      \/ \E r \in Requests : req[r].c = c /\ req[r].pc \in {"reread", "invalidate"}
=============================================================================
