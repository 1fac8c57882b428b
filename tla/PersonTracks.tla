---------------------------- MODULE PersonTracks ----------------------------
(***************************************************************************)
(* Whose face is it: the part of recognition.go before the liveness vote,  *)
(* with person_track.go and recognition_person_scheduler.go.               *)
(*                                                                         *)
(* A session follows bodies from frame to frame. A body's track keeps the  *)
(* student its face was recognised as, and later frames reuse him instead  *)
(* of extracting features again, unless their face is clearly better. The  *)
(* session's requests may overlap; their steps are the sections under the  *)
(* tracker's mutex, the two under the detection cache's, and the query of  *)
(* the face samples. Sessions share nothing, so there is one here.         *)
(*                                                                         *)
(* A rectangle is one of a few places, and a face's place says in which    *)
(* bodies it may lie. Time is not counted: whenever the code compares      *)
(* ages, a track may have expired (personTrackTTL), a cached detection may *)
(* be too old (personDetectionMaxAge) or newer than the request, and an    *)
(* unknown face may be due again (unknownFaceRetryInterval), however long  *)
(* any request has taken.                                                  *)
(***************************************************************************)
EXTENDS Integers, FiniteSets, FiniteSetsExt, Functions

CONSTANTS
  Persons,     \* whoever may stand in front of the camera
  Students,    \* whoever has a face sample
  Likeness,    \* [Persons -> [Students -> SUBSET Sims]]: how similar a face may be to
               \* the student's samples, where that is above the match threshold
  Nobody,      \* no person, no student
  Places,
  Association, \* [Places -> [Places -> Nat]]: personAssociationScore, 0 below 0.20
  Within,      \* [Places -> SUBSET Places]: the bodies a face may have its centre in,
               \* with Nobody if it may drift out of all of them
  Frames,      \* images: [body: places, who: at each place, quality: of each face]
  Loads,       \* how often a detection is reused: 2, 3 or 4 by load level
  Requests,    \* slots for requests of the session
  MaxTracks    \* bound on the track IDs handed out

Clear    == 1   \* minRecognitionFaceQuality; one unit is bestFaceImprovement
Sharpest == 3

Sims  == {1, 2}  \* similarities above the threshold, 0.03 apart or more
Frame == [body : SUBSET Places, who : [Places -> Persons \cup {Nobody}],
          quality : [Places -> 0..Sharpest]]

ASSUME TracksAssumption ==
  /\ Nobody \notin Persons \cup Students \cup Places
  /\ Likeness \in [Persons -> [Students -> SUBSET Sims]]
  /\ Association \in [Places -> [Places -> Nat]]
  /\ Places # {} /\ \A p \in Places : Association[p][p] > 0
  /\ Within \in [Places -> SUBSET (Places \cup {Nobody})] /\ \A p \in Places : p \in Within[p]
  /\ Frames \subseteq Frame
  /\ Loads # {} /\ Loads \subseteq Nat
  /\ IsFiniteSet(Places)
  /\ MaxTracks \in Nat

VARIABLES
  cache,   \* personDetectionCache[session]
  tracks,  \* [track IDs -> personTrack]
  nextID,  \* personTrackSession.NextID
  req,     \* [Requests -> the handler's locals]
  shown    \* history: [track IDs -> persons whose faces were given to the track]

vars == <<cache, tracks, nextID, req, shown>>

-----------------------------------------------------------------------------
IDs      == 1..MaxTracks
Untracked == 0
NoTrack == [live |-> FALSE, place |-> CHOOSE p \in Places : TRUE,
            best |-> 0, asked |-> FALSE, student |-> Nobody, sim |-> 0]

NoEntry == [there |-> FALSE, boxes |-> {}, left |-> 0]

NoFrame == [body |-> {}, who |-> [p \in Places |-> Nobody],
            quality |-> [p \in Places |-> 0]]

Idle == [pc |-> "idle", frame |-> NoFrame, reuse |-> 0, boxes |-> {},
         trackOf |-> [p \in Places |-> Untracked], todo |-> {}, needs |-> {},
         at |-> CHOOSE p \in Places : TRUE, cached |-> {}, chosen |-> {}]

\* The faces of an image, by their places.
Faces(frame) == {p \in Places : frame.who[p] # Nobody}

ClearFaces(frame) == {p \in Faces(frame) : frame.quality[p] >= Clear}

\* The two greedy loops of the code: take the heaviest pair <<a, b, weight>>
\* whose ends are both free, until none is left. sort.Slice is not stable and
\* map order is random, so pairs of one weight come in any order, and the
\* result is any set of disjoint pairs that beats every pair it leaves out.
Adjacent(e, f) == e[1] = f[1] \/ e[2] = f[2]
MutantGreedy(pairs) ==
  {M \in SUBSET pairs :
     /\ \A e, f \in M : e[1] = f[1] => e = f
     /\ \A e \in pairs \ M : \E f \in M : e[1] = f[1] /\ f[3] >= e[3]}
Greedy(pairs) ==
  {M \in SUBSET pairs :
     /\ \A e, f \in M : Adjacent(e, f) => e = f
     /\ \A e \in pairs \ M : \E f \in M : Adjacent(e, f) /\ f[3] >= e[3]}

Init ==
  /\ cache = NoEntry
  /\ tracks = [t \in IDs |-> NoTrack]
  /\ nextID = 0
  /\ req = [r \in Requests |-> Idle]
  /\ shown = [t \in IDs |-> {}]

\* Request r goes on to pc, with its locals as q has them.
Proceed(r, q, pc) == req' = [req EXCEPT ![r] = [q EXCEPT !.pc = pc]]

-----------------------------------------------------------------------------
(* Detecting bodies: personDetectionsForRecognition *)

Least(a, b) == IF a < b THEN a ELSE b

\* The entry after one more use, at most reuse of them left before it.
Used(entry, reuse) == [entry EXCEPT !.left = Least(@, reuse) - 1]

\* A request begins: it decodes its image, and in the first section under
\* personDetectionMu takes the cached detection, if that may be used again.
Hit(r) ==
  /\ req[r].pc = "idle"
  /\ \E frame \in Frames, reuse \in Loads :
       /\ cache.there /\ Least(cache.left, reuse) > 0
       /\ cache' = Used(cache, reuse)
       /\ Proceed(r, [Idle EXCEPT !.frame = frame, !.boxes = cache.boxes], "observe")
  /\ UNCHANGED <<tracks, nextID, shown>>

\* Or it has to detect: nothing is left in the cache, or it is too old.
Miss(r) ==
  /\ req[r].pc = "idle"
  /\ \E frame \in Frames, reuse \in Loads :
       Proceed(r, [Idle EXCEPT !.frame = frame, !.reuse = reuse], "detect")
  /\ UNCHANGED <<cache, tracks, nextID, shown>>

\* The second section: the detector's result, whatever came in between. The
\* eviction of entries older than 5 s has no effect: they are not used again.
Install(r) ==
  /\ req[r].pc = "detect"
  /\ cache' = [there |-> TRUE, boxes |-> req[r].frame.body, left |-> req[r].reuse]
  /\ Proceed(r, [req[r] EXCEPT !.boxes = req[r].frame.body, !.reuse = 0], "observe")
  /\ UNCHANGED <<tracks, nextID, shown>>

\* The detector fails: the frame goes on with the faces alone. (An RTSP camera
\* starts over with the same frame, which is a Fail and a Miss.)
DetectorFails(r) ==
  /\ req[r].pc = "detect"
  /\ Proceed(r, [req[r] EXCEPT !.reuse = 0], "observe")
  /\ UNCHANGED <<cache, tracks, nextID, shown>>

\* Face detection fails: the request ends with an error.
Fail(r) ==
  /\ req[r].pc \in {"detect", "observe"}
  /\ Proceed(r, Idle, "idle")
  /\ UNCHANGED <<cache, tracks, nextID, shown>>

-----------------------------------------------------------------------------
(* Following bodies: personTracker.Observe *)

\* The bodies followed in a frame: the detected ones, and a body of its own for
\* a face that lies in none of the others (addFaceFallbackPersons).
BodySets(q) ==
  {bodies \in SUBSET (q.boxes \cup Faces(q.frame)) :
     /\ q.boxes \subseteq bodies
     /\ \A p \in Faces(q.frame) : Within[p] \cap bodies # {}}

Live == {t \in IDs : tracks[t].live}

Pairs(bodies, kept) ==
  {<<b, t, Association[tracks[t].place][b]>> : b \in bodies, t \in kept}

Associated(bodies, kept) == Greedy({e \in Pairs(bodies, kept) : e[3] > 0})

\* One more sighting of a track, or its first. blendRectangle leaves the track
\* where the detection is.
Seen(track, b) == [track EXCEPT !.live = TRUE, !.place = b]

\* IDs are never used again, though their tracks are deleted.
MutantNewTrackID(kept, n) == Cardinality(kept) + n
NewTrackID(kept, n) == nextID + n

New(bodies, M) == bodies \ {e[1] : e \in M}

\* The track of every body: as matched by M, or the rank-th new one.
TrackOf(bodies, kept, M, rank) ==
  [b \in Places |->
     IF b \in New(bodies, M) THEN NewTrackID(kept, rank[b])
     ELSE IF b \in {e[1] : e \in M} THEN (CHOOSE e \in M : e[1] = b)[2]
     ELSE Untracked]

\* The place of track t in this frame, if it has one.
At(bodies, of, t) == {b \in bodies : of[b] = t}

Followed(bodies, kept, of) ==
  [t \in IDs |->
     LET old == IF t \in kept THEN tracks[t] ELSE NoTrack
     IN  IF At(bodies, of, t) = {} THEN old
         ELSE Seen(old, CHOOSE b \in At(bodies, of, t) : TRUE)]

\* associateFaceToPerson, face by face: the track of a body the face lies in.
\* The rectangles are the blended ones, so that a face may have drifted out of
\* all of them and has no track; two faces may lie in one body.
Joined(q, of) ==
  {to \in [Places -> IDs \cup {Untracked}] :
     \A p \in Places :
       IF to[p] = Untracked THEN p \notin Faces(q.frame) \/ Nobody \in Within[p]
       ELSE p \in Faces(q.frame) /\ \E b \in Within[p] \ {Nobody} : to[p] = of[b]}

\* The faces given to a track since it was created.
Shown(q, to, created) ==
  [t \in IDs |->
     (IF t \in created THEN {} ELSE shown[t])
     \cup {q.frame.who[p] : p \in {f \in Faces(q.frame) : to[f] = t}}]

Observe(r) ==
  LET q == req[r]
  IN
  /\ q.pc = "observe"
  /\ \E kept \in SUBSET Live, bodies \in BodySets(q) :
     \E M \in Associated(bodies, kept) :
       LET new == New(bodies, M)
       IN
       /\ nextID + Cardinality(new) <= MaxTracks
       /\ \E rank \in Bijection(new, 1..Cardinality(new)) :
            LET of == TrackOf(bodies, kept, M, rank)
            IN
            /\ tracks' = Followed(bodies, kept, of)
            /\ \E to \in Joined(q, of) :
                 /\ shown' = Shown(q, to, {of[b] : b \in new})
                 /\ Proceed(r, [Idle EXCEPT !.frame = q.frame, !.trackOf = to,
                                            !.todo = ClearFaces(q.frame)], "need")
       /\ nextID' = nextID + Cardinality(new)
  /\ UNCHANGED cache

-----------------------------------------------------------------------------
(* Recognising the faces that are clear enough *)

\* trackLocked: the track of the face at p, unless it has none or it is gone.
MutantAlive(q, p) == q.trackOf[p] \in IDs
Alive(q, p) == q.trackOf[p] \in IDs /\ tracks[q.trackOf[p]].live

\* NeedFeature, for a track that is there: an unknown face may be due again.
NeedFeature(track, quality) ==
  IF ~ track.asked \/ quality > track.best THEN {TRUE}
  ELSE IF track.student = Nobody THEN BOOLEAN
  ELSE {FALSE}

\* The faces are asked about one by one; the order is the detector's.
Need(r, p) ==
  LET q == req[r]
      answers == IF Alive(q, p)
                 THEN NeedFeature(tracks[q.trackOf[p]], q.frame.quality[p])
                 ELSE {TRUE}
  IN
  /\ q.pc = "need" /\ p \in q.todo
  /\ \/ /\ TRUE \in answers
        /\ Proceed(r, [q EXCEPT !.todo = @ \ {p}, !.needs = @ \cup {p}], "need")
     \/ /\ FALSE \in answers
        /\ Proceed(r, [q EXCEPT !.todo = @ \ {p}, !.at = p], "identity")
  /\ UNCHANGED <<cache, tracks, nextID, shown>>

\* Identity, in a section of its own.
Identity(r) ==
  LET q == req[r]
      track == tracks[q.trackOf[q.at]]
  IN
  /\ q.pc = "identity"
  /\ Proceed(r, IF Alive(q, q.at) /\ track.student # Nobody
                THEN [q EXCEPT !.cached = @ \cup {<<q.at, track.student, track.sim>>},
                               !.at = Idle.at]
                ELSE [q EXCEPT !.at = Idle.at], "need")
  /\ UNCHANGED <<cache, tracks, nextID, shown>>

\* The students a face of x matches.
Looks(x) == {s \in Students : Likeness[x][s] # {}}

\* What extraction may find for the faces that need it: nothing for some, and
\* for others the students they look like, each with his best sample's score.
MatchesOf(q) ==
  {fresh \in SUBSET {<<p, s, sim>> : p \in q.needs, s \in Students, sim \in Sims} :
     /\ \A e \in fresh : e[3] \in Likeness[q.frame.who[e[1]]][e[2]]
     /\ \A e, f \in fresh : e[1] = f[1] /\ e[2] = f[2] => e = f}

\* cachedFaceSamples, when a feature is needed, and the selection loop.
Match(r) ==
  LET q == req[r]
  IN
  /\ q.pc = "need" /\ q.todo = {}
  /\ \/ \E fresh \in MatchesOf(q) : \E chosen \in Greedy(q.cached \cup fresh) :
          Proceed(r, [q EXCEPT !.chosen = chosen, !.todo = q.needs,
                                !.needs = {}, !.cached = {}], "record")
     \/ q.needs # {} /\ Proceed(r, Idle, "idle")
  /\ UNCHANGED <<cache, tracks, nextID, shown>>

\* RecordFeature with a match <<p, s, sim>>: another identity gives way only to
\* a face two units clearer and more similar.
Identified(track, quality, e) ==
  IF track.student \notin {Nobody, e[2]}
     /\ (quality < track.best + 2 \/ e[3] <= track.sim)
  THEN track
  ELSE [track EXCEPT !.student = e[2], !.sim = e[3]]

Larger(a, b) == IF a > b THEN a ELSE b

\* RecordFeature; the test above sees the best quality from before.
Recorded(track, quality, found) ==
  [IF found = {} THEN track
   ELSE Identified(track, quality, CHOOSE e \in found : TRUE)
   EXCEPT !.asked = TRUE, !.best = Larger(@, quality)]

MutantFound(q, p) == q.chosen
Found(q, p) == {e \in q.chosen : e[1] = p}

RecordFeature(r, p) ==
  LET q == req[r]
      t == q.trackOf[p]
  IN
  /\ q.pc = "record" /\ p \in q.todo
  /\ tracks' = IF Alive(q, p)
               THEN [tracks EXCEPT ![t] =
                       Recorded(@, q.frame.quality[p], Found(q, p))]
               ELSE tracks
  /\ Proceed(r, [q EXCEPT !.todo = @ \ {p}], "record")
  /\ UNCHANGED <<cache, nextID, shown>>

\* The chosen students' faces go to the liveness vote (module Checkin) once
\* every feature is recorded, and the handler answers.
Voting(q) == q.pc = "record" /\ q.todo = {}

Answer(r) ==
  /\ Voting(req[r])
  /\ Proceed(r, Idle, "idle")
  /\ UNCHANGED <<cache, tracks, nextID, shown>>

Step(r) ==
  \/ Hit(r) \/ Miss(r) \/ Install(r) \/ DetectorFails(r) \/ Fail(r) \/ Observe(r)
  \/ \E p \in Places : Need(r, p) \/ RecordFeature(r, p)
  \/ Identity(r) \/ Match(r) \/ Answer(r)

Next == \E r \in Requests : Step(r)

Spec == Init /\ [][Next]_vars

-----------------------------------------------------------------------------
(* Properties *)

Edge  == Places \X Students \X (Sims \cup {0})
Entry == [there : BOOLEAN, boxes : SUBSET Places, left : Nat]
Track == [live : BOOLEAN, place : Places, best : 0..Sharpest, asked : BOOLEAN,
          student : Students \cup {Nobody}, sim : Sims \cup {0}]
Request == [pc : {"idle", "detect", "observe", "need", "identity", "record"},
            frame : Frame, reuse : Loads \cup {0},
            boxes : SUBSET Places, trackOf : [Places -> IDs \cup {Untracked}],
            todo : SUBSET Places, needs : SUBSET Places, at : Places,
            cached : SUBSET Edge, chosen : SUBSET Edge]

\* Every variable has its type.
TypeOK ==
  /\ cache \in Entry
  /\ tracks \in [IDs -> Track]
  /\ nextID \in 0..MaxTracks
  /\ req \in [Requests -> Request]
  /\ shown \in [IDs -> SUBSET Persons]

\* Whom the faces given to track t look like.
Likely(t) == UNION {Looks(x) : x \in shown[t]}

\* Whom the face of q at p may be taken for: what it looks like itself, if it
\* has no track, or what a face of its track has looked like.
MayBe(q, p) ==
  IF q.trackOf[p] = Untracked THEN Looks(q.frame.who[p]) ELSE Likely(q.trackOf[p])

\* A track's identity was read from a face that was given to that very track,
\* however late the request that read it records it: the track may have expired
\* by then, and others been created (person_track.go, RecordFeature).
IdentityFromOwnFaces ==
  \A t \in IDs : tracks[t].student # Nobody => tracks[t].student \in Likely(t)

\* A student goes to the liveness vote for a face that matches one of his samples
\* itself, or belongs to the track of a face that did; a face without a track is
\* recognised and voted on as well (recognition.go, needsFeature).
VotesFromOwnTrack ==
  \A r \in Requests : Voting(req[r]) =>
    \A e \in req[r].chosen : e[2] \in MayBe(req[r], e[1])

\* In one frame a student goes to the vote for one face only, and a face for
\* one student, although two tracks may hold the same identity. The vote of
\* module Checkin relies on it (recognition.go, usedFaces and usedStudents).
OneFacePerStudent ==
  \A r \in Requests : \A e, f \in req[r].chosen : Adjacent(e, f) => e = f

\* A track that has expired is gone for good, though requests that belong to it
\* are still reading and writing by its ID: no later frame is given it, and no
\* late RecordFeature puts an identity into it (trackLocked, NextID).
ExpiredForGood ==
  [][\A t \in 1..nextID :
       ~ tracks[t].live => ~ tracks'[t].live /\ tracks'[t].student = Nobody]_vars

\* The student whose vote counts is the person in front of the camera, if no
\* face matches another's samples: attendance needs the recognised identity,
\* not just a living face (ARCHITECTURE.md, Passive liveness).
VoteIsForWhoIsSeen ==
  \A r \in Requests : Voting(req[r]) =>
    \A e \in req[r].chosen : e[2] \in Looks(req[r].frame.who[e[1]])
-----------------------------------------------------------------------------
(* The inductive invariant behind IdentityFromOwnFaces and VotesFromOwnTrack *)

\* IDs not handed out yet have no track.
Unused == \A t \in IDs : t > nextID => ~ tracks[t].live /\ tracks[t].student = Nobody

Following(q) == q.pc \in {"need", "identity", "record"}

\* Every face of a request in progress was shown in its track, if it has one.
FacesShown(q) ==
  \A p \in Faces(q.frame) : q.trackOf[p] # Untracked =>
    q.trackOf[p] \in 1..nextID /\ q.frame.who[p] \in shown[q.trackOf[p]]

\* The faces a request works on are its own.
FacesAtHand(q) ==
  /\ q.todo \subseteq Faces(q.frame) /\ q.needs \subseteq Faces(q.frame)
  /\ q.pc = "identity" => q.at \in Faces(q.frame)

\* Every candidate and every choice is a student the face may be taken for.
Backed(q, e) == e[1] \in Faces(q.frame) /\ e[2] \in MayBe(q, e[1])
CandidatesSeen(q) == \A e \in q.cached \cup q.chosen : Backed(q, e)

RequestInv(q) == Following(q) => FacesShown(q) /\ FacesAtHand(q) /\ CandidatesSeen(q)

TrackInv ==
  /\ TypeOK /\ IdentityFromOwnFaces /\ Unused
  /\ \A r \in Requests : RequestInv(req[r])
=============================================================================
