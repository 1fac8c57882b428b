------------------------- MODULE PersonTracksProofs -------------------------
(***************************************************************************)
(* A track's identity, and a vote, come from a face given to that track, for *)
(* any number of persons, places, tracks and overlapping requests.          *)
(***************************************************************************)
EXTENDS PersonTracks, FiniteSetTheorems, TLAPS

\* The values everything starts from are typed.
LEMMA InitialTyped == NoTrack \in Track /\ NoEntry \in Entry /\ Idle \in Request
<1> DEFINE somePlace == CHOOSE p \in Places : TRUE
<1>1. somePlace \in Places BY TracksAssumption
<1>2. NoTrack \in Track BY <1>1 DEF NoTrack, Track, Sharpest
<1>3. NoEntry \in Entry BY DEF NoEntry, Entry
<1>4. NoFrame \in Frame BY DEF NoFrame, Frame, Sharpest
<1>5. Idle \in Request BY <1>1, <1>4 DEF Idle, Request, Untracked
<1> QED BY <1>2, <1>3, <1>5

\* The initial state satisfies the invariant.
LEMMA InitInv == Init => TrackInv
<1> SUFFICES ASSUME Init PROVE TrackInv OBVIOUS
<1> USE DEF Init
<1>1. TypeOK BY InitialTyped, TracksAssumption DEF TypeOK
<1>2. IdentityFromOwnFaces BY DEF IdentityFromOwnFaces, NoTrack
<1>3. Unused BY DEF Unused, NoTrack
<1>4. \A r \in Requests : RequestInv(req[r]) BY DEF RequestInv, Following, Idle
<1> QED BY <1>1, <1>2, <1>3, <1>4 DEF TrackInv

\* A step of one request that changes no track.
LEMMA Local ==
  ASSUME TrackInv, cache' \in Entry, UNCHANGED <<tracks, nextID, shown>>,
         NEW r \in Requests, NEW q \in Request, req' = [req EXCEPT ![r] = q],
         RequestInv(q)
  PROVE  TrackInv'
<1>1. TypeOK' BY DEF TrackInv, TypeOK
<1>2. IdentityFromOwnFaces' BY DEF TrackInv, IdentityFromOwnFaces, Likely
<1>3. Unused' BY DEF TrackInv, Unused
<1>4. ASSUME NEW o \in Requests PROVE RequestInv(req[o])'
  <2>1. req'[o] = q \/ req'[o] = req[o] BY DEF TrackInv, TypeOK
  <2>2. RequestInv(req'[o]) BY <2>1 DEF TrackInv
  <2> QED BY <2>2 DEF RequestInv, FacesShown, FacesAtHand, CandidatesSeen, Backed, MayBe, Likely
<1> QED BY <1>1, <1>2, <1>3, <1>4 DEF TrackInv

\* The request that proceeds keeps its type.
LEMMA ProceedTyped ==
  ASSUME NEW q \in Request,
         NEW pc \in {"idle", "detect", "observe", "need", "identity", "record"}
  PROVE  [q EXCEPT !.pc = pc] \in Request
BY DEF Request

\* The steps before the tracker leave a request without obligations.
LEMMA DetectionSteps ==
  ASSUME TrackInv, NEW r \in Requests,
         Hit(r) \/ Miss(r) \/ Install(r) \/ DetectorFails(r) \/ Fail(r) \/ Answer(r)
  PROVE  TrackInv'
<1>1. req[r] \in Request /\ cache \in Entry BY DEF TrackInv, TypeOK
<1>2. Idle \in Request BY InitialTyped
<1>3. CASE Hit(r)
  <2>1. PICK frame \in Frames, reuse \in Loads :
          /\ Least(cache.left, reuse) > 0 /\ cache' = Used(cache, reuse)
          /\ Proceed(r, [Idle EXCEPT !.frame = frame, !.boxes = cache.boxes], "observe")
    BY <1>3 DEF Hit
  <2> DEFINE q == [Idle EXCEPT !.frame = frame, !.boxes = cache.boxes]
  <2>2. q \in Request BY <1>1, <1>2, TracksAssumption DEF Request, Entry
  <2>3. Least(cache.left, reuse) - 1 \in Nat
    BY <1>1, <2>1, TracksAssumption DEF Entry, Least
  <2>4. cache' \in Entry
    <3>1. cache' = [cache EXCEPT !.left = Least(cache.left, reuse) - 1] BY <2>1 DEF Used
    <3> HIDE DEF q
    <3> QED BY <1>1, <2>3, <3>1 DEF Entry
  <2>5. [q EXCEPT !.pc = "observe"] \in Request BY <2>2, ProceedTyped
  <2>6. RequestInv([q EXCEPT !.pc = "observe"]) BY <2>2 DEF RequestInv, Following, Request
  <2> QED BY <1>3, <2>1, <2>4, <2>5, <2>6, Local DEF Hit, Proceed
<1>4. CASE Miss(r)
  <2>1. PICK frame \in Frames, reuse \in Loads :
          Proceed(r, [Idle EXCEPT !.frame = frame, !.reuse = reuse], "detect")
    BY <1>4 DEF Miss
  <2> DEFINE q == [Idle EXCEPT !.frame = frame, !.reuse = reuse]
  <2>2. q \in Request BY <1>2, TracksAssumption DEF Request
  <2>3. [q EXCEPT !.pc = "detect"] \in Request BY <2>2, ProceedTyped
  <2>4. RequestInv([q EXCEPT !.pc = "detect"]) BY <2>2 DEF RequestInv, Following, Request
  <2> QED BY <1>1, <1>4, <2>1, <2>3, <2>4, Local DEF Miss, Proceed
<1>5. CASE Install(r)
  <2> DEFINE q == [req[r] EXCEPT !.boxes = req[r].frame.body, !.reuse = 0]
  <2>1. q \in Request BY <1>1 DEF Request, Frame
  <2>2. [q EXCEPT !.pc = "observe"] \in Request BY <2>1, ProceedTyped
  <2>3. RequestInv([q EXCEPT !.pc = "observe"]) BY <2>1 DEF RequestInv, Following, Request
  <2>4. cache' \in Entry BY <1>1, <1>5, TracksAssumption DEF Install, Entry, Request, Frame
  <2> QED BY <1>5, <2>2, <2>3, <2>4, Local DEF Install, Proceed
<1>6. CASE DetectorFails(r)
  <2> DEFINE q == [req[r] EXCEPT !.reuse = 0]
  <2>1. q \in Request BY <1>1 DEF Request
  <2>2. [q EXCEPT !.pc = "observe"] \in Request BY <2>1, ProceedTyped
  <2>3. RequestInv([q EXCEPT !.pc = "observe"]) BY <2>1 DEF RequestInv, Following, Request
  <2> QED BY <1>1, <1>6, <2>2, <2>3, Local DEF DetectorFails, Proceed
<1>7. CASE Fail(r) \/ Answer(r)
  <2>1. [Idle EXCEPT !.pc = "idle"] \in Request BY <1>2, ProceedTyped
  <2>2. RequestInv([Idle EXCEPT !.pc = "idle"]) BY <1>2 DEF RequestInv, Following, Request
  <2> QED BY <1>1, <1>7, <2>1, <2>2, Local DEF Fail, Answer, Proceed
<1> QED BY <1>3, <1>4, <1>5, <1>6, <1>7

\* Asking about a face, and reading a track's identity for it.
LEMMA AskingSteps ==
  ASSUME TrackInv, NEW r \in Requests,
         (\E p \in Places : Need(r, p)) \/ Identity(r)
  PROVE  TrackInv'
<1> DEFINE q == req[r]
<1>1. q \in Request /\ RequestInv(q) /\ cache \in Entry BY DEF TrackInv, TypeOK
<1>2. CASE \E p \in Places : Need(r, p)
  <2>1. PICK p \in Places : Need(r, p) BY <1>2
  <2>2. p \in Faces(q.frame) /\ Following(q)
    BY <1>1, <2>1 DEF Need, RequestInv, Following, FacesAtHand
  <2> DEFINE asked == [q EXCEPT !.todo = @ \ {p}, !.needs = @ \cup {p}]
             known == [q EXCEPT !.todo = @ \ {p}, !.at = p]
  <2>3. CASE Proceed(r, asked, "need")
    <3>1. asked \in Request BY <1>1 DEF Request
    <3>2. [asked EXCEPT !.pc = "need"] \in Request BY <3>1, ProceedTyped
    <3>3. RequestInv([asked EXCEPT !.pc = "need"])
      BY <1>1, <2>2 DEF RequestInv, Following, FacesShown, FacesAtHand,
                        CandidatesSeen, Backed, MayBe, Request
    <3> QED BY <1>1, <2>1, <2>3, <3>2, <3>3, Local DEF Need, Proceed
  <2>4. CASE Proceed(r, known, "identity")
    <3>1. known \in Request BY <1>1 DEF Request
    <3>2. [known EXCEPT !.pc = "identity"] \in Request BY <3>1, ProceedTyped
    <3>3. RequestInv([known EXCEPT !.pc = "identity"])
      BY <1>1, <2>2 DEF RequestInv, Following, FacesShown, FacesAtHand,
                        CandidatesSeen, Backed, MayBe, Request
    <3> QED BY <1>1, <2>1, <2>4, <3>2, <3>3, Local DEF Need, Proceed
  <2> QED BY <2>1, <2>3, <2>4 DEF Need
<1>3. CASE Identity(r)
  <2> DEFINE track == tracks[q.trackOf[q.at]]
             e == <<q.at, track.student, track.sim>>
             found == [q EXCEPT !.cached = @ \cup {e}, !.at = Idle.at]
             unknown == [q EXCEPT !.at = Idle.at]
  <2>1. Idle.at \in Places BY InitialTyped DEF Request
  <2>2. unknown \in Request BY <1>1, <2>1 DEF Request
  <2>3. CASE Alive(q, q.at) /\ track.student # Nobody
    <3>1. q.trackOf[q.at] \in IDs BY <2>3 DEF Alive
    <3>2. track \in Track BY <3>1 DEF TrackInv, TypeOK
    <3>3. track.student \in Likely(q.trackOf[q.at])
      BY <2>3, <3>1 DEF TrackInv, IdentityFromOwnFaces
    <3>4. q.at \in Faces(q.frame)
      BY <1>1, <1>3 DEF Identity, RequestInv, Following, FacesAtHand
    <3>5. e \in Edge
      <4>1. q.at \in Places BY <1>1 DEF Request
      <4>2. track.student \in Students /\ track.sim \in Sims \cup {0}
        BY <2>3, <3>2 DEF Track
      <4> HIDE DEF track
      <4> QED BY <4>1, <4>2 DEF Edge
    <3>6. found \in Request
      <4> HIDE DEF e
      <4> QED BY <1>1, <2>1, <3>5 DEF Request
    <3>7. [found EXCEPT !.pc = "need"] \in Request BY <3>6, ProceedTyped
    <3>8. Backed(q, e)
      <4> HIDE DEF track
      <4>1. q.trackOf[q.at] # Untracked BY <3>1 DEF IDs, Untracked
      <4> QED BY <3>3, <3>4, <4>1 DEF Backed, MayBe
    <3>9. RequestInv([found EXCEPT !.pc = "need"])
      <4> HIDE DEF e
      <4> QED BY <1>1, <1>3, <3>8 DEF Identity, RequestInv, Following, FacesShown,
                 FacesAtHand, CandidatesSeen, Backed, MayBe, Request
    <3>10. req' = [req EXCEPT ![r] = [found EXCEPT !.pc = "need"]]
      BY <1>3, <2>3 DEF Identity, Proceed
    <3> QED BY <1>1, <1>3, <3>7, <3>9, <3>10, Local DEF Identity
  <2>4. CASE ~ (Alive(q, q.at) /\ track.student # Nobody)
    <3>1. [unknown EXCEPT !.pc = "need"] \in Request BY <2>2, ProceedTyped
    <3>2. RequestInv([unknown EXCEPT !.pc = "need"])
      BY <1>1, <1>3 DEF Identity, RequestInv, Following, FacesShown,
         FacesAtHand, CandidatesSeen, Backed, MayBe, Request
    <3>3. req' = [req EXCEPT ![r] = [unknown EXCEPT !.pc = "need"]]
      BY <1>3, <2>4 DEF Identity, Proceed
    <3> QED BY <1>1, <1>3, <3>1, <3>2, <3>3, Local DEF Identity
  <2> QED BY <2>3, <2>4
<1> QED BY <1>2, <1>3

\* Choosing among the candidates: a fresh match is one the face looks like.
LEMMA MatchStep ==
  ASSUME TrackInv, NEW r \in Requests, Match(r)
  PROVE  TrackInv'
<1> DEFINE q == req[r]
<1>1. q \in Request /\ RequestInv(q) /\ cache \in Entry BY DEF TrackInv, TypeOK
<1>2. CASE Proceed(r, Idle, "idle")
  <2>1. [Idle EXCEPT !.pc = "idle"] \in Request BY InitialTyped, ProceedTyped
  <2>2. RequestInv([Idle EXCEPT !.pc = "idle"])
    BY InitialTyped DEF RequestInv, Following, Request
  <2> QED BY <1>1, <1>2, <2>1, <2>2, Local DEF Match, Proceed
<1>3. ASSUME NEW fresh \in MatchesOf(q), NEW chosen \in Greedy(q.cached \cup fresh),
             Proceed(r, [q EXCEPT !.chosen = chosen, !.todo = q.needs,
                                  !.needs = {}, !.cached = {}], "record")
      PROVE  TrackInv'
  <2> DEFINE next == [q EXCEPT !.chosen = chosen, !.todo = q.needs,
                               !.needs = {}, !.cached = {}]
  <2>1. chosen \subseteq q.cached \cup fresh BY DEF Greedy
  <2>2. fresh \subseteq {<<p, s, sim>> : p \in q.needs, s \in Students, sim \in Sims}
    BY DEF MatchesOf
  <2>3. \A e \in fresh : e \in Edge /\ e[1] \in q.needs
    <3> SUFFICES ASSUME NEW e \in fresh PROVE e \in Edge /\ e[1] \in q.needs OBVIOUS
    <3>1. PICK p \in q.needs, s \in Students, sim \in Sims : e = <<p, s, sim>> BY <2>2
    <3>2. p \in Places BY <1>1 DEF Request
    <3> QED BY <3>1, <3>2 DEF Edge
  <2>4. chosen \subseteq Edge BY <1>1, <2>1, <2>3 DEF Request
  <2>5. next \in Request BY <1>1, <2>4 DEF Request
  <2>6. [next EXCEPT !.pc = "record"] \in Request BY <2>5, ProceedTyped
  <2>7. \A e \in fresh : Backed(q, e)
    <3> SUFFICES ASSUME NEW e \in fresh PROVE Backed(q, e) OBVIOUS
    <3>1. e[1] \in Faces(q.frame) /\ FacesShown(q)
      BY <1>1, <2>3 DEF Match, RequestInv, Following, FacesAtHand
    <3>2. e[2] \in Looks(q.frame.who[e[1]]) BY <2>3 DEF MatchesOf, Looks, Edge
    <3>3. q.trackOf[e[1]] # Untracked => q.frame.who[e[1]] \in shown[q.trackOf[e[1]]]
      BY <3>1 DEF FacesShown
    <3> QED BY <3>1, <3>2, <3>3 DEF Backed, MayBe, Likely
  <2>8. \A e \in q.cached : Backed(q, e)
    BY <1>1 DEF Match, RequestInv, Following, CandidatesSeen
  <2>9. RequestInv([next EXCEPT !.pc = "record"])
    <3> DEFINE then == [next EXCEPT !.pc = "record"]
    <3>1. /\ then.frame = q.frame /\ then.trackOf = q.trackOf /\ then.pc = "record"
          /\ then.todo = q.needs /\ then.needs = {} /\ then.cached = {} /\ then.chosen = chosen
      BY <1>1 DEF Request
    <3>2. FacesShown(q) /\ FacesAtHand(q) BY <1>1 DEF Match, RequestInv, Following
    <3>3. \A e \in chosen : Backed(q, e) BY <2>1, <2>7, <2>8
    <3> HIDE DEF then, next, q
    <3>4. FacesShown(then) BY <3>1, <3>2 DEF FacesShown
    <3>5. FacesAtHand(then) BY <3>1, <3>2 DEF FacesAtHand
    <3>6. CandidatesSeen(then) BY <3>1, <3>3 DEF CandidatesSeen, Backed, MayBe
    <3>7. RequestInv(then) BY <3>4, <3>5, <3>6 DEF RequestInv
    <3> QED BY <3>7 DEF then
  <2> QED BY <1>1, <1>3, <2>6, <2>9, Local DEF Match, Proceed
<1> QED BY <1>2, <1>3 DEF Match

\* RecordFeature leaves a track alive or dead as it was, and its student is the
\* old one or the one found.
LEMMA RecordedTrack ==
  ASSUME NEW track \in Track, NEW quality \in 0..Sharpest, NEW found \in SUBSET Edge
  PROVE  LET new == Recorded(track, quality, found)
         IN  /\ new \in Track /\ new.live = track.live
             /\ new.student = track.student \/ \E e \in found : new.student = e[2]
<1> DEFINE e == CHOOSE x \in found : TRUE
           base == IF found = {} THEN track ELSE Identified(track, quality, e)
           best == Larger(base.best, quality)
<1>1. base \in Track /\ base.live = track.live /\ base.best = track.best
      /\ (base.student = track.student \/ \E x \in found : base.student = x[2])
  <2>1. CASE found = {} BY <2>1
  <2>2. CASE found # {}
    <3>1. e \in found BY <2>2
    <3>2. e[2] \in Students /\ e[3] \in Sims \cup {0} BY <3>1 DEF Edge
    <3>3. base = track \/ base = [track EXCEPT !.student = e[2], !.sim = e[3]]
      BY <2>2 DEF Identified
    <3> HIDE DEF base, e
    <3>4. CASE base = track BY <3>4
    <3>5. CASE base = [track EXCEPT !.student = e[2], !.sim = e[3]]
      BY <3>1, <3>2, <3>5 DEF Track
    <3> QED BY <3>3, <3>4, <3>5
  <2> QED BY <2>1, <2>2
<1>2. Recorded(track, quality, found) = [base EXCEPT !.asked = TRUE, !.best = best]
  BY DEF Recorded
<1>3. best \in 0..Sharpest
  <2> HIDE DEF base
  <2> QED BY <1>1 DEF Track, Larger, Sharpest
<1> HIDE DEF base, best
<1> QED BY <1>1, <1>2, <1>3 DEF Track

LEMMA RecordStep ==
  ASSUME TrackInv, NEW r \in Requests, NEW p \in Places, RecordFeature(r, p)
  PROVE  TrackInv'
<1> DEFINE q == req[r]
           t == q.trackOf[p]
           found == Found(q, p)
           new == Recorded(tracks[t], q.frame.quality[p], found)
           next == [[q EXCEPT !.todo = @ \ {p}] EXCEPT !.pc = "record"]
<1>1. q \in Request /\ RequestInv(q) /\ q.pc = "record" BY DEF TrackInv, TypeOK, RecordFeature
<1>2. next \in Request
  <2>1. [q EXCEPT !.todo = @ \ {p}] \in Request BY <1>1 DEF Request
  <2> QED BY <2>1, ProceedTyped
<1>3. RequestInv(next)
  BY <1>1 DEF RequestInv, Following, FacesShown, FacesAtHand, CandidatesSeen, Backed, MayBe, Request
<1>4. req' = [req EXCEPT ![r] = next] /\ UNCHANGED <<cache, nextID, shown>>
  BY DEF RecordFeature, Proceed
<1>5. \A o \in IDs : /\ tracks'[o] \in Track /\ tracks'[o].live = tracks[o].live
                     /\ tracks'[o].student # Nobody => tracks'[o].student \in Likely(o)
  <2>1. \A o \in IDs : tracks[o] \in Track
                       /\ (tracks[o].student # Nobody => tracks[o].student \in Likely(o))
    BY DEF TrackInv, TypeOK, IdentityFromOwnFaces
  <2>2. CASE ~ Alive(q, p) BY <2>1, <2>2 DEF RecordFeature
  <2>3. CASE Alive(q, p)
    <3>1. t \in IDs BY <2>3 DEF Alive
    <3>2. tracks' = [tracks EXCEPT ![t] = new] BY <2>3 DEF RecordFeature
    <3>3. found \subseteq Edge BY <1>1 DEF Found, Request
    <3>4. q.frame.quality[p] \in 0..Sharpest BY <1>1 DEF Request, Frame
    <3>5. new \in Track /\ new.live = tracks[t].live
          /\ (new.student = tracks[t].student \/ \E e \in found : new.student = e[2])
      BY <2>1, <3>1, <3>3, <3>4, RecordedTrack
    <3>6. \A e \in found : e[2] \in Likely(t)
      <4>1. t # Untracked BY <3>1 DEF IDs, Untracked
      <4> QED BY <1>1, <4>1 DEF Found, RequestInv, Following, CandidatesSeen, Backed, MayBe
    <3>7. tracks \in [IDs -> Track] BY DEF TrackInv, TypeOK
    <3> HIDE DEF new, t, found
    <3> QED BY <2>1, <3>1, <3>2, <3>5, <3>6, <3>7
  <2> QED BY <2>2, <2>3
<1>6. tracks' \in [IDs -> Track]
  <2>1. DOMAIN tracks' = IDs /\ tracks' = [o \in DOMAIN tracks' |-> tracks'[o]]
    BY DEF RecordFeature, TrackInv, TypeOK
  <2> QED BY <1>5, <2>1
<1> HIDE DEF next
<1>7. TypeOK' BY <1>2, <1>4, <1>6 DEF TrackInv, TypeOK
<1>8. IdentityFromOwnFaces' BY <1>4, <1>5 DEF IdentityFromOwnFaces, Likely
<1>9. Unused'
  <2> SUFFICES ASSUME NEW o \in IDs, o > nextID
               PROVE  ~ tracks'[o].live /\ tracks'[o].student = Nobody
    BY <1>4 DEF Unused
  <2>1. ~ tracks[o].live /\ tracks[o].student = Nobody BY DEF TrackInv, Unused
  <2>2. CASE Alive(q, p) /\ o = t BY <2>1, <2>2 DEF Alive
  <2>3. CASE ~ (Alive(q, p) /\ o = t)
    <3>1. tracks'[o] = tracks[o] BY <2>3 DEF RecordFeature, TrackInv, TypeOK
    <3> QED BY <2>1, <3>1
  <2> QED BY <2>2, <2>3
<1>10. ASSUME NEW o \in Requests PROVE RequestInv(req[o])'
  <2>1. req'[o] = next \/ req'[o] = req[o] BY <1>4 DEF TrackInv, TypeOK
  <2>2. RequestInv(req'[o]) BY <1>3, <2>1 DEF TrackInv
  <2> QED BY <1>4, <2>2 DEF RequestInv, FacesShown, FacesAtHand, CandidatesSeen, Backed, MayBe, Likely
<1> QED BY <1>7, <1>8, <1>9, <1>10 DEF TrackInv

\* A frame gives every body a track: a live one or one never used before.
LEMMA Assigned ==
  ASSUME TrackInv, NEW bodies \in SUBSET Places, NEW kept \in SUBSET Live,
         NEW M \in Associated(bodies, kept), NEW n \in Nat,
         nextID + n <= MaxTracks, NEW rank \in [New(bodies, M) -> 1..n]
  PROVE  LET to == TrackOf(bodies, kept, M, rank)
         IN  /\ to \in [Places -> IDs \cup {Untracked}]
             /\ \A p \in Places : to[p] # Untracked => to[p] \in 1 .. nextID + n
             /\ \A p \in bodies : to[p] \in 1 .. nextID + n
             /\ \A p \in New(bodies, M) : to[p] > nextID
             /\ \A p \in bodies \ New(bodies, M) : to[p] \in kept
<1> DEFINE to == TrackOf(bodies, kept, M, rank)
<1>1. nextID \in 0..MaxTracks /\ MaxTracks \in Nat
  BY TracksAssumption DEF TrackInv, TypeOK
<1>2. \A e \in M : e[1] \in bodies /\ e[2] \in kept
  BY DEF Associated, Greedy, Pairs
<1>3. \A t \in kept : t \in IDs /\ t <= nextID
  BY <1>1 DEF Live, TrackInv, Unused, IDs
<1>4. \A p \in New(bodies, M) : to[p] \in nextID + 1 .. nextID + n
  <2> SUFFICES ASSUME NEW p \in New(bodies, M) PROVE to[p] \in nextID + 1 .. nextID + n
    OBVIOUS
  <2>1. p \in Places BY DEF New
  <2>2. to[p] = nextID + rank[p] BY <2>1 DEF TrackOf, NewTrackID
  <2>3. rank[p] \in 1..n OBVIOUS
  <2> HIDE DEF to
  <2> QED BY <1>1, <2>2, <2>3
<1>5. \A p \in Places : p \notin New(bodies, M) /\ (\E e \in M : e[1] = p)
                         => to[p] \in kept /\ to[p] \in 1..nextID
  <2> SUFFICES ASSUME NEW p \in Places, p \notin New(bodies, M), \E e \in M : e[1] = p
               PROVE  to[p] \in kept /\ to[p] \in 1..nextID
    OBVIOUS
  <2>1. (CHOOSE e \in M : e[1] = p) \in M OBVIOUS
  <2>2. p \in {e[1] : e \in M} OBVIOUS
  <2>3. to[p] = (CHOOSE e \in M : e[1] = p)[2] BY <2>2 DEF TrackOf
  <2> QED BY <1>1, <1>2, <1>3, <2>1, <2>3 DEF IDs
<1>6. \A p \in Places : p \notin New(bodies, M) /\ ~ (\E e \in M : e[1] = p)
                         => to[p] = Untracked
  BY DEF TrackOf
<1>7. \A p \in bodies : p \in Places /\ (p \in New(bodies, M) \/ \E e \in M : e[1] = p)
  BY DEF New
<1>8. to \in [Places -> IDs \cup {Untracked}]
  <2>1. to = [p \in Places |-> to[p]] BY DEF TrackOf
  <2>2. \A p \in Places : to[p] \in IDs \cup {Untracked}
    <3> HIDE DEF to
    <3> QED BY <1>1, <1>4, <1>5, <1>6 DEF IDs
  <2> HIDE DEF to
  <2> QED BY <2>1, <2>2
<1> HIDE DEF to
<1>9. \A p \in bodies : to[p] \in 1 .. nextID + n BY <1>1, <1>4, <1>5, <1>7
<1>10. \A p \in New(bodies, M) : to[p] > nextID BY <1>1, <1>4
<1>11. \A p \in bodies \ New(bodies, M) : to[p] \in kept BY <1>5, <1>7
<1>12. \A p \in Places : to[p] # Untracked => to[p] \in 1 .. nextID + n
  BY <1>1, <1>4, <1>5, <1>6
<1> QED BY <1>8, <1>9, <1>10, <1>11, <1>12 DEF to

LEMMA ObserveStep ==
  ASSUME TrackInv, NEW r \in Requests, Observe(r)
  PROVE  TrackInv'
<1> DEFINE q == req[r]
<1>1. q \in Request /\ RequestInv(q) BY DEF TrackInv, TypeOK
<1>2. PICK kept \in SUBSET Live, bodies \in BodySets(q) : \E M \in Associated(bodies, kept) :
        /\ nextID + Cardinality(New(bodies, M)) <= MaxTracks
        /\ \E rank \in Bijection(New(bodies, M), 1..Cardinality(New(bodies, M))) :
             /\ tracks' = Followed(bodies, kept, TrackOf(bodies, kept, M, rank))
             /\ \E to \in Joined(q, TrackOf(bodies, kept, M, rank)) :
                  /\ shown' = Shown(q, to, {TrackOf(bodies, kept, M, rank)[b] : b \in New(bodies, M)})
                  /\ Proceed(r, [Idle EXCEPT !.frame = q.frame, !.trackOf = to,
                                             !.todo = ClearFaces(q.frame)], "need")
        /\ nextID' = nextID + Cardinality(New(bodies, M))
  BY DEF Observe
<1>2b. PICK M \in Associated(bodies, kept) :
        /\ nextID + Cardinality(New(bodies, M)) <= MaxTracks
        /\ \E rank \in Bijection(New(bodies, M), 1..Cardinality(New(bodies, M))) :
             /\ tracks' = Followed(bodies, kept, TrackOf(bodies, kept, M, rank))
             /\ \E to \in Joined(q, TrackOf(bodies, kept, M, rank)) :
                  /\ shown' = Shown(q, to, {TrackOf(bodies, kept, M, rank)[b] : b \in New(bodies, M)})
                  /\ Proceed(r, [Idle EXCEPT !.frame = q.frame, !.trackOf = to,
                                             !.todo = ClearFaces(q.frame)], "need")
        /\ nextID' = nextID + Cardinality(New(bodies, M))
  BY <1>2
<1> DEFINE new == New(bodies, M)
           n == Cardinality(new)
<1>3. PICK rank \in Bijection(new, 1..n) :
        /\ tracks' = Followed(bodies, kept, TrackOf(bodies, kept, M, rank))
        /\ \E to \in Joined(q, TrackOf(bodies, kept, M, rank)) :
             /\ shown' = Shown(q, to, {TrackOf(bodies, kept, M, rank)[b] : b \in new})
             /\ Proceed(r, [Idle EXCEPT !.frame = q.frame, !.trackOf = to,
                                        !.todo = ClearFaces(q.frame)], "need")
  BY <1>2b
<1> DEFINE of == TrackOf(bodies, kept, M, rank)
<1>3b. PICK to \in Joined(q, of) :
         /\ shown' = Shown(q, to, {of[b] : b \in new})
         /\ Proceed(r, [Idle EXCEPT !.frame = q.frame, !.trackOf = to,
                                    !.todo = ClearFaces(q.frame)], "need")
  BY <1>3
<1>4. rank \in [new -> 1..n] BY DEF Bijection, Injection
<1>4b. bodies \subseteq Places /\ Faces(q.frame) \subseteq Places
  BY <1>1 DEF BodySets, Faces, Request
<1>5. n \in Nat /\ nextID + n <= MaxTracks /\ nextID' = nextID + n
  <2>1. new \subseteq Places BY <1>4b DEF New
  <2> QED BY <1>2b, <2>1, FS_Subset, FS_CardinalityType, TracksAssumption
<1>6. /\ of \in [Places -> IDs \cup {Untracked}]
      /\ \A p \in Places : of[p] # Untracked => of[p] \in 1 .. nextID + n
      /\ \A p \in bodies : of[p] \in 1 .. nextID + n
      /\ \A p \in new : of[p] > nextID
  BY <1>4, <1>4b, <1>5, Assigned
<1> HIDE DEF of, n
<1>7. tracks' = Followed(bodies, kept, of) BY <1>3 DEF of
<1>8. nextID \in Nat /\ MaxTracks \in Nat BY TracksAssumption DEF TrackInv, TypeOK
<1>9. /\ to \in [Places -> IDs \cup {Untracked}]
      /\ \A p \in Places : to[p] # Untracked => to[p] \in 1 .. nextID + n
  <2>1. \A p \in Places : to[p] # Untracked => \E b \in Places : to[p] = of[b]
    BY TracksAssumption DEF Joined
  <2> QED BY <1>6, <2>1 DEF Joined
<1> HIDE DEF new
<1>10. \A t \in IDs : t <= nextID => shown[t] \subseteq shown'[t]
  <2> SUFFICES ASSUME NEW t \in IDs, t <= nextID PROVE shown[t] \subseteq shown'[t]
    OBVIOUS
  <2>1. t \notin {of[b] : b \in new} BY <1>6, <1>8 DEF IDs
  <2> QED BY <1>3b, <2>1 DEF Shown
<1>11. \A p \in Faces(q.frame) : to[p] # Untracked => q.frame.who[p] \in shown'[to[p]]
  <2> SUFFICES ASSUME NEW p \in Faces(q.frame), to[p] # Untracked
               PROVE  q.frame.who[p] \in shown'[to[p]]
    OBVIOUS
  <2>1. to[p] \in IDs BY <1>4b, <1>9
  <2>2. p \in {f \in Faces(q.frame) : to[f] = to[p]} OBVIOUS
  <2> QED BY <1>3b, <2>1, <2>2 DEF Shown
<1>12. shown' \in [IDs -> SUBSET Persons]
  <2>1. \A p \in Faces(q.frame) : q.frame.who[p] \in Persons
    BY <1>1 DEF Faces, Request, Frame
  <2> QED BY <1>3b, <2>1 DEF Shown, TrackInv, TypeOK
<1>13. \A t \in IDs : /\ tracks'[t] \in Track
                      /\ tracks'[t].student = IF t \in kept THEN tracks[t].student ELSE Nobody
                      /\ tracks'[t].live <=> t \in kept \/ At(bodies, of, t) # {}
  <2> SUFFICES ASSUME NEW t \in IDs
               PROVE  /\ tracks'[t] \in Track
                      /\ tracks'[t].student = IF t \in kept THEN tracks[t].student ELSE Nobody
                      /\ tracks'[t].live <=> t \in kept \/ At(bodies, of, t) # {}
    OBVIOUS
  <2> DEFINE old == IF t \in kept THEN tracks[t] ELSE NoTrack
             place == CHOOSE p \in At(bodies, of, t) : TRUE
  <2>1. old \in Track /\ (old.live <=> t \in kept)
        /\ old.student = IF t \in kept THEN tracks[t].student ELSE Nobody
    <3>1. NoTrack \in Track BY InitialTyped
    <3>2. tracks[t] \in Track BY DEF TrackInv, TypeOK
    <3>3. t \in kept => tracks[t].live BY DEF Live
    <3>4. ~ NoTrack.live /\ NoTrack.student = Nobody BY DEF NoTrack
    <3> QED BY <3>1, <3>2, <3>3, <3>4
  <2>2. tracks'[t] = IF At(bodies, of, t) = {} THEN old
                     ELSE [old EXCEPT !.live = TRUE, !.place = place]
    BY <1>7 DEF Followed, Seen
  <2>3. At(bodies, of, t) # {} => place \in Places BY <1>4b DEF At
  <2> HIDE DEF old, place
  <2>4. CASE At(bodies, of, t) = {} BY <2>1, <2>2, <2>4
  <2>5. CASE At(bodies, of, t) # {}
    <3> HIDE DEF of
    <3>1. tracks'[t] = [old EXCEPT !.live = TRUE, !.place = place] BY <2>2, <2>5
    <3>2. place \in Places BY <2>3, <2>5
    <3>3. [old EXCEPT !.live = TRUE, !.place = place] \in Track
          /\ [old EXCEPT !.live = TRUE, !.place = place].student = old.student
          /\ [old EXCEPT !.live = TRUE, !.place = place].live
      BY <2>1, <3>2 DEF Track
    <3> QED BY <2>1, <2>5, <3>1, <3>3
  <2> QED BY <2>4, <2>5
<1>14. tracks' \in [IDs -> Track]
  <2>1. tracks' = [t \in IDs |-> tracks'[t]] BY <1>7 DEF Followed
  <2> QED BY <1>13, <2>1
<1> DEFINE start == [Idle EXCEPT !.frame = q.frame, !.trackOf = to,
                                 !.todo = ClearFaces(q.frame)]
           next == [start EXCEPT !.pc = "need"]
<1>15. req' = [req EXCEPT ![r] = next] BY <1>3b DEF Proceed
<1>16. next \in Request
  <2>1. ClearFaces(q.frame) \subseteq Places BY DEF ClearFaces, Faces
  <2>2. start \in Request BY <1>1, <1>9, <2>1, InitialTyped DEF Request
  <2> QED BY <2>2, ProceedTyped
<1>17. cache' = cache BY DEF Observe
<1>18. TypeOK'
  <2>1. nextID' \in 0..MaxTracks BY <1>5, <1>8
  <2> HIDE DEF next
  <2> QED BY <1>12, <1>14, <1>15, <1>16, <1>17, <2>1 DEF TrackInv, TypeOK
<1>19. IdentityFromOwnFaces'
  <2> SUFFICES ASSUME NEW t \in IDs, tracks'[t].student # Nobody
               PROVE  tracks'[t].student \in UNION {Looks(x) : x \in shown'[t]}
    BY DEF IdentityFromOwnFaces, Likely
  <2>1. t \in kept /\ tracks'[t].student = tracks[t].student BY <1>13
  <2>2. t <= nextID BY <1>8, <2>1 DEF Live, TrackInv, Unused, IDs
  <2>3. tracks[t].student \in UNION {Looks(x) : x \in shown[t]}
    BY <2>1 DEF TrackInv, IdentityFromOwnFaces, Likely
  <2> QED BY <1>10, <2>1, <2>2, <2>3
<1>20. Unused'
  <2> SUFFICES ASSUME NEW t \in IDs, t > nextID'
               PROVE  ~ tracks'[t].live /\ tracks'[t].student = Nobody
    BY DEF Unused
  <2>1. t \notin kept BY <1>5, <1>8 DEF Live, TrackInv, Unused, IDs
  <2>2. At(bodies, of, t) = {} BY <1>5, <1>6, <1>8 DEF At, IDs
  <2> QED BY <1>13, <2>1, <2>2
<1>21. ASSUME NEW o \in Requests PROVE RequestInv(req[o])'
  <2>1. CASE o = r
    <3>1. req'[o] = next BY <1>15, <2>1 DEF TrackInv, TypeOK
    <3>2. /\ next.frame = q.frame /\ next.trackOf = to /\ next.pc = "need"
          /\ next.todo = ClearFaces(q.frame) /\ next.needs = {}
          /\ next.cached = {} /\ next.chosen = {}
      BY DEF Idle
    <3> HIDE DEF next, start
    <3>3. \A p \in Faces(q.frame) : to[p] # Untracked => to[p] \in 1..nextID'
      BY <1>4b, <1>5, <1>9
    <3>4. FacesShown(req[o])' BY <1>11, <3>1, <3>2, <3>3 DEF FacesShown
    <3>5. CandidatesSeen(req[o])' BY <3>1, <3>2 DEF CandidatesSeen
    <3>6. FacesAtHand(req[o])' BY <3>1, <3>2 DEF FacesAtHand, ClearFaces
    <3> QED BY <3>4, <3>5, <3>6 DEF RequestInv
  <2>2. CASE o # r
    <3>1. req'[o] = req[o] BY <1>15, <2>2 DEF TrackInv, TypeOK
    <3> SUFFICES ASSUME Following(req[o])
                 PROVE  (FacesShown(req[o]) /\ FacesAtHand(req[o]) /\ CandidatesSeen(req[o]))'
      BY <3>1 DEF RequestInv, Following
    <3>2. FacesShown(req[o]) /\ FacesAtHand(req[o]) /\ CandidatesSeen(req[o])
      BY DEF TrackInv, RequestInv
    <3>3. \A p \in Faces(req[o].frame) : req[o].trackOf[p] # Untracked =>
             req[o].trackOf[p] \in IDs /\ req[o].trackOf[p] <= nextID
      BY <1>5, <1>8, <3>2 DEF FacesShown, IDs
    <3>4. FacesShown(req[o])'
      <4>1. \A p \in Faces(req[o].frame) : req[o].trackOf[p] # Untracked =>
              req[o].trackOf[p] \in 1..nextID'
        BY <1>5, <1>8, <3>2 DEF FacesShown
      <4> QED BY <1>10, <3>1, <3>2, <3>3, <4>1 DEF FacesShown
    <3>5. CandidatesSeen(req[o])'
      <4> SUFFICES ASSUME NEW e \in req[o].cached \cup req[o].chosen
                   PROVE  Backed(req[o], e)'
        BY <3>1 DEF CandidatesSeen
      <4> DEFINE t == req[o].trackOf[e[1]]
      <4>1. e[1] \in Faces(req[o].frame) /\ e[2] \in MayBe(req[o], e[1])
        BY <3>2 DEF CandidatesSeen, Backed
      <4>2. CASE t = Untracked BY <3>1, <4>1, <4>2 DEF Backed, MayBe
      <4>3. CASE t # Untracked
        <5>1. e[2] \in UNION {Looks(x) : x \in shown[t]} BY <4>1, <4>3 DEF MayBe, Likely
        <5>2. e[2] \in UNION {Looks(x) : x \in shown'[t]} BY <1>10, <3>3, <4>1, <4>3, <5>1
        <5> QED BY <3>1, <4>1, <4>3, <5>2 DEF Backed, MayBe, Likely
      <4> QED BY <4>2, <4>3
    <3>6. FacesAtHand(req[o])' BY <3>1, <3>2 DEF FacesAtHand
    <3> QED BY <3>4, <3>5, <3>6
  <2> QED BY <2>1, <2>2
<1> QED BY <1>18, <1>19, <1>20, <1>21 DEF TrackInv

\* Every step preserves the invariant.
LEMMA NextInv == TrackInv /\ [Next]_vars => TrackInv'
<1> SUFFICES ASSUME TrackInv, [Next]_vars PROVE TrackInv' OBVIOUS
<1>1. CASE Next
  <2>1. PICK r \in Requests : Step(r) BY <1>1 DEF Next
  <2>2. CASE Hit(r) \/ Miss(r) \/ Install(r) \/ DetectorFails(r) \/ Fail(r) \/ Answer(r)
    BY <2>2, DetectionSteps
  <2>3. CASE Observe(r) BY <2>3, ObserveStep
  <2>4. CASE (\E p \in Places : Need(r, p)) \/ Identity(r) BY <2>4, AskingSteps
  <2>5. CASE Match(r) BY <2>5, MatchStep
  <2>6. CASE \E p \in Places : RecordFeature(r, p) BY <2>6, RecordStep
  <2> QED BY <2>1, <2>2, <2>3, <2>4, <2>5, <2>6 DEF Step
<1>2. CASE UNCHANGED vars
  <2>1. UNCHANGED <<cache, tracks, nextID, req, shown>> BY <1>2 DEF vars
  <2>2. TypeOK' /\ IdentityFromOwnFaces' /\ Unused'
    BY <2>1 DEF TrackInv, TypeOK, IdentityFromOwnFaces, Likely, Unused
  <2>3. \A r \in Requests : RequestInv(req[r])'
    BY <2>1 DEF TrackInv, RequestInv, FacesShown, FacesAtHand, CandidatesSeen, Backed, MayBe, Likely
  <2> QED BY <2>2, <2>3 DEF TrackInv
<1> QED BY <1>1, <1>2

\* Every variable of PersonTracks keeps its type.
THEOREM TracksTyped == Spec => []TypeOK
<1>1. TrackInv => TypeOK BY DEF TrackInv
<1> QED BY InitInv, NextInv, <1>1, PTL DEF Spec

\* However late RecordFeature runs, the identity of a track (person_track.go)
\* is one that a face given to that track has.
THEOREM OwnIdentity == Spec => []IdentityFromOwnFaces
<1>1. TrackInv => IdentityFromOwnFaces BY DEF TrackInv
<1> QED BY InitInv, NextInv, <1>1, PTL DEF Spec

\* Whoever goes to the liveness vote (recognition.go, the observations) was
\* recognised in that face or in another one of its track; whichever track the
\* face was given, and also if it has none (person_track.go, associateFaceToPerson).
THEOREM OwnVotes == Spec => []VotesFromOwnTrack
<1>1. TrackInv => VotesFromOwnTrack
  BY DEF TrackInv, VotesFromOwnTrack, RequestInv, Following, Voting, CandidatesSeen, Backed
<1> QED BY InitInv, NextInv, <1>1, PTL DEF Spec

\* A frame that has been observed starts with nothing chosen.
LEMMA ObserveStarts ==
  ASSUME NEW r \in Requests, Observe(r)
  PROVE  \E frame, to, todo :
           Proceed(r, [Idle EXCEPT !.frame = frame, !.trackOf = to, !.todo = todo], "need")
<1> DEFINE q == req[r]
<1>1. PICK kept \in SUBSET Live, bodies \in BodySets(q) : \E M \in Associated(bodies, kept) :
        /\ nextID + Cardinality(New(bodies, M)) <= MaxTracks
        /\ \E rank \in Bijection(New(bodies, M), 1..Cardinality(New(bodies, M))) :
             /\ tracks' = Followed(bodies, kept, TrackOf(bodies, kept, M, rank))
             /\ \E to \in Joined(q, TrackOf(bodies, kept, M, rank)) :
                  /\ shown' = Shown(q, to, {TrackOf(bodies, kept, M, rank)[b] : b \in New(bodies, M)})
                  /\ Proceed(r, [Idle EXCEPT !.frame = q.frame, !.trackOf = to,
                                             !.todo = ClearFaces(q.frame)], "need")
        /\ nextID' = nextID + Cardinality(New(bodies, M))
  BY DEF Observe
<1> QED BY <1>1, Zenon

\* In a frame a student has one face: the choice is greedy (recognition.go,
\* usedFaces and usedStudents).
THEOREM OneFace == Spec => []OneFacePerStudent
<1> DEFINE Single(C) == \A e, f \in C : Adjacent(e, f) => e = f
<1>1. Init => OneFacePerStudent BY DEF Init, OneFacePerStudent, Idle
<1>2. TrackInv /\ OneFacePerStudent /\ [Next]_vars => OneFacePerStudent'
  <2> SUFFICES ASSUME TrackInv, OneFacePerStudent, [Next]_vars, NEW o \in Requests
               PROVE  Single(req'[o].chosen)
    BY DEF OneFacePerStudent
  <2>1. (\A x \in Requests : Single(req[x].chosen)) /\ Single(Idle.chosen)
    BY DEF OneFacePerStudent, Idle
  <2>2. CASE UNCHANGED vars BY <2>1, <2>2 DEF vars
  <2>3. CASE Next
    <3>1. PICK r \in Requests : Step(r) BY <2>3 DEF Next
    <3>2. req[r] \in Request BY DEF TrackInv, TypeOK
    <3>3. ASSUME NEW q, req' = [req EXCEPT ![r] = q], Single(q.chosen)
          PROVE  Single(req'[o].chosen)
      <4>1. req'[o] = req[o] \/ req'[o] = q BY <3>3 DEF TrackInv, TypeOK
      <4> QED BY <2>1, <3>3, <4>1
    <3> HIDE DEF Single
    <3>4. CASE Hit(r) \/ Miss(r)
      <4>1. PICK frame, reuse, boxes, pc :
              Proceed(r, [Idle EXCEPT !.frame = frame, !.reuse = reuse], pc)
              \/ Proceed(r, [Idle EXCEPT !.frame = frame, !.boxes = boxes], pc)
        BY <3>4 DEF Hit, Miss
      <4>2. PICK q : /\ req' = [req EXCEPT ![r] = q] /\ q.chosen = Idle.chosen
        <5>1. /\ [[Idle EXCEPT !.frame = frame, !.reuse = reuse] EXCEPT !.pc = pc].chosen
                   = Idle.chosen
              /\ [[Idle EXCEPT !.frame = frame, !.boxes = boxes] EXCEPT !.pc = pc].chosen
                   = Idle.chosen
          BY DEF Idle
        <5> QED BY <4>1, <5>1 DEF Proceed
      <4> QED BY <2>1, <3>3, <4>2
    <3>5. CASE Install(r) \/ DetectorFails(r)
      <4>1. PICK boxes : req' = [req EXCEPT ![r] =
              [[req[r] EXCEPT !.boxes = boxes, !.reuse = 0] EXCEPT !.pc = "observe"]]
        <5>1. CASE Install(r) BY <5>1 DEF Install, Proceed
        <5>2. CASE DetectorFails(r)
          <6>1. [req[r] EXCEPT !.boxes = req[r].boxes, !.reuse = 0]
                  = [req[r] EXCEPT !.reuse = 0]
            BY <3>2 DEF Request
          <6> QED BY <5>2, <6>1 DEF DetectorFails, Proceed
        <5> QED BY <3>5, <5>1, <5>2
      <4> DEFINE q == [[req[r] EXCEPT !.boxes = boxes, !.reuse = 0] EXCEPT !.pc = "observe"]
      <4>2. q.chosen = req[r].chosen BY <3>2 DEF Request
      <4> HIDE DEF q
      <4> QED BY <2>1, <3>3, <4>1, <4>2 DEF q
    <3>6. CASE Fail(r) \/ Answer(r)
      <4>1. req' = [req EXCEPT ![r] = [Idle EXCEPT !.pc = "idle"]]
        BY <3>6 DEF Fail, Answer, Proceed
      <4>2. [Idle EXCEPT !.pc = "idle"].chosen = Idle.chosen BY DEF Idle
      <4> QED BY <2>1, <3>3, <4>1, <4>2
    <3>7. CASE Observe(r)
      <4>1. PICK frame, to, todo :
              Proceed(r, [Idle EXCEPT !.frame = frame, !.trackOf = to, !.todo = todo], "need")
        BY <3>7, ObserveStarts
      <4> DEFINE q == [[Idle EXCEPT !.frame = frame, !.trackOf = to, !.todo = todo]
                        EXCEPT !.pc = "need"]
      <4>2. q.chosen = Idle.chosen BY DEF Idle
      <4>3. req' = [req EXCEPT ![r] = q] BY <4>1 DEF Proceed
      <4> HIDE DEF q
      <4> QED BY <2>1, <3>3, <4>2, <4>3
    <3>8. CASE \E p \in Places : Need(r, p) \/ RecordFeature(r, p)
      <4>1. PICK p \in Places : Need(r, p) \/ RecordFeature(r, p) BY <3>8
      <4> DEFINE asked == [[req[r] EXCEPT !.todo = @ \ {p}, !.needs = @ \cup {p}]
                            EXCEPT !.pc = "need"]
                 known == [[req[r] EXCEPT !.todo = @ \ {p}, !.at = p]
                            EXCEPT !.pc = "identity"]
                 stored == [[req[r] EXCEPT !.todo = @ \ {p}] EXCEPT !.pc = "record"]
      <4>2. \A q \in {asked, known, stored} : q.chosen = req[r].chosen
        BY <3>2 DEF Request
      <4>3. \E q \in {asked, known, stored} : req' = [req EXCEPT ![r] = q]
        <5>1. CASE Need(r, p) BY <5>1 DEF Need, Proceed
        <5>2. CASE RecordFeature(r, p) BY <5>2 DEF RecordFeature, Proceed
        <5> QED BY <4>1, <5>1, <5>2
      <4> HIDE DEF asked, known, stored
      <4> QED BY <2>1, <3>3, <4>2, <4>3
    <3>9. CASE Identity(r)
      <4>1. PICK q \in {[req[r] EXCEPT !.cached = @ \cup {<<req[r].at,
                            tracks[req[r].trackOf[req[r].at]].student,
                            tracks[req[r].trackOf[req[r].at]].sim>>}, !.at = Idle.at],
                       [req[r] EXCEPT !.at = Idle.at]} :
              Proceed(r, q, "need")
        BY <3>9, Zenon DEF Identity
      <4>2. [q EXCEPT !.pc = "need"].chosen = req[r].chosen BY <3>2, <4>1 DEF Request
      <4>3. req' = [req EXCEPT ![r] = [q EXCEPT !.pc = "need"]] BY <4>1 DEF Proceed
      <4> QED BY <2>1, <3>3, <4>2, <4>3
    <3>10. CASE Match(r)
      <4>1. CASE Proceed(r, Idle, "idle") BY <2>1, <3>3, <4>1 DEF Proceed, Idle
      <4>2. ASSUME NEW X, NEW chosen \in Greedy(X),
                   Proceed(r, [req[r] EXCEPT !.chosen = chosen, !.todo = req[r].needs,
                                             !.needs = {}, !.cached = {}], "record")
            PROVE  Single(req'[o].chosen)
        <5>1. Single(chosen) BY DEF Greedy, Single
        <5> DEFINE q == [[req[r] EXCEPT !.chosen = chosen, !.todo = req[r].needs,
                                        !.needs = {}, !.cached = {}] EXCEPT !.pc = "record"]
        <5>2. q.chosen = chosen BY <3>2 DEF Request
        <5>3. req' = [req EXCEPT ![r] = q] BY <4>2 DEF Proceed
        <5> HIDE DEF q
        <5> QED BY <3>3, <5>1, <5>2, <5>3
      <4> QED BY <3>10, <4>1, <4>2 DEF Match
    <3> QED BY <3>1, <3>4, <3>5, <3>6, <3>7, <3>8, <3>9, <3>10 DEF Step
  <2> QED BY <2>2, <2>3
<1>3. Spec => []TrackInv BY InitInv, NextInv, PTL DEF Spec
<1> QED BY <1>1, <1>2, <1>3, PTL DEF Spec

-----------------------------------------------------------------------------
(* An expired track is gone for good *)

\* A track that is gone has no identity.
DeadUnknown == \A t \in IDs : ~ tracks[t].live => tracks[t].student = Nobody

\* What ExpiredForGood lets a step do, and what keeps DeadUnknown.
StayGone ==
  /\ \A t \in IDs : t <= nextID /\ ~ tracks[t].live => ~ tracks'[t].live
  /\ \A t \in IDs : ~ tracks'[t].live => tracks'[t].student = Nobody

\* A frame takes up tracks it has kept and tracks it creates, and no other: the
\* ones not kept are empty again.
LEMMA ObserveGone ==
  ASSUME TrackInv, NEW r \in Requests, Observe(r)
  PROVE  StayGone
<1> DEFINE q == req[r]
<1>1. q \in Request BY DEF TrackInv, TypeOK
<1>2. PICK kept \in SUBSET Live, bodies \in BodySets(q) : \E M \in Associated(bodies, kept) :
        /\ nextID + Cardinality(New(bodies, M)) <= MaxTracks
        /\ \E rank \in Bijection(New(bodies, M), 1..Cardinality(New(bodies, M))) :
             tracks' = Followed(bodies, kept, TrackOf(bodies, kept, M, rank))
  BY DEF Observe
<1>3. PICK M \in Associated(bodies, kept) :
        /\ nextID + Cardinality(New(bodies, M)) <= MaxTracks
        /\ \E rank \in Bijection(New(bodies, M), 1..Cardinality(New(bodies, M))) :
             tracks' = Followed(bodies, kept, TrackOf(bodies, kept, M, rank))
  BY <1>2
<1> DEFINE new == New(bodies, M)
           n == Cardinality(new)
<1>4. PICK rank \in Bijection(new, 1..n) : tracks' = Followed(bodies, kept, TrackOf(bodies, kept, M, rank))
  BY <1>3
<1>5. rank \in [new -> 1..n] BY DEF Bijection, Injection
<1>6b. bodies \subseteq Places BY <1>1 DEF BodySets, Faces, Request
<1>6. n \in Nat
  <2>1. new \subseteq Places BY <1>6b DEF New
  <2> QED BY <2>1, FS_Subset, FS_CardinalityType, TracksAssumption
<1> DEFINE to == TrackOf(bodies, kept, M, rank)
<1>7. /\ \A p \in new : to[p] > nextID
      /\ \A p \in bodies \ new : to[p] \in kept
  BY <1>3, <1>5, <1>6, <1>6b, Assigned
<1> HIDE DEF to, n, new
<1>8. tracks' = Followed(bodies, kept, to) BY <1>4 DEF to
<1>9. ASSUME NEW t \in IDs
      PROVE  /\ At(bodies, to, t) # {} => tracks'[t].live
             /\ At(bodies, to, t) = {} => tracks'[t] = IF t \in kept THEN tracks[t] ELSE NoTrack
  <2> DEFINE old == IF t \in kept THEN tracks[t] ELSE NoTrack
             place == CHOOSE p \in At(bodies, to, t) : TRUE
  <2>1. old \in Track
    <3>1. NoTrack \in Track BY InitialTyped
    <3>2. tracks[t] \in Track BY DEF TrackInv, TypeOK
    <3> QED BY <3>1, <3>2
  <2>2. tracks'[t] = IF At(bodies, to, t) = {} THEN old
                     ELSE [old EXCEPT !.live = TRUE, !.place = place]
    BY <1>8 DEF Followed, Seen
  <2> HIDE DEF old, place
  <2>3. At(bodies, to, t) # {} => tracks'[t].live BY <2>1, <2>2 DEF Track
  <2>4. At(bodies, to, t) = {} => tracks'[t] = old BY <2>2
  <2> QED BY <2>3, <2>4 DEF old
<1>10. \A t \in kept : t \in IDs /\ tracks[t].live BY DEF Live
<1>11. ~ NoTrack.live /\ NoTrack.student = Nobody BY DEF NoTrack
<1>12. nextID \in Int BY DEF TrackInv, TypeOK
<1>13. ASSUME NEW t \in IDs, t <= nextID, ~ tracks[t].live PROVE ~ tracks'[t].live
  <2>1. t \notin kept BY <1>10, <1>13
  <2>2. ASSUME NEW p \in bodies, to[p] = t PROVE FALSE
    <3>1. CASE p \in new
      <4>1. t > nextID BY <1>7, <2>2, <3>1
      <4> QED BY <1>12, <1>13, <4>1 DEF IDs
    <3>2. CASE p \notin new BY <1>7, <2>1, <2>2, <3>2
    <3> QED BY <3>1, <3>2
  <2>3. At(bodies, to, t) = {} BY <2>2 DEF At
  <2> QED BY <1>9, <1>11, <2>1, <2>3
<1>14. ASSUME NEW t \in IDs, ~ tracks'[t].live PROVE tracks'[t].student = Nobody
  <2>1. tracks'[t] = IF t \in kept THEN tracks[t] ELSE NoTrack BY <1>9, <1>14
  <2>2. t \notin kept BY <1>10, <1>14, <2>1
  <2> QED BY <1>11, <2>1, <2>2
<1> QED BY <1>13, <1>14 DEF StayGone

\* RecordFeature looks the track up again and leaves one that is gone alone.
LEMMA RecordGone ==
  ASSUME TrackInv, DeadUnknown, NEW r \in Requests, NEW p \in Places, RecordFeature(r, p)
  PROVE  StayGone
<1> DEFINE q == req[r]
           t == q.trackOf[p]
<1>1. q \in Request BY DEF TrackInv, TypeOK
<1>2. \A o \in IDs : tracks'[o] = tracks[o] \/ (tracks[o].live /\ tracks'[o].live)
  <2>1. CASE ~ Alive(q, p) BY <2>1 DEF RecordFeature
  <2>2. CASE Alive(q, p)
    <3> DEFINE found == Found(q, p)
               new == Recorded(tracks[t], q.frame.quality[p], found)
    <3>1. t \in IDs /\ tracks[t].live BY <2>2 DEF Alive
    <3>2. tracks' = [tracks EXCEPT ![t] = new] BY <2>2 DEF RecordFeature
    <3>3. found \subseteq Edge BY <1>1 DEF Found, Request
    <3>4. q.frame.quality[p] \in 0..Sharpest BY <1>1 DEF Request, Frame
    <3>5. tracks[t] \in Track BY <3>1 DEF TrackInv, TypeOK
    <3>6. new.live = tracks[t].live BY <3>3, <3>4, <3>5, RecordedTrack
    <3>7. tracks \in [IDs -> Track] BY DEF TrackInv, TypeOK
    <3> HIDE DEF new, t, found
    <3> QED BY <3>1, <3>2, <3>6, <3>7
  <2> QED BY <2>1, <2>2
<1>3. \A o \in IDs : ~ tracks[o].live => ~ tracks'[o].live BY <1>2
<1>4. \A o \in IDs : ~ tracks'[o].live => tracks'[o].student = Nobody
  BY <1>2 DEF DeadUnknown
<1> QED BY <1>3, <1>4 DEF StayGone

\* No other step touches a track.
LEMMA NextGone == TrackInv /\ DeadUnknown /\ [Next]_vars => StayGone
<1> SUFFICES ASSUME TrackInv, DeadUnknown, [Next]_vars PROVE StayGone OBVIOUS
<1>1. CASE UNCHANGED tracks BY <1>1 DEF StayGone, DeadUnknown
<1>2. CASE Next
  <2>1. PICK r \in Requests : Step(r) BY <1>2 DEF Next
  <2>2. CASE Observe(r) BY <2>2, ObserveGone
  <2>3. CASE \E p \in Places : RecordFeature(r, p) BY <2>3, RecordGone
  <2>4. CASE \/ Hit(r) \/ Miss(r) \/ Install(r) \/ DetectorFails(r) \/ Fail(r) \/ Answer(r)
             \/ (\E p \in Places : Need(r, p)) \/ Identity(r) \/ Match(r)
    BY <1>1, <2>4 DEF Hit, Miss, Install, DetectorFails, Fail, Answer, Need, Identity, Match
  <2> QED BY <2>1, <2>2, <2>3, <2>4 DEF Step
<1>3. CASE UNCHANGED vars BY <1>1, <1>3 DEF vars
<1> QED BY <1>2, <1>3

\* An expired track stays expired and without an identity (person_track.go,
\* trackLocked and NextID), for any number of requests that still hold its ID.
THEOREM GoneForGood == Spec => ExpiredForGood
<1>1. Init => DeadUnknown BY DEF Init, DeadUnknown, NoTrack
<1>2. TrackInv /\ DeadUnknown /\ [Next]_vars => DeadUnknown'
  BY NextGone DEF StayGone, DeadUnknown
<1>3. TrackInv /\ DeadUnknown /\ [Next]_vars
        => [\A t \in 1..nextID :
              ~ tracks[t].live => ~ tracks'[t].live /\ tracks'[t].student = Nobody]_vars
  <2> SUFFICES ASSUME TrackInv, DeadUnknown, [Next]_vars, NEW t \in 1..nextID, ~ tracks[t].live
               PROVE  ~ tracks'[t].live /\ tracks'[t].student = Nobody
    OBVIOUS
  <2>1. t \in IDs /\ t <= nextID
    BY TracksAssumption DEF TrackInv, TypeOK, IDs
  <2>2. StayGone BY NextGone
  <2> QED BY <2>1, <2>2 DEF StayGone
<1> QED BY InitInv, NextInv, <1>1, <1>2, <1>3, PTL DEF Spec, ExpiredForGood
=============================================================================
