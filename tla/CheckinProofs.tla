--------------------------- MODULE CheckinProofs ---------------------------
(***************************************************************************)
(* Proofs about Checkin, for every number of students, sessions and        *)
(* requests and every bound: the inductive invariant IInv, the safety      *)
(* properties it contains, how long a track may stay undecided (InTime),   *)
(* and the implementation of CheckinContract.                              *)
(***************************************************************************)
EXTENDS Checkin, FiniteSetTheorems, TLAPS

-----------------------------------------------------------------------------
(* The vote *)

\* A score is a number, without enumerating the scores for the provers.
LEMMA ScoreIsInt == \A x \in Score : x \in Int
BY DEF Score

\* Sliding keeps a window a window.
LEMMA SlideType ==
  ASSUME NEW w \in Seq(Score), Len(w) <= MaxFrames, NEW score \in Score
  PROVE  Slide(w, score) \in Seq(Score) /\ Len(Slide(w, score)) <= MaxFrames
BY DEF Slide, MaxFrames

\* The switch has four outcomes.
LEMMA VerdictType ==
  ASSUME NEW w, NEW age
  PROVE  Verdict(w, age) \in {"rejected", "verified", "timedOut", "open"}
BY DEF Verdict

\* Whatever path of the switch verified a window, the window is persuasive.
LEMMA VerifiedIsPersuasive ==
  ASSUME NEW w \in Seq(Score), NEW age, Len(w) <= MaxFrames,
         Verdict(w, age) = "verified"
  PROVE  Persuasive(w)
<1>1. PassesFast(w) \/ PassesSlow(w)
  BY DEF Verdict
<1>2. Total(w) \in Int /\ Len(w) \in Nat
  <2>1. \A i \in Nat : ScoreAt(w, i) \in Int
    BY ScoreIsInt DEF ScoreAt
  <2>2. QED BY <2>1 DEF Total
<1>3. CASE PassesFast(w)
  BY <1>2, <1>3 DEF PassesFast, Persuasive, AverageAtLeast, LiveVotes,
     FastFrames, FastPassThreshold, PassThreshold
<1>4. CASE PassesSlow(w)
  BY <1>2, <1>4 DEF PassesSlow, Persuasive, AverageAtLeast, LiveVotes,
     FastFrames, MinFrames
<1>5. QED BY <1>1, <1>3, <1>4

\* A window of liveness scores as recognition_track.go keeps it.
Window == {w \in Seq(Score) : Len(w) <= MaxFrames}

\* No frame of v was judged less live than the same frame of w.
NoWorse(v, w) == Len(v) = Len(w) /\ \A i \in DOMAIN w : w[i] <= v[i]

\* What the averages compare: numbers, and larger for the better window.
LEMMA TotalFacts ==
  ASSUME NEW w \in Window, NEW v \in Window, NoWorse(v, w)
  PROVE  /\ Total(w) \in Int /\ Total(v) \in Int /\ Total(w) <= Total(v)
         /\ Len(w) \in Nat /\ Len(v) = Len(w)
<1>1. \A i \in Nat : /\ ScoreAt(w, i) \in Int /\ ScoreAt(v, i) \in Int
                     /\ ScoreAt(w, i) <= ScoreAt(v, i)
  <2> TAKE i \in Nat
  <2>1. /\ w \in Seq(Int) /\ v \in Seq(Int) /\ Len(v) = Len(w)
        /\ \A j \in 1..Len(w) : w[j] <= v[j]
    BY ScoreIsInt DEF Window, NoWorse
  <2>2. QED BY <2>1 DEF ScoreAt
<1> DEFINE a(i) == ScoreAt(w, i)
           b(i) == ScoreAt(v, i)
<1>2. /\ a(1) \in Int /\ a(2) \in Int /\ a(3) \in Int
      /\ a(4) \in Int /\ a(5) \in Int /\ a(6) \in Int
      /\ b(1) \in Int /\ b(2) \in Int /\ b(3) \in Int
      /\ b(4) \in Int /\ b(5) \in Int /\ b(6) \in Int
      /\ a(1) <= b(1) /\ a(2) <= b(2) /\ a(3) <= b(3)
      /\ a(4) <= b(4) /\ a(5) <= b(5) /\ a(6) <= b(6)
  BY <1>1
<1>3. /\ Total(w) = a(1) + a(2) + a(3) + a(4) + a(5) + a(6)
      /\ Total(v) = b(1) + b(2) + b(3) + b(4) + b(5) + b(6)
  BY DEF Total
<1> HIDE DEF a, b
<1>4. Total(w) \in Int /\ Total(v) \in Int /\ Total(w) <= Total(v)
  BY <1>2, <1>3
<1>5. Len(w) \in Nat /\ Len(v) = Len(w)
  BY DEF Window, NoWorse
<1>6. QED BY <1>4, <1>5

\* The better window has no fewer live votes and no more spoof votes.
LEMMA VoteFacts ==
  ASSUME NEW w \in Window, NEW v \in Window, NoWorse(v, w)
  PROVE  /\ LiveVotes(w) \in Nat /\ LiveVotes(v) \in Nat /\ LiveVotes(v) <= Len(v)
         /\ SpoofVotes(w) \in Nat /\ SpoofVotes(v) \in Nat
         /\ LiveVotes(w) <= LiveVotes(v) /\ SpoofVotes(v) <= SpoofVotes(w)
<1>1. /\ DOMAIN w = 1..Len(w) /\ DOMAIN v = DOMAIN w /\ Len(w) \in Nat /\ Len(v) = Len(w)
      /\ \A i \in DOMAIN w : w[i] \in Int /\ v[i] \in Int /\ w[i] <= v[i]
  BY ScoreIsInt DEF Window, NoWorse
<1>2. IsFiniteSet(1..Len(w)) /\ Cardinality(1..Len(w)) = Len(w)
  <2> DEFINE n == Len(w)
  <2>1. n \in Nat BY <1>1
  <2> HIDE DEF n
  <2>2. /\ IsFiniteSet(1..n)
        /\ Cardinality(1..n) = IF 1 > n THEN 0 ELSE n - 1 + 1
    BY <2>1, FS_Interval
  <2>3. IF 1 > n THEN n = 0 ELSE n - 1 + 1 = n
    BY <2>1
  <2>4. Cardinality(1..n) = n
    BY <2>2, <2>3
  <2>5. QED BY <2>2, <2>4 DEF n
<1> DEFINE live(x)  == {i \in DOMAIN x : x[i] >= FrameThreshold}
           spoof(x) == {i \in DOMAIN x : x[i] < SpoofThreshold}
<1>3. /\ live(w) \subseteq live(v) /\ spoof(v) \subseteq spoof(w)
  BY <1>1 DEF FrameThreshold, SpoofThreshold
<1>4. /\ live(w) \subseteq 1..Len(w) /\ live(v) \subseteq 1..Len(w)
      /\ spoof(w) \subseteq 1..Len(w) /\ spoof(v) \subseteq 1..Len(w)
  BY <1>1
<1>5. /\ LiveVotes(w) = Cardinality(live(w)) /\ LiveVotes(v) = Cardinality(live(v))
      /\ SpoofVotes(w) = Cardinality(spoof(w)) /\ SpoofVotes(v) = Cardinality(spoof(v))
  BY DEF LiveVotes, SpoofVotes
<1> HIDE DEF live, spoof
<1>6. /\ IsFiniteSet(live(w)) /\ IsFiniteSet(live(v))
      /\ IsFiniteSet(spoof(w)) /\ IsFiniteSet(spoof(v))
      /\ Cardinality(live(v)) <= Len(w)
  BY <1>2, <1>4, FS_Subset
<1>7. /\ Cardinality(live(w)) <= Cardinality(live(v))
      /\ Cardinality(spoof(v)) <= Cardinality(spoof(w))
  BY <1>3, <1>6, FS_Subset
<1>8. /\ Cardinality(live(w)) \in Nat /\ Cardinality(live(v)) \in Nat
      /\ Cardinality(spoof(w)) \in Nat /\ Cardinality(spoof(v)) \in Nat
  BY <1>6, FS_CardinalityType
<1>9. QED BY <1>1, <1>5, <1>6, <1>7, <1>8

\* Passing carries over to the better window, looking spoofed to the worse one.
LEMMA CasesMonotone ==
  ASSUME NEW w \in Window, NEW v \in Window, NoWorse(v, w)
  PROVE  /\ PassesFast(w) => PassesFast(v)
         /\ PassesSlow(w) => PassesSlow(v)
         /\ LooksSpoofed(v) => LooksSpoofed(w)
<1>1. /\ Total(w) \in Int /\ Total(v) \in Int /\ Total(w) <= Total(v)
      /\ Len(w) \in Nat /\ Len(v) = Len(w)
  BY TotalFacts
<1>2. /\ LiveVotes(w) \in Nat /\ LiveVotes(v) \in Nat /\ LiveVotes(v) <= Len(v)
      /\ SpoofVotes(w) \in Nat /\ SpoofVotes(v) \in Nat
      /\ LiveVotes(w) <= LiveVotes(v) /\ SpoofVotes(v) <= SpoofVotes(w)
  BY VoteFacts
<1>3. PassesFast(w) => PassesFast(v)
  BY <1>1, <1>2 DEF PassesFast, AverageAtLeast, FastFrames, FastPassThreshold
<1>4. PassesSlow(w) => PassesSlow(v)
  BY <1>1, <1>2 DEF PassesSlow, AverageAtLeast, MinFrames, PassThreshold
<1>5. LooksSpoofed(v) => LooksSpoofed(w)
  BY <1>1, <1>2 DEF LooksSpoofed, AverageAtLeast, SpoofThreshold
<1>6. QED BY <1>3, <1>4, <1>5

\* The first two cases of the switch exclude each other: that a spoof is looked
\* for before a pass makes no difference to any window.
THEOREM SpoofExcludesPass ==
  ASSUME NEW w \in Window, LooksSpoofed(w)
  PROVE  ~ PassesFast(w) /\ ~ PassesSlow(w)
<1>1. NoWorse(w, w)
  <2>1. \A i \in DOMAIN w : w[i] \in Int
    BY ScoreIsInt DEF Window
  <2>2. QED BY <2>1 DEF NoWorse
<1>2. Total(w) \in Int /\ Len(w) \in Nat
  BY <1>1, TotalFacts
<1>3. Total(w) < 40 * Len(w) /\ Len(w) >= 3
  BY <1>2 DEF LooksSpoofed, AverageAtLeast, SpoofThreshold
<1>4. ~ (Total(w) >= 80 * Len(w)) /\ ~ (Total(w) >= 68 * Len(w))
  BY <1>2, <1>3
<1>5. QED
  BY <1>4 DEF PassesFast, PassesSlow, AverageAtLeast, FastPassThreshold, PassThreshold

\* The vote is fair: frames that are no less live never turn a verified window
\* into another one, nor a window that is not rejected into a rejected one, and
\* the time between the frames plays no part in either.
THEOREM BetterFramesPass ==
  ASSUME NEW w \in Window, NEW v \in Window, NoWorse(v, w), NEW a, NEW b
  PROVE  /\ Verdict(w, a) = "verified" => Verdict(v, b) = "verified"
         /\ Verdict(v, b) = "rejected" => Verdict(w, a) = "rejected"
<1>1. ASSUME NEW x, NEW age
      PROVE  /\ Verdict(x, age) = "rejected" <=> LooksSpoofed(x)
             /\ Verdict(x, age) = "verified"
                  <=> ~ LooksSpoofed(x) /\ (PassesFast(x) \/ PassesSlow(x))
  BY DEF Verdict
<1>2. /\ PassesFast(w) => PassesFast(v)
      /\ PassesSlow(w) => PassesSlow(v)
      /\ LooksSpoofed(v) => LooksSpoofed(w)
  BY CasesMonotone
<1>3. QED BY <1>1, <1>2

-----------------------------------------------------------------------------
(* Types *)

\* An idle request is a request.
LEMMA IdleType == Idle \in Request
BY CheckinAssumption DEF Idle, Request, Time

\* The sentinel of a missing track is a track.
LEMMA NoTrackType == NoTrack \in Track /\ Len(NoTrack.scores) <= MaxFrames
BY CheckinAssumption DEF NoTrack, Track, Time, MaxFrames

\* The sentinel of a missing row is a row.
LEMMA NoRowType == NoRow \in Row /\ NoRows \in [Days -> Row]
BY DEF NoRow, NoRows, Row

\* What Observe may leave in the map, before it drops the timed-out tracks.
JudgedTrack == [id : Nat, first : Time, last : Time, scores : Seq(Score),
                verdict : {"open", "verified", "rejected", "timedOut"},
                committed : BOOLEAN]

\* One more observation keeps a track a track, its ID and its commitment, never
\* takes a verdict back, and verifies only on a persuasive window.
LEMMA ObservedFacts ==
  ASSUME NEW track \in Track, Len(track.scores) <= MaxFrames,
         NEW score \in Score, NEW now \in Time
  PROVE  LET o == Observed(track, score, now)
         IN  /\ o \in JudgedTrack
             /\ Len(o.scores) <= MaxFrames
             /\ o.id = track.id
             /\ o.committed = track.committed
             /\ track.verdict = "verified" => o.verdict = "verified"
             /\ o.verdict = "verified" /\ track.verdict # "verified"
                  => Persuasive(o.scores)
<1>1. CASE track.verdict # "open"
  BY <1>1 DEF Observed, JudgedTrack, Track
<1>2. CASE track.verdict = "open"
  <2> DEFINE w == Slide(track.scores, score)
             v == Verdict(w, now - track.first)
  <2>1. w \in Seq(Score) /\ Len(w) <= MaxFrames
    BY SlideType DEF Track
  <2>2. v \in {"rejected", "verified", "timedOut", "open"}
    BY VerdictType
  <2>3. v = "verified" => Persuasive(w)
    BY <2>1, VerifiedIsPersuasive
  <2>4. Observed(track, score, now)
          = [track EXCEPT !.last = now, !.scores = w, !.verdict = v]
    BY <1>2 DEF Observed
  <2> HIDE DEF w, v
  <2>5. QED BY <1>2, <2>1, <2>2, <2>3, <2>4 DEF JudgedTrack, Track
<1>3. QED BY <1>1, <1>2

\* A new track is an undecided, uncommitted track with the ID it was given.
LEMMA NewTrackType ==
  ASSUME NEW id \in Nat, NEW now \in Time
  PROVE  /\ NewTrack(id, now) \in Track
         /\ Len(NewTrack(id, now).scores) <= MaxFrames
         /\ NewTrack(id, now).id = id
         /\ NewTrack(id, now).verdict = "open"
         /\ NewTrack(id, now).committed = FALSE
BY NoTrackType DEF NewTrack, NoTrack, Track

-----------------------------------------------------------------------------
(* Observe *)

\* One frame, as every invariant needs it: what it does to the session's
\* tracks, to their IDs and to the decisions the request now holds.
LEMMA ObserveFacts ==
  ASSUME TypeOK, VerdictRemembered, IdsIssued,
         NEW r \in Requests, NEW obs \in Frames, Observe(r, obs)
  PROVE  LET ses  == req[r].session
             T    == tracks'[ses]
             need == req'[r].need
         IN
         /\ tracks' \in [Sessions -> [Students -> Track]]
         /\ \A s \in Students : Len(T[s].scores) <= MaxFrames
         /\ \A o \in Sessions : o # ses => tracks'[o] = tracks[o]
         /\ nextID' \in [Sessions -> Nat]
         /\ \A o \in Sessions : nextID[o] <= nextID'[o]
         /\ req' \in [Requests -> Request]
         /\ \A q \in Requests : q # r => req'[q] = req[q]
         /\ req'[r].session = ses /\ req'[r].pc = "marking"
         /\ passed' \in SUBSET Students /\ passed \subseteq passed'
         /\ \A s \in Students :
              /\ \/ T[s].id = 0
                 \/ T[s].id = tracks[ses][s].id
                 \/ nextID[ses] < T[s].id /\ T[s].id <= nextID'[ses]
              /\ T[s].verdict = "verified" => s \in passed'
              /\ T[s].committed => tracks[ses][s].committed
              /\ T[s].id = tracks[ses][s].id /\ T[s].id # 0
                   /\ T[s].id <= nextID[ses]
                   /\ tracks[ses][s].verdict = "verified"
                   => T[s].verdict = "verified"
              /\ need[s] # 0 => T[s].id = need[s] /\ T[s].verdict = "verified"
         /\ \A s1, s2 \in Students :
              T[s1].id = T[s2].id /\ T[s1].id > nextID[ses] => s1 = s2
<1> DEFINE ses   == req[r].session
           now   == req[r].now
           kept  == Unexpired(tracks[ses], now)
           fresh == {s \in DOMAIN obs : kept[s] = NoTrack}
           n     == Cardinality(fresh)
<1>1. /\ ses \in Sessions /\ now \in Time
      /\ tracks[ses] \in [Students -> Track]
      /\ nextID[ses] \in Nat
      /\ req[r] \in Request
  BY DEF TypeOK, Request
<1>2. /\ DOMAIN obs \subseteq Students
      /\ \A s \in DOMAIN obs : obs[s] \in Score
  BY CheckinAssumption DEF Frames
<1>3. n \in Nat
  <2>1. fresh \subseteq Students BY <1>2
  <2>2. IsFiniteSet(fresh) BY <2>1, CheckinAssumption, FS_Subset
  <2>3. QED BY <2>2, FS_CardinalityType
<1>4. \A s \in Students :
        /\ kept[s] \in Track
        /\ Len(kept[s].scores) <= MaxFrames
        /\ kept[s] = NoTrack \/ kept[s] = tracks[ses][s]
  BY <1>1, NoTrackType DEF Unexpired, TypeOK
<1>5. PICK rank \in [fresh -> 1..n] :
        /\ \A s1, s2 \in fresh : rank[s1] = rank[s2] => s1 = s2
        /\ LET judged == Judged(kept, obs, rank, nextID[ses], now)
           IN
           /\ tracks' = [tracks EXCEPT ![ses] =
                [s \in Students |->
                   IF s \notin DOMAIN obs THEN kept[s]
                   ELSE IF judged[s].verdict = "timedOut" THEN NoTrack
                   ELSE judged[s]]]
           /\ req' = [req EXCEPT ![r].pc = "marking",
                ![r].need =
                  [s \in Students |->
                     IF s \in DOMAIN obs /\ NeedsAttendance(judged[s])
                     THEN judged[s].id ELSE 0]]
           /\ passed' = passed \cup
                {s \in DOMAIN obs : /\ judged[s].verdict = "verified"
                                    /\ Persuasive(judged[s].scores)}
  BY DEF Observe
<1>6. nextID' = [nextID EXCEPT ![ses] = @ + n]
  BY DEF Observe
<1> DEFINE judged == Judged(kept, obs, rank, nextID[ses], now)
           start(s) == IF kept[s] = NoTrack THEN NewTrack(nextID[ses] + rank[s], now)
                       ELSE kept[s]
<1>7. ASSUME NEW s \in DOMAIN obs
      PROVE  /\ start(s) \in Track
             /\ Len(start(s).scores) <= MaxFrames
             /\ s \in fresh => /\ start(s).id = nextID[ses] + rank[s]
                               /\ start(s).verdict = "open"
                               /\ start(s).committed = FALSE
             /\ s \notin fresh => start(s) = tracks[ses][s]
  <2>1. CASE s \in fresh
    <3>1. nextID[ses] + rank[s] \in Nat
      <4>1. rank[s] \in 1..n BY <2>1
      <4> HIDE DEF n, ses
      <4>2. QED BY <1>1, <1>3, <4>1
    <3>2. start(s) = NewTrack(nextID[ses] + rank[s], now)
      BY <2>1
    <3>3. QED BY <1>1, <2>1, <3>1, <3>2, NewTrackType
  <2>2. CASE s \notin fresh
    BY <1>2, <1>4, <2>2
  <2>3. QED BY <2>1, <2>2
<1>8. ASSUME NEW s \in DOMAIN obs
      PROVE  /\ judged[s] \in JudgedTrack
             /\ Len(judged[s].scores) <= MaxFrames
             /\ judged[s].id = start(s).id
             /\ judged[s].committed = start(s).committed
             /\ start(s).verdict = "verified" => judged[s].verdict = "verified"
             /\ judged[s].verdict = "verified" /\ start(s).verdict # "verified"
                  => Persuasive(judged[s].scores)
  <2>1. judged[s] = Observed(start(s), obs[s], now)
    BY DEF Judged
  <2>2. PICK t \in Track : t = start(s) /\ Len(t.scores) <= MaxFrames
    BY <1>7
  <2>3. judged[s] = Observed(t, obs[s], now)
    BY <2>1, <2>2
  <2>4. obs[s] \in Score /\ now \in Time
    BY <1>1, <1>2
  <2> HIDE DEF start, judged, now
  <2>5. QED BY <2>2, <2>3, <2>4, ObservedFacts
<1> DEFINE T == tracks'[ses]
<1>9. \A s \in Students :
        T[s] = IF s \notin DOMAIN obs THEN kept[s]
               ELSE IF judged[s].verdict = "timedOut" THEN NoTrack
               ELSE judged[s]
  BY <1>1, <1>5 DEF TypeOK
<1>10. passed' = passed \cup {s \in DOMAIN obs : /\ judged[s].verdict = "verified"
                                                 /\ Persuasive(judged[s].scores)}
  BY <1>5
<1>11. \A s \in Students :
         req'[r].need[s] = IF s \in DOMAIN obs /\ NeedsAttendance(judged[s])
                           THEN judged[s].id ELSE 0
  BY <1>1, <1>5 DEF TypeOK, Request
<1> HIDE DEF judged, start, kept, fresh, n
<1>12. ASSUME NEW s \in Students
       PROVE  T[s] \in Track /\ Len(T[s].scores) <= MaxFrames
  <2>1. CASE s \in DOMAIN obs /\ judged[s].verdict # "timedOut"
    <3>1. judged[s] \in JudgedTrack /\ Len(judged[s].scores) <= MaxFrames
      BY <1>8, <2>1
    <3>2. judged[s] \in Track
      BY <2>1, <3>1 DEF JudgedTrack, Track
    <3>3. T[s] = judged[s]
      BY <1>9, <2>1
    <3>4. QED BY <3>1, <3>2, <3>3
  <2>2. CASE ~ (s \in DOMAIN obs /\ judged[s].verdict # "timedOut")
    <3>1. T[s] = kept[s] \/ T[s] = NoTrack
      BY <1>9, <2>2
    <3>2. QED BY <1>4, <3>1, NoTrackType
  <2>3. QED BY <2>1, <2>2
<1>13. \A s \in DOMAIN obs : judged[s].verdict = "verified" => s \in passed'
  <2> SUFFICES ASSUME NEW s \in DOMAIN obs, judged[s].verdict = "verified"
               PROVE  s \in passed'
    OBVIOUS
  <2>1. CASE start(s).verdict = "verified"
    <3>1. s \notin fresh /\ start(s) = tracks[ses][s]
      BY <1>7, <2>1
    <3>2. QED BY <1>1, <1>2, <1>10, <2>1, <3>1 DEF VerdictRemembered
  <2>2. CASE start(s).verdict # "verified"
    BY <1>8, <1>10, <2>2
  <2>3. QED BY <2>1, <2>2
<1>14. /\ tracks' \in [Sessions -> [Students -> Track]]
       /\ \A o \in Sessions : o # ses => tracks'[o] = tracks[o]
  <2>1. tracks' = [tracks EXCEPT ![ses] = [s \in Students |->
                    IF s \notin DOMAIN obs THEN kept[s]
                    ELSE IF judged[s].verdict = "timedOut" THEN NoTrack
                    ELSE judged[s]]]
    BY <1>5 DEF judged
  <2>2. T = [s \in Students |->
               IF s \notin DOMAIN obs THEN kept[s]
               ELSE IF judged[s].verdict = "timedOut" THEN NoTrack
               ELSE judged[s]]
    BY <1>1, <2>1 DEF TypeOK
  <2>3. T \in [Students -> Track]
    BY <1>9, <1>12, <2>2
  <2>4. QED BY <1>1, <2>1, <2>3 DEF TypeOK
<1>15. /\ nextID' \in [Sessions -> Nat]
       /\ \A o \in Sessions : nextID[o] <= nextID'[o]
       /\ nextID'[ses] = nextID[ses] + n
  BY <1>1, <1>3, <1>6 DEF TypeOK
<1>16. /\ req' \in [Requests -> Request]
       /\ \A q \in Requests : q # r => req'[q] = req[q]
       /\ req'[r].session = ses /\ req'[r].pc = "marking"
  <2> DEFINE need == [s \in Students |->
                        IF s \in DOMAIN obs /\ NeedsAttendance(judged[s])
                        THEN judged[s].id ELSE 0]
  <2>1. req' = [req EXCEPT ![r].pc = "marking", ![r].need = need]
    BY <1>5 DEF judged
  <2>2. need \in [Students -> Nat]
    BY <1>8 DEF JudgedTrack
  <2> HIDE DEF need
  <2>3. QED BY <1>1, <2>1, <2>2 DEF TypeOK, Request
<1>17. passed' \in SUBSET Students /\ passed \subseteq passed'
  BY <1>2, <1>10 DEF TypeOK
<1>18. \A s \in DOMAIN obs :
         \/ s \in fresh /\ judged[s].id = nextID[ses] + rank[s] /\ rank[s] \in 1..n
         \/ s \notin fresh /\ judged[s].id = tracks[ses][s].id
  BY <1>5, <1>7, <1>8
<1>19. NoTrack.id = 0 /\ NoTrack.verdict = "open" /\ NoTrack.committed = FALSE
  BY DEF NoTrack
<1>20. ASSUME NEW s \in Students
       PROVE  /\ \/ T[s].id = 0
                 \/ T[s].id = tracks[ses][s].id
                 \/ /\ s \in fresh /\ rank[s] \in 1..n
                    /\ T[s].id = nextID[ses] + rank[s]
              /\ T[s].verdict = "verified" => s \in passed'
              /\ T[s].committed => tracks[ses][s].committed
              /\ T[s].id = tracks[ses][s].id /\ T[s].id # 0
                   /\ T[s].id <= nextID[ses]
                   /\ tracks[ses][s].verdict = "verified"
                   => T[s].verdict = "verified"
              /\ req'[r].need[s] # 0
                   => T[s].id = req'[r].need[s] /\ T[s].verdict = "verified"
  <2>1. CASE s \notin DOMAIN obs
    <3>1. T[s] = kept[s] /\ req'[r].need[s] = 0
      BY <1>9, <1>11, <2>1
    <3>2. QED BY <1>1, <1>4, <1>17, <1>19, <3>1 DEF VerdictRemembered
  <2>2. CASE s \in DOMAIN obs /\ judged[s].verdict = "timedOut"
    <3>1. T[s] = NoTrack /\ req'[r].need[s] = 0
      BY <1>9, <1>11, <2>2 DEF NeedsAttendance
    <3>2. QED BY <1>19, <3>1
  <2>3. CASE s \in DOMAIN obs /\ judged[s].verdict # "timedOut"
    <3>1. /\ T[s] = judged[s]
          /\ req'[r].need[s] = IF NeedsAttendance(judged[s]) THEN judged[s].id ELSE 0
      BY <1>9, <1>11, <2>3
    <3>2. CASE s \in fresh
      <4>1. rank[s] \in 1..n /\ judged[s].id = nextID[ses] + rank[s]
            /\ judged[s].committed = FALSE
        BY <1>7, <1>8, <1>18, <2>3, <3>2
      <4>2. judged[s].id > nextID[ses]
        BY <1>1, <1>3, <4>1
      <4>3. QED BY <1>1, <1>13, <2>3, <3>1, <3>2, <4>1, <4>2 DEF NeedsAttendance
    <3>3. CASE s \notin fresh
      BY <1>7, <1>8, <1>13, <2>3, <3>1, <3>3 DEF NeedsAttendance
    <3>4. QED BY <3>2, <3>3
  <2>4. QED BY <2>1, <2>2, <2>3
<1>21. ASSUME NEW s1 \in Students, NEW s2 \in Students,
              T[s1].id = T[s2].id, T[s1].id > nextID[ses], IdsIssued
       PROVE  s1 = s2
  <2>1. tracks[ses][s1].id <= nextID[ses] /\ tracks[ses][s2].id <= nextID[ses]
    BY <1>1, <1>21 DEF IdsIssued
  <2>2. /\ tracks[ses][s1].id \in Nat /\ tracks[ses][s2].id \in Nat
    BY <1>1 DEF Track
  <2>3. /\ s1 \in fresh /\ T[s1].id = nextID[ses] + rank[s1] /\ rank[s1] \in 1..n
        /\ s2 \in fresh /\ T[s2].id = nextID[ses] + rank[s2] /\ rank[s2] \in 1..n
    <3>1. ASSUME NEW s \in Students, T[s].id > nextID[ses],
                 tracks[ses][s].id <= nextID[ses], tracks[ses][s].id \in Nat
          PROVE  s \in fresh /\ T[s].id = nextID[ses] + rank[s] /\ rank[s] \in 1..n
      <4>1. T[s].id # 0 /\ T[s].id # tracks[ses][s].id
        <5>1. T[s].id \in Nat /\ nextID[ses] \in Nat
          BY <1>1, <1>12 DEF Track
        <5> HIDE DEF T, ses
        <5>2. QED BY <3>1, <5>1
      <4>2. QED BY <1>20, <4>1
    <3>2. T[s1].id > nextID[ses] /\ T[s2].id > nextID[ses]
      BY <1>21
    <3> HIDE DEF T, ses
    <3>3. QED BY <2>1, <2>2, <3>1, <3>2
  <2>4. rank[s1] = rank[s2]
    <3>1. rank[s1] \in Nat /\ rank[s2] \in Nat
      BY <1>3, <2>3
    <3>2. nextID[ses] + rank[s1] = nextID[ses] + rank[s2]
      BY <1>21, <2>3
    <3> HIDE DEF ses
    <3>3. QED BY <1>1, <3>1, <3>2
  <2>5. QED BY <1>5, <2>3, <2>4
<1>22. \A s \in Students :
         \/ T[s].id = 0
         \/ T[s].id = tracks[ses][s].id
         \/ nextID[ses] < T[s].id /\ T[s].id <= nextID'[ses]
  <2> SUFFICES ASSUME NEW s \in Students,
                      s \in fresh, rank[s] \in 1..n, T[s].id = nextID[ses] + rank[s]
               PROVE  nextID[ses] < T[s].id /\ T[s].id <= nextID'[ses]
    BY <1>20
  <2>1. nextID'[ses] = nextID[ses] + n /\ nextID[ses] \in Nat
    BY <1>1, <1>15
  <2> HIDE DEF T, ses
  <2>2. QED BY <1>3, <2>1
<1> HIDE DEF T, ses, now
<1>23. QED
  BY <1>12, <1>14, <1>15, <1>16, <1>17, <1>20, <1>21, <1>22 DEF T, ses

-----------------------------------------------------------------------------
(* The inductive invariant, action by action *)

\* The empty server satisfies the invariant.
LEMMA InitIInv == Init => IInv
<1> SUFFICES ASSUME Init PROVE IInv
  OBVIOUS
<1>1. TypeOK
  BY CheckinAssumption, IdleType, NoTrackType, NoRowType DEF Init, TypeOK, Time
<1>2. IdsIssued /\ IdsOwned /\ VerdictRemembered /\ CommittedIsRecorded
  BY CheckinAssumption DEF Init, IdsIssued, IdsOwned, VerdictRemembered,
     CommittedIsRecorded, NoTrack, Idle
<1>3. WorkInHand /\ AttendanceNeedsVote /\ MarkingFollowsVerdict /\ NoOrphanRows
  BY DEF Init, WorkInHand, AttendanceNeedsVote, MarkingFollowsVerdict,
     NoOrphanRows, Idle, NoTrack, NoRows
<1>4. QED BY <1>1, <1>2, <1>3 DEF IInv

\* Starting a request changes that request only, and gives it nothing to mark.
LEMMA BeginIInv ==
  ASSUME IInv, NEW r \in Requests, NEW ses \in Sessions, Begin(r, ses)
  PROVE  IInv'
<1>1. PICK new \in Request : /\ req' = [req EXCEPT ![r] = new]
                             /\ new.pc = "detecting"
                             /\ \A s \in Students : new.need[s] = 0
  <2>1. [Idle EXCEPT !.pc = "detecting", !.session = ses, !.now = clock] \in Request
    BY IdleType DEF IInv, TypeOK, Request
  <2>2. QED BY <2>1 DEF Begin, Idle
<1>2. UNCHANGED <<clock, enrolled, tracks, nextID, attendance, faults, passed, sighted>>
  BY DEF Begin
<1>3. TypeOK'
  BY <1>1, <1>2 DEF IInv, TypeOK
<1>4. (IdsIssued /\ IdsOwned /\ VerdictRemembered /\ CommittedIsRecorded)'
  BY <1>1, <1>2 DEF IInv, TypeOK, Request, IdsIssued, IdsOwned, VerdictRemembered,
     CommittedIsRecorded
<1>5. (WorkInHand /\ AttendanceNeedsVote /\ MarkingFollowsVerdict /\ NoOrphanRows)'
  BY <1>1, <1>2 DEF IInv, TypeOK, WorkInHand, AttendanceNeedsVote,
     MarkingFollowsVerdict, NoOrphanRows
<1>6. QED BY <1>3, <1>4, <1>5 DEF IInv

\* A frame: the facts of ObserveFacts carry every part over.
LEMMA ObserveIInv ==
  ASSUME IInv, NEW r \in Requests, NEW obs \in Frames, Observe(r, obs)
  PROVE  IInv'
<1>1. UNCHANGED <<clock, enrolled, attendance, faults>>
  BY DEF Observe
<1>2. TypeOK /\ IdsIssued /\ VerdictRemembered
  BY DEF IInv
<1> DEFINE ses  == req[r].session
           T    == tracks'[ses]
           need == req'[r].need
<1>3. /\ tracks' \in [Sessions -> [Students -> Track]]
      /\ \A s \in Students : Len(T[s].scores) <= MaxFrames
      /\ \A o \in Sessions : o # ses => tracks'[o] = tracks[o]
      /\ nextID' \in [Sessions -> Nat]
      /\ \A o \in Sessions : nextID[o] <= nextID'[o]
      /\ req' \in [Requests -> Request]
      /\ \A q \in Requests : q # r => req'[q] = req[q]
      /\ req'[r].session = ses /\ req'[r].pc = "marking"
      /\ passed' \in SUBSET Students /\ passed \subseteq passed'
      /\ \A s \in Students :
           /\ \/ T[s].id = 0
              \/ T[s].id = tracks[ses][s].id
              \/ nextID[ses] < T[s].id /\ T[s].id <= nextID'[ses]
           /\ T[s].verdict = "verified" => s \in passed'
           /\ T[s].committed => tracks[ses][s].committed
           /\ T[s].id = tracks[ses][s].id /\ T[s].id # 0
                /\ T[s].id <= nextID[ses]
                /\ tracks[ses][s].verdict = "verified"
                => T[s].verdict = "verified"
           /\ need[s] # 0 => T[s].id = need[s] /\ T[s].verdict = "verified"
      /\ \A s1, s2 \in Students :
           T[s1].id = T[s2].id /\ T[s1].id > nextID[ses] => s1 = s2
  BY <1>2, ObserveFacts
<1>others. /\ \A q \in Requests : q # r => req'[q] = req[q]
           /\ \A o \in Sessions : o # ses => tracks'[o] = tracks[o]
  BY <1>3
<1>ids. ASSUME NEW s \in Students
        PROVE  \/ T[s].id = 0
               \/ T[s].id = tracks[ses][s].id
               \/ nextID[ses] < T[s].id /\ T[s].id <= nextID'[ses]
  BY <1>3
<1>new. ASSUME NEW s1 \in Students, NEW s2 \in Students,
               T[s1].id = T[s2].id, T[s1].id > nextID[ses]
        PROVE  s1 = s2
  BY <1>3, <1>new
<1>kept. ASSUME NEW s \in Students,
                T[s].id = tracks[ses][s].id, T[s].id # 0, T[s].id <= nextID[ses],
                tracks[ses][s].verdict = "verified"
         PROVE  T[s].verdict = "verified"
  BY <1>3, <1>kept
<1>need. ASSUME NEW s \in Students, need[s] # 0
         PROVE  T[s].id = need[s] /\ T[s].verdict = "verified"
  BY <1>3, <1>need
<1>own. req'[r].session = ses /\ req'[r].need = need
  BY <1>3
<1>4. /\ ses \in Sessions
      /\ \A o \in Sessions, s \in Students : /\ tracks[o][s].id \in Nat
                                             /\ tracks'[o][s].id \in Nat
      /\ \A o \in Sessions : nextID[o] \in Nat /\ nextID'[o] \in Nat
      /\ \A q \in Requests : /\ req[q].session \in Sessions
                             /\ \A s \in Students : /\ req[q].need[s] \in Nat
                                                    /\ req'[q].need[s] \in Nat
  <2>1. ses \in Sessions
    BY <1>2 DEF TypeOK, Request
  <2>2. \A o \in Sessions, s \in Students : tracks[o][s].id \in Nat
    BY <1>2 DEF TypeOK, Track
  <2>3. \A o \in Sessions, s \in Students : tracks'[o][s].id \in Nat
    BY <1>3 DEF Track
  <2>4. \A o \in Sessions : nextID[o] \in Nat /\ nextID'[o] \in Nat
    BY <1>2, <1>3 DEF TypeOK
  <2>5. \A q \in Requests : /\ req[q].session \in Sessions
                            /\ \A s \in Students : req[q].need[s] \in Nat
    BY <1>2 DEF TypeOK, Request
  <2>6. \A q \in Requests, s \in Students : req'[q].need[s] \in Nat
    BY <1>3 DEF Request
  <2>7. QED BY <2>1, <2>2, <2>3, <2>4, <2>5, <2>6
\* A track that has an ID handed out earlier had it before the frame.
<1>handed. ASSUME NEW o \in Sessions, NEW s \in Students, NEW id,
                  tracks'[o][s].id = id, id # 0, id <= nextID[o]
           PROVE  tracks[o][s].id = id
  <2>1. CASE o = ses
    <3>1. T[s].id # 0 /\ ~ (nextID[ses] < T[s].id)
      <4>1. T[s].id = id /\ id \in Nat /\ nextID[ses] \in Nat
        BY <1>4, <1>handed, <2>1
      <4>2. id <= nextID[ses] /\ id # 0
        BY <1>handed, <2>1
      <4> DEFINE top == nextID[ses]
      <4>3. top \in Nat /\ id <= top
        BY <4>1, <4>2
      <4> HIDE DEF T, ses, top
      <4>4. ~ (top < id)
        BY <4>1, <4>3
      <4>5. QED BY <4>1, <4>2, <4>4 DEF top
    <3>2. T[s].id = tracks[ses][s].id
      BY <1>ids, <3>1
    <3>3. QED BY <1>handed, <2>1, <3>2
  <2>2. CASE o # ses
    BY <1>handed, <1>others, <2>2
  <2>3. QED BY <2>1, <2>2
<1>5. TypeOK'
  <2>1. req[r].now \in Time
    BY <1>2 DEF TypeOK, Request
  <2>2. sighted' \in [Sessions -> [Students -> Time]]
    <3> DEFINE now  == req[r].now
               seen == [s \in Students |-> IF s \in DOMAIN obs /\ now > sighted[ses][s]
                                          THEN now ELSE sighted[ses][s]]
    <3>1. sighted' = [sighted EXCEPT ![ses] = seen]
      BY DEF Observe
    <3>2. seen \in [Students -> Time]
      BY <1>2, <2>1 DEF TypeOK, Request
    <3> HIDE DEF seen, ses
    <3>3. QED BY <1>2, <3>1, <3>2 DEF TypeOK
  <2>3. QED BY <1>1, <1>2, <1>3, <2>2 DEF TypeOK
<1>6. IdsIssued'
  <2>1. \A o \in Sessions, s \in Students : tracks'[o][s].id <= nextID'[o]
    <3> TAKE o \in Sessions, s \in Students
    <3>1. tracks[o][s].id <= nextID[o] /\ nextID[o] <= nextID'[o]
      BY <1>2, <1>3 DEF IdsIssued
    <3>2. CASE o = ses
      <4>1. \/ T[s].id = 0
            \/ T[s].id = tracks[ses][s].id
            \/ T[s].id <= nextID'[ses]
        BY <1>3
      <4> HIDE DEF ses
      <4>2. QED BY <1>4, <3>1, <3>2, <4>1
    <3>3. CASE o # ses
      BY <1>3, <1>4, <3>1, <3>3
    <3>4. QED BY <3>2, <3>3
  <2>2. \A q \in Requests, s \in Students :
          req'[q].need[s] <= nextID'[req'[q].session]
    <3> TAKE q \in Requests, s \in Students
    <3>1. CASE q = r
      BY <1>3, <1>4, <2>1, <3>1
    <3>2. CASE q # r
      BY <1>2, <1>3, <1>4, <3>2 DEF IdsIssued
    <3>3. QED BY <3>1, <3>2
  <2>3. QED BY <2>1, <2>2 DEF IdsIssued
<1>7. IdsOwned'
  <2>1. \A o \in Sessions, s1, s2 \in Students :
          tracks'[o][s1].id = tracks'[o][s2].id /\ tracks'[o][s1].id # 0 => s1 = s2
    <3> TAKE o \in Sessions, s1, s2 \in Students
    <3>1. CASE o = ses
      <4> SUFFICES ASSUME T[s1].id = T[s2].id, T[s1].id # 0
                   PROVE  s1 = s2
        BY <3>1
      <4>1. /\ tracks[ses][s1].id <= nextID[ses]
            /\ tracks[ses][s2].id <= nextID[ses]
        BY <1>2, <1>4 DEF IdsIssued
      <4>2. T[s1].id \in Nat /\ nextID[ses] \in Nat
        BY <1>4
      <4>3. CASE T[s1].id > nextID[ses]
        BY <1>new, <4>3
      <4>4. CASE ~ (T[s1].id > nextID[ses])
        <5>1. T[s1].id = tracks[ses][s1].id
          <6>1. ~ (nextID[ses] < T[s1].id)
            BY <4>2, <4>4
          <6>2. QED BY <1>ids, <6>1
        <5>2. T[s2].id = tracks[ses][s2].id
          <6>1. ~ (nextID[ses] < T[s2].id)
            BY <4>2, <4>4
          <6>2. QED BY <1>ids, <6>1
        <5> HIDE DEF T, ses
        <5>3. tracks[ses][s1].id = tracks[ses][s2].id /\ tracks[ses][s1].id # 0
          BY <5>1, <5>2
        <5>4. QED BY <1>4, <5>3 DEF IInv, IdsOwned
      <4>5. QED BY <4>3, <4>4
    <3>2. CASE o # ses
      <4>1. tracks'[o] = tracks[o]
        BY <1>others, <3>2
      <4>2. QED BY <4>1 DEF IInv, IdsOwned
    <3>3. QED BY <3>1, <3>2
  <2>2. \A q \in Requests, s1, s2 \in Students :
          /\ req'[q].need[s2] # 0
          /\ tracks'[req'[q].session][s1].id = req'[q].need[s2]
          => s1 = s2
    <3> SUFFICES ASSUME NEW q \in Requests, NEW s1 \in Students, NEW s2 \in Students,
                        req'[q].need[s2] # 0,
                        tracks'[req'[q].session][s1].id = req'[q].need[s2]
                 PROVE  s1 = s2
      OBVIOUS
    <3>1. CASE q = r
      <4>1. need[s2] # 0 /\ T[s1].id = need[s2]
        BY <1>own, <3>1
      <4>2. T[s2].id = need[s2]
        BY <1>need, <4>1
      <4> HIDE DEF T, need
      <4>3. T[s1].id = T[s2].id /\ T[s1].id # 0
        BY <4>1, <4>2
      <4>4. QED BY <1>4, <2>1, <4>3 DEF T
    <3>2. CASE q # r
      <4>1. req'[q] = req[q]
        BY <1>others, <3>2
      <4>2. req[q].need[s2] <= nextID[req[q].session]
        BY <1>2 DEF IdsIssued
      <4>3. /\ tracks'[req[q].session][s1].id = req[q].need[s2]
            /\ req[q].need[s2] # 0 /\ req[q].session \in Sessions
        BY <1>4, <4>1
      <4>4. tracks[req[q].session][s1].id = req[q].need[s2]
        BY <1>handed, <4>2, <4>3
      <4>5. QED BY <4>3, <4>4 DEF IInv, IdsOwned
    <3>3. QED BY <3>1, <3>2
  <2>3. QED BY <2>1, <2>2 DEF IdsOwned
<1>8. WorkInHand'
  <2>1. req'[r].pc = "marking"
    BY <1>3
  <2>2. QED BY <1>1, <1>others, <2>1 DEF IInv, WorkInHand
<1>9. VerdictRemembered'
  BY <1>2, <1>3 DEF VerdictRemembered
<1>10. AttendanceNeedsVote'
  <2>1. \A s \in Students : req'[r].need[s] # 0 => s \in passed'
    BY <1>3
  <2>2. QED BY <1>1, <1>3, <2>1 DEF IInv, AttendanceNeedsVote
<1>11. MarkingFollowsVerdict'
  <2> SUFFICES ASSUME NEW q \in Requests, NEW s \in Students,
                      req'[q].need[s] # 0,
                      tracks'[req'[q].session][s].id = req'[q].need[s]
               PROVE  tracks'[req'[q].session][s].verdict = "verified"
    BY DEF MarkingFollowsVerdict
  <2>1. CASE q = r
    <3>1. need[s] # 0
      BY <1>own, <2>1
    <3>2. T[s].verdict = "verified"
      BY <1>need, <3>1
    <3>3. QED BY <1>own, <2>1, <3>2
  <2>2. CASE q # r
    <3>1. req'[q] = req[q]
      BY <1>others, <2>2
    <3>2. req[q].need[s] <= nextID[req[q].session]
      BY <1>2 DEF IdsIssued
    <3>3. req[q].session \in Sessions
      BY <1>4
    <3>4. tracks[req[q].session][s].id = req[q].need[s]
      BY <1>handed, <3>1, <3>2, <3>3
    <3>5. tracks[req[q].session][s].verdict = "verified"
      BY <3>1, <3>4 DEF IInv, MarkingFollowsVerdict
    <3>6. CASE req[q].session = ses
      <4>1. /\ T[s].id = tracks[ses][s].id /\ T[s].id # 0 /\ T[s].id <= nextID[ses]
            /\ tracks[ses][s].verdict = "verified"
        BY <3>1, <3>2, <3>4, <3>5, <3>6
      <4>2. T[s].verdict = "verified"
        BY <1>kept, <4>1
      <4>3. QED BY <3>1, <3>6, <4>2
    <3>7. CASE req[q].session # ses
      BY <1>others, <3>1, <3>3, <3>5, <3>7
    <3>8. QED BY <3>6, <3>7
  <2>3. QED BY <2>1, <2>2
<1>12. CommittedIsRecorded'
  BY <1>1, <1>3 DEF IInv, CommittedIsRecorded
<1>13. NoOrphanRows'
  BY <1>1 DEF IInv, NoOrphanRows
<1>14. QED
  BY <1>5, <1>6, <1>7, <1>8, <1>9, <1>10, <1>11, <1>12, <1>13 DEF IInv

\* Commit marks the one track with the ID, which is the tracked student's own.
LEMMA CommitIInv ==
  ASSUME IInv, NEW r \in Requests, Commit(r)
  PROVE  IInv'
<1> DEFINE ses == req[r].session
           who == req[r].who
           id  == req[r].need[who]
<1>1. /\ UNCHANGED <<clock, enrolled, nextID, attendance, faults, passed, sighted>>
      /\ tracks' = [tracks EXCEPT ![ses] =
           [s \in Students |-> IF tracks[ses][s].id = id
                               THEN [tracks[ses][s] EXCEPT !.committed = TRUE]
                               ELSE tracks[ses][s]]]
      /\ req' = [req EXCEPT ![r].pc = "marking", ![r].need[who] = 0]
      /\ req[r].pc = "commit"
  BY DEF Commit
<1>2. TypeOK
  BY DEF IInv
<1>3. ses \in Sessions /\ who \in Students /\ id \in Nat
  BY <1>2 DEF TypeOK, Request
<1>4. TypeOK'
  <2>1. req' \in [Requests -> Request]
    <3> DEFINE new == [req[r] EXCEPT !.pc = "marking", !.need[who] = 0]
    <3>1. req[r] \in Request /\ req[r].need \in [Students -> Nat]
      BY <1>2 DEF TypeOK, Request
    <3>2. [req[r].need EXCEPT ![who] = 0] \in [Students -> Nat]
      BY <1>3, <3>1
    <3>3. new \in Request
      BY <3>1, <3>2 DEF Request
    <3>4. req' = [req EXCEPT ![r] = new]
      BY <1>1
    <3> HIDE DEF new
    <3>5. QED BY <1>2, <3>3, <3>4 DEF TypeOK
  <2>2. \A s \in Students : /\ tracks[ses][s] \in Track
                             /\ [tracks[ses][s] EXCEPT !.committed = TRUE] \in Track
    <3>1. \A s \in Students : tracks[ses][s] \in Track
      BY <1>2, <1>3 DEF TypeOK
    <3>2. \A x \in Track : [x EXCEPT !.committed = TRUE] \in Track
      BY DEF Track
    <3> HIDE DEF ses
    <3>3. QED BY <3>1, <3>2
  <2>3. tracks' \in [Sessions -> [Students -> Track]]
    BY <1>1, <1>2, <1>3, <2>2 DEF TypeOK
  <2>4. \A o \in Sessions, s \in Students : Len(tracks'[o][s].scores) <= MaxFrames
    <3>1. \A o \in Sessions, s \in Students : tracks'[o][s].scores = tracks[o][s].scores
      BY <1>1, <1>2, <1>3, <2>2 DEF TypeOK
    <3>2. QED BY <1>2, <3>1 DEF TypeOK
  <2>5. QED BY <1>1, <1>2, <2>1, <2>3, <2>4 DEF TypeOK
<1>5. \A o \in Sessions, s \in Students :
        /\ tracks'[o][s].id = tracks[o][s].id
        /\ tracks'[o][s].verdict = tracks[o][s].verdict
        /\ tracks'[o][s].committed
             => tracks[o][s].committed \/ (o = ses /\ tracks[o][s].id = id)
  BY <1>1, <1>2, <1>3 DEF TypeOK, Track
<1>6. \A q \in Requests, s \in Students :
        /\ req'[q].session = req[q].session
        /\ req'[q].need[s] = req[q].need[s] \/ req'[q].need[s] = 0
        /\ q # r => req'[q] = req[q]
        /\ req'[r].pc = "marking"
  BY <1>1, <1>2, <1>3 DEF TypeOK, Request
<1>7. /\ nextID' = nextID
      /\ \A o \in Sessions : nextID[o] \in Nat
      /\ \A q \in Requests : req[q].session \in Sessions
  BY <1>1, <1>2 DEF TypeOK, Request
<1> HIDE DEF ses, who, id
<1>8. IdsIssued'
  BY <1>5, <1>6, <1>7 DEF IInv, IdsIssued
<1>9. IdsOwned'
  BY <1>5, <1>6, <1>7 DEF IInv, IdsOwned
<1>10. WorkInHand'
  <2>1. \A q \in Requests : q = r \/ req'[q] = req[q]
    BY <1>6, CheckinAssumption
  <2>2. req'[r].pc = "marking"
    BY <1>6, CheckinAssumption
  <2>3. UNCHANGED <<enrolled, attendance>>
    BY <1>1
  <2>4. \A q \in Requests :
          /\ req'[q].pc \in {"update", "select", "commit"} => req'[q].need[req'[q].who] # 0
          /\ req'[q].pc = "commit" /\ req'[q].who \in enrolled
               => attendance[req'[q].who][Day(req'[q].now)] # NoRow
    BY <2>1, <2>2 DEF IInv, WorkInHand
  <2>5. QED BY <2>3, <2>4 DEF WorkInHand
<1>11. VerdictRemembered'
  BY <1>1, <1>5 DEF IInv, VerdictRemembered
<1>12. AttendanceNeedsVote'
  <2>1. UNCHANGED <<attendance, passed>>
    BY <1>1
  <2>2. \A q \in Requests, s \in Students :
          req'[q].need[s] = req[q].need[s] \/ req'[q].need[s] = 0
    BY <1>6
  <2>3. QED BY <2>1, <2>2 DEF IInv, AttendanceNeedsVote
<1>13. MarkingFollowsVerdict'
  BY <1>5, <1>6, <1>7 DEF IInv, MarkingFollowsVerdict
<1>14. CommittedIsRecorded'
  <2> SUFFICES ASSUME NEW o \in Sessions, NEW s \in Students,
                      tracks'[o][s].committed, s \in enrolled'
               PROVE  \E d \in Days : attendance'[s][d] # NoRow
    BY DEF CommittedIsRecorded
  <2>1. CASE tracks[o][s].committed
    BY <1>1, <2>1 DEF IInv, CommittedIsRecorded
  <2>2. CASE o = ses /\ tracks[o][s].id = id
    <3>1. id # 0
      BY <1>1 DEF IInv, WorkInHand, id, who
    <3>2. s = who
      BY <1>3, <2>2, <3>1 DEF IInv, IdsOwned, id, ses
    <3>3. attendance[who][Day(req[r].now)] # NoRow
      BY <1>1, <3>2 DEF IInv, WorkInHand, who
    <3>4. Day(req[r].now) \in Days
      BY DEF Day, Days
    <3>5. QED BY <1>1, <3>2, <3>3, <3>4
  <2>3. QED BY <1>5, <2>1, <2>2
<1>15. NoOrphanRows'
  BY <1>1 DEF IInv, NoOrphanRows
<1>16. QED
  BY <1>4, <1>8, <1>9, <1>10, <1>11, <1>12, <1>13, <1>14, <1>15 DEF IInv

\* A step of MarkAttendance: the tracks and the decisions stay, rows may only
\* appear or change, and only in the columns of the student being marked.
LEMMA MarkingIInv ==
  ASSUME IInv, NEW r \in Requests, NEW new \in Request,
         req' = [req EXCEPT ![r] = new],
         new.session = req[r].session, new.need = req[r].need, new.now = req[r].now,
         new.pc \in {"update", "select", "commit"},
         new.need[new.who] # 0,
         attendance' \in [Students -> [Days -> Row]],
         \A s \in Students, d \in Days :
           attendance'[s][d] = attendance[s][d]
           \/ (attendance'[s][d] # NoRow /\ s \in enrolled /\ s \in passed),
         new.pc = "commit" /\ new.who \in enrolled
           => attendance'[new.who][Day(new.now)] # NoRow,
         UNCHANGED <<clock, enrolled, tracks, nextID, faults, passed, sighted>>
  PROVE  IInv'
<1>1. /\ TypeOK
      /\ req'[r] = new
      /\ \A q \in Requests : q # r => req'[q] = req[q]
  BY DEF IInv, TypeOK
<1>2. \A q \in Requests : /\ req'[q].session = req[q].session
                          /\ req'[q].need = req[q].need
  BY <1>1
<1>3. TypeOK'
  BY <1>1 DEF TypeOK
<1>4. IdsIssued' /\ IdsOwned' /\ VerdictRemembered'
  BY <1>2 DEF IInv, IdsIssued, IdsOwned, VerdictRemembered
<1>5. WorkInHand'
  <2> SUFFICES ASSUME NEW q \in Requests
               PROVE  /\ req'[q].pc \in {"update", "select", "commit"}
                           => req'[q].need[req'[q].who] # 0
                      /\ req'[q].pc = "commit" /\ req'[q].who \in enrolled'
                           => attendance'[req'[q].who][Day(req'[q].now)] # NoRow
    BY DEF WorkInHand
  <2>1. CASE q = r
    BY <1>1, <2>1
  <2>2. CASE q # r
    <3>1. Day(req[q].now) \in Days /\ req[q].who \in Students
      BY <1>1 DEF Day, Days, TypeOK, Request
    <3>2. QED BY <1>1, <2>2, <3>1 DEF IInv, WorkInHand
  <2>3. QED BY <2>1, <2>2
<1>6. AttendanceNeedsVote' /\ MarkingFollowsVerdict'
  BY <1>2 DEF IInv, AttendanceNeedsVote, MarkingFollowsVerdict
<1>7. CommittedIsRecorded'
  BY DEF IInv, CommittedIsRecorded
<1>8. NoOrphanRows'
  BY DEF IInv, NoOrphanRows
<1>9. QED BY <1>3, <1>4, <1>5, <1>6, <1>7, <1>8 DEF IInv

\* INSERT OR IGNORE creates a row only for an enrolled student with a vote.
LEMMA InsertIInv ==
  ASSUME IInv, NEW r \in Requests, NEW s \in Students, Insert(r, s)
  PROVE  IInv'
<1> DEFINE day == Day(req[r].now)
           new == [req[r] EXCEPT !.who = s,
                     !.pc = IF attendance[s][day] = NoRow THEN "select" ELSE "update"]
<1>1. /\ req' = [req EXCEPT ![r] = new]
      /\ s \in enrolled /\ req[r].need[s] # 0
      /\ UNCHANGED <<clock, enrolled, tracks, nextID, faults, passed, sighted>>
  BY DEF Insert, ForeignKeyHolds, Needed
<1>2. /\ req[r] \in Request /\ day \in Days
      /\ attendance \in [Students -> [Days -> Row]]
  BY DEF IInv, TypeOK, Day, Days
<1>3. new \in Request /\ new.who = s /\ new.pc \in {"select", "update"}
      /\ new.session = req[r].session /\ new.need = req[r].need /\ new.now = req[r].now
  BY <1>2 DEF Request
<1>4. s \in passed
  BY <1>1 DEF IInv, AttendanceNeedsVote
<1>5. [checked |-> req[r].now, last |-> req[r].now] \in Row
      /\ [checked |-> req[r].now, last |-> req[r].now] # NoRow
  BY <1>2 DEF Request, Row, NoRow, Time, Never
<1>6. /\ attendance' \in [Students -> [Days -> Row]]
      /\ \A x \in Students, d \in Days :
           attendance'[x][d] = attendance[x][d]
           \/ (attendance'[x][d] # NoRow /\ x \in enrolled /\ x \in passed)
  BY <1>1, <1>2, <1>4, <1>5 DEF Insert
<1> HIDE DEF new
<1>7. QED BY <1>1, <1>3, <1>6, MarkingIInv

\* UPDATE changes a row that exists, whose student is enrolled and has a vote.
LEMMA UpdateIInv ==
  ASSUME IInv, NEW r \in Requests, Update(r)
  PROVE  IInv'
<1> DEFINE s   == req[r].who
           day == Day(req[r].now)
           new == [req[r] EXCEPT !.pc = "select"]
           row == SeenAgain(attendance[s][day], req[r].now)
<1>1. /\ req' = [req EXCEPT ![r] = new]
      /\ attendance' = IF attendance[s][day] = NoRow THEN attendance
                       ELSE [attendance EXCEPT ![s][day] = row]
      /\ req[r].pc = "update"
      /\ UNCHANGED <<clock, enrolled, tracks, nextID, faults, passed, sighted>>
  BY DEF Update
<1>2. /\ req[r] \in Request /\ day \in Days /\ s \in Students
      /\ attendance \in [Students -> [Days -> Row]]
  BY DEF IInv, TypeOK, Request, Day, Days
<1>3. new \in Request /\ new.who = s /\ new.pc = "select"
      /\ new.session = req[r].session /\ new.need = req[r].need /\ new.now = req[r].now
  BY <1>2 DEF Request
<1>4. new.need[new.who] # 0
  BY <1>1, <1>3 DEF IInv, WorkInHand
<1>5. attendance[s][day] # NoRow => s \in enrolled /\ s \in passed
  BY <1>2 DEF IInv, AttendanceNeedsVote, NoOrphanRows
<1>6. row \in Row /\ row # NoRow
  BY <1>2 DEF SeenAgain, Request, Row, NoRow, Time, Never
<1>7. /\ attendance' \in [Students -> [Days -> Row]]
      /\ \A x \in Students, d \in Days :
           attendance'[x][d] = attendance[x][d]
           \/ (attendance'[x][d] # NoRow /\ x \in enrolled /\ x \in passed)
  <2> HIDE DEF row, s, day
  <2>1. QED BY <1>1, <1>2, <1>5, <1>6
<1> HIDE DEF new
<1>8. QED BY <1>1, <1>3, <1>4, <1>7, MarkingIInv

\* The SELECT moves on only if it has found the row.
LEMMA SelectIInv ==
  ASSUME IInv, NEW r \in Requests, Select(r)
  PROVE  IInv'
<1> DEFINE new == [req[r] EXCEPT !.pc = "commit"]
<1>1. /\ req' = [req EXCEPT ![r] = new]
      /\ req[r].pc = "select"
      /\ attendance[req[r].who][Day(req[r].now)] # NoRow
      /\ UNCHANGED <<clock, enrolled, tracks, nextID, attendance, faults, passed, sighted>>
  BY DEF Select
<1>2. /\ req[r] \in Request
      /\ attendance \in [Students -> [Days -> Row]]
  BY DEF IInv, TypeOK
<1>3. new \in Request /\ new.who = req[r].who /\ new.pc = "commit"
      /\ new.session = req[r].session /\ new.need = req[r].need /\ new.now = req[r].now
  BY <1>2 DEF Request
<1>4. new.need[new.who] # 0
  BY <1>1, <1>3 DEF IInv, WorkInHand
<1> HIDE DEF new
<1>5. QED BY <1>1, <1>2, <1>3, <1>4, MarkingIInv

\* Ending a request, whatever the reason, drops its decisions and nothing else.
LEMMA EndIInv ==
  ASSUME IInv, NEW r \in Requests, req' = [req EXCEPT ![r] = Idle],
         faults' \in Nat,
         UNCHANGED <<clock, enrolled, tracks, nextID, attendance, passed, sighted>>
  PROVE  IInv'
<1>1. /\ Idle \in Request /\ Idle.pc = "idle"
      /\ \A s \in Students : Idle.need[s] = 0
  BY IdleType DEF Idle
<1>2. TypeOK'
  BY <1>1 DEF IInv, TypeOK
<1>3. /\ req'[r] = Idle
      /\ \A q \in Requests : q # r => req'[q] = req[q]
      /\ \A o \in Sessions : nextID[o] \in Nat
      /\ Idle.session \in Sessions
  BY <1>1 DEF IInv, TypeOK, Request
<1> HIDE DEF Idle
<1>4. (IdsIssued /\ IdsOwned /\ VerdictRemembered /\ CommittedIsRecorded)'
  BY <1>1, <1>3 DEF IInv, IdsIssued, IdsOwned, VerdictRemembered, CommittedIsRecorded
<1>5. (WorkInHand /\ AttendanceNeedsVote /\ MarkingFollowsVerdict /\ NoOrphanRows)'
  BY <1>1, <1>3 DEF IInv, WorkInHand, AttendanceNeedsVote, MarkingFollowsVerdict,
     NoOrphanRows
<1>6. QED BY <1>2, <1>4, <1>5 DEF IInv

\* The cascade takes the rows with the student; requests find him gone.
LEMMA DeleteIInv ==
  ASSUME IInv, NEW s \in Students, DeleteStudent(s)
  PROVE  IInv'
<1>1. /\ enrolled' = enrolled \ {s}
      /\ attendance' = [attendance EXCEPT ![s] = NoRows]
      /\ UNCHANGED <<clock, tracks, nextID, req, faults, passed, sighted>>
      /\ attendance \in [Students -> [Days -> Row]]
      /\ req \in [Requests -> Request]
  BY DEF DeleteStudent, IInv, TypeOK
<1>2. /\ attendance'[s] = NoRows
      /\ \A x \in Students : x # s => attendance'[x] = attendance[x]
      /\ \A d \in Days : NoRows[d] = NoRow
  BY <1>1 DEF NoRows
<1>3. TypeOK'
  BY <1>1, NoRowType DEF IInv, TypeOK
<1>4. (IdsIssued /\ IdsOwned /\ VerdictRemembered /\ MarkingFollowsVerdict)'
  BY <1>1 DEF IInv, IdsIssued, IdsOwned, VerdictRemembered, MarkingFollowsVerdict
<1>5. WorkInHand'
  <2>1. \A q \in Requests : req[q].who \in Students
    BY <1>1 DEF Request
  <2>2. QED BY <1>1, <1>2, <2>1 DEF IInv, WorkInHand
<1>6. (AttendanceNeedsVote /\ CommittedIsRecorded /\ NoOrphanRows)'
  BY <1>1, <1>2 DEF IInv, AttendanceNeedsVote, CommittedIsRecorded, NoOrphanRows
<1>7. QED BY <1>3, <1>4, <1>5, <1>6 DEF IInv

\* A restart empties the tracker and forgets every request; the rows remain.
LEMMA RestartIInv == IInv /\ Restart => IInv'
<1> SUFFICES ASSUME IInv, Restart PROVE IInv'
  OBVIOUS
<1>1. /\ tracks' = [ses \in Sessions |-> [s \in Students |-> NoTrack]]
      /\ nextID' = [ses \in Sessions |-> 0]
      /\ req' = [r \in Requests |-> Idle]
      /\ UNCHANGED <<clock, enrolled, attendance, passed, sighted>>
  BY DEF Restart
<1>2. TypeOK'
  BY <1>1, IdleType, NoTrackType DEF IInv, TypeOK, Restart
<1>3. /\ Idle.session \in Sessions /\ Idle.pc = "idle"
      /\ \A s \in Students : Idle.need[s] = 0
      /\ NoTrack.id = 0 /\ NoTrack.verdict = "open" /\ NoTrack.committed = FALSE
  BY CheckinAssumption DEF Idle, NoTrack
<1> HIDE DEF Idle, NoTrack
<1>4. (IdsIssued /\ IdsOwned /\ VerdictRemembered /\ CommittedIsRecorded)'
  BY <1>1, <1>3 DEF IdsIssued, IdsOwned, VerdictRemembered, CommittedIsRecorded
<1>5. (WorkInHand /\ AttendanceNeedsVote /\ MarkingFollowsVerdict /\ NoOrphanRows)'
  BY <1>1, <1>3 DEF IInv, WorkInHand, AttendanceNeedsVote, MarkingFollowsVerdict,
     NoOrphanRows
<1>6. QED BY <1>2, <1>4, <1>5 DEF IInv

\* Time passing, or nothing happening.
LEMMA QuietIInv ==
  ASSUME IInv, clock' \in Time,
         UNCHANGED <<enrolled, tracks, nextID, attendance, req, faults, passed, sighted>>
  PROVE  IInv'
BY DEF IInv, TypeOK, IdsIssued, IdsOwned, WorkInHand, VerdictRemembered,
   AttendanceNeedsVote, MarkingFollowsVerdict, CommittedIsRecorded, NoOrphanRows

\* Every step keeps the invariant.
LEMMA NextIInv == IInv /\ [Next]_vars => IInv'
<1> SUFFICES ASSUME IInv, [Next]_vars PROVE IInv'
  OBVIOUS
<1>1. ASSUME NEW r \in Requests, NEW ses \in Sessions, Begin(r, ses) PROVE IInv'
  BY <1>1, BeginIInv
<1>2. ASSUME NEW r \in Requests, NEW obs \in Frames, Observe(r, obs) PROVE IInv'
  BY <1>2, ObserveIInv
<1>3. ASSUME NEW r \in Requests, Step(r) PROVE IInv'
  <2>1. ASSUME NEW s \in Students, Insert(r, s) PROVE IInv'
    BY <2>1, InsertIInv
  <2>2. CASE Update(r) BY <2>2, UpdateIInv
  <2>3. CASE Select(r) BY <2>3, SelectIInv
  <2>4. CASE Commit(r) BY <2>4, CommitIInv
  <2>5. CASE AbortGone(r) \/ Respond(r)
    <3>1. faults' \in Nat
      BY <2>5 DEF AbortGone, Respond, IInv, TypeOK
    <3>2. QED BY <2>5, <3>1, EndIInv DEF AbortGone, Respond
  <2>6. QED BY <1>3, <2>1, <2>2, <2>3, <2>4, <2>5 DEF Step
<1>4. ASSUME NEW r \in Requests, AbortFault(r) PROVE IInv'
  <2>1. faults' \in Nat
    BY <1>4 DEF AbortFault, IInv, TypeOK
  <2>2. QED BY <1>4, <2>1, EndIInv DEF AbortFault
<1>5. ASSUME NEW s \in Students, DeleteStudent(s) PROVE IInv'
  BY <1>5, DeleteIInv
<1>6. CASE Restart BY <1>6, RestartIInv
<1>7. CASE Tick
  <2>1. clock' \in Time
    BY <1>7, CheckinAssumption DEF Tick, Time, IInv, TypeOK
  <2>2. QED BY <1>7, <2>1, QuietIInv DEF Tick
<1>8. CASE UNCHANGED vars
  <2>1. clock' \in Time
    BY <1>8 DEF vars, IInv, TypeOK
  <2>2. QED BY <1>8, <2>1, QuietIInv DEF vars
<1>9. QED
  BY <1>1, <1>2, <1>3, <1>4, <1>5, <1>6, <1>7, <1>8 DEF Next

-----------------------------------------------------------------------------
(* The theorems *)

\* The inductive invariant holds of every behaviour of the pipeline.
THEOREM Invariance == Spec => []IInv
BY InitIInv, NextIInv, PTL DEF Spec

\* Every variable keeps its type, whatever requests overlap and fail.
THEOREM TypeCorrect == Spec => []TypeOK
<1>1. IInv => TypeOK BY DEF IInv
<1>2. QED BY <1>1, Invariance, PTL

\* ARCHITECTURE.md's promise, for any number of students, sessions, requests
\* and scores: nobody is checked in without a persuasive liveness vote.
THEOREM NoCheckinWithoutVote == Spec => []AttendanceNeedsVote
<1>1. IInv => AttendanceNeedsVote BY DEF IInv
<1>2. QED BY <1>1, Invariance, PTL

\* No request marks a student whose track is undecided or rejected.
THEOREM NoMarkAgainstVerdict == Spec => []MarkingFollowsVerdict
<1>1. IInv => MarkingFollowsVerdict BY DEF IInv
<1>2. QED BY <1>1, Invariance, PTL

\* The tracker is never told of a row that was not written.
THEOREM NoFalseCommit == Spec => []CommittedIsRecorded
<1>1. IInv => CommittedIsRecorded BY DEF IInv
<1>2. QED BY <1>1, Invariance, PTL

\* Attendance never outlives its student.
THEOREM NoOrphans == Spec => []NoOrphanRows
<1>1. IInv => NoOrphanRows BY DEF IInv
<1>2. QED BY <1>1, Invariance, PTL
-----------------------------------------------------------------------------
(* The deadlines of a decision *)

\* The part of BoundedDeliberation that speaks of one track.
InTime(track) ==
  track.id # 0 /\ track.verdict = "open"
    => /\ Len(track.scores) < MaxFrames
       /\ track.last - track.first < DecisionTimeout

\* The switch leaves a track open only before its last case, the deadlines.
LEMMA OpenIsInTime ==
  ASSUME NEW w, NEW age, Verdict(w, age) = "open"
  PROVE  ~ OutOfTime(w, age)
BY DEF Verdict

\* A track that has just been observed is in time, because the verdict is taken
\* on the very window and the very age that the track then carries; that holds
\* of a request whose frame is older than the track's first one, too.
LEMMA ObservedInTime ==
  ASSUME NEW track \in Track, Len(track.scores) <= MaxFrames,
         NEW score \in Score, NEW now \in Time
  PROVE  InTime(Observed(track, score, now))
<1>1. CASE track.verdict # "open"
  BY <1>1 DEF Observed, InTime, Track
<1>2. CASE track.verdict = "open"
  <2> DEFINE w == Slide(track.scores, score)
             v == Verdict(w, now - track.first)
             o == [track EXCEPT !.last = now, !.scores = w, !.verdict = v]
  <2>1. Observed(track, score, now) = o
    BY <1>2 DEF Observed
  <2>2. v = "open" => ~ OutOfTime(w, now - track.first)
    BY OpenIsInTime
  <2>3. w \in Seq(Score) /\ now \in Int /\ track.first \in Int
    BY SlideType, CheckinAssumption DEF Track, Time
  <2> HIDE DEF w, v
  <2>4. o.verdict = v /\ o.scores = w /\ o.last = now /\ o.first = track.first
    BY DEF Track
  <2>5. Len(w) \in Nat /\ MaxFrames \in Nat /\ DecisionTimeout \in Nat
    BY <2>3 DEF MaxFrames, DecisionTimeout
  <2>6. InTime(o)
    BY <2>2, <2>3, <2>4, <2>5 DEF InTime, OutOfTime
  <2>7. QED BY <2>1, <2>6
<1>3. QED BY <1>1, <1>2

\* What a frame leaves of a session's tracks: nothing, or, unless it expired,
\* the track as it was or observed once more, or a track with a new ID.
LEMMA ObserveTracks ==
  ASSUME TypeOK, NEW r \in Requests, NEW obs \in Frames, Observe(r, obs),
         NEW s \in Students
  PROVE  LET ses   == req[r].session
             old   == tracks[ses][s]
             new   == tracks'[ses][s]
             stays == ~ (req[r].now - old.last > TrackTTL)
         IN  \/ new = NoTrack
             \/ new = old /\ stays
             \/ \E t \in Track, x \in Score :
                  /\ Len(t.scores) <= MaxFrames /\ new = Observed(t, x, req[r].now)
                  /\ t.id > nextID[ses] \/ (t = old /\ t # NoTrack /\ stays)
<1> DEFINE ses   == req[r].session
           now   == req[r].now
           kept  == Unexpired(tracks[ses], now)
           fresh == {x \in DOMAIN obs : kept[x] = NoTrack}
           n     == Cardinality(fresh)
<1>1. /\ ses \in Sessions /\ now \in Time
      /\ tracks[ses] \in [Students -> Track]
      /\ nextID[ses] \in Nat
  BY DEF TypeOK, Request
<1>2. /\ DOMAIN obs \subseteq Students
      /\ \A x \in DOMAIN obs : obs[x] \in Score
  BY CheckinAssumption DEF Frames
<1>3. n \in Nat
  <2>1. fresh \subseteq Students BY <1>2
  <2>2. IsFiniteSet(fresh) BY <2>1, CheckinAssumption, FS_Subset
  <2>3. QED BY <2>2, FS_CardinalityType
<1> DEFINE stays == ~ (now - tracks[ses][s].last > TrackTTL)
<1>4. /\ kept[s] = NoTrack \/ (kept[s] = tracks[ses][s] /\ stays)
      /\ kept[s] \in Track /\ Len(kept[s].scores) <= MaxFrames
  BY <1>1, NoTrackType DEF Unexpired, TypeOK
<1>5. PICK rank \in [fresh -> 1..n] :
        tracks' = [tracks EXCEPT ![ses] =
          [x \in Students |->
             IF x \notin DOMAIN obs THEN kept[x]
             ELSE IF Judged(kept, obs, rank, nextID[ses], now)[x].verdict = "timedOut"
                  THEN NoTrack
             ELSE Judged(kept, obs, rank, nextID[ses], now)[x]]]
  BY DEF Observe
<1> DEFINE start == IF kept[s] = NoTrack THEN NewTrack(nextID[ses] + rank[s], now)
                    ELSE kept[s]
           new   == tracks'[ses][s]
<1>6. \/ new = NoTrack
      \/ s \notin DOMAIN obs /\ new = kept[s]
      \/ s \in DOMAIN obs /\ new = Judged(kept, obs, rank, nextID[ses], now)[s]
  BY <1>1, <1>5 DEF TypeOK
<1>7. CASE s \in DOMAIN obs /\ new = Judged(kept, obs, rank, nextID[ses], now)[s]
  <2>1. new = Observed(start, obs[s], now)
    BY <1>7 DEF Judged
  <2>2. /\ start \in Track /\ Len(start.scores) <= MaxFrames
        /\ \/ start.id > nextID[ses]
           \/ start = tracks[ses][s] /\ start # NoTrack /\ stays
    <3>1. CASE kept[s] = NoTrack
      <4>1. rank[s] \in 1..n
        BY <1>7, <3>1
      <4>2. nextID[ses] + rank[s] \in Nat /\ nextID[ses] + rank[s] > nextID[ses]
        <5> HIDE DEF n, ses
        <5>1. QED BY <1>1, <1>3, <4>1
      <4>3. start = NewTrack(nextID[ses] + rank[s], now)
        BY <3>1
      <4>4. QED BY <1>1, <4>2, <4>3, NewTrackType
    <3>2. CASE kept[s] # NoTrack
      BY <1>4, <3>2
    <3>3. QED BY <3>1, <3>2
  <2>3. obs[s] \in Score
    BY <1>2, <1>7
  <2>4. \E t \in Track, x \in Score :
          /\ Len(t.scores) <= MaxFrames /\ new = Observed(t, x, now)
          /\ t.id > nextID[ses] \/ (t = tracks[ses][s] /\ t # NoTrack /\ stays)
    <3> HIDE DEF start, stays, new, ses, now
    <3>1. QED BY <2>1, <2>2, <2>3
  <2>5. QED BY <2>4
<1>8. QED BY <1>4, <1>6, <1>7

\* BoundedDeliberation as the steps need it, one track at a time.
LEMMA DeliberationByTrack ==
  BoundedDeliberation <=> \A ses \in Sessions, s \in Students : InTime(tracks[ses][s])
BY DEF BoundedDeliberation, InTime

\* A step keeps every track in time: a frame by ObservedInTime, a commitment
\* because it touches neither the verdict nor the window.
LEMMA NextDeliberation ==
  IInv /\ BoundedDeliberation /\ [Next]_vars => BoundedDeliberation'
<1> SUFFICES ASSUME IInv, BoundedDeliberation, [Next]_vars,
                    NEW ses \in Sessions, NEW s \in Students
             PROVE  InTime(tracks'[ses][s])
  BY DEF BoundedDeliberation, InTime
<1>1. TypeOK /\ InTime(tracks[ses][s])
  BY DeliberationByTrack DEF IInv
<1>2. InTime(NoTrack)
  BY DEF InTime, NoTrack
<1>3. ASSUME NEW r \in Requests, NEW obs \in Frames, Observe(r, obs)
      PROVE  InTime(tracks'[ses][s])
  <2>1. CASE req[r].session = ses
    <3>1. req[r].now \in Time
      BY <1>1 DEF TypeOK, Request
    <3>2. CASE \E t \in Track, x \in Score :
                 Len(t.scores) <= MaxFrames
                 /\ tracks'[ses][s] = Observed(t, x, req[r].now)
      BY <3>1, <3>2, ObservedInTime
    <3>3. QED BY <1>1, <1>2, <1>3, <2>1, <3>2, ObserveTracks
  <2>2. CASE req[r].session # ses
    <3>1. tracks'[ses] = tracks[ses]
      BY <1>1, <1>3, <2>2, ObserveFacts DEF IInv
    <3>2. QED BY <1>1, <3>1
  <2>3. QED BY <2>1, <2>2
<1>4. ASSUME NEW r \in Requests, Commit(r)
      PROVE  InTime(tracks'[ses][s])
  <2>1. \/ tracks'[ses][s] = tracks[ses][s]
        \/ tracks'[ses][s] = [tracks[ses][s] EXCEPT !.committed = TRUE]
    BY <1>1, <1>4 DEF Commit, TypeOK, Request
  <2>2. tracks[ses][s] \in Track
    BY <1>1 DEF TypeOK
  <2>3. QED BY <1>1, <2>1, <2>2 DEF InTime, Track
<1>5. CASE Restart
  BY <1>2, <1>5 DEF Restart
<1>6. CASE UNCHANGED tracks
  BY <1>1, <1>6
<1>7. QED
  <2>1. ASSUME NEW r \in Requests, Step(r)
        PROVE  Commit(r) \/ UNCHANGED tracks
    BY <2>1 DEF Step, Insert, Update, Select, AbortGone, Respond
  <2>2. ASSUME NEW r \in Requests, AbortFault(r) \/ \E o \in Sessions : Begin(r, o)
        PROVE  UNCHANGED tracks
    BY <2>2 DEF AbortFault, Begin
  <2>3. ASSUME Tick \/ UNCHANGED vars \/ \E x \in Students : DeleteStudent(x)
        PROVE  UNCHANGED tracks
    BY <2>3 DEF Tick, vars, DeleteStudent
  <2>4. QED BY <1>3, <1>4, <1>5, <1>6, <2>1, <2>2, <2>3 DEF Next

\* The deadlines of recognition_track.go: an undecided track in the map has
\* collected fewer than MaxFrames scores and is younger than DecisionTimeout,
\* although requests may observe out of order and the clock only advances
\* between them.
THEOREM DeliberationBounded == Spec => []BoundedDeliberation
<1>1. Init => BoundedDeliberation
  BY DEF Init, BoundedDeliberation, NoTrack
<1>2. QED
  BY <1>1, NextDeliberation, Invariance, PTL DEF Spec

-----------------------------------------------------------------------------
(* A verdict is final *)

\* What VerdictFinal lets a step do to one track, seen last in the frame of
\* time seen.
MayBecome(old, new, seen) ==
  old.verdict # "open"
    => \/ /\ new.id = old.id /\ new.verdict = old.verdict
          /\ old.committed => new.committed
       \/ /\ new.id # old.id
          /\ clock - seen > TrackTTL \/ old.last < seen

\* A request took its time from a clock that has only advanced since.
InThePast == \A r \in Requests : req[r].now <= clock

\* Every step keeps the requests in the past: Begin reads the clock, a restart
\* forgets the requests, and nothing turns the clock back.
LEMMA NextInThePast == IInv /\ InThePast /\ [Next]_vars => InThePast'
<1> SUFFICES ASSUME IInv, InThePast, [Next]_vars, NEW q \in Requests
             PROVE  req'[q].now <= clock'
  BY DEF InThePast
<1>1. /\ clock \in Int /\ 0 <= clock
      /\ req \in [Requests -> Request] /\ req[q].now <= clock /\ req[q].now \in Int
  BY CheckinAssumption DEF IInv, TypeOK, Time, Request, InThePast
<1>2. Idle.now = 0
  BY DEF Idle
<1>3. CASE UNCHANGED clock /\ \/ req'[q].now = req[q].now
                              \/ req'[q].now = clock
                              \/ req'[q].now = 0
  BY <1>1, <1>3
<1>4. ASSUME NEW r \in Requests, NEW ses \in Sessions, Begin(r, ses)
      PROVE  req'[q].now <= clock'
  <2>1. /\ req' = [req EXCEPT ![r] = [Idle EXCEPT !.pc = "detecting",
                                               !.session = ses, !.now = clock]]
        /\ UNCHANGED clock
    BY <1>4 DEF Begin
  <2>2. [Idle EXCEPT !.pc = "detecting", !.session = ses, !.now = clock].now = clock
    BY DEF Idle
  <2>3. req'[q].now = clock \/ req'[q] = req[q]
    BY <1>1, <2>1, <2>2
  <2>4. QED BY <1>3, <2>1, <2>3
<1>5. ASSUME NEW r \in Requests, NEW obs \in Frames, Observe(r, obs)
      PROVE  req'[q].now <= clock'
  <2>1. PICK need : req' = [req EXCEPT ![r].pc = "marking", ![r].need = need]
    BY <1>5 DEF Observe
  <2>2. req'[q].now = req[q].now
    BY <1>1, <2>1 DEF Request
  <2>3. UNCHANGED clock
    BY <1>5 DEF Observe
  <2>4. QED BY <1>3, <2>2, <2>3
<1>6. ASSUME NEW r \in Requests, Step(r) \/ AbortFault(r)
      PROVE  req'[q].now <= clock'
  <2>1. UNCHANGED clock
    BY <1>6 DEF Step, Insert, Update, Select, Commit, AbortGone, Respond, AbortFault
  <2>2. CASE AbortGone(r) \/ Respond(r) \/ AbortFault(r)
    <3>1. req' = [req EXCEPT ![r] = Idle]
      BY <2>2 DEF AbortGone, Respond, AbortFault
    <3>2. req'[q] = req[q] \/ req'[q] = Idle
      BY <1>1, <3>1
    <3>3. QED BY <1>2, <1>3, <2>1, <3>2
  <2>3. ASSUME \/ \E s \in Students : Insert(r, s)
               \/ Update(r) \/ Select(r) \/ Commit(r)
        PROVE  req'[q].now = req[q].now
    <3>1. CASE \E s \in Students : Insert(r, s)
      <4>1. PICK s \in Students : Insert(r, s)
        BY <3>1
      <4>2. req' = [req EXCEPT ![r].who = s,
                     ![r].pc = IF attendance[s][Day(req[r].now)] = NoRow
                               THEN "select" ELSE "update"]
        BY <4>1 DEF Insert
      <4>3. QED BY <1>1, <4>2 DEF Request
    <3>2. CASE Update(r) \/ Select(r)
      <4>1. PICK pc : req' = [req EXCEPT ![r].pc = pc]
        BY <3>2 DEF Update, Select
      <4>2. QED BY <1>1, <4>1 DEF Request
    <3>3. CASE Commit(r)
      <4>1. req' = [req EXCEPT ![r].pc = "marking", ![r].need[req[r].who] = 0]
        BY <3>3 DEF Commit
      <4>2. QED BY <1>1, <4>1 DEF Request
    <3>4. QED BY <2>3, <3>1, <3>2, <3>3
  <2>4. QED BY <1>3, <1>6, <2>1, <2>2, <2>3 DEF Step
<1>7. CASE Restart
  <2>1. req'[q] = Idle /\ UNCHANGED clock
    BY <1>7 DEF Restart
  <2>2. QED BY <1>2, <1>3, <2>1
<1>8. CASE Tick
  <2>1. clock' = clock + 1 /\ UNCHANGED req
    BY <1>8 DEF Tick
  <2>2. QED BY <1>1, <2>1
<1>9. CASE UNCHANGED vars \/ \E s \in Students : DeleteStudent(s)
  <2>1. UNCHANGED <<clock, req>>
    BY <1>9 DEF vars, DeleteStudent
  <2>2. QED BY <1>3, <2>1
<1>10. QED BY <1>4, <1>5, <1>6, <1>7, <1>8, <1>9 DEF Next

\* Only a student without a track has the ID 0.
RealIDs == \A ses \in Sessions, s \in Students :
             tracks[ses][s] # NoTrack => tracks[ses][s].id # 0

\* A track is made with an ID that was never used and keeps it.
LEMMA NextRealIDs == IInv /\ RealIDs /\ [Next]_vars => RealIDs'
<1> SUFFICES ASSUME IInv, RealIDs, [Next]_vars,
                    NEW ses \in Sessions, NEW s \in Students,
                    tracks'[ses][s] # NoTrack
             PROVE  tracks'[ses][s].id # 0
  BY DEF RealIDs
<1>1. /\ TypeOK /\ tracks[ses][s] \in Track /\ nextID[ses] \in Nat
      /\ tracks[ses][s] # NoTrack => tracks[ses][s].id # 0
  BY DEF IInv, TypeOK, RealIDs
<1>2. ASSUME NEW r \in Requests, NEW obs \in Frames, Observe(r, obs)
      PROVE  tracks'[ses][s].id # 0
  <2>1. CASE req[r].session # ses
    <3>1. tracks'[ses] = tracks[ses]
      BY <1>1, <1>2, <2>1, ObserveFacts DEF IInv
    <3>2. QED BY <1>1, <3>1
  <2>2. CASE req[r].session = ses
    <3>1. CASE tracks'[ses][s] = tracks[ses][s]
      BY <1>1, <3>1
    <3>2. CASE \E u \in Track, x \in Score :
                 /\ Len(u.scores) <= MaxFrames
                 /\ tracks'[ses][s] = Observed(u, x, req[r].now)
                 /\ \/ u.id > nextID[ses]
                    \/ u = tracks[ses][s] /\ u # NoTrack
      <4>1. PICK u \in Track, x \in Score :
                 /\ Len(u.scores) <= MaxFrames
                 /\ tracks'[ses][s] = Observed(u, x, req[r].now)
                 /\ \/ u.id > nextID[ses]
                    \/ u = tracks[ses][s] /\ u # NoTrack
        BY <3>2
      <4>2. req[r].now \in Time
        BY <1>1 DEF TypeOK, Request
      <4>3. tracks'[ses][s].id = u.id
        BY <4>1, <4>2, ObservedFacts
      <4>4. u.id \in Nat
        BY DEF Track
      <4>5. QED BY <1>1, <4>1, <4>3, <4>4
    <3>3. QED BY <1>1, <1>2, <2>2, <3>1, <3>2, ObserveTracks
  <2>3. QED BY <2>1, <2>2
<1>3. ASSUME NEW r \in Requests, Commit(r)
      PROVE  tracks'[ses][s].id # 0
  <2>1. \/ tracks'[ses][s] = tracks[ses][s]
        \/ /\ tracks'[ses][s] = [tracks[ses][s] EXCEPT !.committed = TRUE]
           /\ tracks[ses][s].id = req[r].need[req[r].who]
    BY <1>1, <1>3 DEF Commit, TypeOK, Request
  <2>2. req[r].need[req[r].who] # 0
    BY <1>3 DEF Commit, IInv, WorkInHand
  <2>3. QED BY <1>1, <2>1, <2>2 DEF Track
<1>4. CASE Restart
  BY <1>4 DEF Restart
<1>5. CASE UNCHANGED tracks
  BY <1>1, <1>5
<1>6. ASSUME NEW r \in Requests, Step(r)
      PROVE  Commit(r) \/ UNCHANGED tracks
  BY <1>6 DEF Step, Insert, Update, Select, AbortGone, Respond
<1>7. ASSUME NEW r \in Requests, AbortFault(r) \/ \E o \in Sessions : Begin(r, o)
      PROVE  UNCHANGED tracks
  BY <1>7 DEF AbortFault, Begin
<1>8. ASSUME Tick \/ UNCHANGED vars \/ \E x \in Students : DeleteStudent(x)
      PROVE  UNCHANGED tracks
  BY <1>8 DEF Tick, vars, DeleteStudent
<1>9. QED BY <1>2, <1>3, <1>4, <1>5, <1>6, <1>7, <1>8 DEF Next

\* A frame that finds a decided track before it expires leaves its ID, its
\* verdict and its commitment alone, whether the student is in the frame or not.
LEMMA ObserveDecided ==
  ASSUME TypeOK, NEW r \in Requests, NEW obs \in Frames, Observe(r, obs),
         NEW s \in Students,
         tracks[req[r].session][s].verdict # "open",
         ~ (req[r].now - tracks[req[r].session][s].last > TrackTTL)
  PROVE  LET old == tracks[req[r].session][s]
             new == tracks'[req[r].session][s]
         IN  /\ new.id = old.id /\ new.verdict = old.verdict
             /\ new.committed = old.committed
<1> DEFINE ses   == req[r].session
           now   == req[r].now
           kept  == Unexpired(tracks[ses], now)
           fresh == {x \in DOMAIN obs : kept[x] = NoTrack}
           n     == Cardinality(fresh)
           old   == tracks[ses][s]
           new   == tracks'[ses][s]
<1>1. /\ ses \in Sessions /\ old \in Track
      /\ tracks \in [Sessions -> [Students -> Track]]
  BY DEF TypeOK, Request
<1>2. kept[s] = old
  BY DEF Unexpired
<1>3. old # NoTrack
  BY DEF NoTrack
<1>4. PICK rank \in [fresh -> 1..n] :
        tracks' = [tracks EXCEPT ![ses] =
          [x \in Students |->
             IF x \notin DOMAIN obs THEN kept[x]
             ELSE IF Judged(kept, obs, rank, nextID[ses], now)[x].verdict = "timedOut"
                  THEN NoTrack
             ELSE Judged(kept, obs, rank, nextID[ses], now)[x]]]
  BY DEF Observe
<1> DEFINE judged == Judged(kept, obs, rank, nextID[ses], now)
<1>5. CASE s \notin DOMAIN obs
  BY <1>1, <1>2, <1>4, <1>5
<1>6. CASE s \in DOMAIN obs
  <2>1. judged[s] = Observed(old, obs[s], now)
    BY <1>2, <1>3, <1>6 DEF Judged
  <2>2. judged[s] = [old EXCEPT !.last = now]
    BY <2>1 DEF Observed
  <2>3. /\ judged[s].id = old.id /\ judged[s].verdict = old.verdict
        /\ judged[s].committed = old.committed
    BY <1>1, <2>2 DEF Track
  <2>4. old.verdict # "timedOut"
    BY <1>1 DEF Track
  <2>5. new = IF judged[s].verdict = "timedOut" THEN NoTrack ELSE judged[s]
    BY <1>1, <1>4, <1>6
  <2> HIDE DEF judged, new, old
  <2>6. QED BY <2>3, <2>4, <2>5 DEF new, old
<1>7. QED BY <1>5, <1>6

\* Every step but a restart treats every decided track as VerdictFinal says.
LEMMA NextVerdictFinal ==
  ASSUME IInv, InThePast, RealIDs, [Next]_vars, ~ Restart,
         NEW ses \in Sessions, NEW s \in Students
  PROVE  MayBecome(tracks[ses][s], tracks'[ses][s], sighted[ses][s])
<1>1. TypeOK /\ tracks[ses][s] \in Track
  BY DEF IInv, TypeOK
<1>2. ASSUME NEW r \in Requests, NEW obs \in Frames, Observe(r, obs)
      PROVE  MayBecome(tracks[ses][s], tracks'[ses][s], sighted[ses][s])
  <2>1. CASE req[r].session # ses
    <3>1. tracks'[ses] = tracks[ses]
      BY <1>1, <1>2, <2>1, ObserveFacts DEF IInv
    <3>2. QED BY <3>1 DEF MayBecome
  <2>2. CASE req[r].session = ses
    <3> DEFINE last == tracks[ses][s].last
               now  == req[r].now
               seen == sighted[ses][s]
    <3>1. CASE now - last > TrackTTL
      <4>1. /\ now \in Int /\ last \in Int /\ clock \in Int /\ now <= clock
            /\ seen \in Int
        BY <1>1, CheckinAssumption DEF TypeOK, Request, Track, Time, InThePast
      <4>2. SUFFICES ASSUME tracks[ses][s].verdict # "open"
                     PROVE  tracks'[ses][s].id # tracks[ses][s].id
        <5> HIDE DEF now, last, seen
        <5>1. clock - seen > TrackTTL \/ last < seen
          BY <3>1, <4>1 DEF TrackTTL
        <5>2. QED BY <5>1 DEF MayBecome, last, seen
      <4>3. tracks[ses][s].id # 0
        BY <4>2 DEF RealIDs, NoTrack
      <4>4. CASE tracks'[ses][s] = NoTrack
        BY <4>3, <4>4 DEF NoTrack
      <4>5. CASE \E u \in Track, x \in Score :
                   /\ Len(u.scores) <= MaxFrames
                   /\ tracks'[ses][s] = Observed(u, x, req[r].now)
                   /\ u.id > nextID[ses]
        <5>1. PICK u \in Track, x \in Score :
                   /\ Len(u.scores) <= MaxFrames
                   /\ tracks'[ses][s] = Observed(u, x, req[r].now)
                   /\ u.id > nextID[ses]
          BY <4>5
        <5>2. req[r].now \in Time
          BY <1>1 DEF TypeOK, Request
        <5>3. tracks'[ses][s].id = u.id
          BY <5>1, <5>2, ObservedFacts
        <5>4. /\ u.id \in Nat /\ nextID[ses] \in Nat /\ tracks[ses][s].id \in Nat
              /\ tracks[ses][s].id <= nextID[ses]
          BY <1>1 DEF Track, TypeOK, IInv, IdsIssued
        <5>5. QED BY <5>1, <5>3, <5>4
      <4>6. QED BY <1>1, <1>2, <2>2, <3>1, <4>4, <4>5, ObserveTracks
    <3>2. CASE ~ (now - last > TrackTTL)
      <4> SUFFICES ASSUME tracks[ses][s].verdict # "open"
                   PROVE  /\ tracks'[ses][s].id = tracks[ses][s].id
                          /\ tracks'[ses][s].verdict = tracks[ses][s].verdict
                          /\ tracks'[ses][s].committed = tracks[ses][s].committed
        BY DEF MayBecome
      <4>1. QED BY <1>1, <1>2, <2>2, <3>2, ObserveDecided
    <3>3. QED BY <3>1, <3>2
  <2>3. QED BY <2>1, <2>2
<1>3. ASSUME NEW r \in Requests, Commit(r)
      PROVE  MayBecome(tracks[ses][s], tracks'[ses][s], sighted[ses][s])
  <2>1. \/ tracks'[ses][s] = tracks[ses][s]
        \/ tracks'[ses][s] = [tracks[ses][s] EXCEPT !.committed = TRUE]
    BY <1>1, <1>3 DEF Commit, TypeOK, Request
  <2>2. QED BY <1>1, <2>1 DEF MayBecome, Track
<1>4. CASE UNCHANGED tracks
  BY <1>4 DEF MayBecome
<1>5. ASSUME NEW r \in Requests, Step(r)
      PROVE  Commit(r) \/ UNCHANGED tracks
  BY <1>5 DEF Step, Insert, Update, Select, AbortGone, Respond
<1>6. ASSUME NEW r \in Requests, AbortFault(r) \/ \E o \in Sessions : Begin(r, o)
      PROVE  UNCHANGED tracks
  BY <1>6 DEF AbortFault, Begin
<1>7. ASSUME Tick \/ UNCHANGED vars \/ \E x \in Students : DeleteStudent(x)
      PROVE  UNCHANGED tracks
  BY <1>7 DEF Tick, vars, DeleteStudent
<1>8. QED BY <1>2, <1>3, <1>4, <1>5, <1>6, <1>7 DEF Next

\* The switch of recognition_track.go is reached by undecided tracks only: a
\* rejected or verified track keeps its verdict and its mark for as long as it
\* keeps its ID, for any number of overlapping requests and frames that arrive
\* out of order, and only a restart, an absence longer than the TTL or a late
\* frame's LastSeen makes room for a new one.
THEOREM VerdictStays == Spec => VerdictFinal
<1>1. Init => InThePast /\ RealIDs
  BY DEF Init, InThePast, RealIDs, Idle
<1>2. IInv /\ InThePast /\ RealIDs /\ [Next]_vars =>
        [\A ses \in Sessions, s \in Students :
           LET old == tracks[ses][s]
               new == tracks'[ses][s]
           IN  old.verdict # "open"
                 => \/ /\ new.id = old.id /\ new.verdict = old.verdict
                       /\ old.committed => new.committed
                    \/ /\ new.id # old.id
                       /\ clock - sighted[ses][s] > TrackTTL \/ Rewound(ses, s)
                    \/ Restart]_vars
  <2> SUFFICES ASSUME IInv, InThePast, RealIDs, [Next]_vars,
                      NEW ses \in Sessions, NEW s \in Students, ~ Restart
               PROVE  MayBecome(tracks[ses][s], tracks'[ses][s], sighted[ses][s])
    BY DEF MayBecome, Rewound
  <2>1. QED BY NextVerdictFinal
<1>3. QED
  BY <1>1, <1>2, NextInThePast, NextRealIDs, Invariance, PTL DEF Spec, VerdictFinal

-----------------------------------------------------------------------------
(* The pipeline implements its contract *)

\* An empty table is where the contract starts.
LEMMA InitContract == Init => Contract!Init
BY DEF Init, NoRows, NoRow, Contract!Init, Contract!NoRow

\* A frame is a vote for the students it convinced the tracker of.
LEMMA ObserveContract ==
  ASSUME IInv, NEW r \in Requests, NEW obs \in Frames, Observe(r, obs)
  PROVE  Contract!Next
<1>1. passed' \in SUBSET Students /\ passed \subseteq passed'
  BY ObserveFacts DEF IInv
<1>2. passed' = passed \cup (passed' \ passed)
  BY <1>1
<1>3. passed' \ passed \in SUBSET Students
  BY <1>1
<1>4. UNCHANGED <<enrolled, attendance>>
  BY DEF Observe
<1>5. QED BY <1>2, <1>3, <1>4 DEF Contract!Next, Contract!Vote

\* INSERT OR IGNORE checks the student in, or changes nothing. That his vote
\* has passed is what the invariant is needed for.
LEMMA InsertContract ==
  ASSUME IInv, NEW r \in Requests, NEW s \in Students, Insert(r, s)
  PROVE  Contract!Next \/ UNCHANGED Contract!vars
<1>1. /\ req[r].now \in Time /\ Day(req[r].now) \in Days
      /\ s \in enrolled \cap passed
      /\ UNCHANGED <<enrolled, passed>>
  <2>1. req[r].now \in Time
    BY DEF IInv, TypeOK, Request
  <2>2. s \in enrolled \cap passed
    BY DEF Insert, ForeignKeyHolds, Needed, IInv, AttendanceNeedsVote
  <2>3. QED BY <2>1, <2>2 DEF Insert, Day, Days
<1>2. CASE attendance[s][Day(req[r].now)] = NoRow
  <2>1. Contract!CheckIn(s, Day(req[r].now), req[r].now)
    BY <1>1, <1>2 DEF Insert, Contract!CheckIn, Contract!NoRow, NoRow
  <2>2. QED BY <1>1, <2>1 DEF Contract!Next
<1>3. CASE attendance[s][Day(req[r].now)] # NoRow
  BY <1>1, <1>3 DEF Insert, Contract!vars
<1>4. QED BY <1>2, <1>3

\* UPDATE sees a checked-in student again, or finds no row.
LEMMA UpdateContract ==
  ASSUME IInv, NEW r \in Requests, Update(r)
  PROVE  Contract!Next \/ UNCHANGED Contract!vars
<1> DEFINE s   == req[r].who
           now == req[r].now
           day == Day(now)
<1>1. s \in Students /\ now \in Time /\ day \in Days
  BY DEF IInv, TypeOK, Request, Day, Days
<1>2. UNCHANGED <<enrolled, passed>>
  BY DEF Update
<1>3. CASE attendance[s][day] = NoRow
  BY <1>2, <1>3 DEF Update, Contract!vars
<1>4. CASE attendance[s][day] # NoRow
  <2>1. attendance' = [attendance EXCEPT ![s][day].last = now]
    <3>1. attendance' = [attendance EXCEPT ![s][day] = SeenAgain(@, now)]
      BY <1>4 DEF Update
    <3>2. QED BY <3>1 DEF SeenAgain
  <2>2. Contract!SeeAgain(s, day, now)
    BY <1>2, <1>4, <2>1 DEF Contract!SeeAgain, Contract!NoRow, NoRow
  <2>3. QED BY <1>1, <2>2 DEF Contract!Next
<1>5. QED BY <1>3, <1>4

\* A deleted student is removed with his rows.
LEMMA DeleteContract ==
  ASSUME NEW s \in Students, DeleteStudent(s)
  PROVE  Contract!Next
<1>1. Contract!Remove(s)
  BY DEF DeleteStudent, NoRows, NoRow, Contract!Remove, Contract!NoRow
<1>2. QED BY <1>1 DEF Contract!Next

\* Every step of the pipeline is a step of the contract or leaves it alone.
LEMMA NextContract == IInv /\ [Next]_vars => [Contract!Next]_(Contract!vars)
<1> SUFFICES ASSUME IInv, [Next]_vars
             PROVE  Contract!Next \/ UNCHANGED Contract!vars
  BY DEF Contract!vars
<1>1. ASSUME NEW r \in Requests, NEW ses \in Sessions, Begin(r, ses)
      PROVE  UNCHANGED Contract!vars
  BY <1>1 DEF Begin, Contract!vars
<1>2. ASSUME NEW r \in Requests, NEW obs \in Frames, Observe(r, obs)
      PROVE  Contract!Next
  BY <1>2, ObserveContract
<1>3. ASSUME NEW r \in Requests, Step(r)
      PROVE  Contract!Next \/ UNCHANGED Contract!vars
  <2>1. ASSUME NEW s \in Students, Insert(r, s)
        PROVE  Contract!Next \/ UNCHANGED Contract!vars
    BY <2>1, InsertContract
  <2>2. CASE Update(r) BY <2>2, UpdateContract
  <2>3. CASE Select(r) \/ Commit(r) \/ AbortGone(r) \/ Respond(r)
    BY <2>3 DEF Select, Commit, AbortGone, Respond, Contract!vars
  <2>4. QED BY <1>3, <2>1, <2>2, <2>3 DEF Step
<1>4. ASSUME NEW r \in Requests, AbortFault(r)
      PROVE  UNCHANGED Contract!vars
  BY <1>4 DEF AbortFault, Contract!vars
<1>5. ASSUME NEW s \in Students, DeleteStudent(s)
      PROVE  Contract!Next
  BY <1>5, DeleteContract
<1>6. CASE Restart \/ Tick \/ UNCHANGED vars
  BY <1>6 DEF Restart, Tick, vars, Contract!vars
<1>7. QED
  BY <1>1, <1>2, <1>3, <1>4, <1>5, <1>6 DEF Next

\* The pipeline implements CheckinContract: one row per student and day, made
\* only after a vote, whose first check-in time never changes.
THEOREM Refinement == Spec => ImplementsContract
BY InitContract, NextContract, Invariance, PTL
   DEF Spec, ImplementsContract, Contract!Spec
=============================================================================
