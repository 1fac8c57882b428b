------------------------------ MODULE Checkin ------------------------------
(***************************************************************************)
(* From a matched face to a row of the attendance table: recognition.go    *)
(* (recognizePreparedImage), recognition_track.go (recognitionTracker) and *)
(* store/attendance.go (MarkAttendance), with any number of recognition    *)
(* requests in flight, students deleted under them, failing statements and *)
(* server restarts.                                                        *)
(*                                                                         *)
(* A request is one goroutine. Its steps are the sections that other       *)
(* goroutines see as atomic: the tracker's two critical sections (Observe  *)
(* and Commit hold the mutex throughout) and each SQL statement (the store *)
(* has a single connection).                                               *)
(***************************************************************************)
EXTENDS LivenessVote, FiniteSetsExt

CONSTANTS
  Students,   \* the students of the database when the model starts
  Sessions,   \* recognition sessions: X-FaceSign-Session, one per page
  Requests,   \* slots for recognition requests in flight
  Scores,     \* liveness scores a frame can get
  MaxTime,    \* the clock runs from 0 to MaxTime, in seconds
  Midnight,   \* the second at which the day changes
  MaxTracks,  \* bound on the track IDs a session hands out
  MaxFaults   \* bound on failed statements and restarts

ASSUME CheckinAssumption ==
  /\ IsFiniteSet(Students) /\ Students # {}
  /\ Sessions # {}
  /\ Scores \subseteq Score
  /\ MaxTime \in Nat
  /\ Midnight \in Int
  /\ MaxTracks \in Nat
  /\ MaxFaults \in Nat

Time  == 0..MaxTime
Days  == {0, 1}
Never == -1
Day(t) == IF t < Midnight THEN 0 ELSE 1

VARIABLES
  clock,       \* time.Now, in seconds
  enrolled,    \* rows of the students table
  tracks,      \* [Sessions -> [Students -> track]]: recognitionTrackSession.Tracks
  nextID,      \* [Sessions -> Nat]: recognitionTrackSession.NextID
  attendance,  \* [Students -> [Days -> row]]: the attendance table
  req,         \* [Requests -> state of the goroutine]
  faults,      \* failures so far
  passed,      \* history: students some vote has passed for
  sighted      \* history: [Sessions -> [Students -> Time]], the latest frame
               \* each student was seen in, whatever LastSeen says

vars == <<clock, enrolled, tracks, nextID, attendance, req, faults, passed, sighted>>

-----------------------------------------------------------------------------
NoRow == [checked |-> Never, last |-> Never]

\* A student without a track in the session's map. Real IDs start at 1.
NoTrack == [id |-> 0, first |-> 0, last |-> 0, scores |-> <<>>,
            verdict |-> "open", committed |-> FALSE]

MutantNewTrackOneID(id, now) == [NoTrack EXCEPT !.id = 1, !.first = now]
NewTrack(id, now) == [NoTrack EXCEPT !.id = id, !.first = now]

\* trackDecision.NeedsAttendance
MutantNeedsAttendance(track) == track.verdict # "open" /\ ~ track.committed
NeedsAttendance(track) == track.verdict = "verified" /\ ~ track.committed

Idle == [pc |-> "idle",
         session |-> CHOOSE ses \in Sessions : TRUE,
         now |-> 0,
         need |-> [s \in Students |-> 0],
         who |-> CHOOSE s \in Students : TRUE]

NoRows == [d \in Days |-> NoRow]

Init ==
  /\ clock = 0
  /\ enrolled = Students
  /\ tracks = [ses \in Sessions |-> [s \in Students |-> NoTrack]]
  /\ nextID = [ses \in Sessions |-> 0]
  /\ attendance = [s \in Students |-> NoRows]
  /\ req = [r \in Requests |-> Idle]
  /\ faults = 0
  /\ passed = {}
  /\ sighted = [ses \in Sessions |-> [s \in Students |-> 0]]

-----------------------------------------------------------------------------
(* The tracker *)

\* The session's map after the tracks unseen for longer than the TTL are gone.
Unexpired(byStudent, now) ==
  [s \in Students |->
     IF now - byStudent[s].last > TrackTTL THEN NoTrack ELSE byStudent[s]]

\* One more observation of a track. The code also appends scores after the
\* verdict, only to display their average; here the window stops at the verdict.
MutantObserved(track, score, now) ==
  LET w == Slide(track.scores, score)
  IN  [track EXCEPT !.last = now, !.scores = w, !.verdict = Verdict(w, now - track.first)]
Observed(track, score, now) ==
  IF track.verdict # "open"
  THEN [track EXCEPT !.last = now]
  ELSE LET w == Slide(track.scores, score)
       IN  [track EXCEPT !.last = now, !.scores = w,
                         !.verdict = Verdict(w, now - track.first)]

\* The tracks of the observed students, before timed-out ones are dropped;
\* rank orders the new tracks of this frame.
Judged(kept, obs, rank, base, now) ==
  [s \in DOMAIN obs |->
     Observed(IF kept[s] = NoTrack THEN NewTrack(base + rank[s], now) ELSE kept[s],
              obs[s], now)]

\* The handler starts: it takes its session and its time, and then decodes,
\* detects and matches the image, which touches no state of this module.
Begin(r, ses) ==
  /\ req[r].pc = "idle"
  /\ req' = [req EXCEPT ![r] = [Idle EXCEPT !.pc = "detecting",
                                            !.session = ses, !.now = clock]]
  /\ UNCHANGED <<clock, enrolled, tracks, nextID, attendance, faults, passed, sighted>>

\* recognitionTracker.Observe with at most one observation of each student
\* (the selection loop uses a student once); a face whose liveness inference
\* failed, or that matched nobody, is not in obs. Students deleted since the
\* face cache was read still are.
Observe(r, obs) ==
  LET ses    == req[r].session
      now    == req[r].now
      kept   == Unexpired(tracks[ses], now)
      fresh  == {s \in DOMAIN obs : kept[s] = NoTrack}
  IN
  /\ req[r].pc = "detecting"
  /\ nextID[ses] + Cardinality(fresh) <= MaxTracks
  /\ \E rank \in [fresh -> 1..Cardinality(fresh)] :
       /\ \A s1, s2 \in fresh : rank[s1] = rank[s2] => s1 = s2
       /\ LET judged == Judged(kept, obs, rank, nextID[ses], now)
          IN
          /\ tracks' = [tracks EXCEPT ![ses] =
               [s \in Students |->
                  IF s \notin DOMAIN obs THEN kept[s]
                  ELSE IF judged[s].verdict = "timedOut" THEN NoTrack
                  ELSE judged[s]]]
          /\ req' = [req EXCEPT ![r].pc = "marking",
               ![r].need =
                 [s \in Students |->
                    IF s \in DOMAIN obs /\ NeedsAttendance(judged[s])
                    THEN judged[s].id ELSE 0]]
          /\ passed' = passed \cup
               {s \in DOMAIN obs : /\ judged[s].verdict = "verified"
                                   /\ Persuasive(judged[s].scores)}
  /\ nextID' = [nextID EXCEPT ![ses] = @ + Cardinality(fresh)]
  /\ sighted' = [sighted EXCEPT ![ses] =
       [s \in Students |-> IF s \in DOMAIN obs /\ now > sighted[ses][s]
                          THEN now ELSE sighted[ses][s]]]
  /\ UNCHANGED <<clock, enrolled, attendance, faults>>

\* recognitionTracker.Commit: it looks the track up by its ID.
Commit(r) ==
  LET ses == req[r].session
      id  == req[r].need[req[r].who]
  IN
  /\ req[r].pc = "commit"
  /\ tracks' = [tracks EXCEPT ![ses] =
       [s \in Students |->
          IF tracks[ses][s].id = id
          THEN [tracks[ses][s] EXCEPT !.committed = TRUE]
          ELSE tracks[ses][s]]]
  /\ req' = [req EXCEPT ![r].pc = "marking", ![r].need[req[r].who] = 0]
  /\ UNCHANGED <<clock, enrolled, nextID, attendance, faults, passed, sighted>>

-----------------------------------------------------------------------------
(* MarkAttendance, one SQL statement at a time *)

Needed(r) == {s \in Students : req[r].need[s] # 0}

\* FOREIGN KEY(student_id) REFERENCES students(id)
MutantNoForeignKey(s) == s \in Students
ForeignKeyHolds(s) == s \in enrolled

\* SET last_seen_at=?
MutantSeenAgain(row, now) == [checked |-> now, last |-> now]
SeenAgain(row, now) == [row EXCEPT !.last = now]

\* INSERT OR IGNORE. The foreign key makes it fail for a deleted student.
Insert(r, s) ==
  LET day == Day(req[r].now)
      new == attendance[s][day] = NoRow
  IN
  /\ req[r].pc = "marking"
  /\ s \in Needed(r)
  /\ ForeignKeyHolds(s)
  /\ attendance' = IF new
                   THEN [attendance EXCEPT ![s][day] =
                           [checked |-> req[r].now, last |-> req[r].now]]
                   ELSE attendance
  /\ req' = [req EXCEPT ![r].who = s,
                        ![r].pc = IF new THEN "select" ELSE "update"]
  /\ UNCHANGED <<clock, enrolled, tracks, nextID, faults, passed, sighted>>

\* UPDATE ... WHERE student_id=? AND day=?: no row, no effect.
Update(r) ==
  LET s   == req[r].who
      day == Day(req[r].now)
  IN
  /\ req[r].pc = "update"
  /\ attendance' = IF attendance[s][day] = NoRow THEN attendance
                   ELSE [attendance EXCEPT ![s][day] = SeenAgain(@, req[r].now)]
  /\ req' = [req EXCEPT ![r].pc = "select"]
  /\ UNCHANGED <<clock, enrolled, tracks, nextID, faults, passed, sighted>>

\* The SELECT finds the row it has just written, unless the student is gone.
Select(r) ==
  /\ req[r].pc = "select"
  /\ attendance[req[r].who][Day(req[r].now)] # NoRow
  /\ req' = [req EXCEPT ![r].pc = "commit"]
  /\ UNCHANGED <<clock, enrolled, tracks, nextID, attendance, faults, passed, sighted>>

\* The statement about to run cannot succeed: the loop has reached a student
\* who was deleted after the frame was matched.
StudentGone(r) ==
  \/ req[r].pc = "marking" /\ Needed(r) \ enrolled # {}
  \/ req[r].pc = "select" /\ attendance[req[r].who][Day(req[r].now)] = NoRow

\* The handler answers 500 and returns from the middle of its loop: nothing
\* is committed for this student nor for the ones after him.
AbortGone(r) ==
  /\ StudentGone(r)
  /\ req' = [req EXCEPT ![r] = Idle]
  /\ UNCHANGED <<clock, enrolled, tracks, nextID, attendance, faults, passed, sighted>>

MutantAbortFault(r) ==
  /\ req[r].pc = "marking" /\ Needed(r) # {}
  /\ faults < MaxFaults
  /\ faults' = faults + 1
  /\ tracks' = [tracks EXCEPT ![req[r].session] =
       [s \in Students |-> [@[s] EXCEPT !.committed = @ \/ s \in Needed(r)]]]
  /\ req' = [req EXCEPT ![r] = Idle]
  /\ UNCHANGED <<clock, enrolled, nextID, attendance, passed, sighted>>

\* The same after a database error or a cancelled request context.
AbortFault(r) ==
  /\ \/ req[r].pc = "marking" /\ Needed(r) # {}
     \/ req[r].pc \in {"update", "select"}
  /\ faults < MaxFaults
  /\ faults' = faults + 1
  /\ req' = [req EXCEPT ![r] = Idle]
  /\ UNCHANGED <<clock, enrolled, tracks, nextID, attendance, passed, sighted>>

\* Every decision is handled: the statistics are recorded (a component of its
\* own) and the response is written.
Respond(r) ==
  /\ req[r].pc = "marking"
  /\ Needed(r) = {}
  /\ req' = [req EXCEPT ![r] = Idle]
  /\ UNCHANGED <<clock, enrolled, tracks, nextID, attendance, faults, passed, sighted>>

-----------------------------------------------------------------------------
(* The rest of the system *)

\* DELETE /api/students/<id>; the foreign keys cascade to the attendance rows.
\* AUTOINCREMENT never hands the ID out again.
DeleteStudent(s) ==
  /\ s \in enrolled
  /\ enrolled' = enrolled \ {s}
  /\ attendance' = [attendance EXCEPT ![s] = NoRows]
  /\ UNCHANGED <<clock, tracks, nextID, req, faults, passed, sighted>>

\* The process is killed and started again: the tracker and the requests are
\* in memory only, and the track IDs start over.
Restart ==
  /\ faults < MaxFaults
  /\ faults' = faults + 1
  /\ tracks' = [ses \in Sessions |-> [s \in Students |-> NoTrack]]
  /\ nextID' = [ses \in Sessions |-> 0]
  /\ req' = [r \in Requests |-> Idle]
  /\ UNCHANGED <<clock, enrolled, attendance, passed, sighted>>

Tick ==
  /\ clock < MaxTime
  /\ clock' = clock + 1
  /\ UNCHANGED <<enrolled, tracks, nextID, attendance, req, faults, passed, sighted>>

Frames == UNION {[S -> Scores] : S \in SUBSET Students}

Step(r) ==
  \/ \E s \in Students : Insert(r, s)
  \/ Update(r)
  \/ Select(r)
  \/ Commit(r)
  \/ AbortGone(r)
  \/ Respond(r)

Next ==
  \/ \E r \in Requests :
       \/ \E ses \in Sessions : Begin(r, ses)
       \/ \E obs \in Frames : Observe(r, obs)
       \/ Step(r)
       \/ AbortFault(r)
  \/ \E s \in Students : DeleteStudent(s)
  \/ Restart
  \/ Tick

Spec == Init /\ [][Next]_vars

\* A goroutine that has work keeps running, and the camera keeps delivering
\* frames of a student who stays in front of it. A frame counts when a request
\* reaches Observe with it, which other requests may delay but not for ever. No
\* deleted student may be in it, whose row cannot be written: an assumption on
\* who stands there, since the person track keeps his identity while he does.
Fairness ==
  /\ \A r \in Requests : WF_vars(Step(r))
  /\ \A r \in Requests, ses \in Sessions : WF_vars(Begin(r, ses))
  /\ \A ses \in Sessions, s \in Students :
       SF_vars(\E r \in Requests : req[r].session = ses
                 /\ \E obs \in Frames : s \in DOMAIN obs /\ DOMAIN obs \subseteq enrolled
                                         /\ Observe(r, obs))

FairSpec == Spec /\ Fairness

-----------------------------------------------------------------------------
(* Properties *)

Row   == [checked : Time \cup {Never}, last : Time \cup {Never}]
Track == [id : Nat, first : Time, last : Time, scores : Seq(Score),
          verdict : {"open", "verified", "rejected"}, committed : BOOLEAN]
Request == [pc : {"idle", "detecting", "marking", "update", "select", "commit"},
            session : Sessions, now : Time, need : [Students -> Nat],
            who : Students]

\* Every variable has its type.
TypeOK ==
  /\ clock \in Time
  /\ enrolled \in SUBSET Students
  /\ tracks \in [Sessions -> [Students -> Track]]
  /\ \A ses \in Sessions, s \in Students : Len(tracks[ses][s].scores) <= MaxFrames
  /\ nextID \in [Sessions -> Nat]
  /\ attendance \in [Students -> [Days -> Row]]
  /\ req \in [Requests -> Request]
  /\ faults \in Nat
  /\ passed \in SUBSET Students
  /\ sighted \in [Sessions -> [Students -> Time]]

\* "Attendance is written only after the same recognized identity accumulates
\* enough frames and the passive liveness vote passes" (ARCHITECTURE.md): a row,
\* and a decision on its way to becoming one, belong to a student for whom a
\* persuasive window was collected, whatever requests overlap.
AttendanceNeedsVote ==
  /\ \A s \in Students, d \in Days : attendance[s][d] # NoRow => s \in passed
  /\ \A r \in Requests, s \in Students : req[r].need[s] # 0 => s \in passed

\* A verdict is never contradicted in flight: while the track a request is
\* marking still exists, it is verified, so no request checks in a student
\* whose current track is undecided or was rejected as a photo or a screen.
MarkingFollowsVerdict ==
  \A r \in Requests, s \in Students :
    LET track == tracks[req[r].session][s]
    IN  req[r].need[s] # 0 /\ track.id = req[r].need[s]
          => track.verdict = "verified"

\* Commit tells the tracker that the row exists; it is never told so of a
\* student without one, which would silence later frames and lose the
\* check-in for good. Only a deletion takes the row away again.
CommittedIsRecorded ==
  \A ses \in Sessions, s \in Students :
    tracks[ses][s].committed /\ s \in enrolled
      => \E d \in Days : attendance[s][d] # NoRow

\* The decision deadlines hold for what stays in the map: an undecided track
\* has fewer than MaxFrames scores and less than DecisionTimeout between its
\* first and its last frame, even when requests arrive out of order.
BoundedDeliberation ==
  \A ses \in Sessions, s \in Students :
    LET track == tracks[ses][s]
    IN  track.id # 0 /\ track.verdict = "open"
          => /\ Len(track.scores) < MaxFrames
             /\ track.last - track.first < DecisionTimeout

\* A late frame has set the track's LastSeen back: Observe assigns it the time
\* of whichever frame it judges, also of one older than the last it judged.
Rewound(ses, s) == tracks[ses][s].last < sighted[ses][s]

\* A verdict is final. As long as a track keeps its ID it keeps its verdict and
\* its mark that the row exists, whatever frames follow and in whatever order: a
\* photo cannot become a face by being shown for longer. And it keeps its ID, so
\* that no new vote is held, until its student has been out of every frame for
\* longer than TrackTTL or the server restarts; except that a track whose
\* LastSeen a late frame has set back is forgotten early, student in view or not.
VerdictFinal ==
  [][\A ses \in Sessions, s \in Students :
       LET old == tracks[ses][s]
           new == tracks'[ses][s]
       IN  old.verdict # "open"
             => \/ /\ new.id = old.id /\ new.verdict = old.verdict
                   /\ old.committed => new.committed
                \/ /\ new.id # old.id
                   /\ clock - sighted[ses][s] > TrackTTL \/ Rewound(ses, s)
                \/ Restart]_vars

\* Deleting a student leaves no attendance behind, though a request that
\* matched him earlier may still be writing.
NoOrphanRows ==
  \A s \in Students \ enrolled, d \in Days : attendance[s][d] = NoRow

\* Rows only appear for students whose vote passed, once a day, and keep the
\* time of the first check-in: the pipeline implements its contract.
Contract ==
  INSTANCE CheckinContract WITH Times <- Time

ImplementsContract == Contract!Spec

\* A verified student whose attendance failed to be written is retried by the
\* next frames: he gets his row, unless he leaves the camera until the track
\* expires, is deleted, or the server restarts.
VerifiedEventuallyRecorded ==
  \A ses \in Sessions, s \in Students :
    /\ tracks[ses][s].verdict = "verified"
    /\ ~ tracks[ses][s].committed
    ~> \/ \E d \in Days : attendance[s][d] # NoRow
       \/ tracks[ses][s].verdict # "verified"
       \/ s \notin enrolled

-----------------------------------------------------------------------------
(* The inductive invariant behind the properties *)

\* IDs in use were handed out by this run of the server.
IdsIssued ==
  /\ \A ses \in Sessions, s \in Students : tracks[ses][s].id <= nextID[ses]
  /\ \A r \in Requests, s \in Students : req[r].need[s] <= nextID[req[r].session]

\* An ID belongs to one student: two tracks of a session differ in it, and
\* the track a request holds an ID of belongs to the student it holds it for.
IdsOwned ==
  /\ \A ses \in Sessions, s1, s2 \in Students :
       tracks[ses][s1].id = tracks[ses][s2].id /\ tracks[ses][s1].id # 0 => s1 = s2
  /\ \A r \in Requests, s1, s2 \in Students :
       req[r].need[s2] # 0 /\ tracks[req[r].session][s1].id = req[r].need[s2] => s1 = s2

\* A request between INSERT and Commit works for a student it must mark, and
\* his row is there when it reaches Commit, unless he was deleted meanwhile.
WorkInHand ==
  \A r \in Requests :
    /\ req[r].pc \in {"update", "select", "commit"} => req[r].need[req[r].who] # 0
    /\ req[r].pc = "commit" /\ req[r].who \in enrolled
         => attendance[req[r].who][Day(req[r].now)] # NoRow

VerdictRemembered ==
  \A ses \in Sessions, s \in Students :
    tracks[ses][s].verdict = "verified" => s \in passed

IInv ==
  /\ TypeOK
  /\ IdsIssued
  /\ IdsOwned
  /\ WorkInHand
  /\ VerdictRemembered
  /\ AttendanceNeedsVote
  /\ MarkingFollowsVerdict
  /\ CommittedIsRecorded
  /\ NoOrphanRows
=============================================================================
