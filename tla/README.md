# A TLA+ verification of FaceSign

FaceSign is a classroom attendance server: browsers, USB cameras and RTSP
cameras deliver frames; the server detects and recognises faces, runs a passive
liveness vote, and writes one check-in per student and day into SQLite. This
directory holds TLA+ models of its control logic, the TLC runs that check them,
and TLAPS proofs about them. Paths below are relative to `src/`.

## 1. Inventory

### Recognition and check-in (`internal/web/recognition.go`, `recognition_track.go`, `internal/store/attendance.go`)
*State*: `recognitionTracker.sessions` (per browser page: one liveness track per
student, and the ID counter), the `attendance` table, and the goroutines of the
requests in flight. *Operations*: `Observe` and `Commit` (each under the
tracker's mutex), `MarkAttendance` (three SQL statements that do not form a
transaction), the decision loop of `recognizePreparedImage`. *Hard*: the three
steps Observe, MarkAttendance, Commit are separate critical sections, requests
of one session may overlap, tracks expire, students are deleted while a request
holds their match, statements fail in the middle of the loop, the server
restarts with the tracker in memory only. *Correct when*: nobody is checked in
without a persuasive vote; one row per student and day whose first time never
changes; a track is told it is recorded only when it is; a failed write is
retried.

### Person tracks, detection scheduling, request gate (`internal/web/person_track.go`, `recognition_person_scheduler.go`, `recognition_person_roi.go`, `recognition_gate.go`)
*State*: per session the boxes followed across frames with the identity each
one has earned; the last detector result with its reuse budget; a busy flag and
the earliest next start per camera client. *Operations*: `Observe`,
`NeedFeature`, `RecordFeature`, `Identity`; `detect`; `tryBegin`, `end`. *Hard*:
an identity outlives the frame that earned it, a detector result is computed
between two lock sections, a camera may be deleted with a request in the gate.
*Correct when*: an identity only changes on clearly better evidence; a stale
detection is used a bounded number of times for a bounded time; at most one
recognition per camera client runs.

### Roster: students, classes, seats (`internal/store/students.go`, `classes.go`, `internal/web/students.go`, `classes.go`)
*State*: tables `students` (class by name, seat) and `classes` (order, layout,
capacity). *Operations*: create, update, move, swap, arrange, delete, rename,
reorder; some in a transaction, some as several statements. *Hard*: check-then-
write pairs interleave; the capacity check and the seat update are separate
statements; `RenameClass` and `UpdateClassLayout` write back values read
earlier. *Correct when*: two students never share a seat; a seated student is
inside his class's capacity; every student's class exists; order is a
permutation.

### Face samples: cache, enrolment, photo import (`internal/web/face_cache.go`, `enrollment.go`, `photo_import.go`, `internal/store/faces.go`)
*State*: table `face_samples`; the in-memory cache of samples joined with their
students; import sessions with candidates, each committed at most once.
*Operations*: enrol, add sample, delete sample, analyse, commit, expire; every
mutation ends with `refreshFaceCacheAfterMutation`. *Hard*: the duplicate-face
check reads the cache long before the insert; concurrent reloads read in one
order and install in another; some mutations skip the reload. *Correct when*:
the cache equals the database when nothing is in flight; one face is enrolled
for one student; an imported candidate is created once.

### Camera store, snapshots and gate (`internal/store/cameras.go`, `internal/web/cameras.go`, `recognition_gate.go`)
*State*: table `cameras` with one default; per camera a cached snapshot with a
mutex of its own, and the flag of a recognition at work. *Operations*: create,
update, set default, delete; frame, recognise, invalidate. *Hard*:
`UpdateCamera` decides the default flag from a row it read before its
transaction; an update that fails after its commit invalidates nothing; a
handler may fill the cache for a camera that was changed meanwhile. *Correct
when*: there is exactly one default while any camera exists; one recognition per
camera runs; no picture of replaced settings is shown.

### Camera stream pool (`internal/web/camera_stream_pool.go`, `cameras.go`, `camera_agents.go`)
*State*: streams by camera with key, latest frame, error, last use; goroutines
that read RTSP/HTTP/USB with back-off; idle watchers; waiters. *Operations*:
`ensure`, `publish`, `setError`, `touch`, `stop`, `watchIdle`, `stopIfIdle`,
`stopAll`, `waitCurrent`, `waitNext`; agent upload. *Hard*: a stream can be
stopped between `ensure` and its use; an idle watcher races a fresh touch; a
request that read the camera's row before a change restarts the old source.
*Correct when*: one live reader per key; no reader survives deletion, disabling
or shutdown; a waiter always returns.

### WebRTC preview and audio (`internal/web/camera_webrtc*.go`, `camera_host_audio.go`, `camera_host_usb.go`, `camera_rtsp_resolver.go`)
*State*: peer connections and their goroutines, ffmpeg processes. *Operations*:
offer, connect timeout, close; capture start and stop. *Hard*: the timeout races
the connection; process and peer must both end. *Correct when*: an offer that
never connects is closed; no process outlives its session.

### Server start (`cmd/facesign`, `internal/models`)
*State*: the TLS root and server certificate files, the model files and the
directories they may be in, the two ports. *Operations*: load or create the
certificates, judge them, search, obtain, verify and replace models, listen,
serve. *Hard*: `os.WriteFile` empties a file before it fills it, a start may be
killed between any two writes, and two starts may run on one directory. *Correct
when*: clients meet one root; what a killed start left does not stop the next
one; a model is opened only after its checksum matched.

### Service manager (`cmd/facesign-manager`, `scripts/install.ps1`, `scripts/upgrade.ps1`)
*State*: the window's busy flag and posted messages, the scheduled task, the
server process, a script in progress. *Operations*: start, stop, restart,
enable and disable startup, install, upgrade. *Hard*: stop disables the task and
enables it again in a deferred call, start and the installation the other way
round; every command may fail or be cut off with its work done; a manager may be
closed in between. *Correct when*: the startup setting is the one the user
asked for; a stopped server is not brought back by the scheduler; a busy window
becomes usable again.

### Browser pages (`internal/web/assets/js`)
*State*: camera and peer handles, the auto-recognition loop, load level, import
and seat editors. *Operations*: start/stop camera, toggle recognition, the
burst loop. *Hard*: every `await` lets stop and start interleave. *Correct
when*: one loop runs at a time; nothing keeps a device after stop.

### Not modelled
Inference engines (`internal/face`, `internal/liveness`, `internal/person`:
numerical ONNX calls behind a mutex), image I/O (`internal/cameraio`), HTML and
CSS, scripts and CI, settings and status handlers (read one value, write one
response), the camera agent (capture, post, sleep), the recognition counters and
the attendance board (single statements and read-only queries). Why each is left
out is noted with its component in `PROJECT.json`.

## 2. Plan

The modules in order of importance for what the system promises. All of them are
built; each has its proofs in a module of their own.

| Module | Of |
| --- | --- |
| `LivenessVote`, `Checkin`, `CheckinContract`, `CheckinProofs` | vote, tracker, decision loop, attendance rows |
| `PersonTracks`, `PersonTracksProofs` | detection cache, person tracks, choice of the faces that are voted on |
| `FaceLibrary`, `FaceContract`, `FaceLibraryProofs` | face samples, their cache, enrolment, photo import |
| `Roster`, `RosterProofs` | students, classes, seats |
| `StreamPool`, `StreamContract`, `StreamPoolProofs` | camera streams and the handlers that use them |
| `Cameras`, `CamerasProofs` | the cameras table and its default, snapshots, the recognition gate |
| `ServerStart`, `ServerStartProofs` | TLS identity and model files: kills between writes, two starts at once |
| `ServiceManager`, `ServiceManagerProofs` | the management windows, the scheduled task, install and upgrade scripts |

What would come next: the sessions of the WebRTC preview, and `camera.js` and
`recognition.js` (section 7 says why they are not here). On the proof side every
safety property of the runs is a theorem.

`Checkin` is composed of `LivenessVote` (EXTENDS) and refines `CheckinContract`
(INSTANCE). `PersonTracks` ends where `Checkin` begins: the set it calls `chosen`
is what `Checkin`'s `Observe` takes as the observations of a frame. `FaceLibrary`
refines `FaceContract`, and `StreamPool` refines `StreamContract` (INSTANCE).

## 3. The modules

A common rule: an action is what other goroutines see as one step, which is a
section under one mutex, or one SQL statement or transaction (the store opens one
connection, `internal/store/store.go:28`). What a handler remembers between two
such steps is its record in `req`, with a `pc`. The `Mutant...` operators are
plausible bugs, each next to the definition it would replace; they are used by no
action.

### LivenessVote
The vote over a window of scores (`recognition_track.go:12-20` and the `switch` of
`Observe`). Scores are percent, times are seconds; `Verdict` has the order of the
Go cases: spoofed, fast pass, slow pass, out of time. `Persuasive` states what a
passing window must look like without repeating the code's case order.

### Checkin
| State | Code |
| --- | --- |
| `tracks`, `nextID` | `recognitionTracker.sessions` |
| `attendance`, `enrolled` | tables `attendance`, `students` |
| `req[r]` | the goroutine of one request: its session, its time, the track IDs it still has to mark |
| `clock`, `faults` | time; failures so far (bound) |
| `passed` | history: students for whom a persuasive vote was collected |
| `sighted` | history: the latest frame that showed each student, which `LastSeen` is not always |

`Begin` takes session and time (`recognition.go:84`), `Observe` is the tracker's
whole method under its mutex, `Insert`, `Update`, `Select` are the statements of
`MarkAttendance`, `Commit` the tracker's second section; `AbortGone` and
`AbortFault` are the 500 in the middle of the decision loop. `Restart` forgets
everything in memory. Detection and matching are any set of students with any
scores. Once a track has its verdict the code still appends scores for display;
the model's window stops there.

### PersonTracks
`cache` is the detection cache of a session, `tracks` and `nextID` its person
tracks. `Hit`, `Miss` and `Install` are the two sections of
`personDetectionsForRecognition`; `Observe`, `Need`, `Identity`, `RecordFeature`
the four methods of the tracker; `Match` is the query of the face samples together
with the local work after it (extraction, and the greedy choice in
`recognizePreparedImage`). The abstractions:

* **Places** replace rectangles: at most one body and one face are at a place.
  `Association` replaces `personAssociationScore`, and `Within` the test of
  `associateFaceToPerson` and `addFaceFallbackPersons` that a face's centre is in a
  rectangle: a face may lie in the body of any place that `Within` gives its own.
  `BodySets` and `Joined` leave open in which of them it does; if `Within` allows,
  it lies in none, has no track (`Untracked`), and is recognised and voted on
  without one. Two faces may lie in one body and share its track. Which body wins
  among several is not computed.
* **Time is not counted.** Whenever the code compares ages, the model may take
  either branch: a track may be gone, a cached detection too old, an unknown face
  due again. What is proved does not depend on 2 s, 1.8 s or 0.6 s.
* **Greedy choices** are any maximal set of disjoint pairs that beats every pair
  it leaves out, which is what the unstable sort and Go's map order allow.

Sessions share nothing here, so there is one. Quality counts units of
`bestFaceImprovement`. The gate of the camera route, one flag under a mutex, is
left out: requests overlap more often than they do behind it.

### FaceLibrary
`samples` is the table, `cache` the decoded copy every comparison reads, `imports`
the photo-import sessions. A handler compares (`Look`, `Load`, `Install`: read the
cache, or query and then assign it), decides, writes (`CreateStudent`,
`WriteSample`) and reloads (`Refresh`, `Store`; after a failed query `Drop` empties
the cache instead). A feature vector is a model value with four levels of similarity;
names and classes are left out. `FaceContract` is the table alone: it has no cache,
no requests and no sessions, a student's book is the set of his features, and a
face goes in only if nobody else has one like it and, unless it is the first,
the student has.

### Roster
`students` and `classes` are the tables, `req` what a handler of several
statements has read. Each chain of handlers is in the code's order, for instance
`ReadProfile`, `CheckClass`, `UpdateProfile`, `ReadSeatClass`, `CheckLayout`,
`CheckOccupied`, `Sit` for a PUT that changes profile and seat; handlers of one
transaction (`MoveSeat`, `CreateClass`, `MoveUp`) are one action. The unique index
of the schema is the guard `SeatIndex`. `Fault` ends a handler between two
statements, `Restart` runs `syncExistingClasses`, which gives every class name
that only students have a row of its own, in any order.

### StreamPool
`pool` holds a stream per camera in each of the two maps; a stream's record is
`networkCameraStream` with its capture goroutine (`run`) and idle watcher
(`watch`). Handlers run `Ensure` / `Launch` / `StopOld`, then wait (`Attach`,
`Current`, `Read`, `Wake`, `GiveUp`; `Following`, `WakeNext` for previews);
editors change the row first and unpool afterwards. Of frames only freshness is
kept.
One `Tick` is 2.5 s; code between two waits takes no time, so `Tick` waits until
every request waits. `probe` and `Close` are left out. `StreamContract` is the pool
and the life of each capture, free, serving, leaving or stopped, without handlers,
locks and watchers; `Phase` reads it off a stream's record, off the pool and off
what handlers and watchers hold in their hands. A stream in none of these places
would be `"leaked"`, which `StreamContract` does not know.

### Cameras
| State | Code |
| --- | --- |
| `cams`, `lastID` | table `cameras`: settings and `is_default` |
| `entryOf`, `entry` | `Server.networkCameraFrames` and each entry's frame and mutex |
| `busy` | `Server.cameraRecognitionBusy` |
| `req[r]` | what a handler has read: camera, settings, default flag, cache entry |
| `overtaken`, `late` | histories: see `DefaultKept` and `FreshSnapshot` |

PUT is `StartPut`, `ReadCurrent`, `Update`, `ReRead`, `Invalidate`; DELETE is
`Delete`, `Invalidate`; a frame is `Ask`, `Find`, `Lock`, `Fetched` or
`FetchFails`, `Answer`, behind `TryBegin` when it is recognised. A transaction
that is refused leaves the table as it was (`Committed`). Ages are not counted:
a cached frame may be taken or refetched at any time.

### ServerStart
A process is a `pc` that walks through `run` of `main.go`: `Stat`, `Load`,
`CollectHosts`, `Judge` for `ensureTLSIdentity`; `Search`, `NextModel`, `Remove`,
`Rename` for `models.resolve`; `Engines`, `Listen`, `ListenHTTPS`, `Serve`. Every
`os.WriteFile` is two steps, `Truncate` and `Fill`, and `Kill` may come after
each. A file holds nothing, a torn rest, or a key pair's certificate or key.
The operator moves the computer (`Move`), loses a root file (`Lose`), deletes both
(`Reset`), or damages, deletes or supplies a model (`Provide`). `scene` is a bound:
a behaviour is about the identity or about the models, which share no state.

### ServiceManager
A manager is its window (`open`, `busy`, `posted`) and the background action in it
(`pc`); a script is a process of its own. Every external command is one step, which
fails or is cut off with its effect done or not (`Change`). `owes` is a deferred
command still to run: `Restore` for a stop, `StartDisable` for a start of a
disabled task, `DisableTask` for the scripts. The task, the scheduler, the user's
double click and the end of the server are external. The code asks for the task's
setting by its `State`, which is Running while an instance lives, enabled or not
(`Shown`): a task disabled under a live server may look enabled to `StopState`,
`StartState`, `Query` and `ReadTask`.

### What the history variables excuse
Some promises hold only while something outside the code's control does not
happen; a history variable remembers that it has, and nothing else reads it.

* `sighted` (Checkin): a frame that reaches the tracker late sets `LastSeen` back
  (`recognition_track.go:101`). `VerdictFinal` measures a student's absence by
  `sighted` and names a track that was set back (`Rewound`) as the one other
  reason, next to absence and restart, for which he is voted on again.
* `overtaken` (Cameras): an update wrote `is_default=0` for a camera that had become
  the default after the update read it. The table then has no default, and
  gets one only when a request asks for it.
* `late` (Cameras): a handler that still had a camera's old settings filled its
  present cache entry, or an update answered an error after its commit.
* `raced` (ServerStart): two processes were writing a new root at once.
* `disturbed` (ServerStart): another process or the operator changed a file while
  this start ran.
* `excused` (ServiceManager): a command failed with the task in another state than
  the user's, a manager was closed while it owed a change, or two were at work.
* `hidden` (ServiceManager): a stop, an upgrade or an enabling of startup took a
  disabled task with a live server for an enabled one. This is a defect of the code
  (see below), not of its surroundings; the user's next choice that is carried out
  ends it. `StopHolds` does not excuse it.

## 4. The runs

| Run | What it shows | Instance, and why it is enough |
| --- | --- | --- |
| `checkin_overlap` | nobody is checked in without a vote, no verdict is contradicted or changes while its track stays, no orphan rows, deliberation is bounded | two requests of one session, one student, a live and a spoof score, four seconds with midnight among them: every pair of requests can interleave at every step, a frame can reach the tracker late, the time-out is reachable, and a track can expire and start again; faults and restarts are in `checkin_crowd` |
| `checkin_crowd` | `CommittedIsRecorded`, refinement of the contract, retry | two students in one frame, so that a fault hits between two decisions of a loop; one request; a restart counts as a fault |
| `tracks` | identities and votes stay with their track; an expired track is gone for good | two requests, two overlapping places, two tracks, one student who also looks like the other, though less than like herself (`Likeness`); the face on the right may lie in its own body, in its neighbour's, or in none; a detection may be reused once |
| `tracks_replaced` | finding: see below | one request, no look-alikes |
| `faces` | an import stores each photo once; cache and table agree; one face, one student; refinement of the contract | two requests that are one at a time except for a commit sent twice (`Overlap`); two pictures of one person and one of another |
| `roster_overlap` | `OneStudentPerSeat` under overlap | two handlers, two students, one class, one seat |
| `roster_sequential` | seats fit, orders differ, nobody is stranded, with one handler at a time | two students, three classes, two layouts, faults between statements |
| `pool_settings` | no leak, no idle stop under a waiter, refinement of the contract | two handlers, two streams, rows changed at any time |
| `pool_preview` | captures end, previews end, no dead stream, no lost wake-up | one viewer, one editor, a camera that changes between network and host, so that previews with an old row replace streams; fair goroutines. Idle watchers are in `pool_settings` |
| `cameras` | one default, one recognition per camera, no snapshot of replaced settings | two handlers, two cameras, two settings that may collide, two cache entries, restarts |
| `server_start` | one root, no start stopped by a killed one's leftovers, no unverified model, valid copies stay | two starts, four key pairs (root and server, each replaced once), two addresses, two directories of which one is writable, two models |
| `manager` | the startup setting, stops that hold, windows that come back | one window and one script, with states of the task that hide its setting, which is enough for a script that outlives its window and for every failure of every command; the inductive invariant was also checked with two windows |

Bounds: `MaxTracks`, `MaxFaults`, `MaxTime` (Checkin); `MaxTracks` (PersonTracks);
`MaxStudents`, `MaxClasses`, `MaxSeat` (Roster); `MaxCopies` (FaceLibrary);
`MaxCameras` (Cameras); the slots `Scripts` and the choice of `scene`; the finite
sets `Requests`, `Streams`, `Places`, `Photos`. The bounds on counters are
guards that only remove behaviours after the interesting ones; the theorems below
hold for every value of them. `tracks` reuses a detection once instead of the
code's 2 to 4 times; nothing it checks depends on the number.
Symmetry is used over slots and requests, and over streams, students, photos, settings, cache
entries, processes, keys and addresses where nothing distinguishes them; never in a run with a liveness property.

Deadlock is checked in every run.

The type invariants of `Checkin`, `PersonTracks`, `FaceLibrary`, `Roster`,
`StreamPool` and `Cameras` are in no run: they are theorems.
The invariants of all proofs were checked by TLC on these instances before they
were proved.

### The finding
`tracks_replaced`: a student who steps into the place of another within two
seconds, with a face that is not clearly better, is taken for him, and his frames
count for the other one's vote. It is a limit of the design, at odds with the
wording of `ARCHITECTURE.md:74`.

### What the models showed besides
One more disagreement, which `StartupKept` excuses by `hidden` and no run states
as a finding of its own: stop and upgrade do not keep a disabled startup setting
while FaceSign runs. Startup is turned off under a running server, or a disabled task
is started by the manager (ENABLE, run, DISABLE). "停止" then reads Running
(`main_windows.go:616-618`), disables the task and enables it on return; an upgrade
reads the same (`install.ps1:117`) and registers the task enabled. FaceSign starts
at the next sign-in, against `README.md:70` ("Use 关闭开机启动 separately if FaceSign
should also stay stopped after the next reboot"), `README.md:97` (an upgrade preserves
"the current startup-enabled/disabled state") and the question before the upgrade
(`main_windows.go:822`). In the same state "开启开机启动" answers that startup is already
on and leaves it off (`main_windows.go:702`), and the status text shows it as on
(`main_windows.go:529`).
TLC finds it when `~ hidden` is taken out of `StartupKept`.

Behaviours of the code that no statement of the repository contradicts, and that
shaped the properties:

* `PUT /api/students/<id>` checks the seat against the class's capacity and writes
  it in a later statement (`internal/store/students.go:213`, `:236`); a layout made
  smaller in between (`classes.go:149`) leaves a student on a seat that does not
  exist. `SeatsFit` and `NoStrandedStudent` are therefore stated for one handler at
  a time.
* A handler that read the camera's row before a release asks the pool after it
  (`camera_stream_pool.go:324`), and the capture runs again although the page says
  the device is released. It ends by idleness or by the next release; `NoLeak`
  says no more than that.
* The items of one import commit are compared with the cache of before the commit
  (`photo_import.go:442`, `:518`). The analysis has sorted out photos that match each
  other, so this matters only where matching is not transitive: an item that gives
  a student a new picture, and a later one that matches this picture and none
  before, make two students of one person. `OneFaceOneStudent` is stated, and
  checked, for similarities under which a face matches all faces of its person.
* `LastSeen` and the deadline take the time of whichever frame comes last. A student
  is verified by the frames of seconds 0 and 1, another frame of second 0 is observed
  after them, and at second 4 the track is dropped as unseen for longer than the
  TTL although he was seen three seconds ago (`recognition_track.go:83`, `:101`): he
  is voted on again. His row stays, so that the second vote only delays the display.
* A PUT whose new row could not be read back answers that error and leaves the
  stream of the old settings in the pool (`cameras.go:516`).
* An update and a `SetDefault` of the same camera may leave no default (`overtaken`).
* Two first starts at once may serve under one root and keep the files of another
  (`raced`), and a first start killed between its two root files refuses every
  later start until the operator deletes the half that is there.

## 5. Fairness

`Checkin`: the steps of a request that has work are weakly fair (goroutines run);
`Begin` is weakly fair (the page's loop sends frames); `Observe` with a student in
the frame is strongly fair: it assumes that he stays in front of the camera and
that no deleted student stands next to him, because the code keeps a deleted
student's identity in a live person track and answers 500 for the whole frame.
No statement is assumed to succeed, only that faults are finitely many
(`MaxFaults`).

`StreamPool`: handlers that do not wait, cancelled captures and due stops are
weakly fair; wake-ups are; the timers are strongly fair, since Go's `select` picks
any ready case and a stream of notifications does not starve them. Clients,
cameras and the clock owe nothing.

`ServiceManager`: background actions, the window's messages and the script a manager
waits for are weakly fair: goroutines run, commands end within `execHidden`'s eight
seconds and the script within ten minutes. The user, the scheduler and the server
owe nothing.

The other modules state safety only.

## 6. The proofs

All theorems hold for every value of the constants allowed by the named
assumption of the module (finite sets, natural bounds, symmetric similarity).

* **CheckinProofs.** `IInv` adds to the properties: track IDs in use were handed
  out (`IdsIssued`), an ID belongs to one student (`IdsOwned`), a request between
  INSERT and Commit works for a student with a row (`WorkInHand`), and a verified
  track implies a vote (`VerdictRemembered`). `IdsOwned` is what makes
  `CommittedIsRecorded` inductive: `Commit` finds the track by its ID, and without
  it could mark another student's. One lemma per action, from them
  `NoCheckinWithoutVote`, `NoMarkAgainstVerdict`, `NoFalseCommit`, `NoOrphans`,
  and `Refinement`: each step is a step of `CheckinContract` or leaves its
  variables alone. `DeliberationBounded` needs no strengthening besides the types:
  only `Observe` changes a track's frames, and it takes the verdict on the window
  and the age that it then stores (`ObservedInTime`), also for a frame that is
  older than the track's last one. `VerdictStays` is the action property
  `VerdictFinal`: the track of an ID keeps verdict and mark, and an ID is
  replaced only for the three reasons it names. Where an `Observe` does not carry a
  decided track on (`ObserveDecided`), the track has expired by the request's own
  time, which is not ahead of the clock (`InThePast`); if it was not set back, its
  `last` is the student's latest sighting, and he was absent by the clock too.

  Two theorems are about the vote itself. `SpoofExcludesPass`: a window that looks
  spoofed passes neither test, so the order of the cases of the `switch` is no part of
  what it decides. `BetterFramesPass`: raising scores keeps a verified window
  verified and never gets one rejected, by monotonicity of sum and of both counts
  (`CasesMonotone`). The thresholds are constants of the code; the first theorem
  depends on their values, the second does not.
* **FaceLibraryProofs.** `ImportInv`: a stored photo is marked committed, one
  commit per import is past the session's mutex, and the photo it works on is not
  marked. From it `PhotosStoredOnce`, whatever handlers overlap.

  The other three theorems have hypotheses, because the code does not have what they
  would need without. `Alone`: handlers come one at a time, except that commits of
  one import may overlap, which their mutex then keeps apart. Nothing in the code
  makes other handlers wait for one another: two overlapping enrolments can both
  find a face new, and two overlapping reloads can leave the older rows in the
  cache. `SamePerson`: matching is transitive. The run `faces` is an instance of
  both. `CacheInv` then says, of the one handler that is past its mutex
  (`AloneAtWork`), what it knows: rows it has queried are still the table, rows it
  decides on are the cache, and the cache is the table unless this handler will
  reload it or has stored a photo (`Fresh`); with nobody at work, a loaded cache is
  the table. From it `CacheFollowsTable`. `FaceInv` adds what an import does with
  a cache that lags behind its own photos: each row the cache lacks (`Explained`)
  is a ready photo of this import, and ready photos differ from one another
  (`ItemsOK`), or a further face of a student the cache shows. With it a decision to
  write (`WriteMeans`) fits the table and not only the cache (`Fits`), which is the
  whole of `StudentsKeptApart`. `Refinement` adds what the student has himself
  (`OwnFace`): the face like the new one, which the cache showed, is still in the
  table, and a first sample is really the first. Every other step maps to a step
  of `FaceContract` on one student's book (`BookChanges`) or leaves it alone.
* **PersonTracksProofs.** `TrackInv`: whatever a request holds about a face
  (`FacesShown`, `FacesAtHand`, `CandidatesSeen`) was shown in the track the face
  was given, or by the face itself if it has none, and track IDs not handed out have
  no track (`Unused`). A request may
  find its track gone; since IDs are never reused, it then records nothing. From
  it `OwnIdentity`, `OwnVotes` and `OneFace`. That the person tracker never reuses
  an ID is what the proof rests on, and `GoneForGood` states it: a number that was
  handed out and has no track never has one again: a recording that comes late
  leaves a track that is gone alone (`RecordGone`), and a new frame takes up tracks
  that are alive or new (`ObserveGone`). `DeadUnknown` says that a track that is gone
  keeps no identity.
* **StreamPoolProofs.** `PoolInv`: a request in progress has the streams its `pc`
  needs (`Good`), a stream is in at most one place of the pool (`OnePlace`), and a
  stream that is about to be stopped is not in it (`Apart`). From it `NoLeak` and
  `NoDeadStream`: what is removed from a map is in the hands of exactly the
  handler or watcher that stops it. `WaitInv` adds `InUse`, that a waiting
  handler's stream has been idle no longer than the handler has waited; with it
  `NoLostWakeup` and `NotIdleUnderWaiter`. `Refinement`: each step is one of
  `StreamContract` or leaves its variables alone. It needs besides `Launching`: a
  record in use has its goroutine or belongs to the one handler that is about to
  start it, so that no two handlers create a stream in the same record. That a phase
  is never `"leaked"` is `NoLeak` (`PhaseIs`), that nothing is stopped while it
  serves is `Apart`.
* **RosterProofs.** `RosterInv` holds for any number of handlers: `GoodHeld` (what a
  handler is about to write is within its type), `OneStudentPerSeat`,
  `DistinctOrders`, `DistinctNames`. Seats stay apart because the unique index
  guards the write, whatever was checked before. `AloneInv` is for one handler at a
  time, the assumption `Alone`: what a handler has checked still holds when it
  writes (`Checked`), and nobody has a seat in a class that does not exist
  (`NoSeatNowhere`). From it `SeatsFit` and `NoStrandedStudent`. The assumption
  is needed, see section 4; the run `roster_sequential` is its instance.
* **CamerasProofs.** `DefaultInv`: handlers that write have settings and a camera
  (`Informed`), there is at most one default (`AtMostOneDefault`, so the unique
  index never refuses a request), and at least one unless `overtaken`. The last
  uses that a refused update changes nothing and that `Delete` names an heir. The
  gate's invariant is `OneRecognition` itself with the shape of a handler. For
  `FreshFrames`, `Owned`: an entry of the cache is one camera's, and a handler that
  still holds it works for that camera or for an entry that is no longer in use, so
  that a late fill can only spoil the camera it was meant for. A change of a camera
  stays pending until its handler has invalidated the entry (`PendingMoves`).
* **ServerStartProofs.** `RootInv`, as long as no two starts raced: one process
  creates a root at a time (`OneCreator`), what it writes is its own (`Created`), and
  every process that knows a root knows the one of the files, or there are no
  files of a root to know (`Stands`, `Agreed`). From it `RootNeverReplaced` and
  `ServedUnderRoot`, for any number of processes, kills and renewals. `StartInv` is
  about a start that nobody disturbs: the certificate it wrote waits for its own
  key, every model it has passed is valid, and it removes a file only where there is
  no valid one and a verified one is at hand (`Sound`); a step of another process that
  touches what it relies on is what disturbs it. From it `IdentityPrepared`,
  `OnlyVerifiedModels` and, step by step, the action property `CopiesStay`.
* **ServiceManagerProofs.** `IInv`: a window with an action in its background is open
  and busy (`Shape`), and unless something is excused, one actor is at work at a
  time and whoever owes the task a change is on the way to it, with the task in the
  state that change will undo (`Duties`). What is said there of the user's choice is
  said while nothing was hidden (`Asked`); what is said of the task alone, and with it
  `StopHolds`, holds in either case. From it `StartupKept` and `StopHolds`.

Only model-checked are the liveness properties `VerifiedEventuallyRecorded`,
`LeftPoolEnds`, `PreviewEnds` and `BusyEnds`: liveness under fairness is out of
the prover's reach.

## 7. Not modelled, and why

* **WebRTC preview and audio, RTSP forwarding.** No state is shared between offers:
  each is a handler and a goroutine that waits for the connection, the cancellation
  or a time-out and closes what it opened in deferred calls. The connection's
  states, and when callbacks report them, are those of Pion, gortsplib and ffmpeg.
  One consequence is visible in the code: a session outlives a release, a change or
  a deletion of its camera until the browser closes it.
* **Browser pages.** `camera.js` and `recognition.js` have awaits that let start and
  stop interleave: `startCamera` may go on after `stopCamera`, and two automatic loops
  may run after the box was switched off and on. The hazards are in `PROJECT.json`
  without a property: what they depend on is the browser's event order and devices.
  To the server a page is any request at any time, which is what the other modules
  assume.
* **A deleted student who stays in view** keeps the identity of his person track, and
  every frame that would record him answers 500. The liveness property of
  `Checkin` assumes that this does not happen.
* **Schema and migration** run before the server listens. **Counters, attendance
  board, settings, status**: single statements and queries. **Camera agent**: capture,
  post, sleep. **Inference, imaging, markup**: numerical or without state.
