----------------------------- MODULE StreamPool -----------------------------
(***************************************************************************)
(* The pool of continuous camera streams: web/camera_stream_pool.go, with  *)
(* the handlers of web/cameras.go that use it and the host camera capture  *)
(* of web/camera_host_usb.go.                                              *)
(*                                                                         *)
(* A stream is a goroutine that keeps one capture (an FFmpeg process or an *)
(* HTTP response) open and publishes its frames; two maps hold the streams *)
(* by camera, one for recognition and one for previews, and a camera of    *)
(* this host has one stream for both. Every section under one mutex is an  *)
(* action; what a handler does after unlocking is a later action of its    *)
(* request. The content of a frame is left out, and of its sequence number *)
(* only who has seen the latest one.                                       *)
(*                                                                         *)
(* One Tick is 2.5 seconds: no wait for a frame is longer, and a stream    *)
(* for recognition is idle after two of them. Code between two waits takes *)
(* no time, so Tick waits until every request waits.                       *)
(***************************************************************************)
EXTENDS Naturals, FiniteSets

CONSTANTS
  Cameras, Streams,
  Requests,     \* slots for handlers in progress
  Viewers,      \* those that ask for frames
  Editors,      \* those that release, change or delete cameras
  Configs,      \* what a camera row can hold, as far as the stream key tells
  HostConfigs,  \* those of kind "local"
  Uses,         \* the maps the requests for frames ask for
  NoStream

ASSUME PoolAssumption ==
  /\ HostConfigs \subseteq Configs /\ Viewers \cup Editors \subseteq Requests
  /\ Uses \subseteq {"recognition", "preview"}
  /\ NoStream \notin Streams

IdleFor == 2    \* networkCameraRecognitionIdleFor, in ticks
WaitFor == 1    \* the longest wait in networkCameraFrameFromStream

VARIABLES
  rows,     \* camera -> config, the saved cameras
  pool,     \* [{"recognition", "preview"} -> [Cameras -> stream]]
  stream,   \* [Streams -> networkCameraStream and its two goroutines]
  req       \* [Requests -> the handler's locals]

vars == <<rows, pool, stream, req>>

-----------------------------------------------------------------------------
Maps == {"recognition", "preview"}

\* networkCameraStreamKey: the purpose and the configuration.
Purpose(config, use) == IF config \in HostConfigs THEN "host-usb" ELSE use
MapOf(purpose) == IF purpose = "recognition" THEN "recognition" ELSE "preview"

\* run: the goroutine is not started, connecting (or waiting to), has its capture
\* open, or is done. watch: the idle watcher runs, or is stopping it.
Unused == [camera |-> NoStream, config |-> NoStream, purpose |-> "none",
           run |-> "none", watch |-> "off", stopped |-> FALSE, frame |-> "none",
           err |-> FALSE, idle |-> 0, waiters |-> {}, seen |-> {}]

NoReq == [pc |-> "idle", c |-> NoStream, config |-> NoStream, use |-> "recognition",
          step |-> "once", s |-> NoStream, feed |-> NoStream, olds |-> {}, waited |-> 0]

Init ==
  /\ rows \in [Cameras -> Configs]
  /\ pool = [m \in Maps |-> [c \in Cameras |-> NoStream]]
  /\ stream = [s \in Streams |-> Unused]
  /\ req = [r \in Requests |-> NoReq]

To(r, pc)    == req' = [req EXCEPT ![r].pc = pc]
Finish(r)    == req' = [req EXCEPT ![r] = NoReq]
Begin(r, q)  == req[r].pc = "idle" /\ req' = [req EXCEPT ![r] = q]

\* close(notify): whoever waits on the stream goes on.
Notify(st) == [st EXCEPT !.waiters = {}]

\* networkCameraStream.stop: the flag, the channel and the context. Everything
\* looks at the flag first, so the rest of the record is forgotten.
Stop(st) == [st EXCEPT !.stopped = TRUE, !.frame = "none", !.err = FALSE, !.idle = 0, !.seen = {}]
Halt(st) == Stop(Notify(st))

MutantTouch(st) == st
Touch(st) == IF st.purpose = "recognition" THEN [st EXCEPT !.idle = 0] ELSE st

-----------------------------------------------------------------------------
(* Handlers: each reads the camera's row first *)

\* GET frame and POST recognize take one frame, GET stream shows the preview.
View(r, c, use) ==
  /\ c \in DOMAIN rows
  /\ Begin(r, [NoReq EXCEPT !.pc = "ensure", !.c = c, !.config = rows[c], !.use = use,
                            !.step = IF use = "preview" THEN "first" ELSE "once"])
  /\ UNCHANGED <<rows, pool, stream>>

\* POST release.
Release(r, c) ==
  /\ c \in DOMAIN rows
  /\ Begin(r, [NoReq EXCEPT !.pc = "unpool", !.c = c])
  /\ UNCHANGED <<rows, pool, stream>>

\* PUT: the row, then invalidateNetworkCameraFrame, unless the new row could not
\* be read back: the handler answers that error and leaves the pool alone.
Put(r, c, config) ==
  /\ c \in DOMAIN rows
  /\ \E q \in {[NoReq EXCEPT !.pc = "unpool", !.c = c, !.use = "preview"], NoReq} : Begin(r, q)
  /\ rows' = [rows EXCEPT ![c] = config]
  /\ UNCHANGED <<pool, stream>>

\* DELETE.
Delete(r, c) ==
  /\ c \in DOMAIN rows
  /\ Begin(r, [NoReq EXCEPT !.pc = "unpool", !.c = c])
  /\ rows' = [d \in DOMAIN rows \ {c} |-> rows[d]]
  /\ UNCHANGED <<pool, stream>>

\* ensureNetworkCameraStreamForPurpose under networkCameraStreamMu: a stream
\* of another key is replaced, and stopped only after unlocking.
SameKey(s, config, purpose) == stream[s].config = config /\ stream[s].purpose = purpose

Replaced(s) == {s} \ {NoStream}

Reuse(r, s) ==
  /\ stream' = [stream EXCEPT ![s] = Touch(@)]
  /\ req' = [req EXCEPT ![r].s = s, ![r].pc = "ensured"]
  /\ UNCHANGED pool

\* The record is not in use, or nothing refers to it any more.
Garbage(s) ==
  /\ stream[s].run \in {"none", "done"}
  /\ \A m \in Maps, c \in Cameras : pool[m][c] # s
  /\ \A r \in Requests : s \notin {req[r].s, req[r].feed} \cup req[r].olds

Create(r, s, map, purpose) ==
  /\ Garbage(s)
  /\ stream' = [stream EXCEPT ![s] = [Unused EXCEPT !.camera = req[r].c,
                  !.config = req[r].config, !.purpose = purpose]]
  /\ pool' = [pool EXCEPT ![map][req[r].c] = s]
  /\ req' = [req EXCEPT ![r].s = s, ![r].pc = "launch",
                        ![r].olds = Replaced(pool[map][req[r].c])]

Ensure(r) ==
  LET purpose == Purpose(req[r].config, req[r].use)
      map     == MapOf(purpose)
      current == pool[map][req[r].c]
  IN
  /\ req[r].pc = "ensure"
  /\ IF current # NoStream /\ SameKey(current, req[r].config, purpose)
     THEN Reuse(r, current)
     ELSE \E s \in Streams : Create(r, s, map, purpose)
  /\ UNCHANGED <<rows>>

\* old.stop(), for every stream the request took out of the pool.
StopOld(r, s) ==
  /\ req[r].pc \in {"launch", "stop"}
  /\ s \in req[r].olds
  /\ stream' = [stream EXCEPT ![s] = Halt(@)]
  /\ req' = [req EXCEPT ![r].olds = @ \ {s}]
  /\ UNCHANGED <<rows, pool>>

\* go runNetworkCameraStream, and the idle watcher for recognition.
Launch(r) ==
  /\ req[r].pc = "launch" /\ req[r].olds = {}
  /\ stream' = [stream EXCEPT ![req[r].s].run = "connect",
                  ![req[r].s].watch = IF @ = "off" /\ stream[req[r].s].purpose = "recognition"
                                      THEN "on" ELSE @]
  /\ To(r, "ensured")
  /\ UNCHANGED <<rows, pool>>

\* stopNetworkCameraStream under the mutex: both maps lose the camera.
MutantTaken(c) == {pool["recognition"][c]} \ {NoStream}
Taken(c) == {pool[m][c] : m \in Maps} \ {NoStream}

MutantEmptied(c) == [pool EXCEPT !["recognition"][c] = NoStream]
Emptied(c) == [m \in Maps |-> [pool[m] EXCEPT ![c] = NoStream]]

Unpool(r) ==
  /\ req[r].pc = "unpool"
  /\ pool' = Emptied(req[r].c)
  /\ req' = [req EXCEPT ![r].olds = Taken(req[r].c), ![r].pc = "stop"]
  /\ UNCHANGED <<rows, stream>>

\* The answer of release and of DELETE ("use" tells PUT).
Stopped(r) ==
  /\ req[r].pc = "stop" /\ req[r].olds = {}
  /\ Finish(r)
  /\ UNCHANGED <<rows, pool, stream>>

-----------------------------------------------------------------------------
(* Waiting for frames *)

Fresh(s) == ~ stream[s].stopped /\ stream[s].frame = "fresh"

\* What a handler does once networkCameraFrameFromStream has returned: "once"
\* answers, the preview attaches to the stream, or goes on showing it.
Served(q) ==
  IF q.step = "once" THEN NoReq
  ELSE IF q.step = "first"
  THEN [q EXCEPT !.step = "attach", !.pc = "ensure", !.s = NoStream, !.waited = 0]
  ELSE [q EXCEPT !.pc = "next", !.s = NoStream, !.waited = 0]

\* Without a frame of the stream the HTTP snapshot may still answer; a preview
\* that is running retries for ever.
Unserved(q) == {Served(q)} \cup (IF q.step = "refresh" THEN {} ELSE {NoReq})

\* Done with the stream's pool: the preview remembers the stream it attaches to
\* and the latest frame, everything else reads.
Attach(r) ==
  /\ req[r].pc = "ensured" /\ req[r].step = "attach"
  /\ req' = [req EXCEPT ![r].feed = req[r].s, ![r].s = NoStream, ![r].pc = "next"]
  /\ stream' = [stream EXCEPT ![req[r].s].seen =
                  IF ~ stream[req[r].s].stopped /\ stream[req[r].s].frame # "none"
                  THEN @ \cup {r} ELSE @]
  /\ UNCHANGED <<rows, pool>>

Current(r) ==
  /\ req[r].pc = "ensured" /\ req[r].step # "attach"
  /\ \/ Fresh(req[r].s) /\ req' = [req EXCEPT ![r] = Served(@)]
     \/ ~ Fresh(req[r].s) /\ To(r, "read")
     \* a camera with a snapshot URL does not wait for the stream
     \/ ~ Fresh(req[r].s) /\ \E q \in Unserved(req[r]) : req' = [req EXCEPT ![r] = q]
  /\ UNCHANGED <<rows, pool, stream>>

\* waitCurrent: one pass under the stream's lock, which also picks up notify.
Read(r) ==
  LET s == req[r].s IN
  /\ req[r].pc = "read"
  /\ \/ Fresh(s) /\ req' = [req EXCEPT ![r] = Served(@)] /\ UNCHANGED stream
     \/ /\ ~ Fresh(s) /\ (stream[s].stopped \/ stream[s].err)
        /\ \E q \in Unserved(req[r]) : req' = [req EXCEPT ![r] = q]
        /\ UNCHANGED stream
     \/ /\ ~ Fresh(s) /\ ~ stream[s].stopped /\ ~ stream[s].err
        /\ stream' = [stream EXCEPT ![s].waiters = @ \cup {r}]
        /\ To(r, "blocked")
  /\ UNCHANGED <<rows, pool>>

Wake(r) ==
  /\ req[r].pc = "blocked" /\ r \notin stream[req[r].s].waiters
  /\ To(r, "read")
  /\ UNCHANGED <<rows, pool, stream>>

Leave(s, r) == stream' = [stream EXCEPT ![s].waiters = @ \ {r}]

\* The timer of waitCurrent, or the client is gone.
GiveUp(r) ==
  /\ req[r].pc = "blocked"
  /\ Leave(req[r].s, r)
  /\ \E q \in Unserved(req[r]) \cup {NoReq} : req' = [req EXCEPT ![r] = q]
  /\ UNCHANGED <<rows, pool>>

Newer(r) == stream[req[r].feed].frame # "none" /\ r \notin stream[req[r].feed].seen

\* waitNext: one pass under the lock, after the last frame was written out.
Following(r) ==
  LET s == req[r].feed IN
  /\ req[r].pc = "next"
  /\ \/ stream[s].stopped /\ To(r, "judge") /\ UNCHANGED stream
     \/ /\ ~ stream[s].stopped /\ Newer(r)
        /\ stream' = [stream EXCEPT ![s].seen = @ \cup {r}] /\ UNCHANGED req
     \/ /\ ~ stream[s].stopped /\ ~ Newer(r)
        /\ stream' = [stream EXCEPT ![s].waiters = @ \cup {r}]
        /\ To(r, "blockedNext")
  /\ UNCHANGED <<rows, pool>>

WakeNext(r) ==
  /\ req[r].pc = "blockedNext" /\ r \notin stream[req[r].feed].waiters
  /\ To(r, "next")
  /\ UNCHANGED <<rows, pool, stream>>

NextTimeout(r) ==
  /\ req[r].pc = "blockedNext"
  /\ Leave(req[r].feed, r)
  /\ To(r, "judge")
  /\ UNCHANGED <<rows, pool>>

\* isStopped ends the preview; otherwise it asks the pool again, with the row
\* the handler read when it started.
MutantIsStopped(s) == FALSE
IsStopped(s) == stream[s].stopped

Judge(r) ==
  /\ req[r].pc = "judge"
  /\ IF IsStopped(req[r].feed) THEN Finish(r)
     ELSE req' = [req EXCEPT ![r].pc = "ensure", ![r].step = "refresh"]
  /\ UNCHANGED <<rows, pool, stream>>

\* The client of a preview goes away.
Disconnect(r) ==
  /\ req[r].pc \in {"next", "blockedNext", "judge"}
  /\ stream' = [stream EXCEPT ![req[r].feed].waiters = @ \ {r}, ![req[r].feed].seen = @ \ {r}]
  /\ Finish(r)
  /\ UNCHANGED <<rows, pool>>

-----------------------------------------------------------------------------
(* runNetworkCameraStream and the capture it runs *)

Open(s) ==
  /\ stream[s].run = "connect" /\ ~ stream[s].stopped
  /\ stream' = [stream EXCEPT ![s].run = "open"]
  /\ UNCHANGED <<rows, pool, req>>

\* publish: a frame clears the error and wakes the waiters.
MutantPublished(st) == [st EXCEPT !.frame = "fresh", !.err = FALSE, !.seen = {}]
Published(st) == [Notify(st) EXCEPT !.frame = "fresh", !.err = FALSE, !.seen = {}]

Publish(s) ==
  /\ stream[s].run = "open" /\ ~ stream[s].stopped
  /\ stream' = [stream EXCEPT ![s] = Published(@)]
  /\ UNCHANGED <<rows, pool, req>>

\* The capture could not be opened, or ended: setError, then another attempt
\* after the retry delay.
Fail(s) ==
  /\ stream[s].run \in {"connect", "open"} /\ ~ stream[s].stopped
  /\ stream' = [stream EXCEPT ![s] = [Notify(@) EXCEPT !.err = TRUE, !.run = "connect"]]
  /\ UNCHANGED <<rows, pool, req>>

\* The context is cancelled: the capture process is killed and waited for, and
\* the idle watcher returns too. Only the flag and the channel are read from now on.
End(s) ==
  /\ stream[s].stopped /\ stream[s].run \in {"connect", "open"}
  /\ stream' = [stream EXCEPT ![s] = [Unused EXCEPT !.run = "done", !.stopped = TRUE,
                                                   !.waiters = stream[s].waiters]]
  /\ UNCHANGED <<rows, pool, req>>

\* A frame is fresh for two seconds (networkCameraStreamFreshFor).
Stale(s) ==
  /\ stream[s].frame = "fresh"
  /\ stream' = [stream EXCEPT ![s].frame = "stale"]
  /\ UNCHANGED <<rows, pool, req>>

\* stopNetworkCameraRecognitionStreamIfIdle, called every second: it leaves
\* alone a stream that is no longer the pool's, and stops after unlocking.
MutantOwn(s) == TRUE
Own(s) == pool["recognition"][stream[s].camera] = s

WatchIdle(s) ==
  /\ stream[s].watch = "on" /\ ~ stream[s].stopped
  /\ Own(s) /\ stream[s].idle >= IdleFor
  /\ pool' = [pool EXCEPT !["recognition"][stream[s].camera] = NoStream]
  /\ stream' = [stream EXCEPT ![s].watch = "stopping"]
  /\ UNCHANGED <<rows, req>>

StopIdle(s) ==
  /\ stream[s].watch = "stopping"
  /\ stream' = [stream EXCEPT ![s] = [Halt(@) EXCEPT !.watch = "off"]]
  /\ UNCHANGED <<rows, pool, req>>

Waiting(r) == req[r].pc \in {"idle", "blocked", "blockedNext"}

Tick ==
  /\ \A r \in Requests : Waiting(r) /\ req[r].waited < WaitFor
  /\ stream' = [s \in Streams |->
       IF stream[s].purpose # "recognition" \/ stream[s].idle = IdleFor THEN stream[s]
       ELSE [stream[s] EXCEPT !.idle = @ + 1]]
  /\ req' = [r \in Requests |->
       IF req[r].pc = "blocked" THEN [req[r] EXCEPT !.waited = @ + 1] ELSE req[r]]
  /\ UNCHANGED <<rows, pool>>

-----------------------------------------------------------------------------
Handle(r) ==
  \/ Ensure(r) \/ Launch(r) \/ Unpool(r) \/ Stopped(r)
  \/ \E s \in Streams : StopOld(r, s)
  \/ Attach(r) \/ Current(r) \/ Read(r) \/ Wake(r) \/ GiveUp(r)
  \/ Following(r) \/ WakeNext(r) \/ NextTimeout(r) \/ Judge(r) \/ Disconnect(r)

Arrive(r) ==
  \E c \in Cameras :
    \/ r \in Viewers /\ \E use \in Uses : View(r, c, use)
    \/ r \in Editors /\ Release(r, c)
    \/ r \in Editors /\ \E config \in Configs : Put(r, c, config)
    \/ r \in Editors /\ Delete(r, c)

Capture(s) == Open(s) \/ Publish(s) \/ Fail(s) \/ End(s)

Background(s) == Capture(s) \/ Stale(s) \/ WatchIdle(s) \/ StopIdle(s)

Next ==
  \/ \E r \in Requests : Arrive(r) \/ Handle(r)
  \/ \E s \in Streams : Background(s)
  \/ Tick

Spec == Init /\ [][Next]_vars

\* The goroutines go on: handlers that do not wait, the waits' timers (Go's
\* select picks any ready case, so that a timer is not starved by notify), a
\* cancelled capture and a stop that is due. Clients, cameras and the clock
\* owe nothing.
Fairness ==
  /\ \A r \in Requests : WF_vars(~ Waiting(r) /\ Handle(r))
  /\ \A r \in Viewers :
       WF_vars(Wake(r) \/ WakeNext(r)) /\ SF_vars(GiveUp(r) \/ NextTimeout(r))
  /\ \A s \in Streams : WF_vars(End(s)) /\ WF_vars(StopIdle(s))

FairSpec == Spec /\ Fairness

-----------------------------------------------------------------------------
(* Properties *)

StreamType ==
  [camera : Cameras \cup {NoStream}, config : Configs \cup {NoStream},
   purpose : {"none", "recognition", "preview", "host-usb"},
   run : {"none", "connect", "open", "done"},
   watch : {"off", "on", "stopping"}, stopped : BOOLEAN,
   frame : {"none", "fresh", "stale"}, err : BOOLEAN, idle : 0..IdleFor,
   waiters : SUBSET Requests, seen : SUBSET Requests]

RequestType ==
  [pc : {"idle", "ensure", "launch", "ensured", "read", "blocked", "next",
         "blockedNext", "judge", "unpool", "stop"},
   c : Cameras \cup {NoStream}, config : Configs \cup {NoStream}, use : Maps,
   step : {"once", "first", "attach", "refresh"}, s : Streams \cup {NoStream},
   feed : Streams \cup {NoStream}, olds : SUBSET Streams, waited : 0..WaitFor]

\* Every variable has its type.
TypeOK ==
  /\ DOMAIN rows \subseteq Cameras /\ rows \in [DOMAIN rows -> Configs]
  /\ pool \in [Maps -> [Cameras -> Streams \cup {NoStream}]]
  /\ stream \in [Streams -> StreamType]
  /\ req \in [Requests -> RequestType]

Pooled(s) == \E m \in Maps, c \in Cameras : pool[m][c] = s
Live(s)   == stream[s].purpose # "none" /\ ~ stream[s].stopped

\* Whoever takes a stream out of the pool stops it, though only after
\* unlocking: a capture that runs is in the pool or about to be stopped, so
\* that a release always finds it.
NoLeak ==
  \A s \in Streams :
    Live(s) => \/ Pooled(s)
               \/ \E r \in Requests : s \in req[r].olds
               \/ stream[s].watch = "stopping"

\* The pool never holds a stopped stream: it would be handed to every request
\* for ever, since only a change of the camera's settings replaces it.
NoDeadStream == \A s \in Streams : Pooled(s) => Live(s)

\* Somebody has taken the stream out of the pool and is about to stop it.
InHand(s) == stream[s].watch = "stopping" \/ \E r \in Requests : s \in req[r].olds

\* The life of a stream: StreamContract knows no capture that is neither in the
\* pool nor in the hands of somebody who stops it.
Phase(s) ==
  IF stream[s].purpose = "none" THEN "free"
  ELSE IF stream[s].stopped THEN "stopped"
  ELSE IF Pooled(s) THEN "serving"
  ELSE IF InHand(s) THEN "leaving" ELSE "leaked"

Contract ==
  INSTANCE StreamContract WITH phase <- [s \in Streams |-> Phase(s)]

\* Handlers that change rows, read old ones and stop streams only after
\* unlocking, and watchers of streams replaced under them, still do to the pool
\* and its captures only what StreamContract allows.
ImplementsContract == Contract!Spec

\* A handler still registered on a stream's notify channel has nothing to be
\* told: no fresh or newer frame, no error and no stop is waiting for it.
NoLostWakeup ==
  \A r \in Requests :
    /\ req[r].pc = "blocked" /\ r \in stream[req[r].s].waiters
         => ~ Fresh(req[r].s) /\ ~ stream[req[r].s].stopped /\ ~ stream[req[r].s].err
    /\ req[r].pc = "blockedNext" /\ r \in stream[req[r].feed].waiters
         => ~ Newer(r) /\ ~ stream[req[r].feed].stopped

\* The idle watcher never takes a stream from a handler that waits for its
\* first frame: every use of the pool touches the stream, and the wait is
\* shorter than the idle limit.
NotIdleUnderWaiter ==
  \A r \in Requests :
    req[r].pc = "blocked" => stream[req[r].s].watch # "stopping" /\ stream[req[r].s].idle < IdleFor

\* A stream that left the pool, replaced by one of other settings or released with
\* its camera, is stopped by the handler that took it out, and its capture ends.
LeftPoolEnds ==
  \A s \in Streams : (Live(s) /\ ~ Pooled(s)) ~> stream[s].run = "done"

\* A preview whose stream was stopped ends, instead of asking the pool for
\* another one for as long as the client stays.
PreviewEnds ==
  \A r \in Viewers :
    (req[r].feed # NoStream /\ stream[req[r].feed].stopped) ~> req[r].pc = "idle"
=============================================================================
