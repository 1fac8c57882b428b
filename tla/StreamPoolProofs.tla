-------------------------- MODULE StreamPoolProofs --------------------------
(***************************************************************************)
(* Proofs about StreamPool, for any number of cameras, streams, requests   *)
(* and configurations.                                                     *)
(***************************************************************************)
EXTENDS StreamPool, TLAPS

-----------------------------------------------------------------------------
(* The inductive invariant *)

\* A request in progress is for a camera, and works on a stream where it needs
\* one; only a request that is about to stop streams has any to stop.
GoodReq(q) ==
  /\ q \in RequestType
  /\ q.pc # "idle" => q.c \in Cameras
  /\ q.pc \in {"launch", "ensured", "read", "blocked"} => q.s \in Streams
  /\ q.pc \in {"next", "blockedNext", "judge"} \/ q.step = "refresh" => q.feed \in Streams
  /\ q.pc \in {"read", "blocked"} => q.step # "attach"
  /\ q.olds # {} => q.pc \in {"launch", "stop"}

\* A stream that was started has a camera, and only streams for recognition
\* are watched and count their idle time.
GoodStream(st) ==
  /\ st \in StreamType
  /\ st.purpose # "none" => st.camera \in Cameras
  /\ st.watch # "off" => st.purpose = "recognition"
  /\ st.purpose # "recognition" => st.idle = 0

Good ==
  /\ req \in [Requests -> RequestType] /\ \A r \in Requests : GoodReq(req[r])
  /\ stream \in [Streams -> StreamType] /\ \A s \in Streams : GoodStream(stream[s])

\* A stream is in one place of the pool.
OnePlace ==
  \A m, n \in Maps, c, d \in Cameras :
    pool[m][c] # NoStream /\ pool[m][c] = pool[n][d] => m = n /\ c = d

\* What somebody is about to stop is out of the pool already.
Apart ==
  \A s \in Streams : Pooled(s) =>
    stream[s].watch # "stopping" /\ \A r \in Requests : s \notin req[r].olds

PoolInv == TypeOK /\ Good /\ OnePlace /\ Apart /\ NoLeak /\ NoDeadStream

\* A stream is not idle for longer than the request that waits for its first
\* frame has been waiting.
InUse ==
  \A r \in Requests : req[r].pc \in {"launch", "ensured", "read", "blocked"} =>
    /\ stream[req[r].s].watch # "stopping"
    /\ stream[req[r].s].idle <= req[r].waited

WaitInv == InUse /\ NoLostWakeup

-----------------------------------------------------------------------------
(* Steps that leave the pool alone *)

USE DEF Maps

LEMMA Zero == 0 \in 0..WaitFor /\ 0 \in 0..IdleFor
BY DEF WaitFor, IdleFor

LEMMA NoReqGood == GoodReq(NoReq) /\ NoReq.olds = {} /\ NoReq.pc = "idle" /\ NoReq.waited = 0
BY Zero DEF GoodReq, NoReq, RequestType

LEMMA UnusedGood == GoodStream(Unused) /\ Unused.watch = "off"
BY Zero DEF GoodStream, Unused, StreamType

\* What a handler goes on with after a frame, or without one.
LEMMA ServedGood ==
  ASSUME NEW q, GoodReq(q), q.olds = {}, q.pc # "idle", q.step # "attach"
  PROVE  /\ GoodReq(Served(q)) /\ Served(q).olds = {}
         /\ Served(q).pc \in {"idle", "ensure", "next"}
         /\ \A p \in Unserved(q) : GoodReq(p) /\ p.olds = {} /\ p.pc \in {"idle", "ensure", "next"}
<1>0. q \in RequestType BY DEF GoodReq
<1>1. GoodReq(Served(q)) /\ Served(q).olds = {} /\ Served(q).pc \in {"idle", "ensure", "next"}
  <2>1. CASE q.step = "once" BY <2>1, NoReqGood DEF Served
  <2>2. CASE q.step = "first"
    <3> DEFINE p == [q EXCEPT !.step = "attach", !.pc = "ensure", !.s = NoStream, !.waited = 0]
    <3>1. p \in RequestType /\ p.pc = "ensure" /\ p.step = "attach" /\ p.olds = {} /\ p.c = q.c
      BY <1>0, Zero DEF RequestType
    <3>2. Served(q) = p BY <2>2 DEF Served
    <3> HIDE DEF p
    <3> QED BY <3>1, <3>2 DEF GoodReq
  <2>3. CASE q.step = "refresh"
    <3> DEFINE p == [q EXCEPT !.pc = "next", !.s = NoStream, !.waited = 0]
    <3>1. /\ p \in RequestType /\ p.pc = "next" /\ p.step = "refresh" /\ p.olds = {}
          /\ p.c = q.c /\ p.feed = q.feed
      BY <1>0, <2>3, Zero DEF RequestType
    <3>2. Served(q) = p BY <2>3 DEF Served
    <3>3. q.feed \in Streams BY <2>3 DEF GoodReq
    <3> HIDE DEF p
    <3> QED BY <3>1, <3>2, <3>3 DEF GoodReq
  <2> QED BY <1>0, <2>1, <2>2, <2>3 DEF RequestType
<1> QED BY <1>1, NoReqGood DEF Unserved

\* The requests after a step: all good, and none has others to stop.
ReqsStay ==
  /\ req' \in [Requests -> RequestType]
  /\ \A o \in Requests : GoodReq(req'[o]) /\ req'[o].olds = req[o].olds

\* The streams after a step: all good, and none has started or stopped to live.
SameLife(st, new) ==
  /\ new.purpose = st.purpose /\ new.stopped = st.stopped
  /\ new.watch = "stopping" <=> st.watch = "stopping"

StreamsStay ==
  /\ stream' \in [Streams -> StreamType]
  /\ \A s \in Streams : GoodStream(stream'[s]) /\ SameLife(stream[s], stream'[s])

LEMMA OneReq ==
  ASSUME Good, NEW r \in Requests, NEW q, GoodReq(q), q.olds = req[r].olds,
         req' = [req EXCEPT ![r] = q]
  PROVE  ReqsStay
BY DEF Good, ReqsStay, GoodReq

LEMMA NextPc ==
  ASSUME Good, NEW r \in Requests, NEW pc, To(r, pc), GoodReq([req[r] EXCEPT !.pc = pc])
  PROVE  ReqsStay
<1> DEFINE q == [req[r] EXCEPT !.pc = pc]
<1>1. req[r] \in RequestType BY DEF Good
<1>2. q.olds = req[r].olds BY <1>1 DEF RequestType
<1>3. req' = [req EXCEPT ![r] = q] BY DEF To, Good
<1> HIDE DEF q
<1> QED BY <1>2, <1>3, OneReq DEF q

LEMMA OneStream ==
  ASSUME Good, NEW s \in Streams, NEW st, GoodStream(st), SameLife(stream[s], st),
         stream' = [stream EXCEPT ![s] = st]
  PROVE  StreamsStay
BY DEF Good, StreamsStay, GoodStream, SameLife

LEMMA NoReqs == ASSUME Good, UNCHANGED req PROVE ReqsStay
BY DEF Good, ReqsStay

LEMMA NoStreams == ASSUME Good, UNCHANGED stream PROVE StreamsStay
BY DEF Good, StreamsStay, SameLife

RowsTyped == DOMAIN rows \subseteq Cameras /\ rows \in [DOMAIN rows -> Configs]

LEMMA Quiet ==
  ASSUME PoolInv, UNCHANGED pool, RowsTyped', ReqsStay, StreamsStay
  PROVE  PoolInv'
<1>1. TypeOK' /\ Good' BY DEF PoolInv, TypeOK, Good, RowsTyped, ReqsStay, StreamsStay
<1>2. \A s \in Streams : (Pooled(s)' <=> Pooled(s)) /\ (Live(s)' <=> Live(s))
  BY DEF Pooled, Live, StreamsStay, SameLife
<1>3. OnePlace' BY DEF PoolInv, OnePlace
<1>4. Apart' BY <1>2 DEF PoolInv, Apart, ReqsStay, StreamsStay, SameLife
<1>5. NoDeadStream' BY <1>2 DEF PoolInv, NoDeadStream
<1>6. NoLeak' BY <1>2 DEF PoolInv, NoLeak, ReqsStay, StreamsStay, SameLife
<1> QED BY <1>1, <1>3, <1>4, <1>5, <1>6 DEF PoolInv

LEMMA InvGood == ASSUME PoolInv PROVE Good /\ RowsTyped
BY DEF PoolInv, TypeOK, RowsTyped

LEMMA ArriveStays ==
  ASSUME PoolInv, NEW r \in Requests, Arrive(r)
  PROVE  /\ ReqsStay /\ StreamsStay /\ RowsTyped' /\ UNCHANGED pool
         /\ req[r].pc = "idle" /\ UNCHANGED stream /\ \E q : Begin(r, q)
<1> USE InvGood, NoReqGood
<1>1. NoReq \in RequestType BY DEF GoodReq
<1>2. req[r].pc = "idle" => req[r].olds = {} BY DEF Good, GoodReq
<1>3. ASSUME NEW q, GoodReq(q), q.olds = {}, Begin(r, q), RowsTyped', UNCHANGED <<pool, stream>>
      PROVE  /\ ReqsStay /\ StreamsStay /\ RowsTyped' /\ UNCHANGED pool
             /\ req[r].pc = "idle" /\ UNCHANGED stream /\ \E p : Begin(r, p)
  <2>1. ReqsStay BY <1>2, <1>3, OneReq DEF Begin
  <2>2. req[r].pc = "idle" BY <1>3 DEF Begin
  <2> QED BY <1>3, <2>1, <2>2, NoStreams
<1> PICK c \in Cameras :
      \/ \E use \in Uses : View(r, c, use)
      \/ Release(r, c) \/ Delete(r, c)
      \/ \E config \in Configs : Put(r, c, config)
  BY DEF Arrive
<1>4. CASE \E use \in Uses : View(r, c, use)
  <2> PICK use \in Uses : View(r, c, use) BY <1>4
  <2> DEFINE q == [NoReq EXCEPT !.pc = "ensure", !.c = c, !.config = rows[c], !.use = use,
                                !.step = IF use = "preview" THEN "first" ELSE "once"]
  <2>1. rows[c] \in Configs BY DEF View, RowsTyped
  <2>2. use \in Maps BY PoolAssumption
  <2>3. /\ q \in RequestType /\ q.pc = "ensure" /\ q.c = c /\ q.olds = {}
        /\ q.step # "refresh"
    BY <1>1, <2>1, <2>2 DEF RequestType
  <2>4. Begin(r, q) /\ UNCHANGED <<rows, pool, stream>> BY DEF View
  <2>5. RowsTyped' BY <2>4 DEF RowsTyped
  <2> HIDE DEF q
  <2>6. GoodReq(q) BY <2>3 DEF GoodReq
  <2> QED BY <1>3, <2>3, <2>4, <2>5, <2>6
<1> DEFINE gone == [NoReq EXCEPT !.pc = "unpool", !.c = c]
           put  == [NoReq EXCEPT !.pc = "unpool", !.c = c, !.use = "preview"]
<1>5. GoodReq(gone) /\ gone.olds = {} /\ GoodReq(put) /\ put.olds = {}
  <2>1. /\ gone \in RequestType /\ gone.pc = "unpool" /\ gone.c = c /\ gone.olds = {}
        /\ gone.step = "once"
    BY <1>1 DEF RequestType, NoReq
  <2>2. /\ put \in RequestType /\ put.pc = "unpool" /\ put.c = c /\ put.olds = {}
        /\ put.step = "once"
    BY <1>1 DEF RequestType, NoReq
  <2> QED BY <2>1, <2>2 DEF GoodReq
<1>6. CASE Release(r, c)
  <2>1. RowsTyped' BY <1>6 DEF Release, RowsTyped
  <2> QED BY <1>3, <1>5, <1>6, <2>1 DEF Release
<1>7. CASE Delete(r, c)
  <2>1. RowsTyped' BY <1>7 DEF Delete, RowsTyped
  <2> QED BY <1>3, <1>5, <1>7, <2>1 DEF Delete
<1>8. CASE \E config \in Configs : Put(r, c, config)
  <2> PICK config \in Configs : Put(r, c, config) BY <1>8
  <2>1. RowsTyped' BY DEF Put, RowsTyped
  <2>2. UNCHANGED <<pool, stream>> /\ (Begin(r, put) \/ Begin(r, NoReq)) BY DEF Put
  <2>3. GoodReq(NoReq) /\ NoReq.olds = {} BY DEF NoReq
  <2> QED BY <1>3, <1>5, <2>1, <2>2, <2>3
<1> QED BY <1>4, <1>6, <1>7, <1>8

LEMMA ArriveInv == ASSUME PoolInv, NEW r \in Requests, Arrive(r) PROVE PoolInv'
BY ArriveStays, Quiet

\* A step of one request and at most the locals of one stream.
LEMMA HandlerInv ==
  ASSUME PoolInv, UNCHANGED <<rows, pool>>, ReqsStay, StreamsStay
  PROVE  PoolInv'
BY InvGood, Quiet DEF RowsTyped

\* Registering with a stream's notify channel, leaving it, seeing its frame.
Kept(st, new) == GoodStream(new) /\ SameLife(st, new)

LEMMA WaiterGood ==
  ASSUME NEW st, GoodStream(st), NEW W \in SUBSET Requests, NEW S \in SUBSET Requests
  PROVE  /\ Kept(st, [st EXCEPT !.waiters = W])
         /\ Kept(st, [st EXCEPT !.seen = S])
         /\ Kept(st, [st EXCEPT !.waiters = W, !.seen = S])
<1> USE DEF GoodStream
<1>1. ASSUME NEW new \in StreamType,
             /\ new.purpose = st.purpose /\ new.stopped = st.stopped
             /\ new.watch = st.watch /\ new.camera = st.camera /\ new.idle = st.idle
      PROVE  Kept(st, new)
  BY <1>1 DEF Kept, SameLife
<1>2. st \in StreamType OBVIOUS
<1>3. Kept(st, [st EXCEPT !.waiters = W]) BY ONLY <1>1, <1>2, W \in SUBSET Requests DEF StreamType
<1>4. Kept(st, [st EXCEPT !.seen = S]) BY ONLY <1>1, <1>2, S \in SUBSET Requests DEF StreamType
<1>5. Kept(st, [st EXCEPT !.waiters = W, !.seen = S])
  <2> DEFINE new == [st EXCEPT !.waiters = W, !.seen = S]
  <2>1. new \in StreamType
    BY ONLY <1>2, W \in SUBSET Requests, S \in SUBSET Requests DEF StreamType
  <2>2. /\ new.purpose = st.purpose /\ new.stopped = st.stopped
        /\ new.watch = st.watch /\ new.camera = st.camera /\ new.idle = st.idle
    BY ONLY <1>2 DEF StreamType
  <2> HIDE DEF new
  <2> QED BY <1>1, <2>1, <2>2 DEF new
<1> QED BY <1>3, <1>4, <1>5

LEMMA KeptStream ==
  ASSUME Good, NEW s \in Streams, NEW st, Kept(stream[s], st), stream' = [stream EXCEPT ![s] = st]
  PROVE  StreamsStay
BY OneStream DEF Kept

LEMMA PcGood ==
  ASSUME NEW q, GoodReq(q), q.pc # "idle", q.olds = {},
         NEW pc \in {"ensured", "read", "blocked", "next", "blockedNext", "judge"},
         pc \in {"ensured", "read", "blocked"} => q.s \in Streams,
         pc \in {"next", "blockedNext", "judge"} => q.feed \in Streams,
         pc \in {"read", "blocked"} => q.step # "attach"
  PROVE  GoodReq([q EXCEPT !.pc = pc])
<1> DEFINE p == [q EXCEPT !.pc = pc]
<1>1. q \in RequestType BY DEF GoodReq
<1>2. /\ p \in RequestType /\ p.pc = pc /\ p.olds = {} /\ p.c = q.c /\ p.s = q.s
      /\ p.feed = q.feed /\ p.step = q.step
  BY <1>1 DEF RequestType
<1> HIDE DEF p
<1>3. GoodReq(p) BY <1>2 DEF GoodReq
<1> QED BY <1>3 DEF p

\* The handler that waits for a frame, or shows one after the other.
Follow(r) ==
  \/ Attach(r) \/ Current(r) \/ Read(r) \/ Wake(r) \/ GiveUp(r)
  \/ Following(r) \/ WakeNext(r) \/ NextTimeout(r) \/ Judge(r) \/ Disconnect(r)

LEMMA FollowStays ==
  ASSUME PoolInv, NEW r \in Requests, Follow(r)
  PROVE  ReqsStay /\ StreamsStay /\ UNCHANGED <<rows, pool>>
<1> DEFINE q  == req[r]
           s  == q.s
           fd == q.feed
<1> USE InvGood, NoReqGood
<1>1. GoodReq(q) /\ q \in RequestType /\ \A t \in Streams : GoodStream(stream[t])
  BY DEF Good
<1>2. q.pc # "idle" /\ q.olds = {} /\ q.pc \notin {"launch", "stop"}
  BY <1>1 DEF Follow, Attach, Current, Read, Wake, GiveUp, Following, WakeNext, NextTimeout,
              Judge, Disconnect, GoodReq
<1>3. \A t \in Streams : stream[t].waiters \subseteq Requests /\ stream[t].seen \subseteq Requests
  BY <1>1 DEF GoodStream, StreamType
<1>4. q.pc \in {"ensured", "read", "blocked"} => s \in Streams BY <1>1 DEF GoodReq
<1>5. q.pc \in {"next", "blockedNext", "judge"} \/ q.step = "refresh" => fd \in Streams
  BY <1>1 DEF GoodReq
<1>6. q.pc \in {"read", "blocked"} => q.step # "attach" BY <1>1 DEF GoodReq
<1>7. ASSUME q.step # "attach", NEW p \in Unserved(q) \cup {Served(q), NoReq},
             req' = [req EXCEPT ![r] = p]
      PROVE  ReqsStay
  <2>1. GoodReq(p) /\ p.olds = {} BY <1>1, <1>2, <1>7, ServedGood
  <2> QED BY <1>2, <1>7, <2>1, OneReq
<1>8. ASSUME NEW pc, GoodReq([q EXCEPT !.pc = pc]), To(r, pc) PROVE ReqsStay
  BY <1>8, NextPc
<1>9. ASSUME NEW t \in Streams, NEW W \in SUBSET Requests,
             \/ stream' = [stream EXCEPT ![t].waiters = W]
             \/ stream' = [stream EXCEPT ![t].seen = W]
      PROVE  StreamsStay
  <2>1. stream[t].waiters \in SUBSET Requests /\ stream[t].seen \in SUBSET Requests
    BY <1>3
  <2>2. GoodStream(stream[t]) BY <1>1
  <2>3. /\ Kept(stream[t], [stream[t] EXCEPT !.waiters = W])
        /\ Kept(stream[t], [stream[t] EXCEPT !.seen = W])
    BY <2>1, <2>2, WaiterGood
  <2>4. CASE stream' = [stream EXCEPT ![t].waiters = W]
    <3> DEFINE st == [stream[t] EXCEPT !.waiters = W]
    <3>1. stream' = [stream EXCEPT ![t] = st] BY <2>4
    <3> HIDE DEF st
    <3> QED BY <2>3, <3>1, KeptStream DEF st
  <2>5. CASE stream' = [stream EXCEPT ![t].seen = W]
    <3> DEFINE st == [stream[t] EXCEPT !.seen = W]
    <3>1. stream' = [stream EXCEPT ![t] = st] BY <2>5
    <3> HIDE DEF st
    <3> QED BY <2>3, <3>1, KeptStream DEF st
  <2> QED BY <1>9, <2>4, <2>5
<1>21. ASSUME NEW t \in Streams,
              \/ stream' = [stream EXCEPT ![t].waiters = @ \cup {r}]
              \/ stream' = [stream EXCEPT ![t].seen = @ \cup {r}]
              \/ Leave(t, r)
       PROVE  StreamsStay
  <2>1. /\ stream[t].waiters \cup {r} \in SUBSET Requests
        /\ stream[t].seen \cup {r} \in SUBSET Requests
        /\ stream[t].waiters \ {r} \in SUBSET Requests
    BY <1>3
  <2>2. CASE stream' = [stream EXCEPT ![t].waiters = stream[t].waiters \cup {r}]
    BY <1>9, <2>1, <2>2
  <2>3. CASE stream' = [stream EXCEPT ![t].seen = stream[t].seen \cup {r}]
    BY <1>9, <2>1, <2>3
  <2>4. CASE stream' = [stream EXCEPT ![t].waiters = stream[t].waiters \ {r}]
    BY <1>9, <2>1, <2>4
  <2> QED BY <1>21, <2>2, <2>3, <2>4 DEF Leave
<1>10. Finish(r) => ReqsStay BY <1>2, OneReq DEF Finish
<1> HIDE DEF q, s, fd
<1>11. CASE Attach(r)
  <2> DEFINE p == [q EXCEPT !.feed = s, !.s = NoStream, !.pc = "next"]
             W == IF ~ stream[s].stopped /\ stream[s].frame # "none"
                  THEN stream[s].seen \cup {r} ELSE stream[s].seen
  <2>1. q.pc = "ensured" /\ s \in Streams BY <1>4, <1>11 DEF Attach, q
  <2>2. p \in RequestType /\ p.pc = "next" /\ p.olds = {} /\ p.c = q.c /\ p.feed = s
    BY <1>1, <1>2, <2>1 DEF RequestType
  <2>3. req' = [req EXCEPT ![r] = p] BY <1>11 DEF Attach, q, s, Good
  <2>4. W \in SUBSET Requests BY <1>3, <2>1
  <2>5. stream' = [stream EXCEPT ![s].seen = W] BY <1>11 DEF Attach, s, q
  <2> HIDE DEF p, W
  <2>6. GoodReq(p) BY <1>1, <2>1, <2>2 DEF GoodReq
  <2>7. ReqsStay BY <1>2, <2>2, <2>3, <2>6, OneReq DEF q
  <2> QED BY <1>9, <1>11, <2>1, <2>4, <2>5, <2>7 DEF Attach
<1>12. CASE Current(r)
  <2>1. q.pc = "ensured" /\ q.step # "attach" /\ UNCHANGED <<rows, pool, stream>>
    BY <1>12 DEF Current, q
  <2>2. GoodReq([q EXCEPT !.pc = "read"]) BY <1>1, <1>2, <1>4, <2>1, PcGood DEF s
  <2>3. ReqsStay BY <1>7, <1>8, <1>12, <2>1, <2>2 DEF Current, q
  <2> QED BY <2>1, <2>3, NoStreams
<1>13. CASE Read(r)
  <2>1. q.pc = "read" /\ s \in Streams /\ q.step # "attach" /\ UNCHANGED <<rows, pool>>
    BY <1>4, <1>6, <1>13 DEF Read, q
  <2>2. GoodReq([q EXCEPT !.pc = "blocked"]) BY <1>1, <1>2, <2>1, PcGood DEF s
  <2>3. ReqsStay BY <1>7, <1>8, <1>13, <2>1, <2>2 DEF Read, q
  <2>4. StreamsStay
    <3>1. CASE UNCHANGED stream BY <3>1, NoStreams
    <3>2. CASE stream' = [stream EXCEPT ![s].waiters = @ \cup {r}]
      BY <1>21, <2>1, <3>2
    <3> QED BY <1>13, <3>1, <3>2 DEF Read, s, q
  <2> QED BY <2>1, <2>3, <2>4
<1>14. CASE Wake(r)
  <2>1. q.pc = "blocked" /\ UNCHANGED <<rows, pool, stream>> /\ To(r, "read")
    BY <1>14 DEF Wake, q
  <2>2. GoodReq([q EXCEPT !.pc = "read"]) BY <1>1, <1>2, <1>4, <1>6, <2>1, PcGood DEF s
  <2> QED BY <1>8, <2>1, <2>2, NoStreams
<1>15. CASE GiveUp(r)
  <2>1. q.pc = "blocked" /\ s \in Streams /\ q.step # "attach" /\ UNCHANGED <<rows, pool>>
    BY <1>4, <1>6, <1>15 DEF GiveUp, q
  <2>2. ReqsStay BY <1>7, <1>15, <2>1 DEF GiveUp, q
  <2>3. StreamsStay BY <1>21, <1>15, <2>1 DEF GiveUp, s, q
  <2> QED BY <2>1, <2>2, <2>3
<1>16. CASE Following(r)
  <2>1. q.pc = "next" /\ fd \in Streams /\ UNCHANGED <<rows, pool>>
    BY <1>5, <1>16 DEF Following, q
  <2>2. GoodReq([q EXCEPT !.pc = "judge"]) /\ GoodReq([q EXCEPT !.pc = "blockedNext"])
    BY <1>1, <1>2, <2>1, PcGood DEF fd
  <2>3. ReqsStay BY <1>8, <1>16, <2>2, NoReqs DEF Following
  <2>4. StreamsStay
    <3>1. CASE UNCHANGED stream BY <3>1, NoStreams
    <3>2. CASE stream' = [stream EXCEPT ![fd].waiters = @ \cup {r}]
      BY <1>21, <2>1, <3>2
    <3>3. CASE stream' = [stream EXCEPT ![fd].seen = @ \cup {r}]
      BY <1>21, <2>1, <3>3
    <3> QED BY <1>16, <3>1, <3>2, <3>3 DEF Following, fd, q
  <2> QED BY <2>1, <2>3, <2>4
<1>17. CASE WakeNext(r)
  <2>1. q.pc = "blockedNext" /\ UNCHANGED <<rows, pool, stream>> /\ To(r, "next")
    BY <1>17 DEF WakeNext, q
  <2>2. GoodReq([q EXCEPT !.pc = "next"]) BY <1>1, <1>2, <1>5, <2>1, PcGood DEF fd
  <2> QED BY <1>8, <2>1, <2>2, NoStreams
<1>18. CASE NextTimeout(r)
  <2>1. q.pc = "blockedNext" /\ fd \in Streams /\ UNCHANGED <<rows, pool>> /\ To(r, "judge")
    BY <1>5, <1>18 DEF NextTimeout, q
  <2>2. GoodReq([q EXCEPT !.pc = "judge"]) BY <1>1, <1>2, <2>1, PcGood DEF fd
  <2>3. StreamsStay BY <1>21, <1>18, <2>1 DEF NextTimeout, fd, q
  <2> QED BY <1>8, <2>1, <2>2, <2>3
<1>19. CASE Judge(r)
  <2>1. q.pc = "judge" /\ fd \in Streams /\ UNCHANGED <<rows, pool, stream>>
    BY <1>5, <1>19 DEF Judge, q
  <2>2. ReqsStay
    <3> DEFINE p == [q EXCEPT !.pc = "ensure", !.step = "refresh"]
    <3>1. CASE Finish(r) BY <1>10, <3>1
    <3>2. CASE req' = [req EXCEPT ![r].pc = "ensure", ![r].step = "refresh"]
      <4>1. /\ p \in RequestType /\ p.pc = "ensure" /\ p.olds = {} /\ p.c = q.c
            /\ p.feed = fd
        BY <1>1, <1>2 DEF RequestType, fd
      <4>2. req' = [req EXCEPT ![r] = p] BY <3>2 DEF q, Good
      <4> HIDE DEF p
      <4>3. GoodReq(p) BY <1>1, <1>2, <2>1, <4>1 DEF GoodReq
      <4> QED BY <1>2, <4>1, <4>2, <4>3, OneReq DEF q
    <3> QED BY <1>19, <3>1, <3>2 DEF Judge
  <2> QED BY <2>1, <2>2, NoStreams
<1>20. CASE Disconnect(r)
  <2> DEFINE W == stream[fd].waiters \ {r}
             S == stream[fd].seen \ {r}
             st == [stream[fd] EXCEPT !.waiters = W, !.seen = S]
  <2>1. fd \in Streams /\ UNCHANGED <<rows, pool>> /\ Finish(r)
    BY <1>5, <1>20 DEF Disconnect, q
  <2>2. W \in SUBSET Requests /\ S \in SUBSET Requests BY <1>3, <2>1
  <2>3. stream' = [stream EXCEPT ![fd] = st] BY <1>20, <2>1 DEF Disconnect, fd, q, Good
  <2>4. Kept(stream[fd], st) BY <1>1, <2>1, <2>2, WaiterGood
  <2> HIDE DEF st
  <2> QED BY <1>10, <2>1, <2>3, <2>4, KeptStream
<1> QED BY <1>11, <1>12, <1>13, <1>14, <1>15, <1>16, <1>17, <1>18, <1>19, <1>20 DEF Follow

-----------------------------------------------------------------------------
(* Steps that change the pool, or what lives *)

LEMMA ReuseStays ==
  ASSUME PoolInv, NEW r \in Requests, NEW s \in Streams, req[r].pc = "ensure", Reuse(r, s)
  PROVE  ReqsStay /\ StreamsStay /\ UNCHANGED pool
<1> DEFINE q == [req[r] EXCEPT !.s = s, !.pc = "ensured"]
<1> USE InvGood
<1>1. GoodReq(req[r]) /\ req[r] \in RequestType /\ GoodStream(stream[s]) BY DEF Good
<1>2. req[r].olds = {} BY <1>1 DEF GoodReq
<1>3. /\ q \in RequestType /\ q.pc = "ensured" /\ q.s = s /\ q.olds = {} /\ q.c = req[r].c
      /\ q.step = req[r].step /\ q.feed = req[r].feed
  BY <1>1, <1>2 DEF RequestType
<1>4. req' = [req EXCEPT ![r] = q] BY DEF Reuse, Good
<1> HIDE DEF q
<1>5. GoodReq(q) BY <1>1, <1>3 DEF GoodReq
<1>6. ReqsStay BY <1>2, <1>3, <1>4, <1>5, OneReq
<1>7. Kept(stream[s], Touch(stream[s]))
  <2>1. CASE stream[s].purpose = "recognition"
    <3> DEFINE st == [stream[s] EXCEPT !.idle = 0]
    <3>1. /\ st \in StreamType /\ st.purpose = stream[s].purpose
          /\ st.stopped = stream[s].stopped /\ st.watch = stream[s].watch
          /\ st.camera = stream[s].camera
      BY <1>1, Zero DEF GoodStream, StreamType
    <3>2. Touch(stream[s]) = st BY <2>1 DEF Touch
    <3> HIDE DEF st
    <3> QED BY <1>1, <2>1, <3>1, <3>2 DEF Kept, GoodStream, SameLife
  <2>2. CASE stream[s].purpose # "recognition"
    BY <1>1, <2>2 DEF Touch, Kept, SameLife
  <2> QED BY <2>1, <2>2
<1>8. StreamsStay BY <1>7, KeptStream DEF Reuse
<1> QED BY <1>6, <1>8 DEF Reuse

\* What a new stream changes in the pool: it replaces at most one other.
LEMMA CreateInv ==
  ASSUME PoolInv, NEW r \in Requests, NEW s \in Streams, NEW map \in Maps,
         NEW purpose \in {"recognition", "preview", "host-usb"}, req[r].pc = "ensure",
         Create(r, s, map, purpose), UNCHANGED rows
  PROVE  /\ PoolInv' /\ req[r].c \in Cameras
         /\ Live(s)' /\ \A t \in Streams : t # s => stream'[t] = stream[t]
         /\ \A t \in Streams :
              Pooled(t)' <=> t = s \/ (Pooled(t) /\ t # pool[map][req[r].c])
         /\ \A o \in Requests :
              req'[o].olds = IF o = r THEN Replaced(pool[map][req[r].c]) ELSE req[o].olds
         /\ \A o \in Requests : o # r => req'[o] = req[o]
         /\ req'[r].pc = "launch" /\ req'[r].s = s
<1> DEFINE c  == req[r].c
           old == pool[map][c]
           q  == [req[r] EXCEPT !.s = s, !.pc = "launch", !.olds = Replaced(old)]
           st == [Unused EXCEPT !.camera = c, !.config = req[r].config, !.purpose = purpose]
<1> USE InvGood, PoolAssumption
<1>1. GoodReq(req[r]) /\ req[r] \in RequestType /\ c \in Cameras BY DEF Good, GoodReq
<1>2. pool \in [Maps -> [Cameras -> Streams \cup {NoStream}]] BY DEF PoolInv, TypeOK
<1>3. Replaced(old) \subseteq Streams BY <1>1, <1>2 DEF Replaced
<1>4. /\ q \in RequestType /\ q.pc = "launch" /\ q.s = s /\ q.olds = Replaced(old)
      /\ q.c = c /\ q.step = req[r].step /\ q.feed = req[r].feed
  BY <1>1, <1>3 DEF RequestType
<1>5. /\ st \in StreamType /\ st.purpose = purpose /\ st.camera = c /\ st.watch = "off"
      /\ ~ st.stopped /\ st.idle = 0
  BY <1>1, Zero DEF RequestType, StreamType, Unused
<1>6. /\ req' = [req EXCEPT ![r] = q] /\ stream' = [stream EXCEPT ![s] = st]
      /\ pool' = [pool EXCEPT ![map][c] = s] /\ Garbage(s)
  BY DEF Create, Good
<1> HIDE DEF q, st, c
<1>7. GoodReq(q) BY <1>1, <1>4 DEF GoodReq
<1>8. GoodStream(st) BY <1>1, <1>5 DEF GoodStream
<1>9. Good' BY <1>4, <1>5, <1>6, <1>7, <1>8 DEF Good
<1>10. pool' \in [Maps -> [Cameras -> Streams \cup {NoStream}]] BY <1>1, <1>2, <1>6
<1>11. TypeOK' BY <1>9, <1>10 DEF PoolInv, TypeOK, Good
<1>12. \A m \in Maps, d \in Cameras :
         pool'[m][d] = IF m = map /\ d = c THEN s ELSE pool[m][d]
  BY <1>1, <1>2, <1>6
<1>13. \A m \in Maps, d \in Cameras : pool[m][d] # s BY <1>6 DEF Garbage
<1>14. \A o \in Requests : s \notin req[o].olds BY <1>6 DEF Garbage
<1>15. OnePlace' BY <1>12, <1>13 DEF PoolInv, OnePlace
<1>16. \A t \in Streams : Pooled(t)' <=> t = s \/ (Pooled(t) /\ t # old)
  <2> TAKE t \in Streams
  <2>1. ASSUME Pooled(t)', t # s PROVE Pooled(t) /\ t # old
    <3>1. PICK m \in Maps, d \in Cameras : pool'[m][d] = t BY <2>1 DEF Pooled
    <3>2. pool[m][d] = t /\ ~ (m = map /\ d = c) BY <1>12, <2>1, <3>1
    <3>3. t # NoStream OBVIOUS
    <3>4. t # old BY <1>1, <3>2, <3>3 DEF PoolInv, OnePlace
    <3> QED BY <3>2, <3>4 DEF Pooled
  <2>2. ASSUME Pooled(t), t # old PROVE Pooled(t)'
    <3>1. PICK m \in Maps, d \in Cameras : pool[m][d] = t BY <2>2 DEF Pooled
    <3>2. pool'[m][d] = t BY <1>12, <2>2, <3>1
    <3> QED BY <3>2 DEF Pooled
  <2>3. Pooled(s)' BY <1>1, <1>12 DEF Pooled
  <2> QED BY <2>1, <2>2, <2>3
<1>17. \A o \in Requests : req'[o].olds = IF o = r THEN Replaced(old) ELSE req[o].olds
  BY <1>4, <1>6 DEF Good
<1>18. \A t \in Streams : stream'[t] = IF t = s THEN st ELSE stream[t] BY <1>6 DEF Good
<1> HIDE DEF old
<1>19. Apart'
  BY <1>5, <1>14, <1>16, <1>17, <1>18, <1>13, <1>1 DEF PoolInv, Apart, Replaced, old
<1>20. NoDeadStream' BY <1>5, <1>16, <1>18 DEF PoolInv, NoDeadStream, Live
<1>21. NoLeak'
  <2> SUFFICES ASSUME NEW t \in Streams, Live(t)', ~ Pooled(t)'
               PROVE  \/ \E o \in Requests : t \in req'[o].olds
                      \/ stream'[t].watch = "stopping"
    BY DEF NoLeak
  <2>1. t # s /\ Live(t) /\ (~ Pooled(t) \/ t = old) BY <1>16, <1>18 DEF Live
  <2>2. CASE t = old BY <1>17, <2>2 DEF Replaced
  <2>3. CASE ~ Pooled(t) /\ t # old
    <3>1. (\E o \in Requests : t \in req[o].olds) \/ stream[t].watch = "stopping"
      BY <2>1, <2>3 DEF PoolInv, NoLeak
    <3>2. req[r].olds = {} BY <1>1 DEF GoodReq
    <3> QED BY <1>17, <1>18, <2>1, <3>1, <3>2
  <2> QED BY <2>1, <2>2, <2>3
<1>22. PoolInv' BY <1>9, <1>11, <1>15, <1>19, <1>20, <1>21 DEF PoolInv
<1>23. Live(s)' BY <1>5, <1>18 DEF Live
<1>24. \A o \in Requests : req'[o] = IF o = r THEN q ELSE req[o] BY <1>6 DEF Good
<1>25. req'[r].pc = "launch" /\ req'[r].s = s BY <1>4, <1>24
<1> QED BY <1>1, <1>16, <1>17, <1>18, <1>22, <1>23, <1>24, <1>25 DEF old, c

LEMMA EnsureInv == ASSUME PoolInv, NEW r \in Requests, Ensure(r) PROVE PoolInv'
<1> DEFINE purpose == Purpose(req[r].config, req[r].use)
           map     == MapOf(purpose)
           current == pool[map][req[r].c]
<1>1. req[r] \in RequestType /\ req[r].c \in Cameras BY InvGood DEF Ensure, Good, GoodReq
<1>2. purpose \in {"recognition", "preview", "host-usb"}
  BY <1>1 DEF RequestType, Purpose
<1>3. map \in Maps BY DEF MapOf
<1>4. current \in Streams \cup {NoStream} BY <1>1, <1>3 DEF PoolInv, TypeOK
<1>5. CASE current # NoStream /\ Reuse(r, current) 
  BY <1>4, <1>5, ReuseStays, HandlerInv DEF Ensure
<1>6. CASE \E s \in Streams : Create(r, s, map, purpose)
  BY <1>2, <1>3, <1>6, CreateInv DEF Ensure
<1> QED BY <1>5, <1>6 DEF Ensure

LEMMA LaunchStays ==
  ASSUME PoolInv, NEW r \in Requests, Launch(r)
  PROVE  ReqsStay /\ StreamsStay /\ UNCHANGED <<rows, pool>>
<1> DEFINE s  == req[r].s
           q  == [req[r] EXCEPT !.pc = "ensured"]
           W  == IF stream[s].watch = "off" /\ stream[s].purpose = "recognition"
                 THEN "on" ELSE stream[s].watch
           st == [stream[s] EXCEPT !.run = "connect", !.watch = W]
<1> USE InvGood
<1>1. GoodReq(req[r]) /\ req[r].pc = "launch" /\ req[r].olds = {} BY DEF Launch, Good
<1>2. s \in Streams BY <1>1 DEF GoodReq
<1>3. GoodStream(stream[s]) /\ stream[s] \in StreamType BY <1>2 DEF Good, GoodStream
<1>4. GoodReq(q) BY <1>1, <1>2, PcGood
<1>5. ReqsStay BY <1>4, NextPc DEF Launch
<1>6. W \in {"off", "on", "stopping"} /\ (W = "stopping" <=> stream[s].watch = "stopping")
  BY <1>3 DEF StreamType
<1>7. W # "off" => stream[s].purpose = "recognition" BY <1>3 DEF GoodStream
<1>8. stream' = [stream EXCEPT ![s] = st] BY <1>2 DEF Launch, Good
<1> HIDE DEF W, s
<1>9. /\ st \in StreamType /\ st.purpose = stream[s].purpose /\ st.camera = stream[s].camera
      /\ st.stopped = stream[s].stopped /\ st.watch = W /\ st.idle = stream[s].idle
  BY <1>3, <1>6 DEF StreamType
<1> HIDE DEF st
<1>10. GoodStream(st) /\ SameLife(stream[s], st)
  BY <1>3, <1>6, <1>7, <1>9 DEF GoodStream, SameLife
<1>11. StreamsStay BY <1>2, <1>8, <1>10, OneStream
<1> QED BY <1>5, <1>11 DEF Launch

\* A stream that is out of the pool stops, or its goroutines have ended.
LEMMA DownInv ==
  ASSUME PoolInv, NEW s \in Streams, ~ Pooled(s), NEW st, GoodStream(st),
         st.purpose = "none" \/ st.stopped, stream' = [stream EXCEPT ![s] = st],
         UNCHANGED <<rows, pool>>, req' \in [Requests -> RequestType],
         \A r \in Requests : /\ GoodReq(req'[r]) /\ req'[r].olds \subseteq req[r].olds
                             /\ req[r].olds \subseteq req'[r].olds \cup {s}
  PROVE  PoolInv'
<1> USE InvGood
<1>1. Good' BY DEF Good, GoodStream
<1>2. TypeOK' BY <1>1 DEF PoolInv, TypeOK, Good
<1>3. \A t \in Streams : Pooled(t)' <=> Pooled(t) BY DEF Pooled
<1>4. \A t \in Streams : stream'[t] = IF t = s THEN st ELSE stream[t] BY DEF Good
<1>5. OnePlace' BY DEF PoolInv, OnePlace
<1>6. Apart' BY <1>3, <1>4 DEF PoolInv, Apart
<1>7. NoDeadStream' BY <1>3, <1>4 DEF PoolInv, NoDeadStream, Live
<1>8. NoLeak'
  <2> SUFFICES ASSUME NEW t \in Streams, Live(t)', ~ Pooled(t)'
               PROVE  \/ \E o \in Requests : t \in req'[o].olds
                      \/ stream'[t].watch = "stopping"
    BY DEF NoLeak
  <2>1. t # s /\ Live(t) /\ ~ Pooled(t) BY <1>3, <1>4 DEF Live
  <2>2. (\E o \in Requests : t \in req[o].olds) \/ stream[t].watch = "stopping"
    BY <2>1 DEF PoolInv, NoLeak
  <2> QED BY <1>4, <2>1, <2>2
<1> QED BY <1>1, <1>2, <1>5, <1>6, <1>7, <1>8 DEF PoolInv

LEMMA HaltGood ==
  ASSUME NEW st, GoodStream(st)
  PROVE  /\ GoodStream(Halt(st)) /\ Halt(st).stopped /\ Halt(st).waiters = {}
         /\ Halt(st).watch = st.watch /\ Halt(st).idle = 0
         /\ GoodStream([Halt(st) EXCEPT !.watch = "off"])
         /\ [Halt(st) EXCEPT !.watch = "off"].stopped
         /\ [Halt(st) EXCEPT !.watch = "off"].waiters = {}
         /\ [Halt(st) EXCEPT !.watch = "off"].watch = "off"
         /\ [Halt(st) EXCEPT !.watch = "off"].idle = 0
<1> DEFINE h == Halt(st)
           o == [h EXCEPT !.watch = "off"]
           n == Notify(st)
<1>1. st \in StreamType BY DEF GoodStream
<1>2. /\ n \in StreamType /\ n.waiters = {} /\ n.watch = st.watch /\ n.purpose = st.purpose
      /\ n.camera = st.camera
  BY <1>1 DEF Notify, StreamType
<1> HIDE DEF n
<1>3. h = [n EXCEPT !.stopped = TRUE, !.frame = "none", !.err = FALSE, !.idle = 0, !.seen = {}]
  BY DEF Halt, Stop, n
<1> HIDE DEF h
<1>4. /\ h \in StreamType /\ h.stopped /\ h.waiters = n.waiters /\ h.watch = n.watch
      /\ h.idle = 0 /\ h.purpose = n.purpose /\ h.camera = n.camera
  BY <1>2, <1>3, Zero DEF StreamType
<1>5. /\ o \in StreamType /\ o.stopped /\ o.waiters = h.waiters /\ o.watch = "off"
      /\ o.idle = 0 /\ o.purpose = h.purpose /\ o.camera = h.camera
  BY <1>4 DEF StreamType
<1> HIDE DEF o
<1>6. GoodStream(h) /\ GoodStream(o) BY <1>1, <1>2, <1>4, <1>5 DEF GoodStream
<1> QED BY <1>2, <1>4, <1>5, <1>6 DEF h, o

LEMMA StopOldInv ==
  ASSUME PoolInv, NEW r \in Requests, NEW s \in Streams, StopOld(r, s)
  PROVE  PoolInv'
<1> DEFINE olds == req[r].olds \ {s}
           q == [req[r] EXCEPT !.olds = olds]
<1> USE InvGood
<1>1. GoodReq(req[r]) /\ req[r] \in RequestType /\ s \in req[r].olds
  BY DEF StopOld, Good
<1>2. olds \in SUBSET Streams BY <1>1 DEF RequestType
<1>3. req' = [req EXCEPT ![r] = q] BY DEF StopOld, Good
<1> HIDE DEF olds
<1>4. /\ q \in RequestType /\ q.olds = olds /\ q.pc = req[r].pc /\ q.c = req[r].c
      /\ q.s = req[r].s /\ q.feed = req[r].feed /\ q.step = req[r].step
  BY <1>1, <1>2 DEF RequestType
<1> HIDE DEF q
<1>5. GoodReq(q) BY <1>1, <1>4 DEF GoodReq, StopOld
<1>6. GoodStream(stream[s]) BY DEF Good
<1>7. ~ Pooled(s) BY <1>1 DEF PoolInv, Apart
<1>8. stream' = [stream EXCEPT ![s] = Halt(stream[s])] BY DEF StopOld
<1>9. /\ req' \in [Requests -> RequestType]
      /\ \A o \in Requests : /\ GoodReq(req'[o]) /\ req'[o].olds \subseteq req[o].olds
                             /\ req[o].olds \subseteq req'[o].olds \cup {s}
  BY <1>1, <1>3, <1>4, <1>5 DEF Good, olds
<1> QED BY <1>6, <1>7, <1>8, <1>9, HaltGood, DownInv DEF StopOld

LEMMA UnpoolInv ==
  ASSUME PoolInv, NEW r \in Requests, Unpool(r)
  PROVE  /\ PoolInv' /\ req[r].c \in Cameras /\ req[r].olds = {}
         /\ \A t \in Streams : Pooled(t)' <=> Pooled(t) /\ t \notin Taken(req[r].c)
         /\ \A o \in Requests :
              req'[o].olds = IF o = r THEN Taken(req[r].c) ELSE req[o].olds
<1> DEFINE c == req[r].c
           q == [req[r] EXCEPT !.olds = Taken(c), !.pc = "stop"]
<1> USE InvGood, PoolAssumption
<1>1. GoodReq(req[r]) /\ req[r] \in RequestType /\ c \in Cameras /\ req[r].pc = "unpool"
  BY DEF Unpool, Good, GoodReq
<1>2. pool \in [Maps -> [Cameras -> Streams \cup {NoStream}]] BY DEF PoolInv, TypeOK
<1>3. Taken(c) \in SUBSET Streams BY <1>1, <1>2 DEF Taken
<1>4. req' = [req EXCEPT ![r] = q] /\ pool' = Emptied(c) BY DEF Unpool, Good
<1> HIDE DEF c
<1>5. /\ q \in RequestType /\ q.pc = "stop" /\ q.olds = Taken(c) /\ q.c = req[r].c
      /\ q.step = req[r].step /\ q.feed = req[r].feed
  BY <1>1, <1>3 DEF RequestType
<1> HIDE DEF q
<1>6. GoodReq(q) BY <1>1, <1>5 DEF GoodReq
<1>7. Good'
  <2>1. UNCHANGED stream BY DEF Unpool
  <2>2. \A o \in Requests : req'[o] = q \/ req'[o] = req[o] BY <1>4 DEF Good
  <2>3. req' \in [Requests -> RequestType] BY <1>4, <1>5 DEF Good
  <2> QED BY <1>6, <2>1, <2>2, <2>3 DEF Good
<1>8. \A m \in Maps, d \in Cameras :
        pool'[m][d] = IF d = c THEN NoStream ELSE pool[m][d]
  BY <1>1, <1>2, <1>4 DEF Emptied
<1>9. pool' \in [Maps -> [Cameras -> Streams \cup {NoStream}]]
  BY <1>1, <1>2, <1>4 DEF Emptied
<1>10. TypeOK' BY <1>7, <1>9 DEF PoolInv, TypeOK, Good, Unpool
<1>11. OnePlace' BY <1>8 DEF PoolInv, OnePlace
<1>12. \A t \in Streams : Pooled(t)' <=> Pooled(t) /\ t \notin Taken(c)
  <2> TAKE t \in Streams
  <2>1. ASSUME Pooled(t)' PROVE Pooled(t) /\ t \notin Taken(c)
    <3>1. PICK m \in Maps, d \in Cameras : pool'[m][d] = t BY <2>1 DEF Pooled
    <3>2. d # c /\ pool[m][d] = t BY <1>8, <3>1
    <3>3. t \notin Taken(c) BY <1>1, <3>2 DEF Taken, PoolInv, OnePlace
    <3> QED BY <3>2, <3>3 DEF Pooled
  <2>2. ASSUME Pooled(t), t \notin Taken(c) PROVE Pooled(t)'
    <3>1. PICK m \in Maps, d \in Cameras : pool[m][d] = t BY <2>2 DEF Pooled
    <3>2. d # c BY <2>2, <3>1 DEF Taken
    <3> QED BY <1>8, <3>1, <3>2 DEF Pooled
  <2> QED BY <2>1, <2>2
<1>13. \A o \in Requests : req'[o].olds = IF o = r THEN Taken(c) ELSE req[o].olds
  BY <1>4, <1>5 DEF Good
<1>14. req[r].olds = {} BY <1>1 DEF GoodReq
<1>15. Apart' BY <1>12, <1>13 DEF PoolInv, Apart, Unpool
<1>16. NoDeadStream' BY <1>12 DEF PoolInv, NoDeadStream, Live, Unpool
<1>17. NoLeak' BY <1>12, <1>13, <1>14 DEF PoolInv, NoLeak, Live, Unpool
<1>18. PoolInv' BY <1>7, <1>10, <1>11, <1>15, <1>16, <1>17 DEF PoolInv
<1> QED BY <1>1, <1>12, <1>13, <1>14, <1>18 DEF c

LEMMA StoppedStays ==
  ASSUME PoolInv, NEW r \in Requests, Stopped(r)
  PROVE  ReqsStay /\ StreamsStay /\ UNCHANGED <<rows, pool>>
<1>1. req[r].olds = {} /\ req' = [req EXCEPT ![r] = NoReq] BY DEF Stopped, Finish
<1>2. ReqsStay BY <1>1, InvGood, NoReqGood, OneReq
<1> QED BY <1>2, InvGood, NoStreams DEF Stopped

LEMMA HandleInv == ASSUME PoolInv, NEW r \in Requests, Handle(r) PROVE PoolInv'
<1>1. CASE Ensure(r) BY <1>1, EnsureInv
<1>2. CASE Launch(r) BY <1>2, LaunchStays, HandlerInv
<1>3. CASE Unpool(r) BY <1>3, UnpoolInv
<1>4. CASE Stopped(r) BY <1>4, StoppedStays, HandlerInv
<1>5. CASE \E s \in Streams : StopOld(r, s) BY <1>5, StopOldInv
<1>6. CASE Follow(r) BY <1>6, FollowStays, HandlerInv
<1> QED BY <1>1, <1>2, <1>3, <1>4, <1>5, <1>6 DEF Handle, Follow

\* The steps of a capture before it is stopped, as far as life goes.
LEMMA CaptureStays ==
  ASSUME PoolInv, NEW s \in Streams, Open(s) \/ Publish(s) \/ Fail(s) \/ Stale(s)
  PROVE  StreamsStay
<1> USE InvGood
<1>1. GoodStream(stream[s]) /\ stream[s] \in StreamType BY DEF Good, GoodStream
<1>2. ASSUME NEW st \in StreamType, stream' = [stream EXCEPT ![s] = st],
             /\ st.purpose = stream[s].purpose /\ st.camera = stream[s].camera
             /\ st.stopped = stream[s].stopped /\ st.watch = stream[s].watch
             /\ st.idle = stream[s].idle
      PROVE  StreamsStay
  <2>1. GoodStream(st) /\ SameLife(stream[s], st) BY <1>1, <1>2 DEF GoodStream, SameLife
  <2> QED BY <1>2, <2>1, OneStream
<1>3. CASE Open(s)
  <2> DEFINE st == [stream[s] EXCEPT !.run = "open"]
  <2>1. stream' = [stream EXCEPT ![s] = st] BY <1>3 DEF Open, Good
  <2>2. /\ st \in StreamType /\ st.purpose = stream[s].purpose
        /\ st.camera = stream[s].camera /\ st.stopped = stream[s].stopped
        /\ st.watch = stream[s].watch /\ st.idle = stream[s].idle
    BY <1>1 DEF StreamType
  <2> HIDE DEF st
  <2> QED BY <1>2, <2>1, <2>2
<1>4. CASE Publish(s)
  <2> DEFINE st == Published(stream[s])
  <2>1. stream' = [stream EXCEPT ![s] = st] BY <1>4 DEF Publish, Good
  <2>2. /\ st \in StreamType /\ st.purpose = stream[s].purpose
        /\ st.camera = stream[s].camera /\ st.stopped = stream[s].stopped
        /\ st.watch = stream[s].watch /\ st.idle = stream[s].idle
    BY <1>1 DEF StreamType, Published, Notify
  <2> HIDE DEF st
  <2> QED BY <1>2, <2>1, <2>2
<1>5. CASE Fail(s)
  <2> DEFINE st == [Notify(stream[s]) EXCEPT !.err = TRUE, !.run = "connect"]
  <2>1. stream' = [stream EXCEPT ![s] = st] BY <1>5 DEF Fail, Good
  <2>2. /\ st \in StreamType /\ st.purpose = stream[s].purpose
        /\ st.camera = stream[s].camera /\ st.stopped = stream[s].stopped
        /\ st.watch = stream[s].watch /\ st.idle = stream[s].idle
    BY <1>1 DEF StreamType, Notify
  <2> HIDE DEF st
  <2> QED BY <1>2, <2>1, <2>2
<1>6. CASE Stale(s)
  <2> DEFINE st == [stream[s] EXCEPT !.frame = "stale"]
  <2>1. stream' = [stream EXCEPT ![s] = st] BY <1>6 DEF Stale, Good
  <2>2. /\ st \in StreamType /\ st.purpose = stream[s].purpose
        /\ st.camera = stream[s].camera /\ st.stopped = stream[s].stopped
        /\ st.watch = stream[s].watch /\ st.idle = stream[s].idle
    BY <1>1 DEF StreamType
  <2> HIDE DEF st
  <2> QED BY <1>2, <2>1, <2>2
<1> QED BY <1>3, <1>4, <1>5, <1>6

LEMMA EndGood ==
  ASSUME NEW W \in SUBSET Requests
  PROVE  LET e == [Unused EXCEPT !.run = "done", !.stopped = TRUE, !.waiters = W]
         IN GoodStream(e) /\ e.stopped /\ e.watch = "off" /\ e.idle = 0 /\ e.purpose = "none"
BY Zero DEF GoodStream, StreamType, Unused

\* Of all streams only s changes, and only its watcher.
SameButWatch(t, s) ==
  /\ stream'[t].purpose = stream[t].purpose /\ stream'[t].stopped = stream[t].stopped
  /\ stream'[t].run = stream[t].run
  /\ t # s => stream'[t].watch = stream[t].watch

LEMMA WatchIdleInv ==
  ASSUME PoolInv, NEW s \in Streams, WatchIdle(s)
  PROVE  /\ PoolInv' /\ stream[s].camera \in Cameras /\ stream'[s].watch = "stopping"
         /\ \A t \in Streams : Pooled(t)' <=> Pooled(t) /\ t # s
         /\ \A t \in Streams : SameButWatch(t, s)
<1> DEFINE c  == stream[s].camera
           st == [stream[s] EXCEPT !.watch = "stopping"]
<1> USE InvGood, PoolAssumption
<1>1. GoodStream(stream[s]) /\ stream[s] \in StreamType /\ stream[s].watch = "on"
  BY DEF WatchIdle, Good, GoodStream
<1>2. stream[s].purpose = "recognition" /\ c \in Cameras BY <1>1 DEF GoodStream
<1>3. pool \in [Maps -> [Cameras -> Streams \cup {NoStream}]] BY DEF PoolInv, TypeOK
<1>4. /\ stream' = [stream EXCEPT ![s] = st] /\ pool["recognition"][c] = s
      /\ pool' = [pool EXCEPT !["recognition"][c] = NoStream]
  BY DEF WatchIdle, Own, Good
<1> HIDE DEF c
<1>5. /\ st \in StreamType /\ st.watch = "stopping" /\ st.purpose = stream[s].purpose
      /\ st.camera = stream[s].camera /\ st.idle = stream[s].idle
      /\ st.stopped = stream[s].stopped /\ st.run = stream[s].run
  BY <1>1 DEF StreamType
<1> HIDE DEF st
<1>6. GoodStream(st) BY <1>1, <1>2, <1>5 DEF GoodStream
<1>7. Good' BY <1>4, <1>5, <1>6 DEF Good, WatchIdle
<1>8. pool' \in [Maps -> [Cameras -> Streams \cup {NoStream}]] BY <1>2, <1>3, <1>4
<1>9. TypeOK' BY <1>7, <1>8 DEF PoolInv, TypeOK, Good, WatchIdle
<1>10. \A m \in Maps, d \in Cameras :
         pool'[m][d] = IF m = "recognition" /\ d = c THEN NoStream ELSE pool[m][d]
  BY <1>2, <1>3, <1>4
<1>11. OnePlace' BY <1>10 DEF PoolInv, OnePlace
<1>12. \A t \in Streams : Pooled(t)' <=> Pooled(t) /\ t # s
  <2> TAKE t \in Streams
  <2>1. ASSUME Pooled(t)' PROVE Pooled(t) /\ t # s
    <3>1. PICK m \in Maps, d \in Cameras : pool'[m][d] = t BY <2>1 DEF Pooled
    <3>2. ~ (m = "recognition" /\ d = c) /\ pool[m][d] = t BY <1>10, <3>1
    <3>3. t # s
      <4> SUFFICES ASSUME t = s PROVE FALSE OBVIOUS
      <4>1. pool[m][d] = pool["recognition"][c] /\ pool[m][d] # NoStream BY <1>4, <3>2
      <4> QED BY <1>2, <3>2, <4>1 DEF PoolInv, OnePlace
    <3> QED BY <3>2, <3>3 DEF Pooled
  <2>2. ASSUME Pooled(t), t # s PROVE Pooled(t)'
    <3>1. PICK m \in Maps, d \in Cameras : pool[m][d] = t BY <2>2 DEF Pooled
    <3> QED BY <1>4, <1>10, <2>2, <3>1 DEF Pooled
  <2> QED BY <2>1, <2>2
<1>13. \A t \in Streams : stream'[t] = IF t = s THEN st ELSE stream[t] BY <1>4 DEF Good
<1>14. Apart' BY <1>12, <1>13 DEF PoolInv, Apart, WatchIdle
<1>15. NoDeadStream' BY <1>12, <1>13 DEF PoolInv, NoDeadStream, Live
<1>16. NoLeak' BY <1>5, <1>12, <1>13 DEF PoolInv, NoLeak, Live, WatchIdle
<1>17. PoolInv' BY <1>7, <1>9, <1>11, <1>14, <1>15, <1>16 DEF PoolInv
<1>18. \A t \in Streams : SameButWatch(t, s) BY <1>5, <1>13 DEF SameButWatch
<1> QED BY <1>2, <1>5, <1>12, <1>13, <1>17, <1>18 DEF c

LEMMA BackgroundInv == ASSUME PoolInv, NEW s \in Streams, Background(s) PROVE PoolInv'
<1> USE InvGood
<1>1. GoodStream(stream[s]) /\ stream[s] \in StreamType BY DEF Good, GoodStream
<1>2. UNCHANGED req =>
        /\ req' \in [Requests -> RequestType]
        /\ \A r \in Requests : /\ GoodReq(req'[r]) /\ req'[r].olds \subseteq req[r].olds
                               /\ req[r].olds \subseteq req'[r].olds \cup {s}
  BY DEF Good
<1>3. CASE Open(s) \/ Publish(s) \/ Fail(s) \/ Stale(s)
  <2>1. UNCHANGED <<rows, pool, req>> BY <1>3 DEF Open, Publish, Fail, Stale
  <2> QED BY <1>3, <2>1, CaptureStays, NoReqs, HandlerInv
<1>4. CASE End(s)
  <2>1. stream[s].waiters \in SUBSET Requests BY <1>1 DEF StreamType
  <2>2. ~ Pooled(s) BY <1>4 DEF PoolInv, NoDeadStream, Live, End
  <2> QED BY <1>2, <1>4, <2>1, <2>2, EndGood, DownInv DEF End
<1>5. CASE WatchIdle(s) BY <1>5, WatchIdleInv
<1>6. CASE StopIdle(s)
  <2>1. ~ Pooled(s) BY <1>6 DEF StopIdle, PoolInv, Apart
  <2>2. stream' = [stream EXCEPT ![s] = [Halt(stream[s]) EXCEPT !.watch = "off"]]
    BY <1>6 DEF StopIdle
  <2> QED BY <1>1, <1>2, <1>6, <2>1, <2>2, HaltGood, DownInv DEF StopIdle
<1> QED BY <1>3, <1>4, <1>5, <1>6 DEF Background, Capture

\* What a tick does to a stream and to a request.
Older(st) == IF st.purpose # "recognition" \/ st.idle = IdleFor THEN st
             ELSE [st EXCEPT !.idle = @ + 1]
Longer(q) == IF q.pc = "blocked" THEN [q EXCEPT !.waited = @ + 1] ELSE q

LEMMA OlderGood ==
  ASSUME NEW st, GoodStream(st)
  PROVE  /\ GoodStream(Older(st)) /\ SameLife(st, Older(st)) /\ Older(st).watch = st.watch
         /\ Older(st).idle <= st.idle + 1 /\ Older(st).waiters = st.waiters
         /\ Older(st).frame = st.frame /\ Older(st).err = st.err /\ Older(st).seen = st.seen
<1> DEFINE new == [st EXCEPT !.idle = st.idle + 1]
<1>1. st \in StreamType BY DEF GoodStream
<1>2. st.idle \in 0..IdleFor BY <1>1 DEF StreamType
<1>3. CASE st.purpose # "recognition" \/ st.idle = IdleFor
  BY <1>2, <1>3 DEF Older, SameLife, IdleFor
<1>4. CASE st.purpose = "recognition" /\ st.idle # IdleFor
  <2>1. st.idle + 1 \in 0..IdleFor /\ st.idle \in Nat BY <1>2, <1>4 DEF IdleFor
  <2>2. /\ new \in StreamType /\ new.purpose = st.purpose /\ new.camera = st.camera
        /\ new.stopped = st.stopped /\ new.watch = st.watch /\ new.idle = st.idle + 1
        /\ new.waiters = st.waiters /\ new.frame = st.frame /\ new.err = st.err
        /\ new.seen = st.seen
    BY <1>1, <2>1 DEF StreamType
  <2>3. Older(st) = new BY <1>4 DEF Older
  <2> HIDE DEF new
  <2>4. GoodStream(new) BY <1>4, <2>2, GoodStream(st) DEF GoodStream
  <2>5. new.idle <= st.idle + 1 BY <2>1, <2>2
  <2> QED BY <2>2, <2>3, <2>4, <2>5 DEF SameLife
<1> QED BY <1>3, <1>4

LEMMA LongerGood ==
  ASSUME NEW q, GoodReq(q), q.waited < WaitFor
  PROVE  /\ GoodReq(Longer(q)) /\ Longer(q).olds = q.olds /\ Longer(q).pc = q.pc
         /\ Longer(q).s = q.s /\ Longer(q).feed = q.feed
         /\ q.pc = "blocked" => Longer(q).waited = q.waited + 1
         /\ q.waited \in Nat
<1> DEFINE p == [q EXCEPT !.waited = q.waited + 1]
<1>1. q \in RequestType BY DEF GoodReq
<1>2. q.waited \in 0..WaitFor BY <1>1 DEF RequestType
<1>3. q.waited + 1 \in 0..WaitFor /\ q.waited \in Nat BY <1>2 DEF WaitFor
<1>4. CASE q.pc = "blocked"
  <2>1. /\ p \in RequestType /\ p.olds = q.olds /\ p.pc = q.pc /\ p.s = q.s
        /\ p.feed = q.feed /\ p.waited = q.waited + 1 /\ p.c = q.c /\ p.step = q.step
    BY <1>1, <1>3 DEF RequestType
  <2>2. Longer(q) = p BY <1>4 DEF Longer
  <2> HIDE DEF p
  <2>3. GoodReq(p) BY <2>1 DEF GoodReq
  <2> QED BY <1>3, <2>1, <2>2, <2>3
<1>5. CASE q.pc # "blocked" BY <1>3, <1>5 DEF Longer
<1> QED BY <1>4, <1>5

LEMMA TickIs ==
  ASSUME Tick
  PROVE  /\ stream' = [s \in Streams |-> Older(stream[s])]
         /\ req' = [r \in Requests |-> Longer(req[r])]
BY DEF Tick, Older, Longer

LEMMA TickStays ==
  ASSUME PoolInv, Tick
  PROVE  ReqsStay /\ StreamsStay /\ UNCHANGED <<rows, pool>>
<1> USE InvGood
<1>1. \A r \in Requests : GoodReq(req[r]) /\ req[r].waited < WaitFor BY DEF Tick, Good
<1>2. \A r \in Requests : /\ GoodReq(Longer(req[r])) /\ Longer(req[r]).olds = req[r].olds
                          /\ Longer(req[r]) \in RequestType
  BY <1>1, LongerGood DEF GoodReq
<1>3. \A s \in Streams : /\ GoodStream(Older(stream[s])) /\ SameLife(stream[s], Older(stream[s]))
                         /\ Older(stream[s]) \in StreamType
  BY OlderGood DEF Good, GoodStream
<1>4. ReqsStay BY <1>2, TickIs DEF ReqsStay
<1>5. StreamsStay BY <1>3, TickIs DEF StreamsStay
<1> QED BY <1>4, <1>5 DEF Tick

-----------------------------------------------------------------------------
(* The pool's theorems *)

LEMMA InitInv == Init => PoolInv
<1> SUFFICES ASSUME Init PROVE PoolInv OBVIOUS
<1> USE DEF Init
<1>1. NoReq \in RequestType /\ Unused \in StreamType
  BY NoReqGood, UnusedGood DEF GoodReq, GoodStream
<1>2. Good BY <1>1, NoReqGood, UnusedGood DEF Good
<1>3. TypeOK BY <1>1 DEF TypeOK
<1>4. \A s \in Streams : ~ Pooled(s) /\ ~ Live(s)
  BY PoolAssumption DEF Pooled, Live, Unused
<1>5. OnePlace BY DEF OnePlace
<1> QED BY <1>2, <1>3, <1>4, <1>5 DEF PoolInv, Apart, NoLeak, NoDeadStream

LEMMA NextInv == PoolInv /\ [Next]_vars => PoolInv'
<1> SUFFICES ASSUME PoolInv, [Next]_vars PROVE PoolInv' OBVIOUS
<1>1. CASE \E r \in Requests : Arrive(r) BY <1>1, ArriveInv
<1>2. CASE \E r \in Requests : Handle(r) BY <1>2, HandleInv
<1>3. CASE \E s \in Streams : Background(s) BY <1>3, BackgroundInv
<1>4. CASE Tick BY <1>4, TickStays, HandlerInv
<1>5. CASE UNCHANGED vars BY <1>5, InvGood, NoReqs, NoStreams, HandlerInv DEF vars
<1> QED BY <1>1, <1>2, <1>3, <1>4, <1>5 DEF Next

LEMMA PoolHolds == Spec => []PoolInv
BY InitInv, NextInv, PTL DEF Spec

\* Every variable has its type.
THEOREM Typed == Spec => []TypeOK
<1>1. PoolInv => TypeOK BY DEF PoolInv
<1> QED BY <1>1, PoolHolds, PTL

\* A capture that runs is in the pool or about to be stopped, whatever the
\* handlers and watchers of any number of cameras do at the same time.
THEOREM NothingLeaks == Spec => []NoLeak
<1>1. PoolInv => NoLeak BY DEF PoolInv
<1> QED BY <1>1, PoolHolds, PTL

\* The pool hands out no stream that was stopped before the request came.
THEOREM PoolIsLive == Spec => []NoDeadStream
<1>1. PoolInv => NoDeadStream BY DEF PoolInv
<1> QED BY <1>1, PoolHolds, PTL

-----------------------------------------------------------------------------
(* Waiting for a frame *)

Using == {"launch", "ensured", "read", "blocked"}

\* The request still uses the stream it used, if it uses one.
Goes(q, p) ==
  p.pc \in Using => q.pc \in Using /\ p.s = q.s /\ p.waited = q.waited

\* The stream has become neither idle nor about to stop.
Younger(st, new) ==
  /\ new.watch = "stopping" => st.watch = "stopping"
  /\ new.idle = st.idle \/ new.idle = 0

\* There is nothing to tell who waits for a fresh frame, or o for a newer one.
Calm(st) == ~ st.stopped /\ st.frame # "fresh" /\ ~ st.err
CalmFor(st, o) == ~ st.stopped /\ (st.frame = "none" \/ o \in st.seen)

\* Whatever the stream has to tell o from now on, o has been woken for.
Muter(st, new, o) ==
  o \in new.waiters => /\ o \in st.waiters
                       /\ Calm(st) => Calm(new)
                       /\ CalmFor(st, o) => CalmFor(new, o)

LEMMA WaitStep ==
  ASSUME PoolInv, PoolInv', WaitInv,
         \A t \in Streams : Younger(stream[t], stream'[t]),
         \A o \in Requests :
           /\ Goes(req[o], req'[o])
           /\ req'[o].pc = "blocked" =>
                \/ req[o].pc = "blocked" /\ Muter(stream[req[o].s], stream'[req[o].s], o)
                \/ Calm(stream'[req'[o].s])
           /\ req'[o].pc = "blockedNext" =>
                \/ /\ req[o].pc = "blockedNext" /\ req'[o].feed = req[o].feed
                   /\ Muter(stream[req[o].feed], stream'[req[o].feed], o)
                \/ CalmFor(stream'[req'[o].feed], o)
  PROVE  WaitInv'
<1>1. InUse'
  <2> SUFFICES ASSUME NEW o \in Requests, req'[o].pc \in Using
               PROVE  /\ stream'[req'[o].s].watch # "stopping"
                      /\ stream'[req'[o].s].idle <= req'[o].waited
    BY DEF InUse, Using
  <2> DEFINE s == req[o].s
  <2>1. req[o].pc \in Using /\ req'[o].s = s /\ req'[o].waited = req[o].waited BY DEF Goes
  <2>2. stream[s].watch # "stopping" /\ stream[s].idle <= req[o].waited
    BY <2>1 DEF WaitInv, InUse, Using
  <2>3. s \in Streams /\ req[o].waited \in Nat
    BY <2>1, InvGood DEF Good, GoodReq, Using, RequestType, WaitFor
  <2> HIDE DEF s
  <2>4. 0 <= req[o].waited BY <2>3
  <2> QED BY <2>1, <2>2, <2>3, <2>4 DEF Younger
<1>2. NoLostWakeup'
  <2> SUFFICES ASSUME NEW o \in Requests
               PROVE  /\ req'[o].pc = "blocked" /\ o \in stream'[req'[o].s].waiters
                           => Calm(stream'[req'[o].s])
                      /\ req'[o].pc = "blockedNext" /\ o \in stream'[req'[o].feed].waiters
                           => CalmFor(stream'[req'[o].feed], o)
    BY DEF NoLostWakeup, Fresh, Newer, Calm, CalmFor
  <2>1. ASSUME req'[o].pc = "blocked", o \in stream'[req'[o].s].waiters
        PROVE  Calm(stream'[req'[o].s])
    <3>1. CASE req[o].pc = "blocked" /\ Muter(stream[req[o].s], stream'[req[o].s], o)
      <4>1. req'[o].s = req[o].s BY <2>1 DEF Goes, Using
      <4>2. o \in stream[req[o].s].waiters BY <2>1, <3>1, <4>1 DEF Muter
      <4>3. Calm(stream[req[o].s])
        BY <3>1, <4>2 DEF WaitInv, NoLostWakeup, Calm, Fresh
      <4> QED BY <2>1, <3>1, <4>1, <4>3 DEF Muter
    <3> QED BY <2>1, <3>1
  <2>2. ASSUME req'[o].pc = "blockedNext", o \in stream'[req'[o].feed].waiters
        PROVE  CalmFor(stream'[req'[o].feed], o)
    <3>1. CASE /\ req[o].pc = "blockedNext" /\ req'[o].feed = req[o].feed
               /\ Muter(stream[req[o].feed], stream'[req[o].feed], o)
      <4>1. o \in stream[req[o].feed].waiters BY <2>2, <3>1 DEF Muter
      <4>2. CalmFor(stream[req[o].feed], o)
        BY <3>1, <4>1 DEF WaitInv, NoLostWakeup, CalmFor, Newer
      <4> QED BY <2>2, <3>1, <4>2 DEF Muter
    <3> QED BY <2>2, <3>1
  <2> QED BY <2>1, <2>2
<1> QED BY <1>1, <1>2 DEF WaitInv

\* One request goes on without waiting, the others are not disturbed.
LEMMA RequestWait ==
  ASSUME PoolInv, PoolInv', WaitInv, NEW r \in Requests, NEW p, req' = [req EXCEPT ![r] = p],
         Goes(req[r], p), p.pc \notin {"blocked", "blockedNext"},
         \A t \in Streams : /\ Younger(stream[t], stream'[t])
                            /\ \A o \in Requests \ {r} : Muter(stream[t], stream'[t], o)
  PROVE  WaitInv'
<1> USE InvGood
<1>1. \A o \in Requests : req'[o] = IF o = r THEN p ELSE req[o] BY DEF Good
<1>2. \A o \in Requests : /\ req[o].pc = "blocked" => req[o].s \in Streams
                          /\ req[o].pc = "blockedNext" => req[o].feed \in Streams
  BY DEF Good, GoodReq
<1>3. \A o \in Requests : Goes(req[o], req'[o]) BY <1>1 DEF Goes
<1> QED BY <1>1, <1>2, <1>3, WaitStep

\* One stream changes, and no request does as far as waiting goes.
LEMMA StreamWait ==
  ASSUME PoolInv, PoolInv', WaitInv, NEW s \in Streams, NEW st, stream' = [stream EXCEPT ![s] = st],
         \A o \in Requests : /\ req'[o].pc = req[o].pc /\ req'[o].s = req[o].s
                             /\ req'[o].feed = req[o].feed /\ req'[o].waited = req[o].waited,
         Younger(stream[s], st), \A o \in Requests : Muter(stream[s], st, o)
  PROVE  WaitInv'
<1> USE InvGood
<1>1. \A t \in Streams : stream'[t] = IF t = s THEN st ELSE stream[t] BY DEF Good
<1>2. \A t \in Streams : /\ Younger(stream[t], stream'[t])
                         /\ \A o \in Requests : Muter(stream[t], stream'[t], o)
  BY <1>1 DEF Younger, Muter
<1>3. \A o \in Requests : /\ req[o].pc = "blocked" => req[o].s \in Streams
                          /\ req[o].pc = "blockedNext" => req[o].feed \in Streams
  BY DEF Good, GoodReq
<1>4. \A o \in Requests : Goes(req[o], req'[o]) BY DEF Goes
<1> QED BY <1>2, <1>3, <1>4, WaitStep

\* What a handler does to the stream it follows: it comes, goes and sees.
Near(st, new, r) ==
  /\ new.waiters \subseteq st.waiters \cup {r} /\ st.seen \subseteq new.seen \cup {r}
  /\ new.stopped = st.stopped /\ new.frame = st.frame /\ new.err = st.err
  /\ new.watch = st.watch /\ new.idle = st.idle
  /\ new.run = st.run /\ new.purpose = st.purpose

LEMMA NearStays ==
  ASSUME NEW st, NEW new, NEW r, Near(st, new, r)
  PROVE  Younger(st, new) /\ \A o \in Requests \ {r} : Muter(st, new, o)
BY DEF Near, Younger, Muter, Calm, CalmFor

LEMMA FollowNear ==
  ASSUME Good, NEW r \in Requests, Follow(r), NEW t \in Streams
  PROVE  Near(stream[t], stream'[t], r)
<1> DEFINE s  == req[r].s
           fd == req[r].feed
<1>1. \A u \in Streams : stream[u] \in StreamType BY DEF Good
<1>2. UNCHANGED stream => Near(stream[t], stream'[t], r) BY DEF Near
<1>3. ASSUME NEW u, NEW W, NEW S, W \subseteq stream[u].waiters \cup {r},
             stream[u].seen \subseteq S \cup {r},
             \/ stream' = [stream EXCEPT ![u].waiters = W]
             \/ stream' = [stream EXCEPT ![u].seen = S]
             \/ stream' = [stream EXCEPT ![u].waiters = W, ![u].seen = S]
      PROVE  Near(stream[t], stream'[t], r)
  <2>1. stream[t] \in StreamType /\ stream \in [Streams -> StreamType] BY DEF Good
  <2>2. CASE stream' = [stream EXCEPT ![u].waiters = W]
    BY <1>3, <2>1, <2>2 DEF Near, StreamType
  <2>3. CASE stream' = [stream EXCEPT ![u].seen = S]
    BY <1>3, <2>1, <2>3 DEF Near, StreamType
  <2>4. CASE stream' = [stream EXCEPT ![u].waiters = W, ![u].seen = S]
    BY <1>3, <2>1, <2>4 DEF Near, StreamType
  <2> QED BY <1>3, <2>2, <2>3, <2>4
<1>4. ASSUME NEW u,
             \/ stream' = [stream EXCEPT ![u].waiters = stream[u].waiters \cup {r}]
             \/ stream' = [stream EXCEPT ![u].waiters = stream[u].waiters \ {r}]
             \/ stream' = [stream EXCEPT ![u].seen = stream[u].seen \cup {r}]
             \/ stream' = [stream EXCEPT ![u].seen = stream[u].seen]
             \/ stream' = [stream EXCEPT ![u].waiters = stream[u].waiters \ {r},
                                         ![u].seen = stream[u].seen \ {r}]
      PROVE  Near(stream[t], stream'[t], r)
  <2> DEFINE more == stream[u].waiters \cup {r}
             less == stream[u].waiters \ {r}
             old  == stream[u].seen
             sees == stream[u].seen \cup {r}
             not  == stream[u].seen \ {r}
  <2>1. /\ more \subseteq stream[u].waiters \cup {r} /\ less \subseteq stream[u].waiters \cup {r}
        /\ old \subseteq old \cup {r} /\ old \subseteq sees \cup {r} /\ old \subseteq not \cup {r}
    OBVIOUS
  <2>2. \/ stream' = [stream EXCEPT ![u].waiters = more]
        \/ stream' = [stream EXCEPT ![u].waiters = less]
        \/ stream' = [stream EXCEPT ![u].seen = sees]
        \/ stream' = [stream EXCEPT ![u].seen = old]
        \/ stream' = [stream EXCEPT ![u].waiters = less, ![u].seen = not]
    BY <1>4
  <2> HIDE DEF more, less, old, sees, not
  <2>3. \A W, S :
          /\ W \subseteq stream[u].waiters \cup {r} /\ old \subseteq S \cup {r}
          /\ \/ stream' = [stream EXCEPT ![u].waiters = W]
             \/ stream' = [stream EXCEPT ![u].seen = S]
             \/ stream' = [stream EXCEPT ![u].waiters = W, ![u].seen = S]
          => Near(stream[t], stream'[t], r)
    BY <1>3 DEF old
  <2>4. CASE stream' = [stream EXCEPT ![u].waiters = more] BY <2>1, <2>3, <2>4
  <2>5. CASE stream' = [stream EXCEPT ![u].waiters = less] BY <2>1, <2>3, <2>5
  <2>6. CASE stream' = [stream EXCEPT ![u].seen = sees] BY <2>1, <2>3, <2>6
  <2>7. CASE stream' = [stream EXCEPT ![u].seen = old] BY <2>1, <2>3, <2>7
  <2>8. CASE stream' = [stream EXCEPT ![u].waiters = less, ![u].seen = not]
    BY <2>1, <2>3, <2>8
  <2> QED BY <2>2, <2>4, <2>5, <2>6, <2>7, <2>8
<1>5. CASE Attach(r) BY <1>4, <1>5 DEF Attach
<1>6. CASE Read(r) BY <1>2, <1>4, <1>6 DEF Read
<1>7. CASE GiveUp(r) BY <1>4, <1>7 DEF GiveUp, Leave
<1>8. CASE Following(r) BY <1>2, <1>4, <1>8 DEF Following
<1>9. CASE NextTimeout(r) BY <1>4, <1>9 DEF NextTimeout, Leave
<1>10. CASE Disconnect(r) BY <1>4, <1>10 DEF Disconnect
<1>11. CASE Current(r) \/ Wake(r) \/ WakeNext(r) \/ Judge(r)
  BY <1>2, <1>11 DEF Current, Wake, WakeNext, Judge
<1> QED BY <1>5, <1>6, <1>7, <1>8, <1>9, <1>10, <1>11 DEF Follow

LEMMA FollowWait ==
  ASSUME PoolInv, PoolInv', WaitInv, NEW r \in Requests, Follow(r)
  PROVE  WaitInv'
<1> DEFINE q  == req[r]
           s  == q.s
           fd == q.feed
<1> USE InvGood
<1>1. GoodReq(q) /\ q \in RequestType BY DEF Good
<1>2. \A t \in Streams : /\ Near(stream[t], stream'[t], r) /\ Younger(stream[t], stream'[t])
                         /\ \A o \in Requests \ {r} : Muter(stream[t], stream'[t], o)
  BY FollowNear, NearStays
<1>3. ASSUME NEW p, req' = [req EXCEPT ![r] = p], Goes(q, p),
             p.pc \notin {"blocked", "blockedNext"}
      PROVE  WaitInv'
  BY <1>2, <1>3, RequestWait
<1>4. ASSUME NEW pc, To(r, pc), pc \notin {"blocked", "blockedNext"},
             pc \in Using => q.pc \in Using
      PROVE  WaitInv'
  <2> DEFINE p == [q EXCEPT !.pc = pc]
  <2>1. p.pc = pc /\ p.s = q.s /\ p.waited = q.waited BY <1>1 DEF RequestType
  <2>2. req' = [req EXCEPT ![r] = p] BY <1>4 DEF To, Good
  <2> HIDE DEF p
  <2> QED BY <1>3, <1>4, <2>1, <2>2 DEF Goes
<1>5. ASSUME q.step # "attach", q.pc # "idle", q.olds = {},
             NEW p \in Unserved(q) \cup {Served(q), NoReq}, req' = [req EXCEPT ![r] = p]
      PROVE  WaitInv'
  <2>1. p.pc \in {"idle", "ensure", "next"} BY <1>1, <1>5, ServedGood, NoReqGood
  <2> QED BY <1>3, <1>5, <2>1 DEF Goes, Using
<1>6. ASSUME To(r, "blocked") \/ To(r, "blockedNext"),
             To(r, "blocked") => q.pc \in Using /\ Calm(stream'[s]),
             To(r, "blockedNext") => CalmFor(stream'[fd], r)
      PROVE  WaitInv'
  <2>1. PICK pc \in {"blocked", "blockedNext"} : To(r, pc) BY <1>6
  <2> DEFINE p == [q EXCEPT !.pc = pc]
  <2>2. p.pc = pc /\ p.s = s /\ p.feed = fd /\ p.waited = q.waited BY <1>1 DEF RequestType
  <2>3. req' = [req EXCEPT ![r] = p] BY <2>1 DEF To, Good
  <2> HIDE DEF p, s, fd
  <2>4. \A o \in Requests : req'[o] = IF o = r THEN p ELSE req[o] BY <2>3 DEF Good
  <2>5. \A o \in Requests : /\ req[o].pc = "blocked" => req[o].s \in Streams
                            /\ req[o].pc = "blockedNext" => req[o].feed \in Streams
    BY DEF Good, GoodReq
  <2>6. \A o \in Requests : Goes(req[o], req'[o])
    BY <1>6, <2>1, <2>2, <2>4 DEF Goes, Using, s
  <2>7. \A o \in Requests \ {r} :
          /\ req[o].pc = "blocked" => Muter(stream[req[o].s], stream'[req[o].s], o)
          /\ req[o].pc = "blockedNext" => Muter(stream[req[o].feed], stream'[req[o].feed], o)
    BY <1>2, <2>5
  <2>8. /\ p.pc = "blocked" => Calm(stream'[p.s])
        /\ p.pc = "blockedNext" => CalmFor(stream'[p.feed], r)
    BY <1>6, <2>1, <2>2
  <2> QED BY <1>2, <2>4, <2>6, <2>7, <2>8, WaitStep
<1>7. q.pc # "idle" /\ q.pc \notin {"launch", "stop"} /\ q.olds = {}
  BY <1>1 DEF Follow, Attach, Current, Read, Wake, GiveUp, Following, WakeNext, NextTimeout,
              Judge, Disconnect, GoodReq
<1>8. Finish(r) => WaitInv' BY <1>3, NoReqGood DEF Finish, Goes, Using
<1>9. q.pc \in {"read", "blocked"} => q.step # "attach" /\ s \in Streams BY <1>1 DEF GoodReq
<1>10. q.pc = "next" => fd \in Streams BY <1>1 DEF GoodReq
<1>11. CASE Attach(r)
  <2> DEFINE p == [q EXCEPT !.feed = s, !.s = NoStream, !.pc = "next"]
  <2>1. p.pc = "next" BY <1>1 DEF RequestType
  <2>2. req' = [req EXCEPT ![r] = p] BY <1>11 DEF Attach, Good
  <2> HIDE DEF p
  <2> QED BY <1>3, <2>1, <2>2 DEF Goes, Using
<1>12. CASE Current(r)
  BY <1>4, <1>5, <1>7, <1>12 DEF Current, Using
<1>13. CASE Read(r)
  <2>1. q.pc = "read" BY <1>13 DEF Read
  <2>2. CASE \E p \in Unserved(q) \cup {Served(q)} : req' = [req EXCEPT ![r] = p]
    BY <1>5, <1>7, <1>9, <2>1, <2>2
  <2>3. CASE ~ Fresh(s) /\ ~ stream[s].stopped /\ ~ stream[s].err /\ To(r, "blocked")
    <3>1. Near(stream[s], stream'[s], r) BY <1>2, <1>9, <2>1
    <3>2. Calm(stream'[s]) BY <2>3, <3>1 DEF Near, Calm, Fresh
    <3>3. ~ To(r, "blockedNext") BY <1>1, <2>3 DEF To, Good, RequestType
    <3> QED BY <1>6, <2>1, <2>3, <3>2, <3>3 DEF Using
  <2> QED BY <1>13, <2>2, <2>3 DEF Read
<1>14. CASE Wake(r) BY <1>4, <1>14 DEF Wake, Using
<1>15. CASE GiveUp(r) BY <1>5, <1>7, <1>9, <1>15 DEF GiveUp
<1>16. CASE Following(r)
  <2>1. q.pc = "next" BY <1>16 DEF Following
  <2>2. CASE To(r, "judge") BY <1>4, <2>2 DEF Using
  <2>3. CASE UNCHANGED req
    <3>1. req' = [req EXCEPT ![r] = q] BY <2>3 DEF Good
    <3> QED BY <1>3, <2>1, <3>1 DEF Goes
  <2>4. CASE ~ stream[fd].stopped /\ ~ Newer(r) /\ To(r, "blockedNext")
             /\ stream' = [stream EXCEPT ![fd].waiters = @ \cup {r}]
    <3>1. stream'[fd].stopped = stream[fd].stopped /\ stream'[fd].frame = stream[fd].frame
          /\ stream'[fd].seen = stream[fd].seen
      BY <1>10, <2>1, <2>4 DEF Good, StreamType
    <3>2. CalmFor(stream'[fd], r) BY <2>4, <3>1 DEF CalmFor, Newer
    <3>3. ~ To(r, "blocked") BY <1>1, <2>4 DEF To, Good, RequestType
    <3> QED BY <1>6, <2>4, <3>2, <3>3
  <2> QED BY <1>16, <2>2, <2>3, <2>4 DEF Following
<1>17. CASE WakeNext(r) BY <1>4, <1>17 DEF WakeNext, Using
<1>18. CASE NextTimeout(r) BY <1>4, <1>18 DEF NextTimeout, Using
<1>19. CASE Judge(r)
  <2> DEFINE p == [q EXCEPT !.pc = "ensure", !.step = "refresh"]
  <2>1. CASE Finish(r) BY <1>8, <2>1
  <2>2. CASE req' = [req EXCEPT ![r].pc = "ensure", ![r].step = "refresh"]
    <3>1. p.pc = "ensure" BY <1>1 DEF RequestType
    <3>2. req' = [req EXCEPT ![r] = p] BY <2>2 DEF Good
    <3> HIDE DEF p
    <3> QED BY <1>3, <3>1, <3>2 DEF Goes, Using
  <2> QED BY <1>19, <2>1, <2>2 DEF Judge
<1>20. CASE Disconnect(r) BY <1>8, <1>20 DEF Disconnect
<1> QED BY <1>11, <1>12, <1>13, <1>14, <1>15, <1>16, <1>17, <1>18, <1>19, <1>20 DEF Follow

\* A request that takes no stream, while no stream changes.
LEMMA AloneWait ==
  ASSUME PoolInv, PoolInv', WaitInv, NEW r \in Requests, NEW p, req' = [req EXCEPT ![r] = p],
         p.pc \notin Using \cup {"blockedNext"}, UNCHANGED stream
  PROVE  WaitInv'
<1>1. Goes(req[r], p) /\ p.pc \notin {"blocked", "blockedNext"} BY DEF Goes, Using
<1>2. \A t \in Streams : /\ Younger(stream[t], stream'[t])
                         /\ \A o \in Requests \ {r} : Muter(stream[t], stream'[t], o)
  BY DEF Younger, Muter
<1> QED BY <1>1, <1>2, RequestWait

LEMMA ArriveWait ==
  ASSUME PoolInv, PoolInv', WaitInv, NEW r \in Requests, Arrive(r)
  PROVE  WaitInv'
<1>1. ASSUME NEW p, Begin(r, p), p.pc \in {"idle", "ensure", "unpool"}, UNCHANGED stream
      PROVE  WaitInv'
  BY <1>1, AloneWait DEF Begin, Using
<1> PICK c \in Cameras :
      \/ \E use \in Uses : View(r, c, use)
      \/ Release(r, c) \/ Delete(r, c)
      \/ \E config \in Configs : Put(r, c, config)
  BY DEF Arrive
<1>2. CASE \E use \in Uses : View(r, c, use) BY <1>1, <1>2 DEF View, NoReq
<1>3. CASE Release(r, c) BY <1>1, <1>3 DEF Release, NoReq
<1>4. CASE Delete(r, c) BY <1>1, <1>4 DEF Delete, NoReq
<1>5. CASE \E config \in Configs : Put(r, c, config) BY <1>1, <1>5 DEF Put, NoReq
<1> QED BY <1>2, <1>3, <1>4, <1>5

\* A request gets a stream of the pool: one in use, or a new one.
LEMMA TakeWait ==
  ASSUME PoolInv, PoolInv', WaitInv, NEW r \in Requests, NEW s \in Streams, NEW p, NEW st,
         req' = [req EXCEPT ![r] = p], stream' = [stream EXCEPT ![s] = st],
         p.pc \in {"launch", "ensured"}, p.s = s, st.watch # "stopping", st.idle = 0,
         \A o \in Requests : Muter(stream[s], st, o)
  PROVE  WaitInv'
<1> USE InvGood
<1>1. \A o \in Requests : req'[o] = IF o = r THEN p ELSE req[o] BY DEF Good
<1>2. \A t \in Streams : stream'[t] = IF t = s THEN st ELSE stream[t] BY DEF Good
<1>3. \A t \in Streams : /\ Younger(stream[t], stream'[t])
                         /\ \A o \in Requests : Muter(stream[t], stream'[t], o)
  BY <1>2 DEF Younger, Muter
<1>4. \A o \in Requests : /\ req[o].pc \in Using => req[o].s \in Streams
                          /\ req[o].pc = "blockedNext" => req[o].feed \in Streams
  BY DEF Good, GoodReq, Using
<1>5. InUse'
  <2> SUFFICES ASSUME NEW o \in Requests, req'[o].pc \in Using
               PROVE  /\ stream'[req'[o].s].watch # "stopping"
                      /\ stream'[req'[o].s].idle <= req'[o].waited
    BY DEF InUse, Using
  <2>1. GoodReq(req'[o]) BY DEF PoolInv, Good
  <2>2. req'[o].waited \in Nat BY <2>1 DEF GoodReq, RequestType, WaitFor
  <2>3. CASE o = r BY <1>1, <1>2, <2>2, <2>3
  <2>4. CASE o # r
    <3>1. stream[req[o].s].watch # "stopping" /\ stream[req[o].s].idle <= req[o].waited
      BY <1>1, <2>4 DEF WaitInv, InUse, Using
    <3>2. 0 <= req[o].waited BY <1>1, <2>2, <2>4
    <3> QED BY <1>1, <1>2, <1>4, <2>4, <3>1, <3>2
  <2> QED BY <2>3, <2>4
<1>6. NoLostWakeup'
  <2> SUFFICES ASSUME NEW o \in Requests
               PROVE  /\ req'[o].pc = "blocked" /\ o \in stream'[req'[o].s].waiters
                           => Calm(stream'[req'[o].s])
                      /\ req'[o].pc = "blockedNext" /\ o \in stream'[req'[o].feed].waiters
                           => CalmFor(stream'[req'[o].feed], o)
    BY DEF NoLostWakeup, Fresh, Newer, Calm, CalmFor
  <2>1. CASE o = r BY <1>1, <2>1
  <2>2. CASE o # r
    <3>1. /\ req[o].pc = "blocked" /\ o \in stream[req[o].s].waiters => Calm(stream[req[o].s])
          /\ req[o].pc = "blockedNext" /\ o \in stream[req[o].feed].waiters
                => CalmFor(stream[req[o].feed], o)
      BY DEF WaitInv, NoLostWakeup, Fresh, Newer, Calm, CalmFor
    <3> QED BY <1>1, <1>3, <1>4, <2>2, <3>1 DEF Muter, Using
  <2> QED BY <2>1, <2>2
<1> QED BY <1>5, <1>6 DEF WaitInv

LEMMA EnsureWait ==
  ASSUME PoolInv, PoolInv', WaitInv, NEW r \in Requests, Ensure(r)
  PROVE  WaitInv'
<1> DEFINE purpose == Purpose(req[r].config, req[r].use)
           map     == MapOf(purpose)
           c       == req[r].c
           current == pool[map][c]
<1> USE InvGood
<1>1. req[r] \in RequestType /\ c \in Cameras BY DEF Ensure, Good, GoodReq
<1>2. map \in Maps BY DEF MapOf
<1>3. current \in Streams \cup {NoStream} BY <1>1, <1>2 DEF PoolInv, TypeOK
<1>4. CASE current # NoStream /\ Reuse(r, current)
  <2> DEFINE s == current
             p == [req[r] EXCEPT !.s = s, !.pc = "ensured"]
             st == Touch(stream[s])
  <2>1. s \in Streams BY <1>3, <1>4
  <2>2. GoodStream(stream[s]) /\ stream[s] \in StreamType BY <2>1 DEF Good, GoodStream
  <2>3. req' = [req EXCEPT ![r] = p] /\ stream' = [stream EXCEPT ![s] = st]
    BY <1>4 DEF Reuse, Good
  <2>4. Pooled(s) BY <1>1, <1>2 DEF Pooled
  <2>5. stream[s].watch # "stopping" BY <2>1, <2>4 DEF PoolInv, Apart
  <2> HIDE DEF s, map, c
  <2>6. p.pc = "ensured" /\ p.s = s BY <1>1 DEF RequestType
  <2>7. /\ st.watch = stream[s].watch /\ st.idle = 0 /\ st.waiters = stream[s].waiters
        /\ st.stopped = stream[s].stopped /\ st.frame = stream[s].frame
        /\ st.err = stream[s].err /\ st.seen = stream[s].seen
    BY <2>2 DEF Touch, GoodStream, StreamType
  <2> HIDE DEF p, st
  <2>8. \A o \in Requests : Muter(stream[s], st, o) BY <2>7 DEF Muter, Calm, CalmFor
  <2> QED BY <2>1, <2>3, <2>5, <2>6, <2>7, <2>8, TakeWait
<1>5. CASE \E s \in Streams : Create(r, s, map, purpose)
  <2> PICK s \in Streams : Create(r, s, map, purpose) BY <1>5
  <2> DEFINE p == [req[r] EXCEPT !.s = s, !.pc = "launch", !.olds = Replaced(current)]
             st == [Unused EXCEPT !.camera = c, !.config = req[r].config, !.purpose = purpose]
  <2>1. req' = [req EXCEPT ![r] = p] /\ stream' = [stream EXCEPT ![s] = st]
    BY DEF Create, Good
  <2> HIDE DEF c, purpose, map, current
  <2>2. p.pc = "launch" /\ p.s = s BY <1>1 DEF RequestType
  <2>3. st.watch = "off" /\ st.idle = 0 /\ st.waiters = {} BY DEF Unused
  <2> HIDE DEF p, st
  <2>4. \A o \in Requests : Muter(stream[s], st, o) BY <2>3 DEF Muter
  <2> QED BY <2>1, <2>2, <2>3, <2>4, TakeWait
<1> QED BY <1>4, <1>5 DEF Ensure

LEMMA LaunchWait ==
  ASSUME PoolInv, PoolInv', WaitInv, NEW r \in Requests, Launch(r)
  PROVE  WaitInv'
<1> DEFINE s  == req[r].s
           p  == [req[r] EXCEPT !.pc = "ensured"]
           W  == IF stream[s].watch = "off" /\ stream[s].purpose = "recognition"
                 THEN "on" ELSE stream[s].watch
           st == [stream[s] EXCEPT !.run = "connect", !.watch = W]
<1> USE InvGood
<1>1. GoodReq(req[r]) /\ req[r] \in RequestType /\ req[r].pc = "launch" BY DEF Launch, Good
<1>2. s \in Streams /\ stream[s] \in StreamType BY <1>1 DEF GoodReq, Good
<1>3. req' = [req EXCEPT ![r] = p] /\ stream' = [stream EXCEPT ![s] = st]
  BY <1>2 DEF Launch, To, Good
<1>4. p.pc = "ensured" /\ p.s = s /\ p.waited = req[r].waited BY <1>1 DEF RequestType
<1>5. W = "stopping" => stream[s].watch = "stopping" OBVIOUS
<1> HIDE DEF s, W
<1>6. /\ st.watch = W /\ st.idle = stream[s].idle /\ st.waiters = stream[s].waiters
      /\ st.stopped = stream[s].stopped /\ st.frame = stream[s].frame
      /\ st.err = stream[s].err /\ st.seen = stream[s].seen
  BY <1>2 DEF StreamType
<1> HIDE DEF p, st
<1>7. Goes(req[r], p) BY <1>1, <1>4 DEF Goes, Using, s
<1>8. \A t \in Streams : stream'[t] = IF t = s THEN st ELSE stream[t] BY <1>3 DEF Good
<1>9. \A t \in Streams : /\ Younger(stream[t], stream'[t])
                         /\ \A o \in Requests \ {r} : Muter(stream[t], stream'[t], o)
  BY <1>5, <1>6, <1>8 DEF Younger, Muter, Calm, CalmFor
<1> QED BY <1>3, <1>4, <1>7, <1>9, RequestWait

LEMMA HandleWait ==
  ASSUME PoolInv, PoolInv', WaitInv, NEW r \in Requests, Handle(r)
  PROVE  WaitInv'
<1> USE InvGood
<1>1. req[r] \in RequestType /\ \A s \in Streams : GoodStream(stream[s]) BY DEF Good
<1>2. CASE Ensure(r) BY <1>2, EnsureWait
<1>3. CASE Launch(r) BY <1>3, LaunchWait
<1>4. CASE Unpool(r)
  <2> DEFINE T == Taken(req[r].c)
             p == [req[r] EXCEPT !.olds = T, !.pc = "stop"]
  <2>1. req' = [req EXCEPT ![r] = p] /\ UNCHANGED stream BY <1>4 DEF Unpool, Good
  <2> HIDE DEF T
  <2>2. p.pc = "stop" BY <1>1 DEF RequestType
  <2> HIDE DEF p
  <2> QED BY <2>1, <2>2, AloneWait DEF Using
<1>5. CASE Stopped(r)
  BY <1>5, NoReqGood, AloneWait DEF Stopped, Finish, Using
<1>6. CASE \E s \in Streams : StopOld(r, s)
  <2> PICK s \in Streams : StopOld(r, s) BY <1>6
  <2> DEFINE st == Halt(stream[s])
             p  == [req[r] EXCEPT !.olds = req[r].olds \ {s}]
  <2>1. stream' = [stream EXCEPT ![s] = st] /\ req' = [req EXCEPT ![r] = p]
    BY DEF StopOld, Good
  <2>2. /\ p.pc = req[r].pc /\ p.s = req[r].s /\ p.feed = req[r].feed
        /\ p.waited = req[r].waited
    BY <1>1 DEF RequestType
  <2>3. st.watch = stream[s].watch /\ st.idle = 0 /\ st.waiters = {} BY <1>1, HaltGood
  <2> HIDE DEF st, p
  <2>4. \A o \in Requests : /\ req'[o].pc = req[o].pc /\ req'[o].s = req[o].s
                            /\ req'[o].feed = req[o].feed /\ req'[o].waited = req[o].waited
    BY <2>1, <2>2 DEF Good
  <2>5. Younger(stream[s], st) /\ \A o \in Requests : Muter(stream[s], st, o)
    BY <2>3 DEF Younger, Muter
  <2> QED BY <2>1, <2>4, <2>5, StreamWait
<1>7. CASE Follow(r) BY <1>7, FollowWait
<1> QED BY <1>2, <1>3, <1>4, <1>5, <1>6, <1>7 DEF Handle, Follow

LEMMA BackgroundWait ==
  ASSUME PoolInv, PoolInv', WaitInv, NEW s \in Streams, Background(s)
  PROVE  WaitInv'
<1> DEFINE st == stream[s]
<1> USE InvGood
<1>1. GoodStream(st) /\ st \in StreamType BY DEF Good, GoodStream
<1>2. ASSUME NEW new, stream' = [stream EXCEPT ![s] = new], UNCHANGED req,
             Younger(st, new), \A o \in Requests : Muter(st, new, o)
      PROVE  WaitInv'
  BY <1>2, StreamWait
<1>3. CASE Open(s)
  <2> DEFINE new == [st EXCEPT !.run = "open"]
  <2>1. stream' = [stream EXCEPT ![s] = new] BY <1>3 DEF Open, Good
  <2>2. /\ new.waiters = st.waiters /\ new.seen = st.seen /\ new.watch = st.watch
        /\ new.idle = st.idle /\ new.stopped = st.stopped /\ new.err = st.err
        /\ new.frame = st.frame
    BY <1>1 DEF StreamType
  <2> HIDE DEF new
  <2> QED BY <1>2, <1>3, <2>1, <2>2 DEF Open, Younger, Muter, Calm, CalmFor
<1>4. CASE Publish(s)
  <2> DEFINE new == Published(st)
  <2>1. stream' = [stream EXCEPT ![s] = new] BY <1>4 DEF Publish, Good
  <2>2. new.waiters = {} /\ new.watch = st.watch /\ new.idle = st.idle
    BY <1>1 DEF StreamType, Published, Notify
  <2> HIDE DEF new
  <2> QED BY <1>2, <1>4, <2>1, <2>2 DEF Publish, Younger, Muter
<1>5. CASE Fail(s)
  <2> DEFINE new == [Notify(st) EXCEPT !.err = TRUE, !.run = "connect"]
  <2>1. stream' = [stream EXCEPT ![s] = new] BY <1>5 DEF Fail, Good
  <2>2. new.waiters = {} /\ new.watch = st.watch /\ new.idle = st.idle
    BY <1>1 DEF StreamType, Notify
  <2> HIDE DEF new
  <2> QED BY <1>2, <1>5, <2>1, <2>2 DEF Fail, Younger, Muter
<1>6. CASE End(s)
  <2> DEFINE new == [Unused EXCEPT !.run = "done", !.stopped = TRUE, !.waiters = st.waiters]
  <2>1. stream' = [stream EXCEPT ![s] = new] /\ st.stopped BY <1>6 DEF End
  <2>2. new.waiters = st.waiters /\ new.watch = "off" /\ new.idle = 0 BY DEF Unused
  <2> HIDE DEF new
  <2> QED BY <1>2, <1>6, <2>1, <2>2 DEF End, Younger, Muter, Calm, CalmFor
<1>7. CASE Stale(s)
  <2> DEFINE new == [st EXCEPT !.frame = "stale"]
  <2>1. stream' = [stream EXCEPT ![s] = new] /\ st.frame = "fresh" BY <1>7 DEF Stale, Good
  <2>2. /\ new.waiters = st.waiters /\ new.seen = st.seen /\ new.watch = st.watch
        /\ new.idle = st.idle /\ new.stopped = st.stopped /\ new.err = st.err
        /\ new.frame = "stale"
    BY <1>1 DEF StreamType
  <2> HIDE DEF new
  <2> QED BY <1>2, <1>7, <2>1, <2>2 DEF Stale, Younger, Muter, Calm, CalmFor
<1>8. CASE WatchIdle(s)
  <2> DEFINE new == [st EXCEPT !.watch = "stopping"]
  <2>1. stream' = [stream EXCEPT ![s] = new] /\ st.idle >= IdleFor
    BY <1>8 DEF WatchIdle, Good
  <2>2. /\ new.waiters = st.waiters /\ new.seen = st.seen /\ new.idle = st.idle
        /\ new.stopped = st.stopped /\ new.err = st.err /\ new.frame = st.frame
    BY <1>1 DEF StreamType
  <2> HIDE DEF new
  <2>3. \A t \in Streams : stream'[t] = IF t = s THEN new ELSE stream[t]
    BY <2>1 DEF Good
  <2>4. \A t \in Streams, o \in Requests : Muter(stream[t], stream'[t], o)
    BY <2>2, <2>3 DEF Muter, Calm, CalmFor
  \* Nobody who waits can wait for a stream that has been idle so long.
  <2>5. \A o \in Requests : req[o].pc \in Using => req[o].s # s
    <3> SUFFICES ASSUME NEW o \in Requests, req[o].pc \in Using, req[o].s = s PROVE FALSE
      OBVIOUS
    <3>1. st.idle <= req[o].waited BY DEF WaitInv, InUse, Using
    <3>2. req[o].waited \in 0..WaitFor BY DEF Good, RequestType
    <3>3. st.idle \in 0..IdleFor BY <1>1 DEF StreamType
    <3> QED BY <2>1, <3>1, <3>2, <3>3 DEF IdleFor, WaitFor
  <2>6. UNCHANGED req BY <1>8 DEF WatchIdle
  <2>7. \A o \in Requests : /\ req[o].pc \in Using => req[o].s \in Streams
                            /\ req[o].pc = "blockedNext" => req[o].feed \in Streams
    BY DEF Good, GoodReq, Using
  <2>8. InUse' BY <2>3, <2>5, <2>6, <2>7 DEF WaitInv, InUse, Using
  <2>9. NoLostWakeup'
    <3>1. \A o \in Requests :
            /\ req[o].pc = "blocked" => Muter(stream[req[o].s], stream'[req[o].s], o)
            /\ req[o].pc = "blockedNext" => Muter(stream[req[o].feed], stream'[req[o].feed], o)
      BY <2>4, <2>7 DEF Using
    <3> QED BY <2>6, <3>1 DEF WaitInv, NoLostWakeup, Fresh, Newer, Muter, Calm, CalmFor
  <2> QED BY <2>8, <2>9 DEF WaitInv
<1>9. CASE StopIdle(s)
  <2> DEFINE new == [Halt(st) EXCEPT !.watch = "off"]
  <2>1. stream' = [stream EXCEPT ![s] = new] BY <1>9 DEF StopIdle
  <2>2. new.waiters = {} /\ new.watch = "off" /\ new.idle = 0 BY <1>1, HaltGood
  <2> HIDE DEF new
  <2> QED BY <1>2, <1>9, <2>1, <2>2 DEF StopIdle, Younger, Muter
<1> QED BY <1>3, <1>4, <1>5, <1>6, <1>7, <1>8, <1>9 DEF Background, Capture

LEMMA TickWait ==
  ASSUME PoolInv, PoolInv', WaitInv, Tick
  PROVE  WaitInv'
<1> USE InvGood
<1>1. \A o \in Requests :
        /\ GoodReq(req[o]) /\ req[o].waited < WaitFor /\ req[o].pc \in {"idle", "blocked", "blockedNext"}
        /\ req'[o] = Longer(req[o])
  BY TickIs DEF Tick, Waiting, Good
<1>2. \A o \in Requests :
        /\ req'[o].pc = req[o].pc /\ req'[o].s = req[o].s /\ req'[o].feed = req[o].feed
        /\ req[o].pc = "blocked" => req'[o].waited = req[o].waited + 1
        /\ req[o].waited \in Nat
  BY <1>1, LongerGood
<1>3. \A t \in Streams :
        /\ stream'[t].watch = stream[t].watch /\ stream'[t].idle <= stream[t].idle + 1
        /\ stream'[t].waiters = stream[t].waiters /\ stream'[t].frame = stream[t].frame
        /\ stream'[t].err = stream[t].err /\ stream'[t].seen = stream[t].seen
        /\ stream'[t].stopped = stream[t].stopped
        /\ stream[t].idle \in Nat /\ stream'[t].idle \in Nat
  <2>1. \A t \in Streams : GoodStream(stream[t]) /\ stream'[t] = Older(stream[t])
    BY TickIs DEF Good
  <2>2. \A t \in Streams : stream[t].idle \in 0..IdleFor /\ stream'[t].idle \in 0..IdleFor
    BY <2>1, OlderGood DEF GoodStream, StreamType
  <2>3. \A t \in Streams : stream[t].idle \in Nat /\ stream'[t].idle \in Nat
    BY <2>2 DEF IdleFor
  <2> QED BY <2>1, <2>3, OlderGood DEF SameLife
<1>4. \A o \in Requests : /\ req[o].pc = "blocked" => req[o].s \in Streams
                          /\ req[o].pc = "blockedNext" => req[o].feed \in Streams
  BY <1>1 DEF GoodReq
<1>5. InUse'
  <2> SUFFICES ASSUME NEW o \in Requests, req'[o].pc \in Using
               PROVE  /\ stream'[req'[o].s].watch # "stopping"
                      /\ stream'[req'[o].s].idle <= req'[o].waited
    BY DEF InUse, Using
  <2> DEFINE t == req[o].s
  <2>1. req[o].pc = "blocked" /\ t \in Streams BY <1>1, <1>2, <1>4 DEF Using
  <2>2. stream[t].watch # "stopping" /\ stream[t].idle <= req[o].waited
    BY <2>1 DEF WaitInv, InUse
  <2>3. req'[o].s = t /\ req'[o].waited = req[o].waited + 1 /\ req[o].waited \in Nat
    BY <1>2, <2>1
  <2> HIDE DEF t
  <2> QED BY <1>3, <2>1, <2>2, <2>3
<1>6. NoLostWakeup'
  <2> SUFFICES ASSUME NEW o \in Requests
               PROVE  /\ req'[o].pc = "blocked" /\ o \in stream'[req'[o].s].waiters
                           => Calm(stream'[req'[o].s])
                      /\ req'[o].pc = "blockedNext" /\ o \in stream'[req'[o].feed].waiters
                           => CalmFor(stream'[req'[o].feed], o)
    BY DEF NoLostWakeup, Fresh, Newer, Calm, CalmFor
  <2>1. /\ req[o].pc = "blocked" /\ o \in stream[req[o].s].waiters => Calm(stream[req[o].s])
        /\ req[o].pc = "blockedNext" /\ o \in stream[req[o].feed].waiters
              => CalmFor(stream[req[o].feed], o)
    BY DEF WaitInv, NoLostWakeup, Fresh, Newer, Calm, CalmFor
  <2> QED BY <1>2, <1>3, <1>4, <2>1 DEF Calm, CalmFor
<1> QED BY <1>5, <1>6 DEF WaitInv

LEMMA InitWait == Init => WaitInv
BY DEF Init, NoReq, WaitInv, InUse, NoLostWakeup

LEMMA NextWait == PoolInv /\ PoolInv' /\ WaitInv /\ [Next]_vars => WaitInv'
<1> SUFFICES ASSUME PoolInv, PoolInv', WaitInv, [Next]_vars PROVE WaitInv' OBVIOUS
<1>1. CASE \E r \in Requests : Arrive(r) BY <1>1, ArriveWait
<1>2. CASE \E r \in Requests : Handle(r) BY <1>2, HandleWait
<1>3. CASE \E s \in Streams : Background(s) BY <1>3, BackgroundWait
<1>4. CASE Tick BY <1>4, TickWait
<1>5. CASE UNCHANGED vars
  BY <1>5 DEF vars, WaitInv, InUse, NoLostWakeup, Fresh, Newer
<1> QED BY <1>1, <1>2, <1>3, <1>4, <1>5 DEF Next

LEMMA WaitHolds == Spec => []WaitInv
BY InitWait, NextWait, PoolHolds, PTL DEF Spec

\* No handler sleeps on a channel while there is a frame, an error or a stop to
\* tell it, for any number of handlers and streams.
THEOREM WakeupsArrive == Spec => []NoLostWakeup
<1>1. WaitInv => NoLostWakeup BY DEF WaitInv
<1> QED BY <1>1, WaitHolds, PTL

\* The idle watcher takes no stream from a handler that waits for its first
\* frame: the stream has not been idle for longer than that handler waited.
THEOREM WaitedForIsUsed == Spec => []NotIdleUnderWaiter
<1>1. PoolInv /\ WaitInv => NotIdleUnderWaiter
  <2> SUFFICES ASSUME PoolInv, WaitInv, NEW r \in Requests, req[r].pc = "blocked"
               PROVE  stream[req[r].s].watch # "stopping" /\ stream[req[r].s].idle < IdleFor
    BY DEF NotIdleUnderWaiter
  <2> DEFINE i == stream[req[r].s].idle
             w == req[r].waited
  <2>1. stream[req[r].s].watch # "stopping" /\ i <= w BY DEF WaitInv, InUse
  <2>2. GoodReq(req[r]) /\ req[r] \in RequestType BY InvGood DEF Good
  <2>3. w \in 0..WaitFor BY <2>2 DEF RequestType
  <2>4. i \in 0..IdleFor BY <2>2, InvGood DEF Good, GoodReq, StreamType
  <2> HIDE DEF i, w
  <2>5. i < IdleFor BY <2>1, <2>3, <2>4 DEF IdleFor, WaitFor
  <2> QED BY <2>1, <2>5 DEF i
<1> QED BY <1>1, PoolHolds, WaitHolds, PTL

-----------------------------------------------------------------------------
(* Every stream has a goroutine, or a handler about to start it *)

\* A record in use has been launched.
Runs(st) == st.purpose # "none" => st.run \notin {"none", "done"}

\* A record that is in use and not launched yet belongs to a handler that will
\* launch it, so that nobody else takes it for a free one (Garbage).
Launching ==
  \A s \in Streams :
    Runs(stream[s]) \/ \E r \in Requests : req[r].pc = "launch" /\ req[r].s = s

LaunchKept ==
  \A r \in Requests : req[r].pc = "launch" => req'[r].pc = "launch" /\ req'[r].s = req[r].s

RunsKept == \A s \in Streams : Runs(stream[s]) => Runs(stream'[s])

LEMMA QuietLaunch == ASSUME Launching, LaunchKept, RunsKept PROVE Launching'
BY DEF Launching, LaunchKept, RunsKept

LEMMA OtherKept ==
  ASSUME NEW r \in Requests, req[r].pc # "launch",
         \A o \in Requests \ {r} : req'[o] = req[o]
  PROVE  LaunchKept
BY DEF LaunchKept

LEMMA SameRuns ==
  ASSUME \A s \in Streams : /\ stream'[s].purpose = stream[s].purpose
                            /\ stream'[s].run = stream[s].run
  PROVE  RunsKept
BY DEF RunsKept, Runs

LEMMA TouchRuns ==
  ASSUME NEW st \in StreamType
  PROVE  Touch(st).purpose = st.purpose /\ Touch(st).run = st.run
BY DEF Touch, StreamType

LEMMA HaltLife ==
  ASSUME NEW st \in StreamType
  PROVE  /\ Halt(st).purpose = st.purpose /\ Halt(st).run = st.run
         /\ [Halt(st) EXCEPT !.watch = "off"].purpose = st.purpose
         /\ [Halt(st) EXCEPT !.watch = "off"].run = st.run
<1> DEFINE n == Notify(st)
           h == Halt(st)
<1>1. n \in StreamType /\ n.purpose = st.purpose /\ n.run = st.run BY DEF Notify, StreamType
<1> HIDE DEF n
<1>2. h = [n EXCEPT !.stopped = TRUE, !.frame = "none", !.err = FALSE, !.idle = 0, !.seen = {}]
  BY DEF Halt, Stop, n
<1> HIDE DEF h
<1>3. h \in StreamType /\ h.purpose = n.purpose /\ h.run = n.run
  BY <1>1, <1>2, Zero DEF StreamType
<1>4. /\ [h EXCEPT !.watch = "off"].purpose = h.purpose
      /\ [h EXCEPT !.watch = "off"].run = h.run
  BY <1>3 DEF StreamType
<1> QED BY <1>1, <1>3, <1>4 DEF h

LEMMA FollowAlone ==
  ASSUME Good, NEW r \in Requests, Follow(r)
  PROVE  req[r].pc # "launch" /\ \A o \in Requests \ {r} : req'[o] = req[o]
<1>1. req[r].pc # "launch"
  BY DEF Follow, Attach, Current, Read, Wake, GiveUp, Following, WakeNext, NextTimeout,
         Judge, Disconnect
<1>2. \A q : req' = [req EXCEPT ![r] = q] => \A o \in Requests \ {r} : req'[o] = req[o]
  BY DEF Good
<1>3. \A pc : To(r, pc) => \A o \in Requests \ {r} : req'[o] = req[o] BY DEF To, Good
<1>4. Finish(r) => \A o \in Requests \ {r} : req'[o] = req[o] BY <1>2 DEF Finish
<1>5. CASE Attach(r) BY <1>5 DEF Attach, Good
<1>6. CASE Current(r) BY <1>2, <1>3, <1>6 DEF Current
<1>7. CASE Read(r) BY <1>2, <1>3, <1>7 DEF Read
<1>8. CASE GiveUp(r) BY <1>2, <1>8 DEF GiveUp
<1>9. CASE Following(r) BY <1>3, <1>9 DEF Following
<1>10. CASE Judge(r) BY <1>4, <1>10 DEF Judge, Good
<1>11. CASE Wake(r) \/ WakeNext(r) \/ NextTimeout(r) \/ Disconnect(r)
  BY <1>3, <1>4, <1>11 DEF Wake, WakeNext, NextTimeout, Disconnect
<1> QED BY <1>1, <1>5, <1>6, <1>7, <1>8, <1>9, <1>10, <1>11 DEF Follow

LEMMA HandleLaunch ==
  ASSUME PoolInv, Launching, NEW r \in Requests, Handle(r)
  PROVE  Launching'
<1> USE InvGood
<1>1. \A s \in Streams : stream[s] \in StreamType BY DEF Good
<1>2. CASE Ensure(r)
  <2> DEFINE purpose == Purpose(req[r].config, req[r].use)
             map     == MapOf(purpose)
             current == pool[map][req[r].c]
  <2>1. req[r] \in RequestType /\ req[r].c \in Cameras /\ req[r].pc = "ensure"
    BY <1>2 DEF Ensure, Good, GoodReq
  <2>2. purpose \in {"recognition", "preview", "host-usb"} BY <2>1 DEF RequestType, Purpose
  <2>3. map \in Maps BY DEF MapOf
  <2>4. current \in Streams \cup {NoStream} BY <2>1, <2>3 DEF PoolInv, TypeOK
  <2>5. CASE current # NoStream /\ Reuse(r, current)
    <3>1. current \in Streams BY <2>4, <2>5
    <3> HIDE DEF current
    <3>2. \A s \in Streams :
            stream'[s] = IF s = current THEN Touch(stream[current]) ELSE stream[s]
      BY <2>5, <3>1 DEF Reuse, Good
    <3>3. RunsKept BY <1>1, <3>1, <3>2, TouchRuns, SameRuns
    <3>4. \A o \in Requests \ {r} : req'[o] = req[o] BY <2>5 DEF Reuse, Good
    <3> QED BY <2>1, <3>3, <3>4, OtherKept, QuietLaunch
  <2>6. CASE \E s \in Streams : Create(r, s, map, purpose)
    <3> PICK s \in Streams : Create(r, s, map, purpose) BY <2>6
    <3>1. UNCHANGED rows BY <1>2 DEF Ensure
    <3>2. /\ \A t \in Streams : t # s => stream'[t] = stream[t]
          /\ \A o \in Requests : o # r => req'[o] = req[o]
          /\ req'[r].pc = "launch" /\ req'[r].s = s
      BY <2>1, <2>2, <2>3, <3>1, CreateInv
    <3> QED BY <2>1, <3>2 DEF Launching
  <2> QED BY <1>2, <2>5, <2>6 DEF Ensure
<1>3. CASE Launch(r)
  <2> DEFINE s == req[r].s
  <2>1. req[r] \in RequestType /\ req[r].pc = "launch" /\ s \in Streams
    BY <1>3 DEF Launch, Good, GoodReq
  <2> HIDE DEF s
  <2>2. stream'[s].run = "connect" BY <1>1, <1>3, <2>1 DEF Launch, Good, StreamType, s
  <2>3. \A t \in Streams : t # s => stream'[t] = stream[t] BY <1>3 DEF Launch, Good, s
  <2>4. \A o \in Requests \ {r} : req'[o] = req[o] BY <1>3 DEF Launch, To, Good
  <2>5. ASSUME NEW t \in Streams, ~ Runs(stream'[t])
        PROVE  \E o \in Requests : req'[o].pc = "launch" /\ req'[o].s = t
    <3>1. t # s BY <2>2, <2>5 DEF Runs
    <3>2. ~ Runs(stream[t]) BY <2>3, <2>5, <3>1
    <3>3. PICK o \in Requests : req[o].pc = "launch" /\ req[o].s = t BY <3>2 DEF Launching
    <3>4. o # r BY <3>1, <3>3 DEF s
    <3> QED BY <2>4, <3>3, <3>4
  <2> QED BY <2>5 DEF Launching
<1>4. CASE Unpool(r)
  <2>1. req[r].pc # "launch" /\ UNCHANGED stream BY <1>4 DEF Unpool
  <2>2. \A o \in Requests \ {r} : req'[o] = req[o] BY <1>4 DEF Unpool, Good
  <2> QED BY <2>1, <2>2, SameRuns, OtherKept, QuietLaunch
<1>5. CASE Stopped(r)
  <2>1. req[r].pc # "launch" /\ UNCHANGED stream BY <1>5 DEF Stopped
  <2>2. \A o \in Requests \ {r} : req'[o] = req[o] BY <1>5 DEF Stopped, Finish, Good
  <2> QED BY <2>1, <2>2, SameRuns, OtherKept, QuietLaunch
<1>6. CASE \E s \in Streams : StopOld(r, s)
  <2> PICK s \in Streams : StopOld(r, s) BY <1>6
  <2>1. \A t \in Streams : stream'[t] = IF t = s THEN Halt(stream[s]) ELSE stream[t]
    BY DEF StopOld, Good
  <2>2. RunsKept BY <1>1, <2>1, HaltLife, SameRuns
  <2>3. \A o \in Requests : req'[o].pc = req[o].pc /\ req'[o].s = req[o].s
    BY DEF StopOld, Good, RequestType
  <2> QED BY <2>2, <2>3, QuietLaunch DEF LaunchKept
<1>7. CASE Follow(r)
  <2>1. RunsKept BY <1>7, FollowNear, SameRuns DEF Near
  <2>2. LaunchKept BY <1>7, FollowAlone, OtherKept
  <2> QED BY <2>1, <2>2, QuietLaunch
<1> QED BY <1>2, <1>3, <1>4, <1>5, <1>6, <1>7 DEF Handle, Follow

LEMMA BackgroundLaunch ==
  ASSUME PoolInv, Launching, NEW s \in Streams, Background(s)
  PROVE  Launching'
<1> USE InvGood
<1>1. stream[s] \in StreamType BY DEF Good
<1>2. UNCHANGED req BY DEF Background, Capture, Open, Publish, Fail, End, Stale, WatchIdle, StopIdle
<1>3. LaunchKept BY <1>2 DEF LaunchKept
<1>4. SUFFICES RunsKept BY <1>3, QuietLaunch
<1>5. ASSUME NEW st, stream' = [stream EXCEPT ![s] = st], Runs(stream[s]) => Runs(st)
      PROVE  RunsKept
  <2>1. \A t \in Streams : stream'[t] = IF t = s THEN st ELSE stream[t] BY <1>5 DEF Good
  <2> QED BY <1>5, <2>1 DEF RunsKept
<1>6. CASE Open(s)
  <2> DEFINE st == [stream[s] EXCEPT !.run = "open"]
  <2>1. stream' = [stream EXCEPT ![s] = st] BY <1>6 DEF Open, Good
  <2>2. st.run = "open" BY <1>1 DEF StreamType
  <2> HIDE DEF st
  <2> QED BY <1>5, <2>1, <2>2 DEF Runs
<1>7. CASE Publish(s)
  <2> DEFINE st == Published(stream[s])
  <2>1. stream' = [stream EXCEPT ![s] = st] BY <1>7 DEF Publish, Good
  <2>2. st.run = "open" BY <1>1, <1>7 DEF Publish, Published, Notify, StreamType
  <2> HIDE DEF st
  <2> QED BY <1>5, <2>1, <2>2 DEF Runs
<1>8. CASE Fail(s)
  <2> DEFINE st == [Notify(stream[s]) EXCEPT !.err = TRUE, !.run = "connect"]
  <2>1. stream' = [stream EXCEPT ![s] = st] BY <1>8 DEF Fail, Good
  <2>2. st.run = "connect" BY <1>1 DEF Notify, StreamType
  <2> HIDE DEF st
  <2> QED BY <1>5, <2>1, <2>2 DEF Runs
<1>9. CASE End(s)
  <2> DEFINE st == [Unused EXCEPT !.run = "done", !.stopped = TRUE,
                                  !.waiters = stream[s].waiters]
  <2>1. stream' = [stream EXCEPT ![s] = st] BY <1>9 DEF End
  <2>2. stream[s].waiters \in SUBSET Requests BY <1>1 DEF StreamType
  <2>3. st.purpose = "none" BY <2>2, EndGood
  <2> HIDE DEF st
  <2> QED BY <1>5, <2>1, <2>3 DEF Runs
<1>10. CASE Stale(s)
  <2> DEFINE st == [stream[s] EXCEPT !.frame = "stale"]
  <2>1. stream' = [stream EXCEPT ![s] = st] BY <1>10 DEF Stale, Good
  <2>2. st.purpose = stream[s].purpose /\ st.run = stream[s].run BY <1>1 DEF StreamType
  <2> HIDE DEF st
  <2> QED BY <1>5, <2>1, <2>2 DEF Runs
<1>11. CASE WatchIdle(s) BY <1>11, WatchIdleInv, SameRuns DEF SameButWatch
<1>12. CASE StopIdle(s)
  <2> DEFINE st == [Halt(stream[s]) EXCEPT !.watch = "off"]
  <2>1. stream' = [stream EXCEPT ![s] = st] BY <1>12 DEF StopIdle
  <2>2. st.purpose = stream[s].purpose /\ st.run = stream[s].run BY <1>1, HaltLife
  <2> HIDE DEF st
  <2> QED BY <1>5, <2>1, <2>2 DEF Runs
<1> QED BY <1>6, <1>7, <1>8, <1>9, <1>10, <1>11, <1>12 DEF Background, Capture

LEMMA TickLaunch == ASSUME PoolInv, Launching, Tick PROVE Launching'
<1> USE InvGood
<1>1. \A s \in Streams : stream'[s] = Older(stream[s]) /\ stream[s] \in StreamType
  BY TickIs DEF Good
<1>2. \A s \in Streams : /\ Older(stream[s]).purpose = stream[s].purpose
                         /\ Older(stream[s]).run = stream[s].run
  BY <1>1 DEF Older, StreamType
<1>3. RunsKept BY <1>1, <1>2, SameRuns
<1>4. \A r \in Requests : req[r].pc # "launch" BY DEF Tick, Waiting
<1> QED BY <1>3, <1>4, QuietLaunch DEF LaunchKept

LEMMA InitLaunch == Init => Launching
BY DEF Init, Launching, Runs, Unused

LEMMA NextLaunch == PoolInv /\ Launching /\ [Next]_vars => Launching'
<1> SUFFICES ASSUME PoolInv, Launching, [Next]_vars PROVE Launching' OBVIOUS
<1>1. CASE \E r \in Requests : Arrive(r)
  <2> PICK r \in Requests : Arrive(r) BY <1>1
  <2>1. req[r].pc = "idle" /\ UNCHANGED stream /\ \E q : Begin(r, q) BY ArriveStays
  <2>2. \A o \in Requests \ {r} : req'[o] = req[o] BY <2>1, InvGood DEF Begin, Good
  <2> QED BY <2>1, <2>2, SameRuns, OtherKept, QuietLaunch
<1>2. CASE \E r \in Requests : Handle(r) BY <1>2, HandleLaunch
<1>3. CASE \E s \in Streams : Background(s) BY <1>3, BackgroundLaunch
<1>4. CASE Tick BY <1>4, TickLaunch
<1>5. CASE UNCHANGED vars BY <1>5 DEF vars, Launching
<1> QED BY <1>1, <1>2, <1>3, <1>4, <1>5 DEF Next

-----------------------------------------------------------------------------
(* The pool implements StreamContract *)

SamePhase == \A t \in Streams : Phase(t)' = Phase(t)

\* The life of every stream is the one of StreamContract: a stream that lives is
\* in the pool or in somebody's hands, never both.
LEMMA PhaseIs ==
  ASSUME PoolInv, NEW s \in Streams
  PROVE  /\ stream[s].purpose = "none" => Phase(s) = "free"
         /\ stream[s].purpose # "none" /\ stream[s].stopped => Phase(s) = "stopped"
         /\ Pooled(s) => Phase(s) = "serving"
         /\ Live(s) /\ ~ Pooled(s) => Phase(s) = "leaving" /\ InHand(s)
         /\ InHand(s) => ~ Pooled(s)
<1>1. Pooled(s) => Live(s) BY DEF PoolInv, NoDeadStream
<1>2. Live(s) /\ ~ Pooled(s) => InHand(s) BY DEF PoolInv, NoLeak, InHand
<1>3. InHand(s) => ~ Pooled(s) BY DEF PoolInv, Apart, InHand
<1> QED BY <1>1, <1>2, <1>3 DEF Phase, Live

\* What a stream's phase depends on.
LEMMA PhaseKept ==
  ASSUME PoolInv, PoolInv', NEW s \in Streams, Pooled(s)' <=> Pooled(s),
         stream'[s].purpose = stream[s].purpose, stream'[s].stopped = stream[s].stopped
  PROVE  Phase(s)' = Phase(s)
<1>1. Live(s)' <=> Live(s) BY DEF Live
<1>2. /\ stream'[s].purpose = "none" => Phase(s)' = "free"
      /\ stream'[s].purpose # "none" /\ stream'[s].stopped => Phase(s)' = "stopped"
      /\ Pooled(s)' => Phase(s)' = "serving"
      /\ Live(s)' /\ ~ Pooled(s)' => Phase(s)' = "leaving"
  <2>1. Pooled(s)' => Live(s)' BY DEF PoolInv, NoDeadStream
  <2>2. Live(s)' /\ ~ Pooled(s)' => InHand(s)' BY DEF PoolInv, NoLeak, InHand
  <2> QED BY <2>1, <2>2 DEF Phase, Live
<1> QED BY <1>1, <1>2, PhaseIs DEF Live

LEMMA SameVars ==
  ASSUME SamePhase, UNCHANGED pool
  PROVE  UNCHANGED Contract!vars
BY DEF SamePhase, Contract!vars

\* Steps in which no stream comes, leaves, stops or ends.
LEMMA QuietContract ==
  ASSUME PoolInv, PoolInv', StreamsStay, UNCHANGED pool
  PROVE  UNCHANGED Contract!vars
<1>1. \A s \in Streams : /\ Pooled(s)' <=> Pooled(s)
                         /\ stream'[s].purpose = stream[s].purpose
                         /\ stream'[s].stopped = stream[s].stopped
  BY DEF Pooled, StreamsStay, SameLife
<1>2. SamePhase BY <1>1, PhaseKept DEF SamePhase
<1> QED BY <1>2, SameVars

LEMMA EnsureContract ==
  ASSUME PoolInv, PoolInv', Launching, NEW r \in Requests, Ensure(r)
  PROVE  [Contract!Next]_(Contract!vars)
<1> DEFINE purpose == Purpose(req[r].config, req[r].use)
           map     == MapOf(purpose)
           c       == req[r].c
           current == pool[map][c]
<1> USE InvGood
<1>1. req[r] \in RequestType /\ c \in Cameras /\ req[r].pc = "ensure"
  BY DEF Ensure, Good, GoodReq
<1>2. purpose \in {"recognition", "preview", "host-usb"} BY <1>1 DEF RequestType, Purpose
<1>3. map \in Maps BY DEF MapOf
<1>4. current \in Streams \cup {NoStream} BY <1>1, <1>3 DEF PoolInv, TypeOK
<1>5. CASE current # NoStream /\ Reuse(r, current)
  BY <1>1, <1>4, <1>5, ReuseStays, QuietContract
<1>6. CASE \E s \in Streams : Create(r, s, map, purpose)
  <2> PICK s \in Streams : Create(r, s, map, purpose) BY <1>6
  <2>1. UNCHANGED rows BY DEF Ensure
  <2> HIDE DEF purpose, map
  <2>2. /\ Live(s)' /\ \A t \in Streams : t # s => stream'[t] = stream[t]
        /\ \A t \in Streams : Pooled(t)' <=> t = s \/ (Pooled(t) /\ t # current)
    BY <1>1, <1>2, <1>3, <2>1, CreateInv
  <2>3. pool' = [pool EXCEPT ![map][c] = s] /\ Garbage(s) BY DEF Create
  <2>4. Phase(s) = "free"
    <3>1. ~ \E o \in Requests : req[o].pc = "launch" /\ req[o].s = s BY <2>3 DEF Garbage
    <3>2. stream[s].purpose = "none" BY <2>3, <3>1 DEF Launching, Runs, Garbage
    <3> QED BY <3>2, PhaseIs
  <2>5. Phase(s)' = "serving" BY <2>2 DEF Phase, Live
  <2>6. \A t \in Streams \ {s} : Phase(t)' = IF t = current THEN "leaving" ELSE Phase(t)
    <3> TAKE t \in Streams \ {s}
    <3>1. CASE t = current
      <4>1. Pooled(t) BY <1>1, <1>3, <3>1 DEF Pooled
      <4>2. Live(t) BY <4>1 DEF PoolInv, NoDeadStream
      <4>3. Live(t)' /\ ~ Pooled(t)' BY <2>2, <3>1, <4>2 DEF Live
      <4>4. InHand(t)' BY <4>3 DEF PoolInv, NoLeak, InHand
      <4> QED BY <3>1, <4>3, <4>4 DEF Phase, Live
    <3>2. CASE t # current BY <2>2, <3>2, PhaseKept
    <3> QED BY <3>1, <3>2
  <2>7. Contract!Start(s, map, c)
    <3>1. \A t \in Streams : Phase(t)' = IF t = s THEN "serving"
                                         ELSE IF t = current THEN "leaving" ELSE Phase(t)
      BY <2>5, <2>6
    <3> QED BY <2>3, <2>4, <3>1 DEF Contract!Start, Contract!Leaving
  <2> QED BY <1>1, <1>3, <2>7 DEF Contract!Next, Contract!Maps
<1> QED BY <1>5, <1>6 DEF Ensure

LEMMA UnpoolContract ==
  ASSUME PoolInv, PoolInv', NEW r \in Requests, Unpool(r)
  PROVE  [Contract!Next]_(Contract!vars)
<1> DEFINE c == req[r].c
<1>1. c \in Cameras /\ \A t \in Streams : Pooled(t)' <=> Pooled(t) /\ t \notin Taken(c)
  BY UnpoolInv
<1>2. UNCHANGED stream /\ pool' = Emptied(c) BY DEF Unpool
<1> HIDE DEF c
<1>3. \A t \in Streams : Phase(t)' = IF t \in {pool[m][c] : m \in Maps} THEN "leaving" ELSE Phase(t)
  <2> TAKE t \in Streams
  <2>1. CASE t \in {pool[m][c] : m \in Maps}
    <3>1. t \in Taken(c) /\ Pooled(t) BY <1>1, <2>1, PoolAssumption DEF Taken, Pooled
    <3>2. Live(t) BY <3>1 DEF PoolInv, NoDeadStream
    <3>3. Live(t)' /\ ~ Pooled(t)' BY <1>1, <1>2, <3>1, <3>2 DEF Live
    <3>4. InHand(t)' BY <3>3 DEF PoolInv, NoLeak, InHand
    <3> QED BY <2>1, <3>3, <3>4 DEF Phase, Live
  <2>2. CASE t \notin {pool[m][c] : m \in Maps}
    <3>1. Pooled(t)' <=> Pooled(t) BY <1>1, <2>2 DEF Taken
    <3> QED BY <1>2, <2>2, <3>1, PhaseKept
  <2> QED BY <2>1, <2>2
<1>4. Contract!Clear(c)
  BY <1>2, <1>3 DEF Contract!Clear, Contract!Leaving, Contract!Maps, Emptied
<1> QED BY <1>1, <1>4 DEF Contract!Next

LEMMA IdleContract ==
  ASSUME PoolInv, PoolInv', NEW s \in Streams, WatchIdle(s)
  PROVE  [Contract!Next]_(Contract!vars)
<1> DEFINE c == stream[s].camera
<1>1. /\ c \in Cameras /\ stream'[s].watch = "stopping"
      /\ \A t \in Streams : Pooled(t)' <=> Pooled(t) /\ t # s
      /\ \A t \in Streams : SameButWatch(t, s)
  BY WatchIdleInv
<1>2. pool["recognition"][c] = s /\ pool' = [pool EXCEPT !["recognition"][c] = NoStream]
  BY DEF WatchIdle, Own
<1> HIDE DEF c
<1>3. \A t \in Streams : Phase(t)' = IF t = s THEN "leaving" ELSE Phase(t)
  <2>1. ASSUME NEW t \in Streams, t # s PROVE Phase(t)' = Phase(t)
    BY <1>1, <2>1, PhaseKept DEF SameButWatch
  <2>2. Phase(s)' = "leaving"
    <3>1. Live(s) BY <1>1, <1>2 DEF PoolInv, NoDeadStream, Pooled
    <3>2. Live(s)' BY <1>1, <3>1 DEF Live, SameButWatch
    <3> QED BY <1>1, <3>2 DEF Phase, InHand, Live
  <2> QED BY <2>1, <2>2
<1>4. pool["recognition"][c] # NoStream BY <1>2, PoolAssumption
<1>5. Contract!Idle(c) BY <1>2, <1>3, <1>4 DEF Contract!Idle, Contract!Leaving
<1> QED BY <1>1, <1>5 DEF Contract!Next

\* Whoever has a stream in hand stops it, and a stopped stream ends.
LEMMA DownContract ==
  ASSUME PoolInv, PoolInv', NEW s \in Streams, NEW st, stream' = [stream EXCEPT ![s] = st],
         UNCHANGED pool,
         \/ InHand(s) /\ st.stopped /\ st.purpose = stream[s].purpose
         \/ stream[s].stopped /\ st.purpose = "none"
  PROVE  [Contract!Next]_(Contract!vars)
<1>1. \A t \in Streams : stream'[t] = IF t = s THEN st ELSE stream[t] BY InvGood DEF Good
<1>2. \A t \in Streams : Pooled(t)' <=> Pooled(t) BY DEF Pooled
<1>3. ASSUME NEW p, Phase(s)' = p
      PROVE  [t \in Streams |-> Phase(t)]' = [[t \in Streams |-> Phase(t)] EXCEPT ![s] = p]
  <2>1. \A t \in Streams : t # s => Phase(t)' = Phase(t) BY <1>1, <1>2, PhaseKept
  <2> QED BY <1>3, <2>1
<1>4. Phase(s)' = Phase(s) => UNCHANGED Contract!vars
  <2>1. \A t \in Streams : t # s => Phase(t)' = Phase(t) BY <1>1, <1>2, PhaseKept
  <2> QED BY <2>1, SameVars DEF SamePhase
<1>5. CASE InHand(s) /\ st.stopped /\ st.purpose = stream[s].purpose
  <2>1. CASE Live(s)
    <3>1. Phase(s) = "leaving" BY <1>5, <2>1, PhaseIs
    <3>2. Phase(s)' = "stopped" BY <1>1, <1>5, <2>1 DEF Phase, Live
    <3>3. Contract!Stop(s) BY <1>3, <3>1, <3>2 DEF Contract!Stop
    <3> QED BY <3>3 DEF Contract!Next
  <2>2. CASE ~ Live(s)
    <3>1. Phase(s)' = Phase(s) BY <1>1, <1>5, <2>2 DEF Phase, Live
    <3> QED BY <1>4, <3>1
  <2> QED BY <2>1, <2>2
<1>6. CASE stream[s].stopped /\ st.purpose = "none"
  <2>1. Phase(s)' = "free" BY <1>1, <1>6 DEF Phase
  <2>2. CASE stream[s].purpose = "none"
    <3>1. Phase(s)' = Phase(s) BY <2>1, <2>2, PhaseIs
    <3> QED BY <1>4, <3>1
  <2>3. CASE stream[s].purpose # "none"
    <3>1. Phase(s) = "stopped" BY <1>6, <2>3, PhaseIs
    <3>2. Contract!End(s) BY <1>3, <2>1, <3>1 DEF Contract!End
    <3> QED BY <3>2 DEF Contract!Next
  <2> QED BY <2>2, <2>3
<1> QED BY <1>5, <1>6

LEMMA HandleContract ==
  ASSUME PoolInv, PoolInv', Launching, NEW r \in Requests, Handle(r)
  PROVE  [Contract!Next]_(Contract!vars)
<1>1. CASE Ensure(r) BY <1>1, EnsureContract
<1>2. CASE Launch(r) BY <1>2, LaunchStays, QuietContract
<1>3. CASE Unpool(r) BY <1>3, UnpoolContract
<1>4. CASE Stopped(r) BY <1>4, StoppedStays, QuietContract
<1>5. CASE \E s \in Streams : StopOld(r, s)
  <2> PICK s \in Streams : StopOld(r, s) BY <1>5
  <2> DEFINE st == Halt(stream[s])
  <2>1. stream' = [stream EXCEPT ![s] = st] /\ UNCHANGED pool BY DEF StopOld
  <2>2. InHand(s) BY DEF StopOld, InHand
  <2>3. GoodStream(stream[s]) /\ stream[s] \in StreamType BY InvGood DEF Good
  <2>4. st.stopped /\ st.purpose = stream[s].purpose BY <2>3, HaltGood, HaltLife
  <2> HIDE DEF st
  <2> QED BY <2>1, <2>2, <2>4, DownContract
<1>6. CASE Follow(r) BY <1>6, FollowStays, QuietContract
<1> QED BY <1>1, <1>2, <1>3, <1>4, <1>5, <1>6 DEF Handle, Follow

LEMMA BackgroundContract ==
  ASSUME PoolInv, PoolInv', NEW s \in Streams, Background(s)
  PROVE  [Contract!Next]_(Contract!vars)
<1>1. GoodStream(stream[s]) /\ stream[s] \in StreamType BY InvGood DEF Good
<1>2. CASE Open(s) \/ Publish(s) \/ Fail(s) \/ Stale(s)
  <2>1. UNCHANGED pool BY <1>2 DEF Open, Publish, Fail, Stale
  <2> QED BY <1>2, <2>1, CaptureStays, QuietContract
<1>3. CASE End(s)
  <2> DEFINE st == [Unused EXCEPT !.run = "done", !.stopped = TRUE,
                                  !.waiters = stream[s].waiters]
  <2>1. stream' = [stream EXCEPT ![s] = st] /\ stream[s].stopped /\ UNCHANGED pool
    BY <1>3 DEF End
  <2>2. stream[s].waiters \in SUBSET Requests BY <1>1 DEF StreamType
  <2>3. st.purpose = "none" BY <2>2, EndGood
  <2> HIDE DEF st
  <2> QED BY <2>1, <2>3, DownContract
<1>4. CASE WatchIdle(s) BY <1>4, IdleContract
<1>5. CASE StopIdle(s)
  <2> DEFINE st == [Halt(stream[s]) EXCEPT !.watch = "off"]
  <2>1. stream' = [stream EXCEPT ![s] = st] /\ UNCHANGED pool BY <1>5 DEF StopIdle
  <2>2. InHand(s) BY <1>5 DEF StopIdle, InHand
  <2>3. st.stopped /\ st.purpose = stream[s].purpose BY <1>1, HaltGood, HaltLife
  <2> HIDE DEF st
  <2> QED BY <2>1, <2>2, <2>3, DownContract
<1> QED BY <1>2, <1>3, <1>4, <1>5 DEF Background, Capture

LEMMA ContractInit == Init => Contract!Init
<1> SUFFICES ASSUME Init PROVE Contract!Init OBVIOUS
<1>1. \A s \in Streams : Phase(s) = "free" BY DEF Init, Phase, Unused
<1> QED BY <1>1 DEF Init, Contract!Init, Contract!Maps

LEMMA ContractStep ==
  ASSUME PoolInv, Launching, [Next]_vars
  PROVE  [Contract!Next]_(Contract!vars)
<1>1. PoolInv' BY NextInv
<1>2. CASE \E r \in Requests : Arrive(r) BY <1>1, <1>2, ArriveStays, QuietContract
<1>3. CASE \E r \in Requests : Handle(r) BY <1>1, <1>3, HandleContract
<1>4. CASE \E s \in Streams : Background(s) BY <1>1, <1>4, BackgroundContract
<1>5. CASE Tick BY <1>1, <1>5, TickStays, QuietContract
<1>6. CASE UNCHANGED vars BY <1>1, <1>6, InvGood, NoStreams, QuietContract DEF vars
<1> QED BY <1>2, <1>3, <1>4, <1>5, <1>6 DEF Next

\* The pool and its captures, with any number of handlers that hold old rows and
\* stop streams after unlocking, implement StreamContract: what leaves the pool is
\* in the hands of somebody who stops it, nothing is stopped while it serves, and
\* nothing is used again before it was stopped (ensureNetworkCameraStreamForPurpose,
\* stopNetworkCameraStream, stopNetworkCameraRecognitionStreamIfIdle).
THEOREM Refinement == Spec => ImplementsContract
<1> DEFINE Inv == PoolInv /\ Launching
<1>1. Init => Inv /\ Contract!Init BY InitInv, InitLaunch, ContractInit
<1>2. Inv /\ [Next]_vars => Inv' BY NextInv, NextLaunch
<1>3. Inv /\ [Next]_vars => [Contract!Next]_(Contract!vars) BY ContractStep
<1> HIDE DEF Inv
<1> QED BY <1>1, <1>2, <1>3, PTL DEF Spec, ImplementsContract, Contract!Spec
=============================================================================
