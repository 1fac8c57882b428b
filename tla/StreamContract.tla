--------------------------- MODULE StreamContract ---------------------------
(***************************************************************************)
(* What the stream pool promises about captures, without handlers, locks,  *)
(* frames and watchers: a capture serves one camera in one place of the    *)
(* pool; whoever takes it out of the pool stops it, nobody stops it while  *)
(* it serves, and it does not end before it is stopped.                    *)
(***************************************************************************)
CONSTANTS Cameras, Streams, NoStream

VARIABLES pool,   \* [{"recognition", "preview"} -> [Cameras -> stream]]
          phase   \* [Streams -> "free", "serving", "leaving" or "stopped"]

vars == <<pool, phase>>

Maps == {"recognition", "preview"}

Init ==
  /\ pool = [m \in Maps |-> [c \in Cameras |-> NoStream]]
  /\ phase = [s \in Streams |-> "free"]

\* The streams in S leave the pool.
Leaving(S) == [s \in Streams |-> IF s \in S THEN "leaving" ELSE phase[s]]

\* A new stream takes a place, and what was there leaves.
Start(s, m, c) ==
  /\ phase[s] = "free"
  /\ pool' = [pool EXCEPT ![m][c] = s]
  /\ phase' = [Leaving({pool[m][c]}) EXCEPT ![s] = "serving"]

\* All streams of a camera leave: it is released, changed or deleted.
Clear(c) ==
  /\ pool' = [m \in Maps |-> [pool[m] EXCEPT ![c] = NoStream]]
  /\ phase' = Leaving({pool[m][c] : m \in Maps})

\* Nobody has asked for the camera's recognition stream for a while.
Idle(c) ==
  /\ pool["recognition"][c] # NoStream
  /\ pool' = [pool EXCEPT !["recognition"][c] = NoStream]
  /\ phase' = Leaving({pool["recognition"][c]})

Stop(s) ==
  /\ phase[s] = "leaving"
  /\ phase' = [phase EXCEPT ![s] = "stopped"]
  /\ UNCHANGED pool

End(s) ==
  /\ phase[s] = "stopped"
  /\ phase' = [phase EXCEPT ![s] = "free"]
  /\ UNCHANGED pool

Next ==
  \/ \E s \in Streams, m \in Maps, c \in Cameras : Start(s, m, c)
  \/ \E c \in Cameras : Clear(c) \/ Idle(c)
  \/ \E s \in Streams : Stop(s) \/ End(s)

Spec == Init /\ [][Next]_vars
=============================================================================
