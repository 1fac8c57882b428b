---------------------------- MODULE FaceContract ----------------------------
(***************************************************************************)
(* What the face library promises, without its cache, its requests and the *)
(* sessions of imports: a face is stored for a student only when nobody    *)
(* else has one like it, and, once he has faces, only when it is like one  *)
(* of them; the faces of a student go with him.                            *)
(***************************************************************************)
CONSTANTS Students, Features,
          Alike       \* pairs of features the matcher takes for one person

VARIABLES students,   \* [Students -> "free" (not yet created), "here", "gone"]
          faces       \* [Students -> SUBSET Features]

vars == <<students, faces>>

Init ==
  /\ students = [s \in Students |-> "free"]
  /\ faces = [s \in Students |-> {}]

Unclaimed(f, s) == \A o \in Students \ {s} : \A g \in faces[o] : <<f, g>> \notin Alike

Register(s) ==
  /\ students[s] = "free"
  /\ students' = [students EXCEPT ![s] = "here"]
  /\ UNCHANGED faces

Enrol(s, f) ==
  /\ students[s] = "free" /\ Unclaimed(f, s)
  /\ students' = [students EXCEPT ![s] = "here"]
  /\ faces' = [faces EXCEPT ![s] = {f}]

Add(s, f) ==
  /\ students[s] = "here" /\ Unclaimed(f, s)
  /\ faces[s] = {} \/ \E g \in faces[s] : <<f, g>> \in Alike
  /\ faces' = [faces EXCEPT ![s] = @ \cup {f}]
  /\ UNCHANGED students

Forget(s, f) ==
  /\ faces' = [faces EXCEPT ![s] = @ \ {f}]
  /\ UNCHANGED students

Delete(s) ==
  /\ students[s] = "here"
  /\ students' = [students EXCEPT ![s] = "gone"]
  /\ faces' = [faces EXCEPT ![s] = {}]

Next ==
  \/ \E s \in Students : Register(s) \/ Delete(s)
  \/ \E s \in Students, f \in Features : Enrol(s, f) \/ Add(s, f) \/ Forget(s, f)

Spec == Init /\ [][Next]_vars
=============================================================================
