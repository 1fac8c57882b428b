-------------------------- MODULE CheckinContract --------------------------
(***************************************************************************)
(* What the recognition pipeline promises about the attendance table,      *)
(* without sessions, requests or SQL statements: one row per student and   *)
(* day, created only for an enrolled student whose liveness vote passed,   *)
(* whose first check-in time never changes afterwards.                     *)
(***************************************************************************)
EXTENDS Integers

CONSTANTS Students, Days, Times,
          Never       \* the time of a check-in that has not happened

VARIABLES enrolled,   \* students in the students table
          passed,     \* students whose liveness vote has passed
          attendance  \* [Students -> [Days -> [checked, last]]]

vars == <<enrolled, passed, attendance>>

NoRow == [checked |-> Never, last |-> Never]

Init ==
  /\ enrolled = Students
  /\ passed = {}
  /\ attendance = [s \in Students |-> [d \in Days |-> NoRow]]

Vote(S) ==
  /\ passed' = passed \cup S
  /\ UNCHANGED <<enrolled, attendance>>

CheckIn(s, d, t) ==
  /\ s \in enrolled \cap passed
  /\ attendance[s][d] = NoRow
  /\ attendance' = [attendance EXCEPT ![s][d] = [checked |-> t, last |-> t]]
  /\ UNCHANGED <<enrolled, passed>>

SeeAgain(s, d, t) ==
  /\ attendance[s][d] # NoRow
  /\ attendance' = [attendance EXCEPT ![s][d].last = t]
  /\ UNCHANGED <<enrolled, passed>>

Remove(s) ==
  /\ enrolled' = enrolled \ {s}
  /\ attendance' = [attendance EXCEPT ![s] = [d \in Days |-> NoRow]]
  /\ UNCHANGED passed

Next ==
  \/ \E S \in SUBSET Students : Vote(S)
  \/ \E s \in Students, d \in Days, t \in Times : CheckIn(s, d, t)
  \/ \E s \in Students, d \in Days, t \in Times : SeeAgain(s, d, t)
  \/ \E s \in Students : Remove(s)

Spec == Init /\ [][Next]_vars
=============================================================================
