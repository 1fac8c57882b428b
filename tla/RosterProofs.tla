---------------------------- MODULE RosterProofs ----------------------------
(***************************************************************************)
(* Proofs about Roster, for any number of students, classes and handlers:  *)
(* seats are never shared and the order of the classes stays definite,     *)
(* however handlers overlap; and with one handler at a time every seat     *)
(* exists and nobody is left in a class that does not.                     *)
(***************************************************************************)
EXTENDS Roster, FiniteSetTheorems, TLAPS

-----------------------------------------------------------------------------
(* The inductive invariant for any number of handlers *)

\* What a handler is about to write is within its type.
GoodHeld(q) ==
  /\ q \in Held
  /\ q.pc \in {"layout", "occupied", "sit"} => q.seat \in Seats
  /\ q.pc = "settings" => q.name \in Names /\ q.layout # 0

DistinctNames == \A c, d \in DOMAIN classes : classes[c].name = classes[d].name => c = d

RosterInv ==
  /\ TypeOK /\ \A r \in Requests : GoodHeld(req[r])
  /\ OneStudentPerSeat /\ DistinctOrders /\ DistinctNames

-----------------------------------------------------------------------------
(* The inductive invariant for one handler at a time *)

Alone == \A r1, r2 \in Requests : r1 = r2

\* What a handler has checked still holds when it writes.
Checked(q) ==
  /\ q.pc \in {"profile", "current", "moveClass", "enrol"} => Known(q.name)
  /\ q.pc \in {"layout", "occupied", "sit"} /\ q.s \in DOMAIN students =>
       students[q.s].class = q.name
  /\ q.pc \in {"occupied", "sit"} /\ q.seat # 0 => Fits(q.name, q.seat)
  /\ q.pc = "arrange" =>
       \E c \in DOMAIN classes : classes[c].name = q.name /\ classes[c].layout = q.layout
  /\ q.pc \in {"count", "delete"} =>
       q.c \in DOMAIN classes /\ classes[q.c].name = q.name
  /\ q.pc = "delete" => Members(q.name) = {}

\* Nobody has a seat in a class that does not exist.
NoSeatNowhere ==
  \A s \in DOMAIN students : ~ Known(students[s].class) => students[s].seat = 0

AllChecked == \A r \in Requests : Checked(req[r])

AloneInv ==
  /\ AllChecked
  /\ NoSeatNowhere /\ SeatsFit /\ NoStrandedStudent

-----------------------------------------------------------------------------
(* Handlers *)

Student == [class : Names \cup {NoName}, seat : Nat]
Class   == [name : Names, layout : Nat \ {0}, order : Nat \ {0}]

LEMMA Numbers ==
  /\ 0 \in 0..MaxStudents /\ 0 \in 0..MaxClasses
  /\ Seats \subseteq Nat /\ Keep \notin Seats /\ 0 \in Seats
  /\ \A s \in 1..MaxStudents : s \in 0..MaxStudents
  /\ \A c \in 1..MaxClasses : c \in 0..MaxClasses
BY RosterAssumption DEF Seats, Keep

LEMMA IdleGood == GoodHeld(Idle) /\ Idle.pc = "idle"
BY Numbers DEF Idle, GoodHeld, Held

\* The requests are in good order after a step.
ReqsGood == req' \in [Requests -> Held] /\ \A r \in Requests : GoodHeld(req'[r])

LEMMA HoldGood ==
  ASSUME RosterInv, NEW r \in Requests, NEW q, GoodHeld(q), Hold(r, q)
  PROVE  ReqsGood /\ req'[r] = q
BY DEF RosterInv, TypeOK, ReqsGood, Hold, GoodHeld

LEMMA FinishGood ==
  ASSUME RosterInv, NEW r \in Requests, Finish(r)
  PROVE  ReqsGood /\ req'[r] = Idle
BY IdleGood, HoldGood DEF Finish, Hold

LEMMA ToGood ==
  ASSUME RosterInv, NEW r \in Requests,
         NEW pc \in {"profile", "moveClass", "occupied", "sit", "delete"}, To(r, pc),
         pc \in {"occupied", "sit"} => req[r].seat \in Seats
  PROVE  /\ ReqsGood /\ req'[r].pc = pc /\ req'[r].s = req[r].s /\ req'[r].c = req[r].c
         /\ req'[r].name = req[r].name /\ req'[r].seat = req[r].seat
<1> DEFINE q == [req[r] EXCEPT !.pc = pc]
<1>1. req[r] \in Held /\ req \in [Requests -> Held] BY DEF RosterInv, TypeOK
<1>2. /\ q \in Held /\ q.pc = pc /\ q.s = req[r].s /\ q.c = req[r].c
      /\ q.name = req[r].name /\ q.seat = req[r].seat
  BY <1>1 DEF Held
<1>3. Hold(r, q) BY <1>1 DEF To, Hold
<1> HIDE DEF q
<1>4. GoodHeld(q) BY <1>2 DEF GoodHeld
<1> QED BY <1>2, <1>3, <1>4, HoldGood

LEMMA ThenSeatGood ==
  ASSUME RosterInv, NEW r \in Requests, ThenSeat(r)
  PROVE  ReqsGood /\ req'[r].pc \in {"idle", "seatClass"}
<1> DEFINE q == [req[r] EXCEPT !.pc = "seatClass", !.name = NoName]
<1>1. req[r] \in Held BY DEF RosterInv, TypeOK
<1>2. q \in Held /\ q.pc = "seatClass" BY <1>1 DEF Held
<1> HIDE DEF q
<1>3. GoodHeld(q) BY <1>2 DEF GoodHeld
<1>4. CASE Finish(r) BY <1>4, FinishGood, IdleGood
<1>5. CASE Hold(r, q) BY <1>2, <1>3, <1>5, HoldGood
<1> QED BY <1>4, <1>5 DEF ThenSeat, q

LEMMA SameReqs == ASSUME RosterInv, UNCHANGED req PROVE ReqsGood
BY DEF RosterInv, TypeOK, ReqsGood

\* A step that only moves a handler on.
LEMMA HandlerOnly ==
  ASSUME RosterInv, ReqsGood, UNCHANGED <<students, classes, lastStudent, lastClass, stray>>
  PROVE  RosterInv'
BY DEF RosterInv, TypeOK, ReqsGood, OneStudentPerSeat, DistinctOrders, DistinctNames

\* A step that writes students.
LEMMA StudentsWritten ==
  ASSUME RosterInv, ReqsGood, UNCHANGED <<classes, lastClass>>,
         lastStudent' \in 0..MaxStudents, DOMAIN students' \subseteq 1..lastStudent',
         students' \in [DOMAIN students' -> Student], stray' \subseteq DOMAIN students',
         OneStudentPerSeat'
  PROVE  RosterInv'
BY DEF RosterInv, TypeOK, ReqsGood, DistinctOrders, DistinctNames, Student

\* Who gets no new seat takes nobody's.
LEMMA NoNewSeat ==
  ASSUME RosterInv,
         \A s \in DOMAIN students' :
           students'[s].seat = 0 \/ (s \in DOMAIN students /\ students'[s] = students[s])
  PROVE  OneStudentPerSeat'
BY DEF RosterInv, OneStudentPerSeat

\* The unique index is what its name says.
LEMMA IndexHolds ==
  ASSUME NEW f, f \in [DOMAIN f -> Student], SeatIndex(f)
  PROVE  \A s1, s2 \in DOMAIN f :
           /\ f[s1].class = f[s2].class /\ f[s1].seat = f[s2].seat /\ f[s1].seat # 0
           => s1 = s2
<1> SUFFICES ASSUME NEW s1 \in DOMAIN f, NEW s2 \in DOMAIN f,
                    f[s1].class = f[s2].class, f[s1].seat = f[s2].seat, f[s1].seat # 0
             PROVE  s1 = s2
  OBVIOUS
<1>1. f[s1] \in Student /\ f[s2] \in Student OBVIOUS
<1>2. f[s1] = f[s2] BY <1>1 DEF Student
<1>3. f[s1].seat > 0 BY <1>1 DEF Student
<1> QED BY <1>2, <1>3 DEF SeatIndex

LEMMA InvTyped ==
  ASSUME RosterInv
  PROVE  /\ students \in [DOMAIN students -> Student] /\ classes \in [DOMAIN classes -> Class]
         /\ DOMAIN students \subseteq 1..lastStudent /\ DOMAIN classes \subseteq 1..lastClass
         /\ lastStudent \in 0..MaxStudents /\ lastClass \in 0..MaxClasses
         /\ req \in [Requests -> Held] /\ stray \subseteq DOMAIN students
         /\ \A r \in Requests : GoodHeld(req[r])
BY DEF RosterInv, TypeOK, Student, Class

\* A student of 1..MaxStudents exists when the students' domain says so, and
\* his record can be replaced.
LEMMA OneWritten ==
  ASSUME RosterInv, NEW s \in DOMAIN students, NEW rec \in Student,
         students' = [students EXCEPT ![s] = rec],
         UNCHANGED <<classes, lastStudent, lastClass, stray>>, ReqsGood,
         rec.seat = 0 \/ rec = students[s] \/ OneStudentPerSeat'
  PROVE  RosterInv'
<1> USE InvTyped
<1>1. /\ DOMAIN students' = DOMAIN students /\ students' \in [DOMAIN students -> Student]
      /\ \A x \in DOMAIN students : students'[x] = IF x = s THEN rec ELSE students[x]
  OBVIOUS
<1>2. OneStudentPerSeat' BY <1>1, NoNewSeat
<1> QED BY <1>1, <1>2, StudentsWritten

-----------------------------------------------------------------------------
(* Steps on students *)

LEMMA ReadProfileInv ==
  ASSUME RosterInv, NEW r \in Requests, NEW s \in 1..MaxStudents,
         NEW name \in Names \cup {NoName}, NEW seat \in Seats \cup {Keep},
         ReadProfile(r, s, name, seat)
  PROVE  RosterInv'
<1> DEFINE N == IF name = NoName THEN students[s].class ELSE name
           q == [Idle EXCEPT !.pc = "exists", !.s = s, !.seat = seat, !.name = N]
<1> USE InvTyped, Numbers
<1>1. students[s] \in Student BY DEF ReadProfile
<1>2. N \in Names \cup {NoName} BY <1>1 DEF Student
<1>3. Idle \in Held BY IdleGood DEF GoodHeld
<1> HIDE DEF N
<1>4. q \in Held /\ q.pc = "exists" BY <1>2, <1>3 DEF Held
<1>5. Hold(r, q) BY DEF ReadProfile, N
<1> HIDE DEF q
<1>6. GoodHeld(q) BY <1>4 DEF GoodHeld
<1>7. ReqsGood BY <1>5, <1>6, HoldGood
<1> QED BY <1>7, HandlerOnly DEF ReadProfile

LEMMA CheckClassOnlyInv ==
  ASSUME RosterInv, NEW r \in Requests, NEW s \in 1..MaxStudents,
         NEW name \in Names, NEW seat \in Seats \cup {Keep},
         CheckClassOnly(r, s, name, seat)
  PROVE  RosterInv'
<1> DEFINE q == [Idle EXCEPT !.pc = "current", !.s = s, !.seat = seat, !.name = name]
<1> USE InvTyped, Numbers
<1>1. Idle \in Held BY IdleGood DEF GoodHeld
<1>2. q \in Held /\ q.pc = "current" BY <1>1 DEF Held
<1>3. Hold(r, q) BY DEF CheckClassOnly
<1> HIDE DEF q
<1>4. GoodHeld(q) BY <1>2 DEF GoodHeld
<1>5. ReqsGood BY <1>3, <1>4, HoldGood
<1> QED BY <1>5, HandlerOnly DEF CheckClassOnly

LEMMA ReadSeatClassInv ==
  ASSUME RosterInv, NEW r \in Requests, NEW s \in 1..MaxStudents, NEW seat \in Seats,
         ReadSeatClass(r, s, seat)
  PROVE  RosterInv'
<1> DEFINE P == IF seat = 0 THEN "sit" ELSE "layout"
           N == students[s].class
           q == [Idle EXCEPT !.pc = P, !.s = s, !.seat = seat, !.name = N]
<1> USE InvTyped, Numbers
<1>1. CASE s \notin DOMAIN students
  <2>1. ReqsGood BY <1>1, FinishGood DEF ReadSeatClass
  <2> QED BY <2>1, HandlerOnly DEF ReadSeatClass
<1>2. CASE s \in DOMAIN students
  <2>1. students[s] \in Student BY <1>2
  <2>2. N \in Names \cup {NoName} /\ P \in {"sit", "layout"} BY <2>1 DEF Student
  <2>3. Idle \in Held BY IdleGood DEF GoodHeld
  <2>4. Hold(r, q) BY <1>2 DEF ReadSeatClass
  <2> HIDE DEF N, P
  <2>5. q \in Held /\ q.pc = P /\ q.seat = seat BY <2>2, <2>3 DEF Held
  <2> HIDE DEF q
  <2>6. GoodHeld(q) BY <2>2, <2>5 DEF GoodHeld
  <2>7. ReqsGood BY <2>4, <2>6, HoldGood
  <2> QED BY <2>7, HandlerOnly DEF ReadSeatClass
<1> QED BY <1>1, <1>2

LEMMA ProfileInv ==
  ASSUME RosterInv, NEW r \in Requests,
         \/ CheckClass(r) \/ UpdateProfile(r) \/ CompareClass(r) \/ UpdateClass(r)
         \/ CheckLayout(r) \/ CheckOccupied(r)
  PROVE  RosterInv'
<1> USE InvTyped, Numbers
<1>1. GoodHeld(req[r]) /\ req[r].name \in Names \cup {NoName} BY DEF Held
<1>2. CASE CheckClass(r)
  <2>1. ReqsGood BY <1>2, FinishGood, ToGood DEF CheckClass, Check
  <2> QED BY <1>2, <2>1, HandlerOnly DEF CheckClass
<1>3. CASE UpdateProfile(r)
  <2> DEFINE s    == req[r].s
             name == req[r].name
             rec  == IF students[s].class = name THEN students[s]
                     ELSE [class |-> name, seat |-> 0]
  <2>1. ReqsGood BY <1>3, FinishGood, ThenSeatGood DEF UpdateProfile
  <2>2. CASE s \in DOMAIN students
    <3>1. rec \in Student /\ (rec.seat = 0 \/ rec = students[s]) BY <1>1, <2>2 DEF Student
    <3>2. students' = [students EXCEPT ![s] = rec] BY <1>3, <2>2 DEF UpdateProfile, Enter
    <3> HIDE DEF rec, s
    <3> QED BY <1>3, <2>1, <2>2, <3>1, <3>2, OneWritten DEF UpdateProfile
  <2>3. CASE s \notin DOMAIN students
    BY <1>3, <2>1, <2>3, HandlerOnly DEF UpdateProfile
  <2> QED BY <2>2, <2>3
<1>4. CASE CompareClass(r)
  <2>1. ReqsGood BY <1>4, FinishGood, ThenSeatGood, ToGood DEF CompareClass
  <2> QED BY <1>4, <2>1, HandlerOnly DEF CompareClass
<1>5. CASE UpdateClass(r)
  <2> DEFINE s   == req[r].s
             rec == [class |-> req[r].name, seat |-> 0]
  <2>1. ReqsGood BY <1>5, ThenSeatGood DEF UpdateClass
  <2>2. CASE s \in DOMAIN students
    <3>1. rec \in Student /\ rec.seat = 0 BY <1>1 DEF Student
    <3>2. students' = [students EXCEPT ![s] = rec] BY <1>5, <2>2 DEF UpdateClass
    <3> HIDE DEF rec, s
    <3> QED BY <1>5, <2>1, <2>2, <3>1, <3>2, OneWritten DEF UpdateClass
  <2>3. CASE s \notin DOMAIN students
    BY <1>5, <2>1, <2>3, HandlerOnly DEF UpdateClass
  <2> QED BY <2>2, <2>3
<1>6. CASE CheckLayout(r)
  <2>1. req[r].seat \in Seats BY <1>1, <1>6 DEF CheckLayout, GoodHeld
  <2>2. ReqsGood BY <1>6, <2>1, FinishGood, ToGood DEF CheckLayout, Check
  <2> QED BY <1>6, <2>2, HandlerOnly DEF CheckLayout
<1>7. CASE CheckOccupied(r)
  <2>1. req[r].seat \in Seats BY <1>1, <1>7 DEF CheckOccupied, GoodHeld
  <2>2. ReqsGood BY <1>7, <2>1, FinishGood, ToGood DEF CheckOccupied, Check
  <2> QED BY <1>7, <2>2, HandlerOnly DEF CheckOccupied
<1> QED BY <1>2, <1>3, <1>4, <1>5, <1>6, <1>7

LEMMA SitInv == ASSUME RosterInv, NEW r \in Requests, Sit(r) PROVE RosterInv'
<1> DEFINE s      == req[r].s
           seated == [students EXCEPT ![s].seat = req[r].seat]
           rec    == [students[s] EXCEPT !.seat = req[r].seat]
<1> USE InvTyped, Numbers
<1>1. GoodHeld(req[r]) /\ req[r].seat \in Nat BY DEF Sit, GoodHeld
<1>2. ReqsGood BY FinishGood DEF Sit
<1>3. CASE s \in DOMAIN students /\ SeatIndex(seated)
  <2>1. students' = [students EXCEPT ![s] = rec] /\ students' = seated BY <1>3 DEF Sit
  <2>2. students[s] \in Student BY <1>3
  <2>3. rec \in Student BY <1>1, <2>2 DEF Student
  <2> HIDE DEF rec, s
  <2>4. students' \in [DOMAIN students' -> Student] BY <1>3, <2>1, <2>3
  <2>5. OneStudentPerSeat' BY <1>3, <2>1, <2>4, IndexHolds DEF OneStudentPerSeat
  <2> QED BY <1>2, <1>3, <2>1, <2>3, <2>5, OneWritten DEF Sit
<1>4. CASE ~ (s \in DOMAIN students /\ SeatIndex(seated))
  BY <1>2, <1>4, HandlerOnly DEF Sit
<1> QED BY <1>3, <1>4

\* A new student.
LEMMA Entered ==
  ASSUME RosterInv, ReqsGood, NEW name \in Names \cup {NoName}, lastStudent < MaxStudents,
         lastStudent' = lastStudent + 1, UNCHANGED <<classes, lastClass>>,
         students' = Put(students, lastStudent', [class |-> name, seat |-> 0]),
         stray' \subseteq stray \cup {lastStudent'}
  PROVE  RosterInv'
<1> USE InvTyped, RosterAssumption
<1>1. lastStudent \in Nat /\ lastStudent' \in 0..MaxStudents OBVIOUS
<1>2. \A s \in DOMAIN students : s \in 1..lastStudent' BY <1>1
<1> DEFINE new == lastStudent'
           rec == [class |-> name, seat |-> 0]
<1>3. new \in 1..new BY <1>1
<1>4. DOMAIN students' = DOMAIN students \cup {new} BY DEF Put
<1>5. rec \in Student /\ rec.seat = 0 BY DEF Student
<1>6. \A s \in DOMAIN students' : students'[s] = IF s = new THEN rec ELSE students[s]
  BY <1>4 DEF Put
<1>7. students' = [s \in DOMAIN students' |-> IF s = new THEN rec ELSE students[s]]
  BY <1>4 DEF Put
<1> HIDE DEF rec
<1>8. students' \in [DOMAIN students' -> Student] BY <1>4, <1>5, <1>6, <1>7
<1>9. OneStudentPerSeat' BY <1>4, <1>5, <1>6, NoNewSeat
<1>10. DOMAIN students' \subseteq 1..lastStudent' BY <1>2, <1>3, <1>4
<1>11. stray' \subseteq DOMAIN students' BY <1>4
<1> QED BY <1>1, <1>8, <1>9, <1>10, <1>11, StudentsWritten

LEMMA EnrolInv ==
  ASSUME RosterInv, NEW r \in Requests,
         Enrol(r) \/ \E name \in Names : CheckEnrolment(r, name)
  PROVE  RosterInv'
<1> USE InvTyped, Numbers
<1>1. CASE Enrol(r)
  <2>1. req[r].name \in Names \cup {NoName} BY DEF Held
  <2>2. ReqsGood BY <1>1, FinishGood DEF Enrol
  <2> QED BY <1>1, <2>1, <2>2, Entered DEF Enrol
<1>2. ASSUME NEW name \in Names, CheckEnrolment(r, name) PROVE RosterInv'
  <2> DEFINE q == [Idle EXCEPT !.pc = "enrol", !.name = name]
  <2>1. Idle \in Held BY IdleGood DEF GoodHeld
  <2>2. q \in Held /\ q.pc = "enrol" BY <2>1 DEF Held
  <2>3. Hold(r, q) BY <1>2 DEF CheckEnrolment
  <2> HIDE DEF q
  <2>4. GoodHeld(q) BY <2>2 DEF GoodHeld
  <2>5. ReqsGood BY <2>3, <2>4, HoldGood
  <2> QED BY <1>2, <2>5, HandlerOnly DEF CheckEnrolment
<1> QED BY <1>1, <1>2

LEMMA CreateStudentInv ==
  ASSUME RosterInv, NEW name \in Names \cup {NoName}, CreateStudent(name)
  PROVE  RosterInv'
BY SameReqs, Entered DEF CreateStudent

LEMMA DeleteStudentInv ==
  ASSUME RosterInv, NEW s \in 1..MaxStudents, DeleteStudent(s)
  PROVE  RosterInv'
<1> USE InvTyped
<1>1. /\ DOMAIN students' = DOMAIN students \ {s} /\ students' \in [DOMAIN students' -> Student]
      /\ \A x \in DOMAIN students' : students'[x] = students[x]
  BY DEF DeleteStudent, Without
<1>2. OneStudentPerSeat' BY <1>1, NoNewSeat
<1> QED BY <1>1, <1>2, SameReqs, StudentsWritten DEF DeleteStudent

\* The swap: whoever sat on the target has the mover's old seat.
LEMMA SwapHolds ==
  ASSUME RosterInv, NEW s \in DOMAIN students, NEW target \in Nat, students[s].seat # target,
         students' = Swapped(s, target)
  PROVE  /\ DOMAIN students' = DOMAIN students /\ students' \in [DOMAIN students -> Student]
         /\ OneStudentPerSeat'
         /\ \A x \in DOMAIN students :
              /\ students'[x].class = students[x].class
              /\ \/ students'[x] = students[x]
                 \/ x = s /\ students'[x].seat = target
                 \/ students[x].class = students[s].class /\ students'[x].seat = students[s].seat
<1> DEFINE from  == students[s].seat
           class == students[s].class
           there(x) == students[x].class = class /\ students[x].seat = target /\ target > 0
<1> USE InvTyped
<1>1. \A x \in DOMAIN students :
        /\ students[x] \in Student /\ students[x].class \in Names \cup {NoName}
        /\ students[x].seat \in Nat
  BY DEF Student
<1>2. \A x \in DOMAIN students :
        target > 0 /\ students[x] = [class |-> class, seat |-> target] <=> there(x)
  BY <1>1 DEF Student
<1>3. /\ DOMAIN students' = DOMAIN students
      /\ \A x \in DOMAIN students :
           students'[x] = IF x = s THEN [class |-> class, seat |-> target]
                          ELSE IF there(x) THEN [class |-> class, seat |-> from]
                          ELSE students[x]
  BY <1>2 DEF Swapped
<1>4. students' = [x \in DOMAIN students |-> students'[x]] BY <1>3 DEF Swapped
<1>5. [class |-> class, seat |-> target] \in Student /\ [class |-> class, seat |-> from] \in Student
  BY <1>1 DEF Student
<1>6. students' \in [DOMAIN students -> Student] BY <1>1, <1>3, <1>4, <1>5
<1>7. \A x \in DOMAIN students :
        /\ students'[x].class = students[x].class
        /\ x = s => students'[x].seat = target
        /\ x # s /\ there(x) => students'[x].seat = from
        /\ x # s /\ ~ there(x) => students'[x] = students[x]
  BY <1>3
<1>8. \A x, y \in DOMAIN students : there(x) /\ there(y) => x = y
  BY <1>1 DEF RosterInv, OneStudentPerSeat
<1>9. \A x, y \in DOMAIN students :
        (students[x].class = students[y].class /\ students[x].seat = students[y].seat
           /\ students[x].seat # 0) => x = y
  BY DEF RosterInv, OneStudentPerSeat
<1>10. OneStudentPerSeat'
  <2> SUFFICES ASSUME NEW x \in DOMAIN students, NEW y \in DOMAIN students,
                      students'[x].class = students'[y].class,
                      students'[x].seat = students'[y].seat, students'[x].seat # 0, x # y
               PROVE  FALSE
    BY <1>3 DEF OneStudentPerSeat
  <2>1. students[x].class = students[y].class BY <1>7
  <2>2. target \in Nat /\ from \in Nat BY <1>1
  <2> HIDE DEF from
  <2>3. CASE x = s
    <3>1. students'[x].seat = target /\ y # s BY <1>7, <2>3
    <3>2. CASE there(y) BY <1>7, <2>3, <3>1, <3>2 DEF from
    <3>3. CASE ~ there(y)
      <4>1. students[y].seat = target BY <1>7, <3>1, <3>3
      <4>2. target > 0 BY <2>2, <3>1
      <4> QED BY <2>1, <2>3, <3>3, <4>1, <4>2
    <3> QED BY <3>2, <3>3
  <2>4. CASE y = s
    <3>1. students'[y].seat = target /\ x # s BY <1>7, <2>4
    <3>2. CASE there(x) BY <1>7, <2>4, <3>1, <3>2 DEF from
    <3>3. CASE ~ there(x)
      <4>1. students[x].seat = target BY <1>7, <3>1, <3>3
      <4>2. target > 0 BY <2>2, <3>1
      <4> QED BY <2>1, <2>4, <3>3, <4>1, <4>2
    <3> QED BY <3>2, <3>3
  <2>5. CASE x # s /\ y # s
    <3>1. CASE there(x) /\ there(y) BY <1>8, <3>1
    <3>2. CASE there(x) /\ ~ there(y)
      <4>1. students[y].seat = from /\ students[y].class = class BY <1>7, <2>1, <2>5, <3>2
      <4>2. from # 0 BY <1>7, <2>5, <3>2
      <4> QED BY <1>9, <2>5, <4>1, <4>2 DEF from
    <3>3. CASE ~ there(x) /\ there(y)
      <4>1. students[x].seat = from /\ students[x].class = class BY <1>7, <2>1, <2>5, <3>3
      <4>2. from # 0 BY <1>7, <2>5, <3>3
      <4> QED BY <1>9, <2>5, <4>1, <4>2 DEF from
    <3>4. CASE ~ there(x) /\ ~ there(y)
      BY <1>7, <1>9, <2>5, <3>4
    <3> QED BY <3>1, <3>2, <3>3, <3>4
  <2> QED BY <2>3, <2>4, <2>5
<1> HIDE DEF from, there
<1>11. \A x \in DOMAIN students :
         \/ students'[x] = students[x]
         \/ x = s /\ students'[x].seat = target
         \/ students[x].class = students[s].class /\ students'[x].seat = students[s].seat
  BY <1>7 DEF from, there
<1> QED BY <1>3, <1>6, <1>7, <1>10, <1>11

LEMMA MoveSeatInv ==
  ASSUME RosterInv, NEW c \in 1..MaxClasses, NEW s \in 1..MaxStudents, NEW target \in Seats,
         MoveSeat(c, s, target)
  PROVE  RosterInv'
<1>1. target \in Nat BY Numbers
<1> QED BY <1>1, InvTyped, SameReqs, SwapHolds, StudentsWritten DEF MoveSeat

-----------------------------------------------------------------------------
(* Steps on classes *)

\* A step that writes classes.
LEMMA ClassesWritten ==
  ASSUME RosterInv, ReqsGood, UNCHANGED <<students, lastStudent>>,
         lastClass' \in 0..MaxClasses, DOMAIN classes' \subseteq 1..lastClass',
         classes' \in [DOMAIN classes' -> Class], stray' \subseteq stray,
         DistinctOrders', DistinctNames'
  PROVE  RosterInv'
BY DEF RosterInv, TypeOK, ReqsGood, OneStudentPerSeat, Class

LEMMA LastIsLast ==
  ASSUME RosterInv, NEW last \in LastOrder
  PROVE  last \in Nat /\ \A c \in DOMAIN classes : classes[c].order <= last
BY InvTyped DEF LastOrder, Class

LEMMA ReadClassInv ==
  ASSUME RosterInv, NEW r \in Requests, NEW c \in 1..MaxClasses,
         \/ \E name \in Names : ReadClass(r, c, name, 0)
         \/ \E layout \in Layouts : ReadClass(r, c, NoName, layout)
         \/ ReadForArrange(r, c) \/ ReadForDelete(r, c)
  PROVE  RosterInv'
<1> USE InvTyped, Numbers, RosterAssumption
<1>1. Idle \in Held BY IdleGood DEF GoodHeld
<1>2. c \in DOMAIN classes BY DEF ReadClass, ReadForArrange, ReadForDelete
<1>3. classes[c] \in Class BY <1>2
<1>4. classes[c].name \in Names /\ classes[c].layout \in Nat /\ classes[c].layout # 0
  BY <1>3 DEF Class
<1>5. ASSUME NEW N \in Names, NEW L \in Nat, NEW C \in 0..MaxClasses,
             NEW pc \in {"settings", "arrange", "count"}, L # 0 \/ pc # "settings",
             NEW q, q = [Idle EXCEPT !.pc = pc, !.c = C, !.name = N, !.layout = L],
             Hold(r, q), UNCHANGED <<students, classes, lastStudent, lastClass, stray>>
      PROVE  RosterInv'
  <2>1. q \in Held /\ q.pc = pc /\ q.name = N /\ q.layout = L BY <1>1, <1>5 DEF Held
  <2>2. GoodHeld(q) BY <1>5, <2>1 DEF GoodHeld
  <2>3. ReqsGood BY <1>5, <2>2, HoldGood
  <2> QED BY <1>5, <2>3, HandlerOnly
<1>6. ASSUME NEW name \in Names, ReadClass(r, c, name, 0) PROVE RosterInv'
  <2> DEFINE L == classes[c].layout
  <2>1. name # NoName OBVIOUS
  <2>2. Hold(r, [Idle EXCEPT !.pc = "settings", !.c = c, !.name = name, !.layout = L])
    BY <1>6, <2>1 DEF ReadClass
  <2> HIDE DEF L
  <2> QED BY <1>4, <1>5, <1>6, <2>2 DEF ReadClass, L
<1>7. ASSUME NEW layout \in Layouts, ReadClass(r, c, NoName, layout) PROVE RosterInv'
  <2> DEFINE N == classes[c].name
  <2>1. layout # 0 /\ layout \in Nat OBVIOUS
  <2>2. Hold(r, [Idle EXCEPT !.pc = "settings", !.c = c, !.name = N, !.layout = layout])
    BY <1>7, <2>1 DEF ReadClass
  <2> HIDE DEF N
  <2> QED BY <1>4, <1>5, <1>7, <2>1, <2>2 DEF ReadClass, N
<1>8. CASE ReadForArrange(r, c)
  <2> DEFINE N == classes[c].name
             L == classes[c].layout
             q == [Idle EXCEPT !.pc = "arrange", !.name = N, !.layout = L]
  <2>1. Hold(r, q) BY <1>8 DEF ReadForArrange
  <2>2. N \in Names /\ L \in Nat BY <1>4
  <2> HIDE DEF N, L
  <2>3. q \in Held /\ q.pc = "arrange" BY <1>1, <2>2 DEF Held
  <2> HIDE DEF q
  <2>4. GoodHeld(q) BY <2>3 DEF GoodHeld
  <2>5. ReqsGood BY <2>1, <2>4, HoldGood
  <2> QED BY <1>8, <2>5, HandlerOnly DEF ReadForArrange
<1>9. CASE ReadForDelete(r, c)
  <2> DEFINE N == classes[c].name
             q == [Idle EXCEPT !.pc = "count", !.c = c, !.name = N]
  <2>1. Hold(r, q) BY <1>9 DEF ReadForDelete
  <2>2. N \in Names BY <1>4
  <2> HIDE DEF N
  <2>3. q \in Held /\ q.pc = "count" BY <1>1, <2>2 DEF Held
  <2> HIDE DEF q
  <2>4. GoodHeld(q) BY <2>3 DEF GoodHeld
  <2>5. ReqsGood BY <2>1, <2>4, HoldGood
  <2> QED BY <1>9, <2>5, HandlerOnly DEF ReadForDelete
<1> QED BY <1>6, <1>7, <1>8, <1>9

LEMMA RenamedTyped ==
  ASSUME RosterInv, NEW old, NEW name \in Names
  PROVE  /\ DOMAIN Renamed(old, name) = DOMAIN students
         /\ Renamed(old, name) \in [DOMAIN students -> Student]
         /\ \A s \in DOMAIN students :
              /\ Renamed(old, name)[s].seat = students[s].seat
              /\ Renamed(old, name)[s].class =
                   IF students[s].class = old THEN name ELSE students[s].class
<1> DEFINE new(s) == [students[s] EXCEPT !.class = name]
<1>1. \A s \in DOMAIN students : students[s] \in Student BY InvTyped
<1>2. \A s \in DOMAIN students :
        new(s) \in Student /\ new(s).seat = students[s].seat /\ new(s).class = name
  BY <1>1 DEF Student
<1> HIDE DEF new
<1>3. Renamed(old, name) = [s \in DOMAIN students |->
                              IF students[s].class = old THEN new(s) ELSE students[s]]
  BY DEF Renamed, new
<1> QED BY <1>1, <1>2, <1>3

LEMMA SettingsInv ==
  ASSUME RosterInv, ReqsGood, NEW c, NEW name \in Names, NEW layout \in Nat \ {0},
         Settings(c, name, layout), UNCHANGED <<lastStudent, lastClass, stray>>
  PROVE  RosterInv'
<1> USE InvTyped
<1>1. CASE UNCHANGED <<students, classes>> BY <1>1, HandlerOnly
<1>2. CASE /\ c \in DOMAIN classes
           /\ \A d \in DOMAIN classes \ {c} : classes[d].name # name
           /\ SeatIndex(Renamed(classes[c].name, name))
           /\ classes' = [classes EXCEPT ![c].name = name, ![c].layout = layout]
           /\ students' = Renamed(classes[c].name, name)
  <2> DEFINE rec == [classes[c] EXCEPT !.name = name, !.layout = layout]
  <2>1. classes[c] \in Class BY <1>2
  <2>2. classes' = [classes EXCEPT ![c] = rec] BY <1>2
  <2>3. rec \in Class /\ rec.order = classes[c].order /\ rec.name = name BY <2>1 DEF Class
  <2> HIDE DEF rec
  <2>4. /\ DOMAIN classes' = DOMAIN classes /\ classes' \in [DOMAIN classes -> Class]
        /\ \A d \in DOMAIN classes : classes'[d] = IF d = c THEN rec ELSE classes[d]
    BY <1>2, <2>2, <2>3
  <2>5. DistinctNames' BY <1>2, <2>3, <2>4 DEF RosterInv, DistinctNames
  <2>6. DistinctOrders' BY <1>2, <2>3, <2>4 DEF RosterInv, DistinctOrders
  <2>7. students' \in [DOMAIN students -> Student] /\ DOMAIN students' = DOMAIN students
    BY <1>2, RenamedTyped
  <2>8. OneStudentPerSeat' BY <1>2, <2>7, IndexHolds DEF OneStudentPerSeat
  <2> QED BY <2>4, <2>5, <2>6, <2>7, <2>8 DEF RosterInv, TypeOK, ReqsGood, Student, Class
<1> QED BY <1>1, <1>2 DEF Settings

LEMMA PutSettingsInv ==
  ASSUME RosterInv, NEW c \in 1..MaxClasses, NEW name \in Names, NEW layout \in Layouts,
         PutSettings(c, name, layout)
  PROVE  RosterInv'
BY SameReqs, SettingsInv, RosterAssumption DEF PutSettings

LEMMA WriteClassInv == ASSUME RosterInv, NEW r \in Requests, WriteClass(r) PROVE RosterInv'
<1>1. req[r].name \in Names /\ req[r].layout \in Nat \ {0}
  BY InvTyped DEF WriteClass, GoodHeld, Held
<1>2. ReqsGood BY FinishGood DEF WriteClass
<1> QED BY <1>1, <1>2, SettingsInv DEF WriteClass

LEMMA MembersFinite ==
  ASSUME RosterInv, NEW name
  PROVE  Members(name) \subseteq DOMAIN students /\ IsFiniteSet(Members(name))
         /\ Cardinality(Members(name)) \in Nat
<1>1. Members(name) \subseteq 1..lastStudent /\ lastStudent \in Int /\ Members(name) \subseteq DOMAIN students
  BY InvTyped, RosterAssumption DEF Members
<1>2. IsFiniteSet(1..lastStudent) BY <1>1, FS_Interval
<1>3. IsFiniteSet(Members(name)) BY <1>1, <1>2, FS_Subset
<1> QED BY <1>1, <1>3, FS_CardinalityType

\* The automatic arrangement numbers the class from 1.
LEMMA ArrangeHolds ==
  ASSUME RosterInv, NEW r \in Requests, Arrange(r)
  PROVE  \/ UNCHANGED students
         \/ /\ DOMAIN students' = DOMAIN students /\ students' \in [DOMAIN students -> Student]
            /\ OneStudentPerSeat'
            /\ \A s \in DOMAIN students :
                 /\ students'[s].class = students[s].class
                 /\ \/ students'[s] = students[s]
                    \/ /\ students[s].class = req[r].name
                       /\ students'[s].seat <= req[r].layout
<1> DEFINE all == Members(req[r].name)
           n   == Cardinality(all)
<1> USE InvTyped
<1>1. all \subseteq DOMAIN students /\ n \in Nat BY MembersFinite
<1>2. \A s \in DOMAIN students : s \in all <=> students[s].class = req[r].name BY DEF Members
<1>3. req[r].layout \in Nat BY DEF Held
<1> HIDE DEF all, n
<1>4. CASE n <= req[r].layout
  <2>1. PICK place \in [all -> 1..n] :
          /\ \A s1, s2 \in all : place[s1] = place[s2] => s1 = s2
          /\ students' = [s \in DOMAIN students |->
               IF s \in all THEN [students[s] EXCEPT !.seat = place[s]] ELSE students[s]]
    BY <1>4 DEF Arrange, all, n
  <2> DEFINE new(s) == [students[s] EXCEPT !.seat = place[s]]
  <2>2. \A s \in all : place[s] \in Nat /\ place[s] <= req[r].layout BY <1>1, <1>3, <1>4
  <2>3. \A s \in all : /\ new(s) \in Student /\ new(s).seat = place[s]
                       /\ new(s).class = students[s].class
    BY <1>1, <2>2 DEF Student
  <2>4. students' = [s \in DOMAIN students |-> IF s \in all THEN new(s) ELSE students[s]]
    BY <2>1
  <2> HIDE DEF new
  <2>5. DOMAIN students' = DOMAIN students /\ students' \in [DOMAIN students -> Student]
    BY <2>3, <2>4
  <2>6. \A s \in DOMAIN students :
          /\ students'[s].class = students[s].class
          /\ s \in all => students'[s].seat = place[s]
          /\ s \notin all => students'[s] = students[s]
    BY <2>3, <2>4
  <2>7. OneStudentPerSeat'
    BY <1>2, <2>1, <2>5, <2>6 DEF RosterInv, OneStudentPerSeat
  <2> QED BY <1>2, <2>2, <2>5, <2>6, <2>7
<1>5. CASE ~ (n <= req[r].layout) BY <1>5 DEF Arrange, all, n
<1> QED BY <1>4, <1>5

LEMMA ArrangeInv == ASSUME RosterInv, NEW r \in Requests, Arrange(r) PROVE RosterInv'
<1>1. ReqsGood BY FinishGood DEF Arrange
<1> QED BY <1>1, InvTyped, ArrangeHolds, HandlerOnly, StudentsWritten DEF Arrange

LEMMA DeleteClassInv ==
  ASSUME RosterInv, NEW r \in Requests, CountMembers(r) \/ DeleteClass(r)
  PROVE  RosterInv'
<1> USE InvTyped
<1>1. CASE CountMembers(r)
  <2>1. ReqsGood BY <1>1, FinishGood, ToGood DEF CountMembers, Check
  <2> QED BY <1>1, <2>1, HandlerOnly DEF CountMembers
<1>2. CASE DeleteClass(r)
  <2>1. ReqsGood BY <1>2, FinishGood DEF DeleteClass
  <2>2. /\ DOMAIN classes' \subseteq DOMAIN classes /\ classes' \in [DOMAIN classes' -> Class]
        /\ \A c \in DOMAIN classes' : classes'[c] = classes[c]
    BY <1>2 DEF DeleteClass, Without
  <2>3. DistinctOrders' /\ DistinctNames'
    BY <2>2 DEF RosterInv, DistinctOrders, DistinctNames
  <2> QED BY <1>2, <2>1, <2>2, <2>3, ClassesWritten DEF DeleteClass
<1> QED BY <1>1, <1>2

LEMMA CreateClassInv ==
  ASSUME RosterInv, NEW name \in Names, NEW layout \in Layouts, CreateClass(name, layout)
  PROVE  RosterInv'
<1> USE InvTyped, RosterAssumption
<1> DEFINE new == lastClass'
<1>1. PICK last \in LastOrder :
        classes' = Put(classes, new, [name |-> name, layout |-> layout, order |-> last + 1])
  BY DEF CreateClass
<1> DEFINE rec == [name |-> name, layout |-> layout, order |-> last + 1]
<1>2. last \in Nat /\ \A c \in DOMAIN classes : classes[c].order <= last BY LastIsLast
<1>3. lastClass \in Nat /\ new = lastClass + 1 /\ new \in 0..MaxClasses BY DEF CreateClass
<1>4. (\A c \in DOMAIN classes : c \in 1..new) /\ new \in 1..new BY <1>3
<1>5. rec \in Class /\ rec.order = last + 1 /\ rec.name = name BY <1>2 DEF Class
<1> HIDE DEF rec, new
<1>6. /\ DOMAIN classes' = DOMAIN classes \cup {new}
      /\ classes' = [c \in DOMAIN classes' |-> IF c = new THEN rec ELSE classes[c]]
  BY <1>1 DEF Put, rec
<1>7. /\ classes' \in [DOMAIN classes' -> Class]
      /\ \A c \in DOMAIN classes' : classes'[c] = IF c = new THEN rec ELSE classes[c]
  BY <1>5, <1>6
<1>8. \A c \in DOMAIN classes : classes[c].order \in Nat /\ classes[c].order # last + 1
  BY <1>2 DEF Class
<1>9. DistinctOrders' BY <1>5, <1>6, <1>7, <1>8 DEF RosterInv, DistinctOrders
<1>10. \A c \in DOMAIN classes : classes[c].name # name BY DEF CreateClass, Known
<1>11. DistinctNames' BY <1>5, <1>6, <1>7, <1>10 DEF RosterInv, DistinctNames
<1>12. DOMAIN classes' \subseteq 1..new BY <1>4, <1>6
<1>13. ReqsGood BY SameReqs DEF CreateClass
<1> QED BY <1>3, <1>7, <1>9, <1>11, <1>12, <1>13, ClassesWritten DEF CreateClass, new

LEMMA ExchangeInv ==
  ASSUME RosterInv, NEW c \in DOMAIN classes, NEW d \in DOMAIN classes,
         classes' = Exchange(c, d), UNCHANGED <<students, lastStudent, lastClass, req, stray>>
  PROVE  RosterInv'
<1> DEFINE recC == [classes[c] EXCEPT !.order = classes[d].order]
           recD == [classes[d] EXCEPT !.order = classes[c].order]
<1> USE InvTyped
<1>1. classes[c] \in Class /\ classes[d] \in Class OBVIOUS
<1>2. /\ recC \in Class /\ recC.order = classes[d].order /\ recC.name = classes[c].name
      /\ recD \in Class /\ recD.order = classes[c].order /\ recD.name = classes[d].name
  BY <1>1 DEF Class
<1>3. CASE c = d
  <2>1. classes' = classes BY <1>1, <1>3 DEF Exchange, Class
  <2> QED BY <2>1, SameReqs, HandlerOnly
<1>4. CASE c # d
  <2>1. /\ DOMAIN classes' = DOMAIN classes
        /\ \A e \in DOMAIN classes :
             classes'[e] = IF e = c THEN recC ELSE IF e = d THEN recD ELSE classes[e]
    BY <1>4 DEF Exchange
  <2>2. classes' = [e \in DOMAIN classes |-> classes'[e]] BY DEF Exchange
  <2> HIDE DEF recC, recD
  <2>3. classes' \in [DOMAIN classes -> Class] BY <1>2, <2>1, <2>2
  <2>4. DistinctNames' BY <1>2, <2>1 DEF RosterInv, DistinctNames
  <2>5. DistinctOrders' BY <1>2, <1>4, <2>1 DEF RosterInv, DistinctOrders
  <2> QED BY <2>1, <2>3, <2>4, <2>5, SameReqs, ClassesWritten
<1> QED BY <1>3, <1>4

LEMMA MoveInv ==
  ASSUME RosterInv, NEW c \in 1..MaxClasses, MoveUp(c) \/ MoveDown(c)
  PROVE  RosterInv'
BY ExchangeInv DEF MoveUp, MoveDown, Above, Below

LEMMA MissingFinite ==
  ASSUME RosterInv
  PROVE  Missing \subseteq Names /\ IsFiniteSet(Missing) /\ Cardinality(Missing) \in Nat
<1> DEFINE S == {students[s].class : s \in DOMAIN students}
<1> USE InvTyped
<1>1. lastStudent \in Int BY RosterAssumption
<1>2. IsFiniteSet(DOMAIN students)
  <2>1. IsFiniteSet(1..lastStudent) BY ONLY <1>1, FS_Interval
  <2> QED BY <2>1, FS_Subset
<1>3. IsFiniteSet(S)
  <2> DEFINE f == [s \in DOMAIN students |-> students[s].class]
  <2>1. f \in Surjection(DOMAIN students, S) BY DEF Surjection
  <2> HIDE DEF f, S
  <2> QED BY <1>2, <2>1, FS_Surjection
<1>4. Missing \subseteq S BY DEF Missing
<1>5. S \subseteq Names \cup {NoName} BY DEF Student
<1>6. Missing \subseteq Names BY <1>4, <1>5 DEF Missing
<1> QED BY <1>3, <1>4, <1>6, FS_Subset, FS_CardinalityType

\* What a restart makes of the classes.
LEMMA RestartHolds ==
  ASSUME RosterInv, Restart
  PROVE  /\ ReqsGood /\ lastClass' \in 0..MaxClasses /\ DOMAIN classes' \subseteq 1..lastClass'
         /\ classes' \in [DOMAIN classes' -> Class] /\ DistinctOrders' /\ DistinctNames'
         /\ \A c \in DOMAIN classes : c \in DOMAIN classes' /\ classes'[c] = classes[c]
         /\ \A c \in DOMAIN classes' \ DOMAIN classes :
              classes'[c].name \in Missing /\ classes'[c].layout = DefaultLayout
         /\ \A m \in Missing : \E c \in DOMAIN classes' : classes'[c].name = m
<1> USE InvTyped, RosterAssumption, MissingFinite
<1> DEFINE n   == Cardinality(Missing)
           ids == lastClass + 1..lastClass + n
<1>1. PICK name \in [ids -> Missing], last \in LastOrder :
        /\ \A i, j \in ids : name[i] = name[j] => i = j
        /\ {name[i] : i \in ids} = Missing
        /\ classes' = [c \in DOMAIN classes \cup ids |->
             IF c \in ids
             THEN [name |-> name[c], layout |-> DefaultLayout, order |-> last + (c - lastClass)]
             ELSE classes[c]]
  BY DEF Restart
<1> DEFINE rec(c) == [name |-> name[c], layout |-> DefaultLayout, order |-> last + (c - lastClass)]
<1>2. last \in Nat /\ \A c \in DOMAIN classes : classes[c].order <= last BY LastIsLast
<1>3. lastClass \in Nat /\ n \in Nat /\ lastClass' = lastClass + n /\ lastClass' \in 0..MaxClasses
  BY DEF Restart
<1> HIDE DEF n
<1>4. \A c \in ids : /\ c \in 1..lastClass' /\ c \notin 1..lastClass
                     /\ c - lastClass \in Nat \ {0} /\ c \in Nat
  BY <1>3
<1>5. \A c \in DOMAIN classes : c \in 1..lastClass' BY <1>3
<1>6. \A c \in ids : /\ rec(c) \in Class /\ rec(c).order = last + (c - lastClass)
                     /\ rec(c).name = name[c] /\ rec(c).layout = DefaultLayout
                     /\ name[c] \in Missing
  BY <1>2, <1>4 DEF Class
<1>7. classes' = [c \in DOMAIN classes \cup ids |-> IF c \in ids THEN rec(c) ELSE classes[c]]
  BY <1>1
<1>8. \A c \in DOMAIN classes : c \notin ids BY <1>4
<1> HIDE DEF rec, ids
<1>9. /\ DOMAIN classes' = DOMAIN classes \cup ids /\ classes' \in [DOMAIN classes' -> Class]
      /\ \A c \in DOMAIN classes : classes'[c] = classes[c]
      /\ \A c \in ids : classes'[c] = rec(c)
  BY <1>6, <1>7, <1>8
<1>10. DistinctOrders'
  <2>1. \A i, j \in ids : classes'[i].order = classes'[j].order => i = j
    BY <1>2, <1>3, <1>4, <1>6, <1>9
  <2>2. \A i \in ids, c \in DOMAIN classes : classes'[i].order # classes'[c].order
    <3> SUFFICES ASSUME NEW i \in ids, NEW c \in DOMAIN classes PROVE classes'[i].order # classes'[c].order
      OBVIOUS
    <3>1. classes[c].order \in Nat /\ classes[c].order <= last BY <1>2 DEF Class
    <3>2. classes'[i].order = last + (i - lastClass) BY <1>6, <1>9
    <3> QED BY <1>2, <1>4, <1>9, <3>1, <3>2
  <2>3. \A c, d \in DOMAIN classes : classes'[c].order = classes'[d].order => c = d
    BY <1>9 DEF RosterInv, DistinctOrders
  <2> QED BY <1>9, <2>1, <2>2, <2>3 DEF DistinctOrders
<1>11. DistinctNames'
  <2>1. \A i, j \in ids : classes'[i].name = classes'[j].name => i = j
    BY <1>1, <1>6, <1>9
  <2>2. \A i \in ids, c \in DOMAIN classes : classes'[i].name # classes'[c].name
    BY <1>6, <1>9 DEF Missing
  <2>3. \A c, d \in DOMAIN classes : classes'[c].name = classes'[d].name => c = d
    BY <1>9 DEF RosterInv, DistinctNames
  <2> QED BY <1>9, <2>1, <2>2, <2>3 DEF DistinctNames
<1>12. DOMAIN classes' \subseteq 1..lastClass' BY <1>4, <1>5, <1>9
<1>13. ReqsGood BY IdleGood DEF Restart, ReqsGood, GoodHeld
<1>14. \A m \in Missing : \E i \in ids : classes'[i].name = m BY <1>1, <1>6, <1>9
<1> QED BY <1>3, <1>6, <1>9, <1>10, <1>11, <1>12, <1>13, <1>14

LEMMA RestartInv == ASSUME RosterInv, Restart PROVE RosterInv'
<1>1. stray' \subseteq stray /\ UNCHANGED <<students, lastStudent>> BY DEF Restart
<1> QED BY <1>1, RestartHolds, ClassesWritten

-----------------------------------------------------------------------------
(* What holds for any number of handlers *)

LEMMA NextInv == RosterInv /\ [Next]_vars => RosterInv'
<1> SUFFICES ASSUME RosterInv, [Next]_vars PROVE RosterInv' OBVIOUS
<1>1. ASSUME NEW r \in Requests, StudentSteps(r) PROVE RosterInv'
  BY <1>1, ReadProfileInv, CheckClassOnlyInv, ReadSeatClassInv, ProfileInv, SitInv, EnrolInv
     DEF StudentSteps
<1>2. ASSUME NEW r \in Requests, ClassSteps(r) PROVE RosterInv'
  BY <1>2, ReadClassInv, WriteClassInv, ArrangeInv, DeleteClassInv DEF ClassSteps
<1>3. ASSUME NEW r \in Requests, Fault(r) PROVE RosterInv'
  BY <1>3, FinishGood, HandlerOnly DEF Fault
<1>4. CASE SingleSteps
  BY <1>4, CreateStudentInv, DeleteStudentInv, MoveSeatInv, CreateClassInv, PutSettingsInv, MoveInv
     DEF SingleSteps
<1>5. CASE Restart BY <1>5, RestartInv
<1>6. CASE UNCHANGED vars BY <1>6, SameReqs, HandlerOnly DEF vars
<1> QED BY <1>1, <1>2, <1>3, <1>4, <1>5, <1>6 DEF Next

LEMMA InitInv == Init => RosterInv
BY IdleGood, RosterAssumption
   DEF Init, RosterInv, TypeOK, GoodHeld, OneStudentPerSeat, DistinctOrders, DistinctNames

LEMMA RosterHolds == Spec => []RosterInv
BY InitInv, NextInv, PTL DEF Spec

\* Every variable has its type.
THEOREM Typed == Spec => []TypeOK
<1>1. RosterInv => TypeOK BY DEF RosterInv
<1> QED BY <1>1, RosterHolds, PTL

\* No seat is shared, although the check that it is free and the write are
\* separate statements, for any number of handlers at once.
THEOREM SeatsNotShared == Spec => []OneStudentPerSeat
<1>1. RosterInv => OneStudentPerSeat BY DEF RosterInv
<1> QED BY <1>1, RosterHolds, PTL

\* Every class keeps a place of its own in the order, through creations,
\* deletions, exchanges and the classes a restart makes.
THEOREM OrdersDistinct == Spec => []DistinctOrders
<1>1. RosterInv => DistinctOrders BY DEF RosterInv
<1> QED BY <1>1, RosterHolds, PTL

-----------------------------------------------------------------------------
(* One handler at a time *)

Sure == Alone /\ RosterInv /\ RosterInv' /\ AloneInv

\* Handlers that have checked nothing yet, or are done.
LEMMA Unchecked ==
  ASSUME Sure, NEW r \in Requests, req'[r].pc \in {"idle", "exists", "seatClass", "settings"}
  PROVE  AllChecked'
BY DEF Sure, Alone, AllChecked, Checked

\* Nothing else happens while a handler is at work.
LEMMA FreeChecked == ASSUME Sure, Free, UNCHANGED req PROVE AllChecked'
BY Unchecked DEF Free

LEMMA OneChecked == ASSUME Sure, NEW r \in Requests, Checked(req[r])' PROVE AllChecked'
BY DEF Sure, Alone, AllChecked

LEMMA MineChecked == ASSUME Sure, NEW r \in Requests PROVE Checked(req[r])
BY DEF Sure, AloneInv, AllChecked

\* Students change, classes do not.
LEMMA StudentsAlone ==
  ASSUME Sure, AllChecked', UNCHANGED classes,
         \A s \in DOMAIN students' :
           \/ /\ s \in DOMAIN students /\ students'[s].class = students[s].class
              /\ s \in stray => s \in stray'
              /\ \E x \in DOMAIN students : /\ students[x].class = students[s].class
                                            /\ students[x].seat = students'[s].seat
           \/ students'[s].seat = 0 /\ (Known(students'[s].class) \/ s \in stray')
           \/ /\ s \in DOMAIN students
              /\ \E c \in DOMAIN classes : /\ classes[c].name = students'[s].class
                                           /\ students'[s].seat <= classes[c].layout
  PROVE  AloneInv'
<1>1. \A c \in DOMAIN classes : classes[c].layout \in Nat /\ 0 <= classes[c].layout
  BY InvTyped DEF Sure, Class
<1>2. DistinctNames BY DEF Sure, RosterInv
<1>3. NoSeatNowhere' BY DEF Sure, AloneInv, NoSeatNowhere, Known
<1>4. SeatsFit' BY <1>1, <1>2 DEF Sure, AloneInv, SeatsFit, DistinctNames
<1>5. NoStrandedStudent' BY DEF Sure, AloneInv, NoStrandedStudent, Known
<1> QED BY <1>3, <1>4, <1>5 DEF AloneInv

LEMMA SameAlone ==
  ASSUME Sure, AllChecked', UNCHANGED <<students, classes, stray>>
  PROVE  AloneInv'
BY StudentsAlone

\* Classes change, students do not.
LEMMA ClassesAlone ==
  ASSUME Sure, AllChecked', UNCHANGED students,
         \A c \in DOMAIN classes' :
           \/ ~ Known(classes'[c].name)
           \/ \E d \in DOMAIN classes :
                classes'[c].name = classes[d].name /\ classes'[c].layout = classes[d].layout,
         \A s \in DOMAIN students :
           Known(students[s].class) \/ s \in stray \ stray' =>
             \E c \in DOMAIN classes' : classes'[c].name = students[s].class
  PROVE  AloneInv'
<1>1. \A c \in DOMAIN classes' : classes'[c].layout \in Nat
  BY DEF Sure, RosterInv, TypeOK
<1>2. NoSeatNowhere' BY DEF Sure, AloneInv, NoSeatNowhere, Known
<1>3. SeatsFit'
  <2> SUFFICES ASSUME NEW s \in DOMAIN students, NEW c \in DOMAIN classes',
                      students[s].class = classes'[c].name
               PROVE  students[s].seat <= classes'[c].layout
    BY DEF SeatsFit
  <2>1. CASE ~ Known(classes'[c].name)
    <3>1. students[s].seat = 0 BY <2>1 DEF Sure, AloneInv, NoSeatNowhere
    <3> QED BY <1>1, <3>1
  <2>2. CASE \E d \in DOMAIN classes :
               classes'[c].name = classes[d].name /\ classes'[c].layout = classes[d].layout
    BY <2>2 DEF Sure, AloneInv, SeatsFit
  <2> QED BY <2>1, <2>2
<1>4. NoStrandedStudent' BY DEF Sure, AloneInv, NoStrandedStudent, Known
<1> QED BY <1>2, <1>3, <1>4 DEF AloneInv

LEMMA MovedTo ==
  ASSUME Sure, NEW r \in Requests, NEW pc \in {"profile", "moveClass", "occupied", "sit", "delete"},
         To(r, pc), pc \in {"occupied", "sit"} => req[r].seat \in Seats
  PROVE  /\ req'[r].pc = pc /\ req'[r].s = req[r].s /\ req'[r].c = req[r].c
         /\ req'[r].name = req[r].name /\ req'[r].seat = req[r].seat
BY ToGood DEF Sure

LEMMA Finished ==
  ASSUME Sure, NEW r \in Requests, Finish(r) \/ ThenSeat(r)
  PROVE  AllChecked'
BY FinishGood, ThenSeatGood, IdleGood, Unchecked DEF Sure

LEMMA HeldNow ==
  ASSUME Sure, NEW r \in Requests, NEW q, Hold(r, q)
  PROVE  req'[r] = q
BY DEF Sure, RosterInv, TypeOK, Hold

LEMMA ReadsAlone ==
  ASSUME Sure, NEW r \in Requests,
         \/ \E s \in 1..MaxStudents, name \in Names \cup {NoName}, seat \in Seats \cup {Keep} :
              ReadProfile(r, s, name, seat)
         \/ \E s \in 1..MaxStudents, name \in Names, seat \in Seats \cup {Keep} :
              CheckClassOnly(r, s, name, seat)
         \/ \E name \in Names : CheckEnrolment(r, name)
  PROVE  AloneInv'
<1>1. ASSUME NEW s, NEW name, NEW seat, ReadProfile(r, s, name, seat) PROVE AloneInv'
  <2> DEFINE N == IF name = NoName THEN students[s].class ELSE name
             q == [Idle EXCEPT !.pc = "exists", !.s = s, !.seat = seat, !.name = N]
  <2>1. Hold(r, q) BY <1>1 DEF ReadProfile
  <2>2. q.pc = "exists" BY DEF Idle
  <2> HIDE DEF q
  <2>3. req'[r] = q BY <2>1, HeldNow
  <2>4. AllChecked' BY <2>2, <2>3, Unchecked
  <2> QED BY <1>1, <2>4, SameAlone DEF ReadProfile
<1>2. ASSUME NEW s, NEW name, NEW seat, CheckClassOnly(r, s, name, seat) PROVE AloneInv'
  <2> DEFINE q == [Idle EXCEPT !.pc = "current", !.s = s, !.seat = seat, !.name = name]
  <2>1. Hold(r, q) /\ Known(name) /\ UNCHANGED <<students, classes, stray>>
    BY <1>2 DEF CheckClassOnly
  <2>2. q.pc = "current" /\ q.name = name BY DEF Idle
  <2> HIDE DEF q
  <2>3. req'[r] = q BY <2>1, HeldNow
  <2>4. Checked(req[r])' BY <2>1, <2>2, <2>3 DEF Checked, Known
  <2> QED BY <2>1, <2>4, OneChecked, SameAlone
<1>3. ASSUME NEW name, CheckEnrolment(r, name) PROVE AloneInv'
  <2> DEFINE q == [Idle EXCEPT !.pc = "enrol", !.name = name]
  <2>1. Hold(r, q) /\ Known(name) /\ UNCHANGED <<students, classes, stray>>
    BY <1>3 DEF CheckEnrolment
  <2>2. q.pc = "enrol" /\ q.name = name BY DEF Idle
  <2> HIDE DEF q
  <2>3. req'[r] = q BY <2>1, HeldNow
  <2>4. Checked(req[r])' BY <2>1, <2>2, <2>3 DEF Checked, Known
  <2> QED BY <2>1, <2>4, OneChecked, SameAlone
<1> QED BY <1>1, <1>2, <1>3

LEMMA ReadSeatAlone ==
  ASSUME Sure, NEW r \in Requests, NEW s \in 1..MaxStudents, NEW seat \in Seats,
         ReadSeatClass(r, s, seat)
  PROVE  AloneInv'
<1> DEFINE P == IF seat = 0 THEN "sit" ELSE "layout"
           N == students[s].class
           q == [Idle EXCEPT !.pc = P, !.s = s, !.seat = seat, !.name = N]
<1>1. UNCHANGED <<students, classes, stray>> BY DEF ReadSeatClass
<1>2. CASE s \notin DOMAIN students
  BY <1>1, <1>2, Finished, SameAlone DEF ReadSeatClass
<1>3. CASE s \in DOMAIN students
  <2>1. Hold(r, q) BY <1>3 DEF ReadSeatClass
  <2>2. q.pc = P /\ q.name = N /\ q.s = s /\ q.seat = seat BY DEF Idle
  <2> HIDE DEF q
  <2>3. req'[r] = q BY <2>1, HeldNow
  <2>4. Checked(req[r])' BY <1>1, <2>2, <2>3 DEF Checked
  <2> QED BY <1>1, <2>4, OneChecked, SameAlone
<1> QED BY <1>2, <1>3

LEMMA ProfileAlone ==
  ASSUME Sure, NEW r \in Requests,
         \/ CheckClass(r) \/ UpdateProfile(r) \/ CompareClass(r) \/ UpdateClass(r)
         \/ CheckLayout(r) \/ CheckOccupied(r)
  PROVE  AloneInv'
<1> USE InvTyped, MineChecked
<1>1. RosterInv /\ GoodHeld(req[r]) BY DEF Sure
<1>2. CASE CheckClass(r)
  <2>1. UNCHANGED <<students, classes, stray>> BY <1>2 DEF CheckClass
  <2>2. CASE Finish(r) BY <2>1, <2>2, Finished, SameAlone
  <2>3. CASE To(r, "profile") /\ Known(req[r].name)
    <3>1. req'[r].pc = "profile" /\ req'[r].name = req[r].name BY <2>3, MovedTo
    <3>2. Checked(req[r])' BY <2>1, <2>3, <3>1 DEF Checked, Known
    <3> QED BY <2>1, <3>2, OneChecked, SameAlone
  <2> QED BY <1>2, <2>2, <2>3 DEF CheckClass, Check
<1>3. ASSUME Finish(r) \/ ThenSeat(r), Known(req[r].name), UNCHANGED <<classes, stray>>,
             NEW s \in DOMAIN students, NEW rec,
             students' = [students EXCEPT ![s] = rec],
             rec = students[s] \/ rec = [class |-> req[r].name, seat |-> 0]
      PROVE  AloneInv'
  <2>1. AllChecked' BY <1>3, Finished
  <2>2. DOMAIN students' = DOMAIN students BY <1>3
  <2>3. \A x \in DOMAIN students :
          \/ students'[x] = students[x]
          \/ students'[x].seat = 0 /\ students'[x].class = req[r].name
    BY <1>3
  <2> QED BY <1>3, <2>1, <2>2, <2>3, StudentsAlone
<1>4. CASE UpdateProfile(r)
  <2> DEFINE s    == req[r].s
             name == req[r].name
             rec  == IF students[s].class = name THEN students[s]
                     ELSE [class |-> name, seat |-> 0]
  <2>1. Known(name) /\ UNCHANGED <<classes, stray>> BY <1>4 DEF UpdateProfile, Checked
  <2>2. CASE s \in DOMAIN students
    <3>1. students' = [students EXCEPT ![s] = rec] /\ ThenSeat(r)
      BY <1>4, <2>2 DEF UpdateProfile, Enter
    <3>2. rec = students[s] \/ rec = [class |-> name, seat |-> 0] OBVIOUS
    <3> HIDE DEF rec, s
    <3> QED BY <1>3, <2>1, <2>2, <3>1, <3>2
  <2>3. CASE s \notin DOMAIN students
    BY <1>4, <2>3, Finished, SameAlone DEF UpdateProfile
  <2> QED BY <2>2, <2>3
<1>5. CASE CompareClass(r)
  <2>1. UNCHANGED <<students, classes, stray>> BY <1>5 DEF CompareClass
  <2>2. CASE Finish(r) \/ ThenSeat(r) BY <2>1, <2>2, Finished, SameAlone
  <2>3. CASE To(r, "moveClass")
    <3>1. req'[r].pc = "moveClass" /\ req'[r].name = req[r].name BY <2>3, MovedTo
    <3>2. Known(req[r].name) BY <1>5 DEF CompareClass, Checked
    <3>3. Checked(req[r])' BY <2>1, <3>1, <3>2 DEF Checked, Known
    <3> QED BY <2>1, <3>3, OneChecked, SameAlone
  <2> QED BY <1>5, <2>2, <2>3 DEF CompareClass
<1>6. CASE UpdateClass(r)
  <2> DEFINE s   == req[r].s
             rec == [class |-> req[r].name, seat |-> 0]
  <2>1. Known(req[r].name) /\ UNCHANGED <<classes, stray>> /\ ThenSeat(r)
    BY <1>6 DEF UpdateClass, Checked
  <2>2. CASE s \in DOMAIN students
    <3>1. students' = [students EXCEPT ![s] = rec] BY <1>6, <2>2 DEF UpdateClass
    <3> HIDE DEF s
    <3> QED BY <1>3, <2>1, <2>2, <3>1
  <2>3. CASE s \notin DOMAIN students
    BY <1>6, <2>3, Finished, SameAlone DEF UpdateClass
  <2> QED BY <2>2, <2>3
<1>7. CASE CheckLayout(r) \/ CheckOccupied(r)
  <2>1. UNCHANGED <<students, classes, stray>> BY <1>7 DEF CheckLayout, CheckOccupied
  <2>2. CASE Finish(r) BY <2>1, <2>2, Finished, SameAlone
  <2>3. ASSUME NEW pc \in {"occupied", "sit"}, To(r, pc),
               req[r].seat # 0 => Fits(req[r].name, req[r].seat)
        PROVE  AloneInv'
    <3>1. req[r].seat \in Seats BY <1>1, <1>7 DEF CheckLayout, CheckOccupied, GoodHeld
    <3>2. /\ req'[r].pc = pc /\ req'[r].name = req[r].name /\ req'[r].s = req[r].s
          /\ req'[r].seat = req[r].seat
      BY <2>3, <3>1, MovedTo
    <3>3. req[r].s \in DOMAIN students => students[req[r].s].class = req[r].name
      BY <1>7 DEF CheckLayout, CheckOccupied, Checked
    <3>4. Checked(req[r])' BY <2>1, <2>3, <3>2, <3>3 DEF Checked, Fits
    <3> QED BY <2>1, <3>4, OneChecked, SameAlone
  <2>4. CASE CheckLayout(r) BY <2>2, <2>3, <2>4 DEF CheckLayout, Check
  <2>5. CASE CheckOccupied(r)
    <3>1. req[r].seat # 0 => Fits(req[r].name, req[r].seat)
      BY <2>5 DEF CheckOccupied, Checked
    <3> QED BY <2>2, <2>3, <2>5, <3>1 DEF CheckOccupied, Check
  <2> QED BY <1>7, <2>4, <2>5
<1> QED BY <1>2, <1>4, <1>5, <1>6, <1>7

LEMMA SitAlone == ASSUME Sure, NEW r \in Requests, Sit(r) PROVE AloneInv'
<1> DEFINE s      == req[r].s
           seated == [students EXCEPT ![s].seat = req[r].seat]
           rec    == [students[s] EXCEPT !.seat = req[r].seat]
<1> USE MineChecked
<1>1. UNCHANGED <<classes, stray>> /\ Finish(r) BY DEF Sit
<1>2. CASE s \in DOMAIN students /\ SeatIndex(seated)
  <2>1. students' = [students EXCEPT ![s] = rec] BY <1>2 DEF Sit
  <2>2. students[s] \in Student BY <1>2, InvTyped DEF Sure
  <2>3. rec.seat = req[r].seat /\ rec.class = students[s].class BY <2>2 DEF Student
  <2>4. /\ students[s].class = req[r].name
        /\ req[r].seat # 0 => Fits(req[r].name, req[r].seat)
    BY <1>2 DEF Sit, Checked
  <2> HIDE DEF rec, s
  <2>5. /\ DOMAIN students' = DOMAIN students
        /\ \A x \in DOMAIN students : students'[x] = IF x = s THEN rec ELSE students[x]
    BY <2>1
  <2>6. CASE req[r].seat # 0
    BY <1>1, <1>2, <2>3, <2>4, <2>5, <2>6, Finished, StudentsAlone DEF Fits
  <2>7. CASE req[r].seat = 0
    <3>1. Known(students[s].class) \/ s \in stray
      BY <1>2 DEF Sure, AloneInv, NoStrandedStudent
    <3> QED BY <1>1, <1>2, <2>3, <2>5, <2>7, <3>1, Finished, StudentsAlone
  <2> QED BY <2>6, <2>7
<1>3. CASE ~ (s \in DOMAIN students /\ SeatIndex(seated))
  BY <1>1, <1>3, Finished, SameAlone DEF Sit
<1> QED BY <1>2, <1>3

LEMMA EnteredAlone ==
  ASSUME Sure, AllChecked', UNCHANGED classes, NEW name, NEW new,
         students' = Put(students, new, [class |-> name, seat |-> 0]),
         stray \subseteq stray', Known(name) \/ new \in stray'
  PROVE  AloneInv'
<1>1. /\ DOMAIN students' = DOMAIN students \cup {new}
      /\ \A s \in DOMAIN students' :
           students'[s] = IF s = new THEN [class |-> name, seat |-> 0] ELSE students[s]
  BY DEF Put
<1> QED BY <1>1, StudentsAlone

LEMMA EnrolAlone == ASSUME Sure, NEW r \in Requests, Enrol(r) PROVE AloneInv'
<1>1. Known(req[r].name) BY MineChecked DEF Enrol, Checked
<1> QED BY <1>1, Finished, EnteredAlone DEF Enrol

LEMMA StudentSinglesAlone ==
  ASSUME Sure,
         \/ \E name \in Names \cup {NoName} : CreateStudent(name)
         \/ \E s \in 1..MaxStudents : DeleteStudent(s)
         \/ \E c \in 1..MaxClasses, s \in 1..MaxStudents, target \in Seats : MoveSeat(c, s, target)
  PROVE  AloneInv'
<1>1. ASSUME NEW name, CreateStudent(name) PROVE AloneInv'
  BY <1>1, FreeChecked, EnteredAlone DEF CreateStudent
<1>2. ASSUME NEW s, DeleteStudent(s) PROVE AloneInv'
  <2>1. /\ DOMAIN students' = DOMAIN students \ {s}
        /\ \A x \in DOMAIN students' : students'[x] = students[x]
    BY <1>2 DEF DeleteStudent, Without
  <2>2. AllChecked' BY <1>2, FreeChecked DEF DeleteStudent
  <2> QED BY <1>2, <2>1, <2>2, StudentsAlone DEF DeleteStudent
<1>3. ASSUME NEW c, NEW s, NEW target \in Seats, MoveSeat(c, s, target) PROVE AloneInv'
  <2>1. target \in Nat /\ RosterInv BY Numbers DEF Sure
  <2>2. /\ s \in DOMAIN students /\ c \in DOMAIN classes /\ target <= classes[c].layout
        /\ students[s].class = classes[c].name /\ UNCHANGED <<classes, stray>>
    BY <1>3 DEF MoveSeat
  <2>3. /\ DOMAIN students' = DOMAIN students
        /\ \A x \in DOMAIN students :
             /\ students'[x].class = students[x].class
             /\ \/ students'[x] = students[x]
                \/ x = s /\ students'[x].seat = target
                \/ students[x].class = students[s].class /\ students'[x].seat = students[s].seat
    BY <1>3, <2>1, <2>2, SwapHolds DEF MoveSeat
  <2>4. AllChecked' BY <1>3, FreeChecked DEF MoveSeat
  <2> QED BY <2>2, <2>3, <2>4, StudentsAlone
<1> QED BY <1>1, <1>2, <1>3

LEMMA ReadClassAlone ==
  ASSUME Sure, NEW r \in Requests, NEW c \in 1..MaxClasses,
         \/ \E name \in Names : ReadClass(r, c, name, 0)
         \/ \E layout \in Layouts : ReadClass(r, c, NoName, layout)
         \/ ReadForArrange(r, c) \/ ReadForDelete(r, c)
  PROVE  AloneInv'
<1> DEFINE cN == classes[c].name
           cL == classes[c].layout
<1>1. /\ UNCHANGED <<students, classes, stray>>
      /\ c \in DOMAIN classes
  BY DEF ReadClass, ReadForArrange, ReadForDelete
<1>2. ASSUME NEW name, NEW layout, ReadClass(r, c, name, layout) PROVE AloneInv'
  <2> DEFINE N == IF name = NoName THEN cN ELSE name
             L == IF layout = 0 THEN cL ELSE layout
             q == [Idle EXCEPT !.pc = "settings", !.c = c, !.name = N, !.layout = L]
  <2>1. Hold(r, q) BY <1>2 DEF ReadClass
  <2>2. q.pc = "settings" BY DEF Idle
  <2> HIDE DEF q
  <2> QED BY <1>1, <2>1, <2>2, HeldNow, Unchecked, SameAlone
<1>3. CASE ReadForArrange(r, c)
  <2> DEFINE q == [Idle EXCEPT !.pc = "arrange", !.name = cN, !.layout = cL]
  <2>1. Hold(r, q) BY <1>3 DEF ReadForArrange
  <2>2. q.pc = "arrange" /\ q.name = cN /\ q.layout = cL BY DEF Idle
  <2> HIDE DEF q
  <2>3. req'[r] = q BY <2>1, HeldNow
  <2>4. Checked(req[r])' BY <1>1, <2>2, <2>3 DEF Checked
  <2> QED BY <1>1, <2>4, OneChecked, SameAlone
<1>4. CASE ReadForDelete(r, c)
  <2> DEFINE q == [Idle EXCEPT !.pc = "count", !.c = c, !.name = cN]
  <2>1. Hold(r, q) BY <1>4 DEF ReadForDelete
  <2>2. q.pc = "count" /\ q.name = cN /\ q.c = c BY DEF Idle
  <2> HIDE DEF q
  <2>3. req'[r] = q BY <2>1, HeldNow
  <2>4. Checked(req[r])' BY <1>1, <2>2, <2>3 DEF Checked
  <2> QED BY <1>1, <2>4, OneChecked, SameAlone
<1> QED BY <1>2, <1>3, <1>4

LEMMA ArrangeAlone == ASSUME Sure, NEW r \in Requests, Arrange(r) PROVE AloneInv'
<1>1. /\ UNCHANGED <<classes, stray>> /\ Finish(r) /\ RosterInv
      /\ \E c \in DOMAIN classes : classes[c].name = req[r].name /\ classes[c].layout = req[r].layout
  BY MineChecked DEF Arrange, Checked, Sure
<1>2. CASE UNCHANGED students BY <1>1, <1>2, Finished, SameAlone
<1>3. CASE /\ DOMAIN students' = DOMAIN students
           /\ \A s \in DOMAIN students :
                /\ students'[s].class = students[s].class
                /\ \/ students'[s] = students[s]
                   \/ /\ students[s].class = req[r].name
                      /\ students'[s].seat <= req[r].layout
  BY <1>1, <1>3, Finished, StudentsAlone
<1> QED BY <1>1, <1>2, <1>3, ArrangeHolds

LEMMA DeleteClassAlone ==
  ASSUME Sure, NEW r \in Requests, CountMembers(r) \/ DeleteClass(r)
  PROVE  AloneInv'
<1>1. CASE CountMembers(r)
  <2>1. UNCHANGED <<students, classes, stray>> BY <1>1 DEF CountMembers
  <2>2. CASE Finish(r) BY <2>1, <2>2, Finished, SameAlone
  <2>3. CASE To(r, "delete") /\ EmptyClass(req[r].name)
    <3>1. /\ req'[r].pc = "delete" /\ req'[r].name = req[r].name /\ req'[r].c = req[r].c
      BY <2>3, MovedTo
    <3>2. req[r].c \in DOMAIN classes /\ classes[req[r].c].name = req[r].name
      BY <1>1, MineChecked DEF CountMembers, Checked
    <3>3. Checked(req[r])' BY <2>1, <2>3, <3>1, <3>2 DEF Checked, EmptyClass, Members
    <3> QED BY <2>1, <3>3, OneChecked, SameAlone
  <2> QED BY <1>1, <2>2, <2>3 DEF CountMembers, Check
<1>2. CASE DeleteClass(r)
  <2> DEFINE c == req[r].c
  <2>1. /\ c \in DOMAIN classes /\ classes[c].name = req[r].name /\ Members(req[r].name) = {}
        /\ UNCHANGED <<students, stray>> /\ Finish(r)
    BY <1>2, MineChecked DEF DeleteClass, Checked
  <2>2. /\ DOMAIN classes' = DOMAIN classes \ {c}
        /\ \A d \in DOMAIN classes' : classes'[d] = classes[d]
    BY <1>2 DEF DeleteClass, Without
  <2> HIDE DEF c
  <2>3. \A s \in DOMAIN students : students[s].class # req[r].name BY <2>1 DEF Members
  <2>4. \A s \in DOMAIN students :
          Known(students[s].class) \/ s \in stray \ stray' =>
            \E d \in DOMAIN classes' : classes'[d].name = students[s].class
    <3> SUFFICES ASSUME NEW s \in DOMAIN students, Known(students[s].class)
                 PROVE  \E d \in DOMAIN classes' : classes'[d].name = students[s].class
      BY <2>1
    <3>1. PICK d \in DOMAIN classes : classes[d].name = students[s].class BY DEF Known
    <3>2. d # c BY <2>1, <2>3, <3>1
    <3> QED BY <2>2, <3>1, <3>2
  <2> QED BY <2>1, <2>2, <2>4, Finished, ClassesAlone
<1> QED BY <1>1, <1>2

\* A renamed class takes its students along, and fits them.
LEMMA SettingsAlone ==
  ASSUME Sure, AllChecked', NEW c, NEW name \in Names, NEW layout \in Nat \ {0},
         Settings(c, name, layout), UNCHANGED stray
  PROVE  AloneInv'
<1>1. CASE UNCHANGED <<students, classes>> BY <1>1, SameAlone
<1>2. CASE /\ c \in DOMAIN classes
           /\ LayoutHolds(classes[c].name, layout)
           /\ \A d \in DOMAIN classes \ {c} : classes[d].name # name
           /\ classes' = [classes EXCEPT ![c].name = name, ![c].layout = layout]
           /\ students' = Renamed(classes[c].name, name)
  <2> DEFINE old == classes[c].name
             rec == [classes[c] EXCEPT !.name = name, !.layout = layout]
  <2>1. classes[c] \in Class /\ RosterInv BY <1>2, InvTyped DEF Sure
  <2>2. rec.name = name /\ rec.layout = layout BY <2>1 DEF Class
  <2>3. classes' = [classes EXCEPT ![c] = rec] BY <1>2
  <2> HIDE DEF rec
  <2>4. /\ DOMAIN classes' = DOMAIN classes
        /\ \A d \in DOMAIN classes : classes'[d] = IF d = c THEN rec ELSE classes[d]
    BY <1>2, <2>3
  <2>5. /\ DOMAIN students' = DOMAIN students
        /\ \A s \in DOMAIN students :
             /\ students'[s].seat = students[s].seat
             /\ students'[s].class = IF students[s].class = old THEN name ELSE students[s].class
    BY <1>2, <2>1, RenamedTyped
  <2>6. \A s \in DOMAIN students : students[s].class = old => students[s].seat <= layout
    BY <1>2 DEF LayoutHolds, Members
  <2>7. \A d \in DOMAIN classes : classes[d].name = old => d = c
    BY <1>2 DEF Sure, RosterInv, DistinctNames
  <2>8. \A d \in DOMAIN classes : classes[d].name = name => d = c BY <1>2
  <2> HIDE DEF old
  \* The name of a student after the step is known when it was before.
  <2>9. \A s \in DOMAIN students :
          Known(students[s].class) => \E d \in DOMAIN classes' : classes'[d].name = students'[s].class
    <3> SUFFICES ASSUME NEW s \in DOMAIN students, Known(students[s].class)
                 PROVE  \E d \in DOMAIN classes' : classes'[d].name = students'[s].class
      OBVIOUS
    <3>1. PICK d \in DOMAIN classes : classes[d].name = students[s].class BY DEF Known
    <3>2. CASE students[s].class = old BY <1>2, <2>2, <2>4, <2>5, <3>2
    <3>3. CASE students[s].class # old
      <4>1. d # c BY <3>1, <3>3 DEF old
      <4> QED BY <2>4, <2>5, <3>1, <3>3, <4>1
    <3> QED BY <3>2, <3>3
  <2>10. NoSeatNowhere' BY <2>5, <2>9 DEF Sure, AloneInv, NoSeatNowhere, Known
  <2>11. NoStrandedStudent' BY <2>5, <2>9 DEF Sure, AloneInv, NoStrandedStudent, Known
  <2>12. SeatsFit'
    <3> SUFFICES ASSUME NEW s \in DOMAIN students, NEW d \in DOMAIN classes,
                        students'[s].class = classes'[d].name
                 PROVE  students'[s].seat <= classes'[d].layout
      BY <2>4, <2>5 DEF SeatsFit
    <3>1. CASE d = c
      <4>1. CASE students[s].class = old BY <2>2, <2>4, <2>5, <2>6, <3>1, <4>1
      <4>2. CASE students[s].class # old
        <5>1. students[s].class = name BY <2>2, <2>4, <2>5, <3>1, <4>2
        <5>2. ~ Known(name) BY <2>8, <4>2, <5>1 DEF Known, old
        <5>3. students[s].seat = 0 BY <5>1, <5>2 DEF Sure, AloneInv, NoSeatNowhere
        <5> QED BY <2>2, <2>4, <2>5, <3>1, <5>3
      <4> QED BY <4>1, <4>2
    <3>2. CASE d # c
      <4>1. students[s].class # old
        <5> SUFFICES ASSUME students[s].class = old PROVE FALSE OBVIOUS
        <5>1. classes[d].name = name BY <2>4, <2>5, <3>2
        <5> QED BY <2>8, <3>2, <5>1
      <4>2. students[s].class = classes[d].name BY <2>4, <2>5, <3>2, <4>1
      <4> QED BY <2>4, <2>5, <3>2, <4>2 DEF Sure, AloneInv, SeatsFit
    <3> QED BY <3>1, <3>2
  <2> QED BY <2>10, <2>11, <2>12 DEF AloneInv
<1> QED BY <1>1, <1>2 DEF Settings

LEMMA ClassWritesAlone ==
  ASSUME Sure,
         \/ \E r \in Requests : WriteClass(r)
         \/ \E c \in 1..MaxClasses, name \in Names, layout \in Layouts : PutSettings(c, name, layout)
  PROVE  AloneInv'
<1>1. ASSUME NEW r \in Requests, WriteClass(r) PROVE AloneInv'
  <2>1. req[r].name \in Names /\ req[r].layout \in Nat \ {0}
    BY <1>1, InvTyped DEF WriteClass, GoodHeld, Held, Sure
  <2> QED BY <1>1, <2>1, Finished, SettingsAlone DEF WriteClass
<1>2. ASSUME NEW c, NEW name \in Names, NEW layout \in Layouts, PutSettings(c, name, layout)
      PROVE  AloneInv'
  BY <1>2, RosterAssumption, FreeChecked, SettingsAlone DEF PutSettings
<1> QED BY <1>1, <1>2

LEMMA CreateClassAlone ==
  ASSUME Sure, NEW name, NEW layout, CreateClass(name, layout)
  PROVE  AloneInv'
<1> DEFINE new == lastClass'
<1>1. PICK last \in LastOrder :
        classes' = Put(classes, new, [name |-> name, layout |-> layout, order |-> last + 1])
  BY DEF CreateClass
<1>2. /\ DOMAIN classes' = DOMAIN classes \cup {new}
      /\ classes'[new].name = name
      /\ \A c \in DOMAIN classes : c # new => classes'[c] = classes[c]
  BY <1>1 DEF Put
<1>3. new \notin DOMAIN classes
  <2>1. lastClass \in Nat /\ new = lastClass + 1 /\ DOMAIN classes \subseteq 1..lastClass
    BY InvTyped, RosterAssumption DEF CreateClass, Sure
  <2> QED BY <2>1
<1>4. AllChecked' /\ UNCHANGED <<students, stray>> /\ ~ Known(name)
  BY FreeChecked DEF CreateClass
<1> HIDE DEF new
<1>5. \A s \in DOMAIN students :
        Known(students[s].class) => \E c \in DOMAIN classes' : classes'[c].name = students[s].class
  BY <1>2, <1>3 DEF Known
<1> QED BY <1>2, <1>3, <1>4, <1>5, ClassesAlone

LEMMA MoveAlone ==
  ASSUME Sure, NEW c \in 1..MaxClasses, MoveUp(c) \/ MoveDown(c)
  PROVE  AloneInv'
<1>1. PICK d \in DOMAIN classes : classes' = Exchange(c, d) BY DEF MoveUp, MoveDown, Above, Below
<1>2. Free /\ UNCHANGED <<students, req, stray>> /\ c \in DOMAIN classes BY DEF MoveUp, MoveDown
<1>3. \A e \in DOMAIN classes : classes[e] \in Class BY InvTyped DEF Sure
<1>4. /\ DOMAIN classes' = DOMAIN classes
      /\ \A e \in DOMAIN classes :
           classes'[e].name = classes[e].name /\ classes'[e].layout = classes[e].layout
  BY <1>1, <1>3 DEF Exchange, Class
<1> QED BY <1>2, <1>4, FreeChecked, ClassesAlone DEF Known

LEMMA RestartAlone == ASSUME Sure, Restart PROVE AloneInv'
<1> USE RestartHolds
<1>1. RosterInv BY DEF Sure
<1>2. UNCHANGED students /\ stray' = {s \in stray : students[s].class = NoName} BY DEF Restart
<1>3. AllChecked' BY IdleGood DEF Restart, AllChecked, Checked
<1>4. \A c \in DOMAIN classes' :
        \/ ~ Known(classes'[c].name)
        \/ \E d \in DOMAIN classes :
             classes'[c].name = classes[d].name /\ classes'[c].layout = classes[d].layout
  BY <1>1 DEF Missing, Known
<1>5. \A s \in DOMAIN students :
        Known(students[s].class) \/ s \in stray \ stray' =>
          \E c \in DOMAIN classes' : classes'[c].name = students[s].class
  <2> SUFFICES ASSUME NEW s \in DOMAIN students, Known(students[s].class) \/ s \in stray \ stray'
               PROVE  \E c \in DOMAIN classes' : classes'[c].name = students[s].class
    OBVIOUS
  <2>1. CASE Known(students[s].class) BY <1>1, <2>1 DEF Known
  <2>2. CASE ~ Known(students[s].class)
    <3>1. students[s].class # NoName BY <1>2, <2>2
    <3>2. students[s].class \in Missing BY <2>2, <3>1 DEF Missing, Known
    <3> QED BY <1>1, <3>2
  <2> QED BY <2>1, <2>2
<1> QED BY <1>2, <1>3, <1>4, <1>5, ClassesAlone

-----------------------------------------------------------------------------
(* What holds for one handler at a time *)

LEMMA NextAlone == Alone /\ RosterInv /\ RosterInv' /\ AloneInv /\ [Next]_vars => AloneInv'
<1> SUFFICES ASSUME Sure, [Next]_vars PROVE AloneInv' BY DEF Sure
<1>1. ASSUME NEW r \in Requests, StudentSteps(r) PROVE AloneInv'
  BY <1>1, ReadsAlone, ReadSeatAlone, ProfileAlone, SitAlone, EnrolAlone DEF StudentSteps
<1>2. ASSUME NEW r \in Requests, ClassSteps(r) PROVE AloneInv'
  BY <1>2, ReadClassAlone, ClassWritesAlone, ArrangeAlone, DeleteClassAlone DEF ClassSteps
<1>3. ASSUME NEW r \in Requests, Fault(r) PROVE AloneInv'
  BY <1>3, Finished, SameAlone DEF Fault
<1>4. CASE SingleSteps
  BY <1>4, StudentSinglesAlone, CreateClassAlone, ClassWritesAlone, MoveAlone DEF SingleSteps
<1>5. CASE Restart BY <1>5, RestartAlone
<1>6. CASE UNCHANGED vars
  <2>1. AllChecked'
    BY <1>6 DEF vars, Sure, AloneInv, AllChecked, Checked, Known, Fits, Members
  <2> QED BY <1>6, <2>1, SameAlone DEF vars
<1> QED BY <1>1, <1>2, <1>3, <1>4, <1>5, <1>6 DEF Next

LEMMA InitAlone == Init => AloneInv
BY IdleGood
   DEF Init, AloneInv, AllChecked, Checked, NoSeatNowhere, SeatsFit, NoStrandedStudent

LEMMA AloneHolds == Alone => (Spec => []AloneInv)
<1> SUFFICES ASSUME Alone PROVE Spec => []AloneInv OBVIOUS
<1>1. RosterInv /\ RosterInv' /\ AloneInv /\ [Next]_vars => AloneInv' BY NextAlone
<1> QED BY <1>1, InitAlone, RosterHolds, PTL DEF Spec

\* With one handler at a time, whatever fails or restarts in between, every
\* seat in use exists in the layout of its class.
THEOREM SeatsExist == Alone => (Spec => []SeatsFit)
<1>1. AloneInv => SeatsFit BY DEF AloneInv
<1> QED BY <1>1, AloneHolds, PTL

\* With one handler at a time nobody who was entered into a class is left in
\* one that does not exist.
THEOREM NobodyStranded == Alone => (Spec => []NoStrandedStudent)
<1>1. AloneInv => NoStrandedStudent BY DEF AloneInv
<1> QED BY <1>1, AloneHolds, PTL
=============================================================================
