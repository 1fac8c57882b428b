------------------------------- MODULE Roster -------------------------------
(***************************************************************************)
(* Students, classes and seats: store/students.go, store/classes.go and    *)
(* the handlers of web/students.go and web/classes.go that call several    *)
(* store functions in a row.                                               *)
(*                                                                         *)
(* The database has one connection, so a statement and a transaction are   *)
(* each one action. A handler of several statements keeps what it has read *)
(* in req[r]; its first statement is the action that occupies the slot r.  *)
(* Names are stored trimmed, so TRIM is left out; a layout is its capacity *)
(* (rows times seats per row).                                             *)
(***************************************************************************)
EXTENDS Integers, FiniteSets

CONSTANTS
  Names,            \* class names
  Layouts,          \* capacities a class can be given
  DefaultLayout,    \* capacity of a class made by syncExistingClasses
  Requests,         \* slots for handlers in progress
  MaxStudents,      \* bound on the rows ever inserted into students
  MaxClasses,       \* bound on the rows ever inserted into classes
  MaxSeat,          \* bound on the seat numbers asked for
  NoName            \* the empty class name, and "not given" in a request

ASSUME RosterAssumption ==
  /\ Layouts \subseteq Nat \ {0}
  /\ DefaultLayout \in Nat \ {0}
  /\ MaxStudents \in Nat /\ MaxClasses \in Nat /\ MaxSeat \in Nat
  /\ NoName \notin Names

\* Seat numbers a request can ask for (0 is "no seat"): negative ones are refused.
Seats == 0..MaxSeat
Keep == -1          \* no seat_no in the request

VARIABLES
  students,     \* student ID -> [class, seat]
  classes,      \* class ID -> [name, layout, order]
  lastStudent,  \* AUTOINCREMENT of students
  lastClass,    \* AUTOINCREMENT of classes
  req,          \* [Requests -> what the handler holds]
  stray         \* history: students created for a class that did not exist

vars == <<students, classes, lastStudent, lastClass, req, stray>>

-----------------------------------------------------------------------------
Put(f, k, v) == [x \in DOMAIN f \cup {k} |-> IF x = k THEN v ELSE f[x]]
Without(f, k) == [x \in DOMAIN f \ {k} |-> f[x]]

Known(name)   == \E c \in DOMAIN classes : classes[c].name = name
Members(name) == {s \in DOMAIN students : students[s].class = name}

Idle == [pc |-> "idle", s |-> 0, c |-> 0, name |-> NoName, seat |-> Keep, layout |-> 0]

Init ==
  /\ students = [s \in {} |-> 0]
  /\ classes = [c \in {} |-> 0]
  /\ lastStudent = 0
  /\ lastClass = 0
  /\ req = [r \in Requests |-> Idle]
  /\ stray = {}

\* A handler of one statement or transaction occupies a slot for that step only.
Free == \E r \in Requests : req[r].pc = "idle"

Hold(r, held) == req' = [req EXCEPT ![r] = held]
To(r, pc)     == req' = [req EXCEPT ![r].pc = pc]
Finish(r)     == req' = [req EXCEPT ![r] = Idle]

\* The error return of a handler whose check failed.
Check(r, ok, pc) == IF ok THEN To(r, pc) ELSE Finish(r)

\* idx_students_class_seat: UNIQUE(class_name, seat_no) WHERE seat_no > 0.
MutantSeatIndex(f) == TRUE
SeatIndex(f) ==
  \A s1, s2 \in DOMAIN f :
    f[s1].seat > 0 /\ f[s1] = f[s2] => s1 = s2

-----------------------------------------------------------------------------
(* PUT /api/students/<id> *)

\* studentAction with a number or a name: it reads the student, and goes on
\* with the class it read if the request names none.
ReadProfile(r, s, name, seat) ==
  /\ req[r].pc = "idle"
  /\ s \in DOMAIN students
  /\ Hold(r, [Idle EXCEPT !.pc = "exists", !.s = s, !.seat = seat,
                !.name = IF name = NoName THEN students[s].class ELSE name])
  /\ UNCHANGED <<students, classes, lastStudent, lastClass, stray>>

CheckClass(r) ==
  /\ req[r].pc = "exists"
  /\ Check(r, Known(req[r].name), "profile")
  /\ UNCHANGED <<students, classes, lastStudent, lastClass, stray>>

\* The profile or the class is written; a request for a seat goes on.
ThenSeat(r) ==
  IF req[r].seat = Keep THEN Finish(r)
  ELSE Hold(r, [req[r] EXCEPT !.pc = "seatClass", !.name = NoName])

Enter(s, name) ==
  [students EXCEPT ![s] = IF @.class = name THEN @ ELSE [class |-> name, seat |-> 0]]

\* UpdateStudentProfile, a transaction: a changed class clears the seat.
UpdateProfile(r) ==
  /\ req[r].pc = "profile"
  /\ IF req[r].s \in DOMAIN students
     THEN students' = Enter(req[r].s, req[r].name) /\ ThenSeat(r)
     ELSE UNCHANGED students /\ Finish(r)
  /\ UNCHANGED <<classes, lastStudent, lastClass, stray>>

\* studentAction with a class only: ClassExists, then UpdateStudentClass.
CheckClassOnly(r, s, name, seat) ==
  /\ req[r].pc = "idle"
  /\ Known(name)
  /\ Hold(r, [Idle EXCEPT !.pc = "current", !.s = s, !.seat = seat, !.name = name])
  /\ UNCHANGED <<students, classes, lastStudent, lastClass, stray>>

CompareClass(r) ==
  /\ req[r].pc = "current"
  /\ \/ req[r].s \notin DOMAIN students /\ Finish(r)
     \/ /\ req[r].s \in DOMAIN students
        /\ IF students[req[r].s].class = req[r].name THEN ThenSeat(r) ELSE To(r, "moveClass")
  /\ UNCHANGED <<students, classes, lastStudent, lastClass, stray>>

UpdateClass(r) ==
  /\ req[r].pc = "moveClass"
  /\ students' = IF req[r].s \in DOMAIN students
                 THEN [students EXCEPT ![req[r].s] = [class |-> req[r].name, seat |-> 0]]
                 ELSE students
  /\ ThenSeat(r)
  /\ UNCHANGED <<classes, lastStudent, lastClass, stray>>

\* UpdateStudentSeat, four statements: the student's class, its layout, who
\* sits there, and the update.
ReadSeatClass(r, s, seat) ==
  /\ \/ req[r].pc = "idle"
     \/ req[r].pc = "seatClass" /\ req[r].s = s /\ req[r].seat = seat
  /\ IF s \in DOMAIN students
     THEN Hold(r, [Idle EXCEPT !.pc = IF seat = 0 THEN "sit" ELSE "layout",
                               !.s = s, !.seat = seat, !.name = students[s].class])
     ELSE Finish(r)
  /\ UNCHANGED <<students, classes, lastStudent, lastClass, stray>>

Fits(name, seat) ==
  \E c \in DOMAIN classes : classes[c].name = name /\ seat <= classes[c].layout

CheckLayout(r) ==
  /\ req[r].pc = "layout"
  /\ Check(r, Fits(req[r].name, req[r].seat), "occupied")
  /\ UNCHANGED <<students, classes, lastStudent, lastClass, stray>>

CheckOccupied(r) ==
  /\ req[r].pc = "occupied"
  /\ Check(r, \A s \in Members(req[r].name) \ {req[r].s} :
                students[s].seat # req[r].seat, "sit")
  /\ UNCHANGED <<students, classes, lastStudent, lastClass, stray>>

\* UPDATE students SET seat_no=? WHERE id=?: the index decides for the class
\* the student is in by now.
Sit(r) ==
  /\ req[r].pc = "sit"
  /\ LET seated == [students EXCEPT ![req[r].s].seat = req[r].seat]
     IN  students' = IF req[r].s \in DOMAIN students /\ SeatIndex(seated)
                     THEN seated ELSE students
  /\ Finish(r)
  /\ UNCHANGED <<classes, lastStudent, lastClass, stray>>

-----------------------------------------------------------------------------
(* The other operations on students *)

\* POST /api/students does not look at the classes at all.
CreateStudent(name) ==
  /\ Free
  /\ lastStudent < MaxStudents
  /\ lastStudent' = lastStudent + 1
  /\ students' = Put(students, lastStudent', [class |-> name, seat |-> 0])
  /\ stray' = IF Known(name) THEN stray ELSE stray \cup {lastStudent'}
  /\ UNCHANGED <<classes, lastClass, req>>

\* createEnrollment and photo import: ClassExists, then CreateStudentWithFace.
CheckEnrolment(r, name) ==
  /\ req[r].pc = "idle"
  /\ Known(name)
  /\ Hold(r, [Idle EXCEPT !.pc = "enrol", !.name = name])
  /\ UNCHANGED <<students, classes, lastStudent, lastClass, stray>>

Enrol(r) ==
  /\ req[r].pc = "enrol"
  /\ lastStudent < MaxStudents
  /\ lastStudent' = lastStudent + 1
  /\ students' = Put(students, lastStudent', [class |-> req[r].name, seat |-> 0])
  /\ Finish(r)
  /\ UNCHANGED <<classes, lastClass, stray>>

DeleteStudent(s) ==
  /\ Free
  /\ s \in DOMAIN students
  /\ students' = Without(students, s)
  /\ stray' = stray \ {s}
  /\ UNCHANGED <<classes, lastStudent, lastClass, req>>

\* MoveStudentSeatInClass, a transaction: whoever sits on the target gets the
\* mover's seat, or loses his own when the mover had none.
Swapped(s, target) ==
  LET from == students[s].seat
      class == students[s].class
  IN  [x \in DOMAIN students |->
         IF x = s THEN [class |-> class, seat |-> target]
         ELSE IF target > 0 /\ students[x] = [class |-> class, seat |-> target]
              THEN [class |-> class, seat |-> from]
         ELSE students[x]]

MoveSeat(c, s, target) ==
  /\ Free
  /\ c \in DOMAIN classes /\ target <= classes[c].layout
  /\ s \in DOMAIN students /\ students[s].class = classes[c].name
  /\ students[s].seat # target
  /\ students' = Swapped(s, target)
  /\ UNCHANGED <<classes, lastStudent, lastClass, req, stray>>

-----------------------------------------------------------------------------
(* Classes *)

\* COALESCE((SELECT MAX(sort_order)+1 FROM classes), 1), less 1
MutantLastOrder == {Cardinality(DOMAIN classes)}
LastOrder ==
  {o \in {0} \cup {classes[c].order : c \in DOMAIN classes} :
     \A c \in DOMAIN classes : classes[c].order <= o}

CreateClass(name, layout) ==
  /\ Free
  /\ lastClass < MaxClasses
  /\ ~ Known(name)
  /\ lastClass' = lastClass + 1
  /\ \E last \in LastOrder :
       classes' = Put(classes, lastClass',
                      [name |-> name, layout |-> layout, order |-> last + 1])
  /\ UNCHANGED <<students, lastStudent, req, stray>>

MutantLayoutHolds(name, layout) == Cardinality(Members(name)) <= layout
LayoutHolds(name, layout) ==
  /\ Cardinality(Members(name)) <= layout
  /\ \A s \in Members(name) : students[s].seat <= layout

\* UpdateClassSettings, a transaction; a renamed class takes its students along.
Renamed(old, name) ==
  [s \in DOMAIN students |->
     IF students[s].class = old THEN [students[s] EXCEPT !.class = name] ELSE students[s]]

Settings(c, name, layout) ==
  IF /\ c \in DOMAIN classes
     /\ LayoutHolds(classes[c].name, layout)
     /\ \A d \in DOMAIN classes \ {c} : classes[d].name # name
     /\ SeatIndex(Renamed(classes[c].name, name))
  THEN /\ classes' = [classes EXCEPT ![c].name = name, ![c].layout = layout]
       /\ students' = Renamed(classes[c].name, name)
  ELSE UNCHANGED <<students, classes>>

PutSettings(c, name, layout) ==
  /\ Free
  /\ Settings(c, name, layout)
  /\ UNCHANGED <<lastStudent, lastClass, req, stray>>

\* RenameClass and UpdateClassLayout read the row first, outside the
\* transaction, and write back the half they do not change.
ReadClass(r, c, name, layout) ==
  /\ req[r].pc = "idle"
  /\ c \in DOMAIN classes
  /\ Hold(r, [Idle EXCEPT !.pc = "settings", !.c = c,
                !.name = IF name = NoName THEN classes[c].name ELSE name,
                !.layout = IF layout = 0 THEN classes[c].layout ELSE layout])
  /\ UNCHANGED <<students, classes, lastStudent, lastClass, stray>>

WriteClass(r) ==
  /\ req[r].pc = "settings"
  /\ Settings(req[r].c, req[r].name, req[r].layout)
  /\ Finish(r)
  /\ UNCHANGED <<lastStudent, lastClass, stray>>

\* AutoArrangeSeats: name and capacity are read before the transaction; the
\* students are numbered from 1 in the order of their student numbers.
ReadForArrange(r, c) ==
  /\ req[r].pc = "idle"
  /\ c \in DOMAIN classes
  /\ Hold(r, [Idle EXCEPT !.pc = "arrange", !.name = classes[c].name,
                          !.layout = classes[c].layout])
  /\ UNCHANGED <<students, classes, lastStudent, lastClass, stray>>

Arrange(r) ==
  LET all == Members(req[r].name)
      n   == Cardinality(all)
  IN
  /\ req[r].pc = "arrange"
  /\ IF n <= req[r].layout
     THEN \E place \in [all -> 1..n] :
            /\ \A s1, s2 \in all : place[s1] = place[s2] => s1 = s2
            /\ students' = [s \in DOMAIN students |->
                 IF s \in all THEN [students[s] EXCEPT !.seat = place[s]]
                 ELSE students[s]]
     ELSE UNCHANGED students
  /\ Finish(r)
  /\ UNCHANGED <<classes, lastStudent, lastClass, stray>>

\* DeleteClass, three statements: the name, the number of members, the row.
ReadForDelete(r, c) ==
  /\ req[r].pc = "idle"
  /\ c \in DOMAIN classes
  /\ Hold(r, [Idle EXCEPT !.pc = "count", !.c = c, !.name = classes[c].name])
  /\ UNCHANGED <<students, classes, lastStudent, lastClass, stray>>

MutantEmptyClass(name) == Cardinality(Members(name)) <= 1
EmptyClass(name) == Members(name) = {}

CountMembers(r) ==
  /\ req[r].pc = "count"
  /\ Check(r, EmptyClass(req[r].name), "delete")
  /\ UNCHANGED <<students, classes, lastStudent, lastClass, stray>>

DeleteClass(r) ==
  /\ req[r].pc = "delete"
  /\ classes' = Without(classes, req[r].c)
  /\ Finish(r)
  /\ UNCHANGED <<students, lastStudent, lastClass, stray>>

\* MoveClass, a transaction: the class exchanges its place with its neighbour.
Exchange(c, d) ==
  [classes EXCEPT ![c].order = classes[d].order, ![d].order = classes[c].order]

Above(c) == {d \in DOMAIN classes : classes[d].order < classes[c].order}

MoveUp(c) ==
  /\ Free
  /\ c \in DOMAIN classes
  /\ \E d \in Above(c) :
       /\ \A e \in Above(c) : classes[e].order <= classes[d].order
       /\ classes' = Exchange(c, d)
  /\ UNCHANGED <<students, lastStudent, lastClass, req, stray>>

Below(c) == {d \in DOMAIN classes : classes[d].order > classes[c].order}

MoveDown(c) ==
  /\ Free
  /\ c \in DOMAIN classes
  /\ \E d \in Below(c) :
       /\ \A e \in Below(c) : classes[e].order >= classes[d].order
       /\ classes' = Exchange(c, d)
  /\ UNCHANGED <<students, lastStudent, lastClass, req, stray>>

-----------------------------------------------------------------------------
(* Failures *)

\* A statement fails (the student number is taken, the request is cancelled):
\* what the handler wrote before stays.
Fault(r) ==
  /\ req[r].pc # "idle"
  /\ Finish(r)
  /\ UNCHANGED <<students, classes, lastStudent, lastClass, stray>>

\* syncExistingClasses at the next start makes a class of the default layout
\* for every class name a student has and no class has.
Missing == {students[s].class : s \in DOMAIN students}
             \ ({NoName} \cup {classes[c].name : c \in DOMAIN classes})

Restart ==
  LET n == Cardinality(Missing)
      ids == lastClass + 1..lastClass + n
  IN
  /\ lastClass + n <= MaxClasses
  /\ \E name \in [ids -> Missing], last \in LastOrder :
       /\ \A i, j \in ids : name[i] = name[j] => i = j
       /\ {name[i] : i \in ids} = Missing
       /\ classes' = [c \in DOMAIN classes \cup ids |->
            IF c \in ids
            THEN [name |-> name[c], layout |-> DefaultLayout,
                  order |-> last + (c - lastClass)]
            ELSE classes[c]]
  /\ lastClass' = lastClass + n
  /\ req' = [r \in Requests |-> Idle]
  /\ stray' = {s \in stray : students[s].class = NoName}
  /\ UNCHANGED <<students, lastStudent>>

StudentSteps(r) ==
  \/ \E s \in 1..MaxStudents, name \in Names \cup {NoName}, seat \in Seats \cup {Keep} :
       ReadProfile(r, s, name, seat)
  \/ \E s \in 1..MaxStudents, name \in Names, seat \in Seats \cup {Keep} :
       CheckClassOnly(r, s, name, seat)
  \/ \E s \in 1..MaxStudents, seat \in Seats : ReadSeatClass(r, s, seat)
  \/ CheckClass(r) \/ UpdateProfile(r) \/ CompareClass(r) \/ UpdateClass(r)
  \/ CheckLayout(r) \/ CheckOccupied(r) \/ Sit(r)
  \/ \E name \in Names : CheckEnrolment(r, name)
  \/ Enrol(r)

ClassSteps(r) ==
  \/ \E c \in 1..MaxClasses, name \in Names : ReadClass(r, c, name, 0)
  \/ \E c \in 1..MaxClasses, layout \in Layouts : ReadClass(r, c, NoName, layout)
  \/ \E c \in 1..MaxClasses : ReadForArrange(r, c) \/ ReadForDelete(r, c)
  \/ WriteClass(r) \/ Arrange(r) \/ CountMembers(r) \/ DeleteClass(r)

SingleSteps ==
  \/ \E name \in Names \cup {NoName} : CreateStudent(name)
  \/ \E s \in 1..MaxStudents : DeleteStudent(s)
  \/ \E c \in 1..MaxClasses, s \in 1..MaxStudents, target \in Seats : MoveSeat(c, s, target)
  \/ \E name \in Names, layout \in Layouts : CreateClass(name, layout)
  \/ \E c \in 1..MaxClasses, name \in Names, layout \in Layouts : PutSettings(c, name, layout)
  \/ \E c \in 1..MaxClasses : MoveUp(c) \/ MoveDown(c)

Next ==
  \/ \E r \in Requests : StudentSteps(r) \/ ClassSteps(r) \/ Fault(r)
  \/ SingleSteps
  \/ Restart

Spec == Init /\ [][Next]_vars

-----------------------------------------------------------------------------
(* Properties *)

Held == [pc : {"idle", "exists", "profile", "current", "moveClass", "seatClass",
               "layout", "occupied", "sit", "enrol", "settings", "arrange",
               "count", "delete"},
         s : 0..MaxStudents, c : 0..MaxClasses, name : Names \cup {NoName},
         seat : Seats \cup {Keep}, layout : Nat]

\* Every variable has its type.
TypeOK ==
  /\ lastStudent \in 0..MaxStudents
  /\ lastClass \in 0..MaxClasses
  /\ DOMAIN students \subseteq 1..lastStudent
  /\ students \in [DOMAIN students -> [class : Names \cup {NoName}, seat : Nat]]
  /\ DOMAIN classes \subseteq 1..lastClass
  /\ classes \in [DOMAIN classes -> [name : Names, layout : Nat \ {0}, order : Nat \ {0}]]
  /\ req \in [Requests -> Held]
  /\ stray \subseteq DOMAIN students

\* Two students of a class never hold the same seat: not after overlapping
\* seat changes that both saw the seat free, not after a class was renamed to
\* a name some students already have, and not after a swap.
OneStudentPerSeat ==
  \A s1, s2 \in DOMAIN students :
    /\ students[s1].class = students[s2].class
    /\ students[s1].seat = students[s2].seat
    /\ students[s1].seat # 0
    => s1 = s2

\* The classes stay in a definite order, which MoveClass needs: it looks for a
\* neighbour with a strictly smaller or larger sort_order, and two classes with
\* equal ones could never pass each other again.
DistinctOrders ==
  \A c, d \in DOMAIN classes : classes[c].order = classes[d].order => c = d

\* "Seat number may not exceed the capacity" (students.go:223): every seat in
\* use exists in the class's layout.
SeatsFit ==
  \A s \in DOMAIN students, c \in DOMAIN classes :
    students[s].class = classes[c].name => students[s].seat <= classes[c].layout

\* "Please choose a class that has been set up" (enrollment.go:73), "expected
\* class with students to be protected from deletion" (store_test.go:215): a
\* student entered into an existing class has one, through renames, moves and
\* deletions.
NoStrandedStudent ==
  \A s \in DOMAIN students \ stray : Known(students[s].class)
=============================================================================
