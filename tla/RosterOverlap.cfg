SPECIFICATION Spec
CONSTANTS
  Names = {A, B}
  Layouts = {2}
  DefaultLayout = 2
  Requests = {r1, r2}
  MaxStudents = 2
  MaxClasses = 1
  MaxSeat = 1
  NoName = NoName
INVARIANTS OneStudentPerSeat
