SPECIFICATION Spec
CONSTANTS
  Names = {A, B}
  Layouts = {1, 2}
  DefaultLayout = 2
  Requests = {r1}
  MaxStudents = 2
  MaxClasses = 3
  MaxSeat = 2
  NoName = NoName
INVARIANTS SeatsFit NoStrandedStudent DistinctOrders
