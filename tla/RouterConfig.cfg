SPECIFICATION Spec
CONSTANTS
  o1 = o1
  o2 = o2
  olga = olga
  pasha = pasha
  Ops = {o1, o2}
  Names = {olga, pasha}
  Datas = {"a", "b"}
  Nobody = "nobody"
  MaxActive = 2
SYMMETRY Symmetric
INVARIANTS
  TypeOK
  UidsUnique
  Recoverable
PROPERTIES
  FailureLeavesAsBefore
  SuccessIsComplete
CHECK_DEADLOCK FALSE
