CONSTANTS
  LF = LF
  CR = CR
  Data = Data
  Other = Other
  Payload <- Texts
  Absent = Absent
  Bad = Bad
  MaxEvent = 4
  MaxIndexed = 1
  Largest = 2
  Chars = {0, 1, 8}
  MaxText = 6
SPECIFICATION ObserverSpec
INVARIANTS BoundedMemory MergedAsTold HonestReport
CHECK_DEADLOCK FALSE
