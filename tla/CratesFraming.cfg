\* Every object of up to two bytes, every range up to the first number that does not parse.
SPECIFICATION Spec
CONSTANTS
  MaxLength = 2
  MaxU64 = 4
CHECK_DEADLOCK FALSE
INVARIANTS
  HeadAnnouncesGet
  NothingBeyondTheEnd
