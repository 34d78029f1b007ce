SPECIFICATION Spec
CONSTANTS
  a = a
  b = b
  None = None
  Values <- MCValues
  Modulus <- MCModulus
  Capacity = 4
INVARIANTS
  TypeOK
  SlotsOwnedOnce
  NoSlotRace
PROPERTIES
  AnswersHold
  LeftoversDropped
  ImplementsQueue
CHECK_DEADLOCK FALSE
