\* Registering two classes and binding them to two slots of an endpoint.
SPECIFICATION BindingSpec
CONSTANTS
  NumClasses = 2
  Places = {system, deep}
  LongPlaces = {deep}
  Cut = Cut
  None = None
  Endpoints = {speaker}
  Slots <- MCSlots
  Byte = 2
  ClassId <- MCClassId
  Foreign = Foreign
  speaker = speaker
INVARIANTS
  BindingTypeOK
  AnswerTrue
  EarlierClassesDone
  NoDangling
  BindingStands
PROPERTY
  StaysActivatable
