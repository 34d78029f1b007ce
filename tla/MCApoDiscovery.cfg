\* Discovery of an APO: blocks, lists, texts.
SPECIFICATION Spec
CONSTANTS
  Kinds = {"plain", "aec"}
  EffectIds = {e1, e2}
  UserLists <- MCUserLists
  Names <- MCNames
  Apos <- MCApos
  Units = 4
  Word = 24
  BaseSize = 7
  GuidSize = 2
  EffectSize = 6
  Blocks = {b1, b2}
  None = None
  e1 = e1
  e2 = e2
INVARIANTS
  BlocksSound
  PropertiesTrue
PROPERTIES
  ListsWhole
