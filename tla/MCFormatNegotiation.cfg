SPECIFICATION Spec
CONSTANTS
  None = None
  NoReference = NoReference
  NoFormat = NoFormat
  Half <- MCHalf
  Word <- MCWord
  Proposals <- MCProposals
  Choices <- MCChoices
INVARIANTS
  TypeOK
  LockedAsDecided
  OwnTypeEchoed
  SuggestionAccepted
  DefaultIsProcessable
