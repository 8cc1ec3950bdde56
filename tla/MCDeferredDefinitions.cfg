\* Every file of up to four classes and functions, or three and two names.
CONSTANTS
  x = x
  Names <- OneName
  NoName = NoName
  MaxSize = 8
SPECIFICATION Spec
INVARIANTS
  TypeOK
  NoCheckFails
  ScopesAsWritten
  NamesAsWritten
  BodiesAfterScopes
  UnusedAsWritten
PROPERTIES
  CheckingProgresses
