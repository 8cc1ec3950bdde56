\* Every graph of three blocks, most of four; up to three instructions; files of
\* one function and of two.
CONSTANTS
  Bodies <- MCBodies
  Files <- MCFiles
  Codes <- MCCodes
  Insts <- MCInsts
  Kind <- MCKind
  Operands <- MCOperands
  Block <- MCBlock
  Result <- MCResult
  Params <- MCParams
  Constants = {"c"}
  DeclInsts = {"f"}
  ImportRefs = {"i"}
  Specifics <- MCSpecifics
  SplicedIn <- MCSplicedIn
  NoSpecific = "general"
SPECIFICATION FairSpec
INVARIANTS
  TypeOK
  IntersectClimbs
  TreeIsDominance
  VerdictIsExact
  EvaluatedIsUndone
PROPERTIES
  VerificationEnds
CHECK_DEADLOCK FALSE
