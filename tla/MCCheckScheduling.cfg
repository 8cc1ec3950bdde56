\* Four units; all import graphs on them and all forms of imports in one.
CONSTANTS
  N = 4
  PreludeLibs = {"prelude"}
  GraphLibs = {"a", "b", "c"}
  Programs <- MCPrograms
SPECIFICATION FairSpec
INVARIANTS
  TypeOK
  CheckedOnce
  OnlyCyclesAreMasked
  ImportRecordsAgree
PROPERTIES
  ImportsCheckedFirst
  CheckingEnds
CHECK_DEADLOCK FALSE
