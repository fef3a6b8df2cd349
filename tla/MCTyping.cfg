SPECIFICATION Spec
CONSTANTS
  Definitions <- Defs
  Documents <- Docs
  maxRecursivePasses = 16
  maxOutputTypeSize = 40
  MaxRounds = 2
INVARIANTS
  TypeOK
  OutputsHaveTheirTypes
  AcceptedNeverFails
  ChildAcceptsInput
  LazyLoadIsTransparent
  
CHECK_DEADLOCK FALSE
