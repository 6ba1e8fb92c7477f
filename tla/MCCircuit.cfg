SPECIFICATION Spec
CONSTANTS
  Words <- MCWords
  Netlists <- MCNetlists
  Extras <- MCExtras
  Params <- MCParams
INVARIANTS
  TypeOK
  JoinsContinuations
  AcceptsAcceptable
  KnowsItsNames
  ListingKeepsCircuit
  LoadInv
  PrintsAfterTran
  AltersTakeEffect
CHECK_DEADLOCK FALSE
