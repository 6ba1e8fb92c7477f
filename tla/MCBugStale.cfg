SPECIFICATION Spec
CONSTANTS
  Words <- MCWords
  Netlists <- Tidy
  Queries <- TidyQueries
  Values <- MCValues
  Initials <- MCInitials
  Capacitors <- MCCapacitors
  Inductors <- MCInductors
  Branches <- MCBranches
  parseInt <- MCParseInt
  Ground = "0"
  MayFail = TRUE
  Null = Null
  Undefined = Undefined
INVARIANTS
  AnswersAreFresh
