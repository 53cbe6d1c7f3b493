SPECIFICATION Spec
CONSTANTS
  Alike <- AlikeNames  Inside <- InsideWords  Slip <- SlipNames
  Word <- Words
  Found <- Used
  Names <- ClientNames
  Overlong = {}
  Utterances <- Heard
  Calls = {c1}
  ModelNames <- ModelWords
  MaxLanes = 3
  MaxCount = 1
  MaxMutations = 3
  MaxGeneration = 2
  MaxTools = 1
  OneDirectory = TRUE
  MaxFaults = 2
INVARIANTS
  RegistryIsSound
  RestartsStart
  SavedSurvives
  NameFindsItsLane
PROPERTIES
  RevisionNamesSelection
  UserSelectionWins
CHECK_DEADLOCK FALSE
