SPECIFICATION Spec
CONSTANTS
    Values <- MCValues
    Params <- MCParams
    Depth <- MCDepth
    Strings <- MCStrings
    Atoi <- MCAtoi
    Itoa <- MCItoa
CHECK_DEADLOCK FALSE
INVARIANTS
    EchoesWhatSurvives
    ArraysKeepPlaces
