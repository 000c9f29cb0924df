SPECIFICATION Spec
CONSTANTS
    NumChapters <- TwoChapters
    PageCount <- GrowingCounts
    IndexBase = 0
    Devices <- AllDevices
    StartServer <- SecondBegun
    StartMode = "rtl"
    Modes = {"rtl", "vertical"}
    MaxInputs = 2
    MaxOpens = 1
    Lossy = TRUE
    MaxWire = 1
INVARIANTS
    
    AnimationEnds
    PromptOncePerVisit
PROPERTY
    AnswersKeepPage
CHECK_DEADLOCK FALSE
