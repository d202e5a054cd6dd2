SPECIFICATION AnsweringSpec
CONSTANTS
    MaxFails = 7
    MaxTyped = 2
    MaxQueue = 2
INVARIANTS
    WaitGrows
    TitleCurrent
    YesTaken
    PromptInTime
PROPERTY
    Reconnects
