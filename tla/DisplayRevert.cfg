SPECIFICATION FairSpec
CONSTANTS
    Outputs = {"A", "B"}
    Transforms <- MCTransforms
    Modes <- MCModes
    Boot <- MCBoot
    Better = "uhd"
    UiModes = {}
    MaxApplies = 2
    MaxCloud = 1
    MaxMishaps = 1
INVARIANTS SettledOnAccepted OnlyAcceptedSaved PendingHasTimer
PROPERTIES UnconfirmedReverts FullWindow
