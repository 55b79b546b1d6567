SPECIFICATION FairSpec
CHECK_DEADLOCK FALSE
CONSTANTS
    Programs = {"storage", "domain", "db"}
    Texts <- MCTexts
    Delim = Delim
    Quit = Quit
    Add = Add
    Other = Other
    MaxText = 3
    HasColon = {Quit, Add}
    MaxClients = 2
    MaxUpdates = 2
    Ios = {1, 2}
INVARIANTS
    TokensRight
    CollectorSound
PROPERTIES
    SplitEnds
    DumpsGrow
    QuitEnds
