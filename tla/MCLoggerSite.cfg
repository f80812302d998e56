CONSTANTS
    Fields <- MCFields
    Unquotable = {"a quote"}
    Escaped <- MCEscaped
    Closing = {"a quote, a comma and an entry"}
    Others <- MCOthers
    Stripped <- MCStripped
    Pages <- MCPages
    Upper <- MCUpper
    ThreeLetters <- MCThreeLetters
    NoneLike = {"none", "nonesuch"}
    FilterTexts <- MCFilterTexts
    Algorithms <- MCAlgorithms
    Documents = {"doc1", "deep", "text"}
    NotJSON = {"text"}
    Unrenderable = {"text", "deep"}
    Tokens = {"token1", "token2", ""}
    Certs = {"cert1", "cert2"}
    Commands <- MCCommands
    Edits <- MCEdits
    SavedConfigs <- MCSavedConfigs
    FirstConfig <- MCFirstConfig
    Reports <- MCReports
    FirstReport <- MCFirstReport
    NoReply = NoReply
    MaxKept = 3
    MaxPending = 2
SPECIFICATION Spec
INVARIANTS
    SiteTypeOK
    ShownIsStored
    
PROPERTIES
    OnlyClearClears
    UneditedKept
CHECK_DEADLOCK FALSE
