SPECIFICATION Spec
CONSTANTS
    Texts <- MCTexts
    Allowlist <- MCAllowlist
    Ignored <- MCIgnored
    MinimumCharacters = 2
    PreviewHits = 2
    StartFrames = 2
    StopFrames = 2
    MaxTurn = 3
    MaxGeneration = 3
    MaxAudio = 7
    MaxFinals = 2
    MaxPrompts = 2
    MaxDeltas = 2
    MaxResults = 2
    HistoryTurns = 0
    MinimumChunk = 2
    MaximumChunk = 4
    HoldLimit = 3
    MaxPieces = 4
    MaxSequence = 2
    Turns = 3
    Rates = {1, 2, 3, 5}
    Levels <- MCLevels
    MaxSamples = 3
INVARIANTS
    
    SoundIsFaithful
PROPERTIES
    ConversationKeepsItsTurns
    AnswersComeThrough
CHECK_DEADLOCK FALSE
