SPECIFICATION Spec
CONSTANTS
    gemma4b = gemma4b
    gemma1b = gemma1b
    embeddingGemma = embeddingGemma
    typo = typo
    Catalog <- TwoChatModels
    Unknown = {typo}
    Ports = {4001, 4002}
    MaxGeneration = 2
    None = None
INVARIANTS
    TypeOK
    ReadyServes
    DesiredFollowed
    NoStrayServer
    LaunchedVerified
CHECK_DEADLOCK FALSE
