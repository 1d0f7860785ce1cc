CONSTANTS
    Callers = {one, other}
    MaxCalls = 2
    Kinds = {"order", "capture", "payment", "parcel", "return", "refund", "replacement", "pickup"}
    ChallengeIds = {1}
    TokenIds = {1}
    SessionIds = {1, 2}
    MaxAttempts = 1
    MaxVersion = 2
    Customers = {1, 2}
    AddressIds = {1, 2, 3}
    Reviewers = {1}
    ReviewIds = {1, 2}
    MaxText = 2
    PopupIds = {1, 2}
    ItemIds = {1}
    MaxDate = 3
    MaxTokens = 5
SYMMETRY Interchangeable
SPECIFICATION SiteSpec
INVARIANTS
    SessionsSound
    SiteMailsSound
    ContentsSound
    SchemaSound
CHECK_DEADLOCK FALSE
