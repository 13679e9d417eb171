\* Seven payloads, up to two of them in one poll.
SPECIFICATION TelemetrySpec
CONSTANTS
    Fields <- MCFields
    Ignored <- MCIgnored
    Hinted <- MCHinted
    Payloads <- MCPayloads
    Data <- MCData
    Height <- MCHeight
    Pieces <- MCPieces
    Indexes <- MCIndexes
    ModelKeys <- MCModelKeys
    MaxFrames = 2
    MaxMembers = 3
    MaxDepth = 3
    MaxAdded = 2
INVARIANTS
    TypeOK
    EveryFieldShown
    AddedOnce
    NoTwin
PROPERTIES
    LatestShown
    IdentityKept
    FieldsDiscovered
