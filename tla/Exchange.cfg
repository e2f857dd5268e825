SPECIFICATION Spec
CONSTANTS
    MaxChunks = 2
    MaxCalls = 2
INVARIANTS
    HonestEnd
    EnvelopeAlone
    BodyClosedAlone
    NothingOutlives
PROPERTIES
    ExchangeEnds
