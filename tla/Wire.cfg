SPECIFICATION Spec
CONSTANTS
    WordBits <- MCWordBits
    Corpus <- MCCorpus
    Unknown <- MCUnknown
INVARIANTS
    TypeOK
    RoundTrip
    NoTornField
PROPERTIES
    SizeExact
