CONSTANTS
    NonDigit = NonDigit
    NoValue = NoValue
    FqModulus = 13
    FrModulus = 11
    CircomProofs <- MCCircomProofs
    Signals <- MCSignals
SPECIFICATION Spec
INVARIANTS
    TypeOK
    ProofDenotes
    SignalsDenote
