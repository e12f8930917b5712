CONSTANTS
    NoValue = NoValue
    Messages <- MCMessages
SPECIFICATION Spec
INVARIANTS
    TypeOK
    MessageLossless
