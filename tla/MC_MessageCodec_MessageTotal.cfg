CONSTANTS
    NoValue = NoValue
    Messages <- MCMessages
SPECIFICATION Spec
INVARIANT
    MessageTotal
