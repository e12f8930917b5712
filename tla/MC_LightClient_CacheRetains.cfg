CONSTANTS
    a1 = a1
    a2 = a2
    NoValue = NoValue
    FunctionIds = {1, 2}
    InputHashes = {1, 2}
    Accounts <- MCAccounts
    Thresholds <- MCThresholds
    Facts <- MCFacts
    Outputs <- MCOutputs
SPECIFICATION Spec
INVARIANT
    CacheRetains
