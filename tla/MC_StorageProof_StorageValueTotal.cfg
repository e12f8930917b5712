CONSTANTS
    NoValue = NoValue
    Nibbles = {0, 1}
    Nodes <- MCNodes
    Proofs <- MCProofs
    NodeHash <- MCNodeHash
    EmptyRoot <- MCEmptyRoot
    StateRoots <- MCStateRoots
    Addresses <- MCAddresses
    Slots <- MCSlots
    AddrKey <- MCAddrKey
    SlotKey <- MCSlotKey
    AccountTruth <- MCAccountTruth
    StorageTruth <- MCStorageTruth
SPECIFICATION Spec
INVARIANT
    StorageValueTotal
