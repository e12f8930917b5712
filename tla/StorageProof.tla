--------------------------- MODULE StorageProof ---------------------------
(***************************************************************************)
(* The storage proof verifier of src/pallets/succinct/src/target_amb.rs:   *)
(* get_storage_root looks up an account leaf in the state trie and returns *)
(* its storage root; get_storage_value looks up a slot in a storage trie   *)
(* and returns its value.                                                  *)
(*                                                                         *)
(* The trie lookup itself (trie_db over a MemoryDB built from the proof    *)
(* nodes) is an external crate and follows spec section 4.5: starting at  *)
(* the root, the node with the expected hash is fetched from the nodes the *)
(* relayer supplied and the key's nibble path is followed through branch,  *)
(* extension and leaf nodes.  Hashing is an injective map from nodes to    *)
(* 32-byte digests, so a tampered node is a different node with a         *)
(* different digest.  RLP items are kept as their structure (a byte string *)
(* or a list of items), not as bytes.                                      *)
(*                                                                         *)
(* The code under src/ is the handling of the lookup's result: the unwraps *)
(* and error mappings, the RLP item checks and H256::from_slice.           *)
(***************************************************************************)
EXTENDS OutputCodec

CONSTANTS
    Nibbles,        \* the digits of a key path (0..15 in Ethereum)
    Nodes,          \* every trie node a relayer can supply: honest or forged
    Proofs,         \* the node sets a relayer may supply as one proof
    NodeHash,       \* NodeHash[n]: the keccak digest of node n
    EmptyRoot,      \* the digest of the empty trie
    StateRoots,     \* state roots of verified headers
    Addresses,      \* account addresses the host asks about
    Slots,          \* storage slot hashes the host asks about
    AddrKey,        \* AddrKey[a]: the nibble path of keccak256(a)
    SlotKey,        \* SlotKey[s]: the nibble path of keccak256(s)
    AccountTruth,   \* AccountTruth[r][a]: storage root of a under state root r
    StorageTruth,   \* StorageTruth[r][s]: value of slot s under storage root r
    NoValue         \* the value of a result that has none, and an absent entry

\* An RLP item: a byte string, or a list of items.
RlpData(bytes) == [list |-> FALSE, bytes |-> bytes]
RlpList(items) == [list |-> TRUE, items |-> items]

\* A child slot of a branch node that holds no child: the empty string.
NoChild == << >>

\* The three node kinds of a Merkle-Patricia trie, each referring to its
\* children by digest.  A leaf keeps the rest of its key and an RLP item.
Leaf(path, value) == [kind |-> "leaf", path |-> path, value |-> value]
Extension(path, child) == [kind |-> "ext", path |-> path, child |-> child]
Branch(children) == [kind |-> "branch", children |-> children]

ASSUME HashAssumption ==
    /\ NodeHash \in [Nodes -> Bytes32]
    /\ \A m, n \in Nodes : NodeHash[m] = NodeHash[n] => m = n
    /\ EmptyRoot \notin {NodeHash[n] : n \in Nodes}
    /\ Proofs \subseteq SUBSET Nodes

VARIABLES
    rootResult,    \* outcome of the last get_storage_root
    valueResult    \* outcome of the last get_storage_value

vars == <<rootResult, valueResult>>

-----------------------------------------------------------------------------
(***************************************************************************)
(* TrieDB::get: the node with digest h is fetched from the proof nodes     *)
(* (a missing node is an error, IncompleteDatabase or InvalidStateRoot),   *)
(* then the path is consumed.  The empty-trie root holds no key.  The     *)
(* outcome is "found" with an item, "absent", or "error".                  *)
(***************************************************************************)
Lookup(status, item) == [status |-> status, item |-> item]

RECURSIVE TrieGet(_, _, _)

TrieGet(proof, h, path) ==
    IF h = EmptyRoot THEN Lookup("absent", NoValue)
    ELSE IF \A n \in proof : NodeHash[n] # h THEN Lookup("error", NoValue)
    ELSE LET node == CHOOSE n \in proof : NodeHash[n] = h
             k == Len(node.path)
         IN  CASE node.kind = "leaf" ->
                    IF node.path = path THEN Lookup("found", node.value)
                    ELSE Lookup("absent", NoValue)
               [] node.kind = "ext" ->
                    IF k <= Len(path) /\ SubSeq(path, 1, k) = node.path
                    THEN TrieGet(proof, node.child, SubSeq(path, k + 1, Len(path)))
                    ELSE Lookup("absent", NoValue)
               [] node.kind = "branch" ->
                    IF path = << >> \/ node.children[path[1]] = NoChild
                    THEN Lookup("absent", NoValue)
                    ELSE TrieGet(proof, node.children[path[1]], Tail(path))

\* Mutant: H256::from_slice without its length assertion.
MutantFromSliceUnchecked(bytes) == FALSE

\* H256::from_slice asserts a 32-byte slice.
FromSliceAborts(bytes) == Len(bytes) # 32

(***************************************************************************)
(* get_storage_value: a lookup error or an absent key is StorageError;    *)
(* Rlp::data fails on a list (CannotDecodeItems); an empty payload is      *)
(* CannotDecodeItems; otherwise H256::from_slice of the payload, which     *)
(* aborts unless it has exactly 32 bytes.                                  *)
(***************************************************************************)
StorageValue(status, value) == [status |-> status, value |-> value]

\* Mutant: a short payload is copied into the front of a zeroed H256
\* (zero padding on the right) instead of being rejected.
MutantValuePadRight(slot, root, proof) ==
    LET got == TrieGet(proof, root, SlotKey[slot]) IN
    IF got.status # "found" THEN StorageValue("StorageError", NoValue)
    ELSE IF got.item.list THEN StorageValue("CannotDecodeItems", NoValue)
    ELSE IF Len(got.item.bytes) = 0 \/ Len(got.item.bytes) > 32
         THEN StorageValue("CannotDecodeItems", NoValue)
    ELSE StorageValue("Ok", [i \in 1..32 |-> IF i <= Len(got.item.bytes)
                                             THEN got.item.bytes[i] ELSE 0])

get_storage_value(slot, root, proof) ==
    LET got == TrieGet(proof, root, SlotKey[slot]) IN
    IF got.status # "found" THEN StorageValue("StorageError", NoValue)
    ELSE IF got.item.list THEN StorageValue("CannotDecodeItems", NoValue)
    ELSE IF Len(got.item.bytes) = 0 THEN StorageValue("CannotDecodeItems", NoValue)
    ELSE IF FromSliceAborts(got.item.bytes) THEN StorageValue("PanicFromSlice", NoValue)
    ELSE StorageValue("Ok", got.item.bytes)

(***************************************************************************)
(* get_storage_root: trie.get(..).unwrap().unwrap() aborts on a lookup     *)
(* error and on an absent account; item_count fails on a byte string       *)
(* (StorageError); a list of other than 4 items is AccountNotFound; item   *)
(* 2 must be a byte string (StorageError) and goes through                 *)
(* H256::from_slice.                                                       *)
(***************************************************************************)

\* Mutant: the code hash (item 3) is taken for the storage root.
MutantAccountItem(r) == r.items[4]

\* The storage root item of an account leaf: r.at(2).
AccountItem(r) == r.items[3]

get_storage_root(proof, address, state_root) ==
    LET got == TrieGet(proof, state_root, AddrKey[address]) IN
    IF got.status # "found" THEN StorageValue("PanicUnwrap", NoValue)
    ELSE IF ~got.item.list THEN StorageValue("StorageError", NoValue)
    ELSE IF Len(got.item.items) # 4 THEN StorageValue("AccountNotFound", NoValue)
    ELSE IF AccountItem(got.item).list THEN StorageValue("StorageError", NoValue)
    ELSE IF FromSliceAborts(AccountItem(got.item).bytes)
         THEN StorageValue("PanicFromSlice", NoValue)
    ELSE StorageValue("Ok", AccountItem(got.item).bytes)

-----------------------------------------------------------------------------
(***************************************************************************)
(* The host composes the two lookups (spec section 2): the storage root of *)
(* an account is looked up under a verified state root, then a slot is     *)
(* looked up under that storage root.  The relayer chooses which nodes to  *)
(* supply for each lookup, honest or forged, and may leave nodes out.      *)
(***************************************************************************)
Init ==
    /\ rootResult = [status |-> "None", value |-> NoValue,
                     stateRoot |-> NoValue, address |-> NoValue]
    /\ valueResult = [status |-> "None", value |-> NoValue, slot |-> NoValue]

GetStorageRoot(address, stateRoot, proof) ==
    LET r == get_storage_root(proof, address, stateRoot) IN
    /\ rootResult' = [status |-> r.status, value |-> r.value,
                      stateRoot |-> stateRoot, address |-> address]
    /\ valueResult' = [status |-> "None", value |-> NoValue, slot |-> NoValue]

GetStorageValue(slot, proof) ==
    LET r == get_storage_value(slot, rootResult.value, proof) IN
    /\ rootResult.status = "Ok"
    /\ valueResult' = [status |-> r.status, value |-> r.value, slot |-> slot]
    /\ UNCHANGED rootResult

Next ==
    \/ \E a \in Addresses, r \in StateRoots, p \in Proofs : GetStorageRoot(a, r, p)
    \/ \E s \in Slots, p \in Proofs : GetStorageValue(s, p)

Spec == Init /\ [][Next]_vars

-----------------------------------------------------------------------------
RootStatus == {"None", "Ok", "PanicUnwrap", "StorageError", "AccountNotFound",
               "PanicFromSlice"}

ValueStatus == {"None", "Ok", "StorageError", "CannotDecodeItems", "PanicFromSlice"}

TypeOK ==
    /\ rootResult.status \in RootStatus
    /\ rootResult.value \in IF rootResult.status = "Ok" THEN Bytes32 ELSE {NoValue}
    /\ valueResult.status \in ValueStatus
    /\ valueResult.value \in IF valueResult.status = "Ok" THEN Bytes32 ELSE {NoValue}

(***************************************************************************)
(* No false accept for accounts (spec sections 4.5 and 8): whatever nodes  *)
(* the relayer supplies, honest, forged or incomplete, a storage root that *)
(* get_storage_root returns is the one the account really has under the    *)
(* verified state root.                                                    *)
(***************************************************************************)
StorageRootSound ==
    rootResult.status = "Ok" =>
        rootResult.value = AccountTruth[rootResult.stateRoot][rootResult.address]

(***************************************************************************)
(* No false accept for storage, through the composition: a value that      *)
(* get_storage_value returns under the storage root get_storage_root       *)
(* produced is the value the slot really holds in that account.            *)
(***************************************************************************)
StorageValueSound ==
    valueResult.status = "Ok" =>
        /\ rootResult.value \in DOMAIN StorageTruth
        /\ valueResult.value = StorageTruth[rootResult.value][valueResult.slot]

\* get_storage_root never aborts: a missing node or an absent account is
\* StorageError (spec section 7), not a panic of unwrap().
StorageRootTotal == rootResult.status # "PanicUnwrap"

\* get_storage_value never aborts: every slot a complete honest proof
\* reaches yields its value or a typed error (spec section 7), not a panic
\* of H256::from_slice.
StorageValueTotal == valueResult.status # "PanicFromSlice"

=============================================================================
