-------------------------- MODULE MC_StorageProof --------------------------
(***************************************************************************)
(* A small instance of StorageProof: binary nibbles, 3-nibble account     *)
(* keys and 4-nibble slot keys, two                                        *)
(* verified state roots that share subtries, two storage tries and the     *)
(* empty one, and forged nodes a relayer may add.                          *)
(*                                                                         *)
(* Storage trie A (root D(10)): ext <<0>> -> branch                        *)
(*   -0-> ext <<0>> -> branch -0-> leaf <<>> V1     (slot 0, 0000)         *)
(*                            -1-> leaf <<>> 100    (slot 1, 0001)         *)
(*   -1-> leaf <<0,1>> V3                           (slot 5, 0101)         *)
(* Storage trie B (root D(20)): one leaf <<1,1,1,1>> V4 (slot 15, 1111)    *)
(* Slot 1 holds the integer 100, stored as its RLP-stripped single byte.   *)
(*                                                                         *)
(* State root D(1): account 2 (010) -> A, account 1 (001) -> empty         *)
(* storage, account 4 (100) absent.  State root D(2): account 2 -> B,      *)
(* account 1 unchanged (shared leaf), account 4 -> A.  Accounts 3 (011)   *)
(* and 6 (110) are absent under both: a leaf with another path, an empty  *)
(* branch slot.                                                            *)
(***************************************************************************)
EXTENDS StorageProof

\* A digest: first byte 160, last byte n.
D(n) == [i \in 1..32 |-> IF i = 1 THEN 160 ELSE IF i = 32 THEN n ELSE 0]

MCEmptyRoot == D(99)
CodeHash == D(98)

\* A full 32-byte storage value whose first byte is b.
Full(b) == [i \in 1..32 |-> IF i = 1 THEN b ELSE i]

\* The 32-byte word of a small integer.
Word(n) == [i \in 1..32 |-> IF i = 32 THEN n ELSE 0]

\* An account leaf payload: [nonce, balance, storage_root, code_hash].
Account(root, nonce) ==
    RlpList(<< RlpData(<<nonce>>), RlpData(<< >>), RlpData(root), RlpData(CodeHash) >>)

\* Every node paired with its digest.
Entries ==
  { \* storage trie A
    << Leaf(<< >>, RlpData(Full(200))), D(11) >>,
    << Leaf(<< >>, RlpData(<<100>>)), D(12) >>,
    << Branch([x \in {0, 1} |-> IF x = 0 THEN D(11) ELSE D(12)]), D(13) >>,
    << Extension(<<0>>, D(13)), D(14) >>,
    << Leaf(<<0, 1>>, RlpData(Full(201))), D(15) >>,
    << Branch([x \in {0, 1} |-> IF x = 0 THEN D(14) ELSE D(15)]), D(16) >>,
    << Extension(<<0>>, D(16)), D(10) >>,
    \* storage trie B
    << Leaf(<<1, 1, 1, 1>>, RlpData(Full(202))), D(20) >>,
    \* state trie D(1)
    << Leaf(<<0>>, Account(D(10), 1)), D(31) >>,
    << Leaf(<<1>>, Account(MCEmptyRoot, 0)), D(33) >>,
    << Branch([x \in {0, 1} |-> IF x = 0 THEN D(33) ELSE D(31)]), D(34) >>,
    << Branch([x \in {0, 1} |-> IF x = 0 THEN D(34) ELSE NoChild]), D(1) >>,
    \* state trie D(2)
    << Leaf(<<0>>, Account(D(20), 2)), D(41) >>,
    << Branch([x \in {0, 1} |-> IF x = 0 THEN D(33) ELSE D(41)]), D(42) >>,
    << Leaf(<<0, 0>>, Account(D(10), 0)), D(43) >>,
    << Branch([x \in {0, 1} |-> IF x = 0 THEN D(42) ELSE D(43)]), D(2) >>,
    \* forged: account 2 with trie B's root, a branch over it, a storage leaf
    << Leaf(<<0>>, Account(D(20), 1)), D(51) >>,
    << Branch([x \in {0, 1} |-> IF x = 0 THEN D(33) ELSE D(51)]), D(52) >>,
    << Leaf(<<0, 1>>, RlpData(Full(203))), D(53) >> }

MCNodes == {e[1] : e \in Entries}

MCNodeHash == [n \in MCNodes |-> (CHOOSE e \in Entries : e[1] = n)[2]]

\* Every node at once, and every node but one: the proofs that matter,
\* since a lookup only reaches nodes by digest.
MCProofs == {MCNodes} \cup {MCNodes \ {n} : n \in MCNodes}

\* The nibble paths of k in 0..7 and in 0..15, most significant first.
Path3(k) == << k \div 4, (k \div 2) % 2, k % 2 >>

Path4(k) == << k \div 8 >> \o Path3(k % 8)

MCAddresses == {1, 2, 3, 4, 6}
MCSlots == 0..15
MCAddrKey == [a \in MCAddresses |-> Path3(a)]
MCSlotKey == [s \in MCSlots |-> Path4(s)]

MCAccountTruth ==
    [r \in {D(1), D(2)} |->
        [a \in MCAddresses |->
            CASE a = 1 -> MCEmptyRoot
              [] a = 2 -> IF r = D(1) THEN D(10) ELSE D(20)
              [] a = 4 -> IF r = D(1) THEN NoValue ELSE D(10)
              [] a \in {3, 6} -> NoValue]]

MCStorageTruth ==
    [r \in {D(10), D(20), MCEmptyRoot} |->
        [s \in MCSlots |->
            CASE r = D(10) /\ s = 0 -> Full(200)
              [] r = D(10) /\ s = 1 -> Word(100)
              [] r = D(10) /\ s = 5 -> Full(201)
              [] r = D(20) /\ s = 15 -> Full(202)
              [] OTHER -> NoValue]]

MCStateRoots == {D(1), D(2)}
=============================================================================
