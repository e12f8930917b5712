# TLA+ verification of the succinct light-client pallet core

This directory models the verification core of the bridge pallet in
`src/pallets/succinct/src/`. It holds TLA+ modules, TLC configurations that
model-check them on small instances, and TLAPS proofs of the main invariants
for every value of the constants.

## 1. The system

`spec.md` splits the core into five parts. The code is in `state.rs` and
`target_amb.rs`.

| Part | Source | State | Operations |
|---|---|---|---|
| Field/Group codec | `state.rs` 14–86 | none | `CircomProof::to_proof`, `PublicSignals::get` (decimal strings → field elements; `unwrap` on every parse) |
| Verified-output decoder | `state.rs` 131–193 | none | `parse_step_output` (74-byte layout), `parse_rotate_output` (≤ 32-byte big-endian U256) |
| Verified-call cache + state | `state.rs` 88–169 | `State`, `VerifiedStepCallStore`, `VerifiedRotateCallStore`, each a single record with a `Default` | written by the host after a fulfilment |
| Message codec | `target_amb.rs` 14–114 | none | `decode_message` (69-byte header + payload), `decode_message_data` (ABI words) |
| Storage proof verifier | `target_amb.rs` 116–176 | none | `get_storage_root`, `get_storage_value` over `trie_db` |

`src/node/src/lib.rs` only declares modules. It has no state and no
operation.

How the parts interact (spec §2): an untrusted relayer submits a function
id, an input hash, raw output bytes and a proof. The proof strings are
converted and the output is decoded. The verified-call store either already
holds that (function id, input hash) or the pairing oracle is asked. On
success the store is overwritten with the new key and its decoded output. A
step whose participation reaches `finality_threshold` yields a finalized
header and an execution state root. A message relayed later is decoded, and
its payload is ABI-decoded. The dispatch, the pairing check and the recording
of headers are host code that is not under `src/`, so they are modelled from
spec §§2, 4.3 and 7 and marked `spec_modelled` in `PROJECT.json`.

What makes this hard is not concurrency: each call is one atomic, reverting
transaction. It is the following:
- attacker-controlled byte buffers;
- slices and `unwrap`s that abort;
- a store that answers a later call with what an earlier call verified;
- long sequences of forged, truncated and valid calls that must never leave
  a forged value in the store or among the headers.

## 2. Modules

| Module | Models | Notes |
|---|---|---|
| `OutputCodec` | `parse_step_output`, `parse_rotate_output`, `VerifiedStepOutput` | A byte is a natural below 256. H256 and U256 are kept as their 32 big-endian bytes. Each decoder has an abort condition (`StepOutputAborts`: fewer than 74 bytes; `RotateOutputAborts`: more than 32 bytes). `EncodeStep`/`EncodeBE` are an independent encoder of the spec §4.2 layout, written byte by byte (byte `i` of the 74), used to build the true outputs and in the round-trip lemmas. |
| `LightClient` | `State`, both stores and their `Default`s, the host flow | See below. |
| `VerifiedCalls` | — | Abstract specification of what a call promises: a failure changes only the result; an acceptance returns the circuit's true output for the key asked, and a step must meet the threshold in force. |
| `VerifiedCache` | — | Abstract specification of the cache contract of spec §4.3: a memo table from (kind, key) to the proved value. An entry is put only by a verified miss. Other entries may be evicted, because the code keeps one record per kind. |
| `OutputCodecProofs` | — | TLAPS lemmas about slices and the decoders. |
| `LightClientProofs` | — | TLAPS proofs about `LightClient`: types and store coherence. |
| `LightClientSoundness` | — | TLAPS proofs of `ResultSound` and `HeaderSound`. |
| `LightClientRefinement` | — | TLAPS proofs that `LightClient` implements `VerifiedCalls` and `VerifiedCache`, and of the store discipline. |
| `MessageCodecProofs` | — | TLAPS proofs about `MessageCodec`. |
| `MessageCodec` | `decode_message`, `decode_message_data`, `Message`, `MessageData` | The host step decodes a message, then its payload. `EncodeMessage` is an independent encoder of the §4.4 layout. |
| `StorageProof` | `get_storage_root`, `get_storage_value`, `StorageError` | The trie lookup of `trie_db` is modelled from spec §4.5 (`TrieGet`); the code's result handling is translated. |
| `FieldCodec` | `CircomProof::new`, `CircomProof::to_proof`, `PublicSignals::from`, `PublicSignals::get` | ark-ff 0.3's decimal `FromStr` over scaled-down moduli; strings kept as characters. |
| `MC_LightClient`, `MC_MessageCodec`, `MC_StorageProof`, `MC_FieldCodec` | — | Instances for TLC. |

### LightClient

The state follows the code, plus two host variables:
- `lcState`: `State`, abstracted to `updater` and `finality_threshold`, the
  fields anything reads;
- `stepStore`, `rotateStore`: the store records;
- `headers`: slot → roots, which the host records;
- `result`: the outcome of the last call;
- `verified`: a history variable of the (kind, key) pairs the oracle
  accepted. It observes and changes no behaviour.

The actions, one per host operation:
- `FulfillStep(f, h, out, proof)` takes the checks in order. A malformed
  proof aborts (`to_proof` unwrap). A short output aborts
  (`parse_step_output` slices). On a store miss an unverifiable proof fails.
  Participation below the threshold fails. Otherwise, on a miss, the store
  is overwritten (`StepStoreAfter`) and the header is recorded under the
  slot. A failing call
  leaves storage unchanged, because the dispatch reverts.
- `FulfillRotate`: the same, for the rotate circuit and `parse_rotate_output`.
- `UpdateState(caller, updater, threshold)`: only the current updater may
  change the configuration.

The pairing oracle is `Verify(k, out, proof)`: a `"Valid"` proof verifies
exactly the output the circuit computes for key `k` (`TrueOutput(k)`,
derived from the constant `Facts`). Proofs are abstracted to
`{"Valid", "Invalid", "Malformed"}`, so field arithmetic is not modelled.

### MessageCodec

- `DecodeMessage(m)` runs `decode_message` on a relayed buffer. It aborts
  below 69 bytes.
- `DecodeMessageData` runs `decode_message_data` on the decoded payload. It
  yields `CannotDecodeMessageData` below 96 bytes.

### FieldCodec

Every coordinate and public input goes through `FromStr` for a prime field
and `unwrap()`. The code calls `G1Affine::new(x, y, false)` with three
arguments, which is the ark-ec 0.3 API, so the parser is ark-ff 0.3's:
- an empty string is an error, and `"0"` is zero;
- any character other than a decimal digit is an error (`NonDigit` stands
  for all of them), and so is a leading `0`;
- the value is accumulated as `res * 10 + digit` in the field, so it is
  reduced modulo the field order after every digit (`FromStrValue`, a
  recursive function over the string's prefixes).

The fields are scaled down to `FqModulus` (coordinates) and `FrModulus`
(public inputs), with Fr < Fq as in BN254. `G1Affine::new` and
`G2Affine::new` check nothing in ark-ec 0.3, so a point is its
coordinates. `QuadExtField::new(pi_b[i][0], pi_b[i][1])` gives `c0` and `c1`
of the i-th G2 coordinate.

Actions:
- `ToProof(a, b, c)` is `CircomProof::new` followed by `to_proof`. It aborts
  (`Panic`) when a vector is too short to index or a string is rejected.
- `GetSignals(s)` is `PublicSignals::from` followed by `get`. It aborts on
  any rejected string.

`Decimal(n)` is the reference: the canonical decimal spelling of `n`,
computed from `n` alone, without the parser.

### StorageProof

`TrieGet(proof, h, path)` is `TrieDB::get` over the relayer's nodes:
- the node whose digest is `h` is looked up among the proof nodes, and a
  missing node is an error;
- a branch consumes one nibble, an extension its path, and a leaf must match
  the rest of the key;
- the empty-trie root holds nothing.

RLP items are kept as structure (`RlpData`, `RlpList`). Hashing is the
injective constant `NodeHash`, so a forged node is a different node with a
different digest (`HashAssumption`). `TrieGet` is `RECURSIVE`, so no theorem
is stated in or above this module.

The translated code:
- `get_storage_value`: lookup error or absent key → `StorageError`; list or
  empty payload → `CannotDecodeItems`; otherwise `H256::from_slice`, which
  aborts (`PanicFromSlice`) unless the payload has 32 bytes.
- `get_storage_root`: lookup error or absent account → `PanicUnwrap` (the
  double `unwrap`); byte string → `StorageError`; not 4 items →
  `AccountNotFound`; item 2 (`AccountItem`) must be a byte string and goes
  through `H256::from_slice`.

The host actions compose them (spec §2). `GetStorageRoot(a, r, p)` looks up
account `a` under a verified state root `r` with proof `p`.
`GetStorageValue(s, p)` looks up slot `s` under the storage root just
returned. `AccountTruth` and `StorageTruth` give what the honest tries hold.

## 3. Runs

| Run | cfg | Expect | What it shows |
|---|---|---|---|
| `lightclient` | `MC_LightClient.cfg` | pass | Over every interleaving of fulfilments and updates (about 4,000 states), the stores stay coherent (`StoresCoherent`), every recorded header is a pair some step proved for that slot (`HeaderSound`), and every successful call returns what the circuit proved for the asked key (`ResultSound`). |
| `lightclient_refines` | `MC_LightClient_Refines.cfg` | pass | `LightClient` implements `VerifiedCalls` (`Refines == VC!Spec`, with `lcState`, `headers` and `result` mapped to themselves and the stores and `verified` hidden). This is stronger than `ResultSound` and `HeaderSound`: it also checks that headers change only on an accepted step of that output, and that a store hit is checked against the threshold in force at the later call. `StoreDiscipline` is an action property: a store changes only in a call that missed it and succeeded, and then answers for that call's key with the value it returned. `CacheRefines == VCache!Spec` maps the two store records onto a memo cache (`INSTANCE VerifiedCache WITH cache <- CacheOf`, one entry per non-Default record). An entry appears only by a verified miss of its kind and holds the circuit's value for its key. |
| `step_output_truncated` | `MC_LightClient_StepOutputTotal.cfg` | violation | A 73-byte step output aborts the call (spec asks for `TruncatedOutput`). |
| `rotate_output_oversized` | `MC_LightClient_RotateOutputTotal.cfg` | violation | A 33-byte rotate output aborts in `U256::from_big_endian` (spec asks for an error). |
| `cache_retains` | `MC_LightClient_CacheRetains.cfg` | violation | Verifying a second key evicts the first from the single-record store. Spec §§1 and 9 describe a memoizing, never-evicting cache. |
| `message_codec` | `MC_MessageCodec.cfg` | pass | Every accepted message re-encodes to its buffer (`MessageLossless`). |
| `message_truncated` | `MC_MessageCodec_MessageTotal.cfg` | violation | A 68-byte message aborts (spec asks for `TruncatedMessage`). |
| `storage_proof` | `MC_StorageProof.cfg` | pass | Whatever nodes the relayer supplies (all, all but one, forged ones added), an accepted storage root is the account's under that state root (`StorageRootSound`), and an accepted slot value is what the slot holds under it (`StorageValueSound`). |
| `storage_root_unwrap` | `MC_StorageProof_StorageRootTotal.cfg` | violation | An absent account or a missing node aborts `get_storage_root` in `unwrap` (spec §7 asks for `StorageError`). |
| `field_codec` | `MC_FieldCodec.cfg` | pass | Every coordinate of a converted proof is the number its string spells, reduced into Fq, in the slot of its string (`ProofDenotes`). Every public input is its string's number reduced into Fr, one per string, in order (`SignalsDenote`). A malformed string never yields a value. |
| `field_proof_noncanonical` | `MC_FieldCodec_ProofCanonical.cfg` | violation | `to_proof` accepts the string "17" under modulus 13 and turns it into 4. Spec §3 requires such an out-of-range string to fail with `InvalidFieldElement`, so two different proof strings convert to the same proof. |
| `storage_value_short` | `MC_StorageProof_StorageValueTotal.cfg` | violation | The integer 100, stored as one RLP-stripped byte, aborts `get_storage_value` in `H256::from_slice` under a complete honest proof. |

Each property of a passing run has a mutant in `PROJECT.json`: a plausible
bug of the mapped code (a swapped or short slice, an output not bound to the
proof, a little-endian U256 read, a little-endian participation, a payload offset off by one, a
two-word length check, `from_slice` without its assertion, the code hash
taken for the storage root, a short value zero-padded on the wrong side,
the two halves of a G2 coordinate swapped, leading zeros accepted, public
inputs parsed in Fq, a step store rewritten with the relayer's output on
a hit). TLC finds the property violated under that mutant.

### Bounds and why they suffice

`MC_LightClient` has:
- two function ids and two input hashes, giving four keys: two step facts
  and two rotate facts;
- outputs:
  - the true encoding of each fact;
  - a forged step output (the header root of the other step);
  - a 73-byte truncation and a 75-byte extension of a true step output;
  - a 33-byte rotate buffer;
  - the empty buffer, which decodes to rotate value zero;
- three proof classes;
- two accounts;
- thresholds {0, 400, 510}. These lie on both sides of the participations
  509 and 300; 509 and the slot 7634848 come from the unit test in
  `state.rs`.

Every branch of both fulfilments is reached. So is every store transition:
miss and write, hit, and overwrite by the other key. So is a forged output
with a valid proof, and a threshold raised between two calls. The run
reaches depth 6, which is enough to write, overwrite and hit both stores.

`MC_MessageCodec` has:
- headers with version {0, 1, 255}, nonces that set the low, third and
  fourth bytes, and source chain ids that set the low and fourth bytes;
- the address fields of the unit-test message;
- payloads of 0, 2 (the unit-test payload), 70, 96 and 97 bytes;
- a 68-byte and an empty buffer.

The 70-byte payload sits between the two-word and three-word lengths, so
both outcomes of `decode_message_data` follow an accepted header. No
property is stated about the payload decoder: whether `ethabi::decode`
needs three words is a fact about the library, which `MessageDataDecodes`
states, and a property could only repeat it.

`MC_StorageProof` has binary nibbles, 3-nibble account keys and 4-nibble
slot keys (all 16 slots are asked). It has two state roots that share an
account leaf and storage trie A. Storage trie A reaches every node kind:
- an extension at the root;
- an extension followed by a branch;
- leaves with empty and non-empty paths;
- a 1-byte value among full 32-byte values.

Trie B is a single leaf; there is also the empty trie. An account moves from
A to B between the roots, and another appears. Absent accounts and slots
cover each way a key can miss: an empty branch slot, a leaf with another
path, an extension mismatch. Proofs are every node, or every node but one,
with forged nodes always offered. A lookup reaches nodes only by digest, so
removing one node at a time covers every missing-node failure. The run has
103 states.

`MC_FieldCodec` has moduli Fq = 13 and Fr = 11. Its strings are:
- canonical numbers: "1", "4" and "0";
- "12", which lies between the two moduli;
- "17", which lies above both and reduces to 4 in Fq and 6 in Fr;
- a leading zero ("05"), the empty string, and a string with a non-digit.

The proofs are a base proof with eight different coordinates, so that any
swap of two slots shows. Each variant replaces one coordinate by each
string. There are also proofs with a short `pi_a`, `pi_b`, `pi_b` row or
`pi_c`. The signals are every vector of at most two strings. The run has
5,032 states.

TLC's integers are 32-bit, so the `u64` nonce and slot values stay below
2^31. The type theorem holds for every natural number.

### Fairness

None is assumed and no liveness property is stated. Every operation is one
atomic call triggered by an external relayer or the updater. The code
schedules nothing and promises no progress. Spec §1 lists liveness and
ordering across updates as non-goals.

## 4. Proofs

`OutputCodecProofs` holds the lemmas both proof modules cite:
- `SubSeqType`: a slice is a tuple of the slice length;
- `StepSlices`, `U16FromBEType`, `U64FromBEType` (Horner's rule, one step
  per byte);
- `ParseStepType`, `ParseRotateType`: a decoder that does not abort yields
  a typed value;
- `U64RoundTrip` and `U16RoundTrip`: `u64::from_be_bytes` and
  `u16::from_be_bytes` invert the big-endian reference encoder `EncodeBE`
  for every u64 (resp. u16) value. The proof takes the encoder apart one
  byte at a time (`ShiftBytesValues`) and rebuilds the value by Horner's
  rule with the division identity `256 * (n \div 256) + n % 256 = n`;
- `StepRoundTrip`: `parse_step_output(EncodeStep(r)) = r` for every step
  output whose slot is a u64. The encoder is byte-indexed, so each slice is
  read back pointwise (`SubSeq` unfolds to a function on `1..k`), and the
  two integer fields follow from `U64RoundTrip` and `U16RoundTrip`. It also
  gives `Len(EncodeStep(r)) = 74`;
- `RotateRoundTrip`: a 32-byte poseidon is not aborted on and decodes to
  itself.

### `LightClientProofs`

Both theorems are proved from `KeysAssumption` and `ConstantsAssumption`
(`LightClientSoundness` also uses `SlotsAssumption`, that a step fact's
slot is a u64):
- the constants are naturals;
- outputs are byte sequences;
- thresholds are u16 values;
- `Facts` maps every key to a typed fact.

- `TypeCorrect == Spec => []TypeOK`. `TypeOK` is inductive. The proof has
  one lemma per action and a step per branch, and rests on the decoder
  lemmas.
- `StoresCoherence == Spec => []StoresCoherent`. `StoresCoherent` alone is
  not inductive: a store hit feeds the stored output into the headers and
  the result, and a write must produce a typed record. The inductive
  invariant is therefore `IInv == TypeOK /\ StoresCoherent`. A store is
  written only on the branch where the oracle accepted `(f, h, out)`, which
  forces `out = TrueOutput(<<f, h>>)`. So the stored value is
  `parse_*_output(TrueOutput(key))`.

### `LightClientSoundness`

- `ResultSoundness == Spec => []ResultSound` and
  `HeaderSoundness == Spec => []HeaderSound`. Both follow from
  `SoundInvariant == Spec => []SInv`, where
  `SInv == TypeOK /\ StepStoreFact /\ RotateStoreFact /\ ResultSound /\ HeaderSound`.
- Neither property is inductive alone. A store hit answers without the
  oracle, so the invariant must say that a non-Default store holds the
  fact of its key (`StepStoreFact`, `RotateStoreFact`).
- A hit cannot be on the Default store, because a real input hash is never
  the zero hash (`StepHitNotDefault`).
- On a miss, the oracle forces `out = TrueOutput(k)`. `FactOfStepOutput`
  shows that such an output is a step fact's encoding: a rotate fact's
  32 bytes would have made the step decoder abort. By `StepRoundTrip`, it
  then decodes to that fact. `FactOfRotateOutput` is the converse for the
  rotate decoder, whose 32-byte limit rules out a 74-byte step encoding.
- `HeaderSound` is preserved because the header written at
  `output.finalized_slot` is `RootsOf(output)`, and `output` is the step
  fact of the call's key.
- There is one lemma per action, and one case per branch of the
  fulfilment's `IF` chain.

### `MessageCodecProofs`

Both theorems are proved from `MessagesAssumption` (buffers are byte
sequences):
- `MessageTypeCorrect == Spec => []TypeOK`. `DecodeMessageType` shows that
  each fixed slice of a buffer of at least 69 bytes has its field's width,
  and that the payload is a byte sequence (`SubSeqTail`, which covers the
  empty payload of a 69-byte buffer). `DecodeMessageDataType` does the same
  for the two words.
- `MessageLosslessness == Spec => []MessageLossless`. `MessageLossless`
  is not inductive by itself: it says nothing about where an accepted
  message came from. The invariant `LInv == TypeOK /\ MsgDecoded` records
  that an accepted message is `decode_message` of its input and that the
  input holds the 69-byte header. `DecodeLossless` then shows
  `EncodeMessage(decode_message(m)) = m` for every such buffer, one byte
  region at a time. It rests on the reverse round-trips
  `U64BytesRoundTrip` and `U32BytesRoundTrip`
  (`EncodeBE(U64FromBE(b), 8) = b`). Those lemmas peel one Horner step at a
  time with `HornerStep`: `(256 * h + c) \div 256 = h` and `% 256 = c`.
  `EncodeMessage` is written index by index (byte i of the layout), not as
  a concatenation, so that each region is a direct lookup for the prover.

### `LightClientRefinement`

- `Refinement == Spec => Refines`, where `Refines == VC!Spec`. It is the
  argument of the run `lightclient_refines`, for every value of the
  constants. The refinement mapping is the identity on `lcState`,
  `headers` and `result`. The stores and `verified` are hidden.
  - `Init` is `VC!Init`.
  - Under `SInv`, every step of `Next` is a step of `VC!Next` or leaves
    `<<lcState, headers, result>>` unchanged. There is one lemma per
    action.
  - In `FulfillStepRefines`, each failing branch is `VC!Fail`, with its
    status in `FailStatus`. The accepting branch is `VC!AcceptStep`.
  - `StepOutputIsFact` shows that the output used is `Facts[k].step`,
    whether it comes from the store (`StepStoreFact`) or from the oracle
    and `FactOfStepOutput`.
  - `TypeOK` puts participation and threshold in `U16`. That turns the
    code's `~(participation < threshold)` into the abstract
    `participation >= threshold`.
  - Rotate is the same (`RotateOutputIsFact`), and `UpdateState` is
    `VC!Update`.
  - The temporal step combines `SoundInvariant` with these lemmas by PTL.
- `CacheRefinement == Spec => CacheRefines`. The refinement mapping is
  `cache <- CacheOf`. It has one entry, `<<kind, <<f, h>>>>`, per store
  record that is not its Default, with the record's value.
  - `Init` maps to the empty cache.
  - A step that changes the step record is, by `StepStoreAfter`, a
    verified miss. It is `VCache!Put` of `<<"step", k>>`, with the rotate
    record's entry kept.
  - The entry is new because the call missed: the old step record had
    another key, and the rotate entry has another kind.
  - Its value is `Facts[k].step` (`StepOutputIsFact`).
  - `Facts[k].kind = "step"` holds for the same reason.
  - The record is not the Default, because a real input hash is not zero.
  - Every other step leaves both records unchanged, and so the cache
    (`StoresUnchangedCache`).
  - Rotate is symmetric. The proof rests on `SoundInvariant`, like
    `Refinement`.
- `StoreDisciplined == Spec => StoreDiscipline`. It needs no invariant.
  Each action writes a store only in its accepting branch, and only on a
  miss (`StepStoreAfter`). That branch's result carries the same key and
  value.

### Only model-checked
- The `FieldCodec` properties. What `FromStrValue`'s recursive function
  computes for every string is induction over data.
- The `StorageProof` properties. `TrieGet` is `RECURSIVE`, so the module
  cannot hold theorems, and what a recursive lookup returns for every trie
  is induction over data.
- Liveness, which none of the runs states: it is out of TLAPS's reach.

## 5. Not modelled, and plan

- **Trie internals.** Keccak, the RLP byte encoding and the node encoding
  of `trie_db` are external crates. They are abstracted to structure and an
  injective hash.
- **A composition**: a message is accepted only if its storage proof
  anchors in an execution state root recorded by a verified step (joining
  `LightClient`'s headers to `StorageProof`'s state roots).
- **Curve membership.** `G1Affine::new` and `G2Affine::new` do not check it
  (ark-ec 0.3), and the pairing is an oracle, so points are their
  coordinates.
- **More proofs**: `StorageRootSound` for every trie would need `TrieGet`
  as a recursive function over path length and an induction the provers
  cannot instantiate; it stays with TLC.
