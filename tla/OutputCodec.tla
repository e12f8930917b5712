---------------------------- MODULE OutputCodec ----------------------------
(***************************************************************************)
(* Decoders of the raw output bytes of the step and rotate circuits        *)
(* (src/pallets/succinct/src/state.rs), and the output types they fill.    *)
(*                                                                         *)
(* A byte buffer is a sequence of integers in 0..255.  An H256 is kept as  *)
(* its 32 bytes; a U256 is kept as its 32 big-endian bytes, which is what  *)
(* U256::from_big_endian computes into (the integer is equal iff its       *)
(* 32-byte big-endian image is equal).  Each decoder comes with the        *)
(* condition under which it aborts (slice index out of range, failed       *)
(* assertion); its value is only used when that condition is false.        *)
(*                                                                         *)
(* No operator here is recursive, so the modules that prove theorems can   *)
(* use this one.                                                           *)
(***************************************************************************)
EXTENDS Naturals, Sequences

\* Byte and u16 values, as bounded sets of naturals.
Byte == {n \in Nat : n < 256}

U16 == {n \in Nat : n < 65536}

\* The 32-byte all-zero hash, H256::zero() and H256::default().
Zero32 == [i \in 1..32 |-> 0]

\* An H256 or a U256 image: exactly 32 bytes.
Bytes32 == [1..32 -> Byte]

\* u16::from_be_bytes on a 2-byte slice.
U16FromBE(b) == b[1] * 256 + b[2]

\* u64::from_be_bytes on an 8-byte slice, written out by Horner's rule.
U64FromBE(b) ==
    ((((((b[1] * 256 + b[2]) * 256 + b[3]) * 256 + b[4]) * 256
        + b[5]) * 256 + b[6]) * 256 + b[7]) * 256 + b[8]

\* The type VerifiedStepOutput.
StepOutputT ==
    [finalized_header_root : Bytes32,
     execution_state_root  : Bytes32,
     finalized_slot        : Nat,
     participation         : U16]

\* VerifiedStepOutput::default().
DefaultStepOutput ==
    [finalized_header_root |-> Zero32,
     execution_state_root  |-> Zero32,
     finalized_slot        |-> 0,
     participation         |-> 0]

(***************************************************************************)
(* parse_step_output.  The Rust slices output[..32], [32..64], [64..72]    *)
(* and [72..74] are taken without a length check, so a buffer shorter      *)
(* than 74 bytes aborts; bytes after the 74th are ignored.                 *)
(***************************************************************************)
StepOutputAborts(output) == Len(output) < 74

\* Mutant: the two roots read from each other's slices.
MutantParseSwappedRoots(output) ==
    [finalized_header_root |-> SubSeq(output, 33, 64),
     execution_state_root  |-> SubSeq(output, 1, 32),
     finalized_slot        |-> U64FromBE(SubSeq(output, 65, 72)),
     participation         |-> U16FromBE(SubSeq(output, 73, 74))]

\* Mutant: the header root slice ends one byte early (output[..31]).
MutantParseShortRoot(output) ==
    [finalized_header_root |-> SubSeq(output, 1, 31),
     execution_state_root  |-> SubSeq(output, 33, 64),
     finalized_slot        |-> U64FromBE(SubSeq(output, 65, 72)),
     participation         |-> U16FromBE(SubSeq(output, 73, 74))]

\* Mutant: participation read as u16::from_le_bytes.
MutantParseParticipationLE(output) ==
    [finalized_header_root |-> SubSeq(output, 1, 32),
     execution_state_root  |-> SubSeq(output, 33, 64),
     finalized_slot        |-> U64FromBE(SubSeq(output, 65, 72)),
     participation         |-> output[74] * 256 + output[73]]

parse_step_output(output) ==
    [finalized_header_root |-> SubSeq(output, 1, 32),
     execution_state_root  |-> SubSeq(output, 33, 64),
     finalized_slot        |-> U64FromBE(SubSeq(output, 65, 72)),
     participation         |-> U16FromBE(SubSeq(output, 73, 74))]

(***************************************************************************)
(* parse_rotate_output: U256::from_big_endian asserts that the slice has   *)
(* at most 32 bytes, then right-aligns it in a zeroed 32-byte buffer.      *)
(* An empty buffer decodes to zero.                                        *)
(***************************************************************************)
RotateOutputAborts(output) == Len(output) > 32

\* Mutant: U256::from_little_endian in place of from_big_endian.
MutantRotateLittleEndian(output) ==
    [i \in 1..32 |-> IF 33 - i <= Len(output) THEN output[33 - i] ELSE 0]

parse_rotate_output(output) ==
    [i \in 1..32 |-> IF i <= 32 - Len(output) THEN 0
                     ELSE output[i - (32 - Len(output))]]

-----------------------------------------------------------------------------
(***************************************************************************)
(* Reference encoders: the byte layout the prover emits (spec section      *)
(* 4.2), written independently of the decoders above so that the          *)
(* decoders can be checked against them.  Shifts are repeated divisions   *)
(* by 256, so they are exact for every natural and never leave TLC's       *)
(* 32-bit integers.                                                        *)
(***************************************************************************)

\* n shifted right by k bytes, for k in 0..8; for k > 8 it is taken as 0,
\* which is exact for every u64 (the widest integer encoded).
ShiftBytes(n, k) ==
    LET q1 == n \div 256  q2 == q1 \div 256  q3 == q2 \div 256  q4 == q3 \div 256
        q5 == q4 \div 256  q6 == q5 \div 256  q7 == q6 \div 256  q8 == q7 \div 256
    IN  CASE k = 0 -> n  [] k = 1 -> q1 [] k = 2 -> q2 [] k = 3 -> q3 [] k = 4 -> q4
          [] k = 5 -> q5 [] k = 6 -> q6 [] k = 7 -> q7 [] k = 8 -> q8
          [] k > 8 -> 0

\* n fits in a u64: it has no ninth byte.
FitsU64(n) == ShiftBytes(n, 8) = 0

\* The k-th least significant byte of n.
ByteOf(n, k) == ShiftBytes(n, k) % 256

\* n as a w-byte big-endian buffer.
EncodeBE(n, w) == [i \in 1..w |-> ByteOf(n, w - i)]

\* The 74-byte step output of the record r of StepOutputT: bytes 1..32
\* the header root, 33..64 the execution state root, 65..72 the slot and
\* 73..74 the participation, both big-endian.
EncodeStep(r) ==
    [i \in 1..74 |->
        IF i <= 32 THEN r.finalized_header_root[i]
        ELSE IF i <= 64 THEN r.execution_state_root[i - 32]
        ELSE IF i <= 72 THEN ByteOf(r.finalized_slot, 72 - i)
        ELSE ByteOf(r.participation, 74 - i)]

=============================================================================
