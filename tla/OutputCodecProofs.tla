------------------------- MODULE OutputCodecProofs -------------------------
(***************************************************************************)
(* Lemmas about the byte decoders of OutputCodec, for every buffer: what   *)
(* a slice of a byte buffer is, that each decoder that does not abort     *)
(* yields a value of its output type, and that the decoders invert the     *)
(* reference encoders.  Used by the proofs about LightClient and          *)
(* MessageCodec.                                                           *)
(***************************************************************************)
EXTENDS OutputCodec, TLAPS
-----------------------------------------------------------------------------
(* Lemmas about the decoders.                                              *)

\* A slice m..n of a sequence over S is an (n-m+1)-tuple over S.
LEMMA SubSeqType ==
    ASSUME NEW S, NEW s \in Seq(S), NEW m \in Nat, NEW n \in Nat, NEW k \in Nat,
           1 <= m, m <= n, n <= Len(s), k = n - m + 1
    PROVE  SubSeq(s, m, n) \in [1..k -> S]
<1>1. \A i \in 1..k : s[i + m - 1] \in S
  BY SMT
<1>2. [i \in 1..k |-> s[i + m - 1]] \in [1..k -> S]
  BY <1>1, Zenon
<1>3. SubSeq(s, m, n) = [i \in 1..k |-> s[i + m - 1]]
  OBVIOUS
<1>4. QED
  BY <1>2, <1>3, Zenon

\* The four fixed slices parse_step_output takes from a 74-byte buffer.
LEMMA StepSlices ==
    ASSUME NEW out \in Seq(Byte), Len(out) >= 74
    PROVE  /\ SubSeq(out, 1, 32) \in [1..32 -> Byte]
           /\ SubSeq(out, 33, 64) \in [1..32 -> Byte]
           /\ SubSeq(out, 65, 72) \in [1..8 -> Byte]
           /\ SubSeq(out, 73, 74) \in [1..2 -> Byte]
<1>1. Len(out) \in Nat
  OBVIOUS
<1>2. SubSeq(out, 1, 32) \in [1..32 -> Byte]
  <2>1. 1 <= 1 /\ 1 <= 32 /\ 32 <= Len(out) /\ 32 = 32 - 1 + 1
    BY <1>1, SMT
  <2>2. QED
    BY <2>1, SubSeqType, Zenon
<1>3. SubSeq(out, 33, 64) \in [1..32 -> Byte]
  <2>1. 1 <= 33 /\ 33 <= 64 /\ 64 <= Len(out) /\ 32 = 64 - 33 + 1
    BY <1>1, SMT
  <2>2. QED
    BY <2>1, SubSeqType, Zenon
<1>4. SubSeq(out, 65, 72) \in [1..8 -> Byte]
  BY <1>1, SubSeqType, SMT
<1>5. SubSeq(out, 73, 74) \in [1..2 -> Byte]
  BY <1>1, SubSeqType, SMT
<1>6. QED
  BY <1>2, <1>3, <1>4, <1>5

\* u16::from_be_bytes of two bytes is a u16.
LEMMA U16FromBEType ==
    ASSUME NEW b \in [1..2 -> Byte]
    PROVE  U16FromBE(b) \in U16
<1>1. b[1] \in Byte /\ b[2] \in Byte
  BY SMT
<1>2. QED
  BY <1>1, SMT DEF U16FromBE, Byte, U16

\* u64::from_be_bytes of eight bytes is a natural number.
LEMMA U64FromBEType ==
    ASSUME NEW b \in [1..8 -> Byte]
    PROVE  U64FromBE(b) \in Nat
<1>1. /\ b[1] \in Nat /\ b[2] \in Nat /\ b[3] \in Nat /\ b[4] \in Nat
      /\ b[5] \in Nat /\ b[6] \in Nat /\ b[7] \in Nat /\ b[8] \in Nat
  BY SMT DEF Byte
<1>2. b[1] * 256 + b[2] \in Nat
  BY <1>1, SMT
<1>3. (b[1] * 256 + b[2]) * 256 + b[3] \in Nat
  BY <1>1, <1>2, SMT
<1>4. ((b[1] * 256 + b[2]) * 256 + b[3]) * 256 + b[4] \in Nat
  BY <1>1, <1>3, SMT
<1>5. (((b[1] * 256 + b[2]) * 256 + b[3]) * 256 + b[4]) * 256 + b[5] \in Nat
  BY <1>1, <1>4, SMT
<1>6. ((((b[1] * 256 + b[2]) * 256 + b[3]) * 256 + b[4]) * 256
        + b[5]) * 256 + b[6] \in Nat
  BY <1>1, <1>5, SMT
<1>7. (((((b[1] * 256 + b[2]) * 256 + b[3]) * 256 + b[4]) * 256
        + b[5]) * 256 + b[6]) * 256 + b[7] \in Nat
  BY <1>1, <1>6, SMT
<1>8. QED
  BY <1>1, <1>7, SMT DEF U64FromBE

(***************************************************************************)
(* parse_step_output fills a VerifiedStepOutput from any buffer of at      *)
(* least 74 bytes: two 32-byte roots, a u64 and a u16.                     *)
(***************************************************************************)
LEMMA ParseStepType ==
    ASSUME NEW out \in Seq(Byte), ~StepOutputAborts(out)
    PROVE  parse_step_output(out) \in StepOutputT
<1>1. Len(out) >= 74
  BY DEF StepOutputAborts
<1>2. SubSeq(out, 1, 32) \in Bytes32 /\ SubSeq(out, 33, 64) \in Bytes32
  BY <1>1, StepSlices DEF Bytes32
<1>3. U64FromBE(SubSeq(out, 65, 72)) \in Nat
  BY <1>1, StepSlices, U64FromBEType
<1>4. U16FromBE(SubSeq(out, 73, 74)) \in U16
  BY <1>1, StepSlices, U16FromBEType
<1>5. QED
  BY <1>2, <1>3, <1>4 DEF parse_step_output, StepOutputT

(***************************************************************************)
(* parse_rotate_output right-aligns any buffer of at most 32 bytes into a  *)
(* 32-byte image.                                                          *)
(***************************************************************************)
LEMMA ParseRotateType ==
    ASSUME NEW out \in Seq(Byte), ~RotateOutputAborts(out)
    PROVE  parse_rotate_output(out) \in Bytes32
<1>1. Len(out) <= 32
  BY DEF RotateOutputAborts
<1>2. \A i \in 1..32 : (IF i <= 32 - Len(out) THEN 0
                        ELSE out[i - (32 - Len(out))]) \in Byte
  BY <1>1, SMT DEF Byte
<1>3. QED
  BY <1>2, Zenon DEF parse_rotate_output, Bytes32

-----------------------------------------------------------------------------
(* The decoders invert the reference encoders.                             *)

\* The bytes EncodeBE takes from n, as shifts of n.
LEMMA ShiftBytesValues ==
    ASSUME NEW n \in Nat
    PROVE  /\ ShiftBytes(n, 0) = n
           /\ \A k \in 1..8 : ShiftBytes(n, k) = ShiftBytes(n, k - 1) \div 256
           /\ \A k \in 0..8 : ShiftBytes(n, k) \in Nat
BY SMT DEF ShiftBytes

\* u64::from_be_bytes inverts the 8-byte big-endian encoding of a u64.
LEMMA U64RoundTrip ==
    ASSUME NEW n \in Nat, FitsU64(n)
    PROVE  U64FromBE(EncodeBE(n, 8)) = n
<1> DEFINE q(k) == ShiftBytes(n, k)
           e == EncodeBE(n, 8)
<1>1. \A k \in 0..8 : q(k) \in Nat
  BY ShiftBytesValues
<1>2. \A k \in 1..8 : q(k - 1) = 256 * q(k) + (q(k - 1) % 256)
  <2> SUFFICES ASSUME NEW k \in 1..8
               PROVE  q(k - 1) = 256 * q(k) + (q(k - 1) % 256)
    OBVIOUS
  <2>1. q(k) = q(k - 1) \div 256
    BY ShiftBytesValues
  <2>2. k - 1 \in 0..8
    BY SMT
  <2>3. q(k - 1) \in Nat
    BY <1>1, <2>2
  <2>4. QED
    BY <2>1, <2>3, SMT
<1>3. q(8) = 0
  BY DEF FitsU64
<1>4. \A i \in 1..8 : e[i] = q(8 - i) % 256
  BY SMT DEF EncodeBE, ByteOf
<1>15. /\ e[1] \in Nat /\ e[2] \in Nat /\ e[3] \in Nat /\ e[4] \in Nat
       /\ e[5] \in Nat /\ e[6] \in Nat /\ e[7] \in Nat /\ e[8] \in Nat
  BY <1>1, <1>4, SMT
<1>5. e[1] = q(7)
  <2>1. q(7) = 256 * q(8) + (q(7) % 256) /\ e[1] = q(7) % 256
    BY <1>2, <1>4
  <2>2. QED
    BY <2>1, <1>3, <1>1, <1>15, SMT
<1>6. e[1] * 256 + e[2] = q(6)
  <2>1. q(6) = 256 * q(7) + (q(6) % 256) /\ e[2] = q(6) % 256
    BY <1>2, <1>4
  <2>2. QED
    BY <2>1, <1>5, <1>1, <1>15, SMT
<1>7. (e[1] * 256 + e[2]) * 256 + e[3] = q(5)
  <2>1. q(5) = 256 * q(6) + (q(5) % 256) /\ e[3] = q(5) % 256
    BY <1>2, <1>4
  <2>2. QED
    BY <2>1, <1>6, <1>1, <1>15, SMT
<1>8. ((e[1] * 256 + e[2]) * 256 + e[3]) * 256 + e[4] = q(4)
  <2>1. q(4) = 256 * q(5) + (q(4) % 256) /\ e[4] = q(4) % 256
    BY <1>2, <1>4
  <2>2. QED
    BY <2>1, <1>7, <1>1, <1>15, SMT
<1>9. (((e[1] * 256 + e[2]) * 256 + e[3]) * 256 + e[4]) * 256 + e[5] = q(3)
  <2>1. q(3) = 256 * q(4) + (q(3) % 256) /\ e[5] = q(3) % 256
    BY <1>2, <1>4
  <2>2. QED
    BY <2>1, <1>8, <1>1, <1>15, SMT
<1>10. ((((e[1] * 256 + e[2]) * 256 + e[3]) * 256 + e[4]) * 256 + e[5]) * 256 + e[6] = q(2)
  <2>1. q(2) = 256 * q(3) + (q(2) % 256) /\ e[6] = q(2) % 256
    BY <1>2, <1>4
  <2>2. QED
    BY <2>1, <1>9, <1>1, <1>15, SMT
<1>11. (((((e[1] * 256 + e[2]) * 256 + e[3]) * 256 + e[4]) * 256 + e[5]) * 256 + e[6]) * 256 + e[7] = q(1)
  <2>1. q(1) = 256 * q(2) + (q(1) % 256) /\ e[7] = q(1) % 256
    BY <1>2, <1>4
  <2>2. QED
    BY <2>1, <1>10, <1>1, <1>15, SMT
<1>12. q(0) = n
  BY ShiftBytesValues
<1>13. q(0) = 256 * q(1) + (q(0) % 256) /\ e[8] = q(0) % 256
  BY <1>2, <1>4
<1>14. QED
  BY <1>1, <1>11, <1>12, <1>13, SMT DEF U64FromBE

\* u16::from_be_bytes inverts the 2-byte big-endian encoding of a u16.
LEMMA U16RoundTrip ==
    ASSUME NEW v \in U16
    PROVE  U16FromBE(EncodeBE(v, 2)) = v
<1> DEFINE e == EncodeBE(v, 2)
<1>1. v \in Nat /\ v < 65536
  BY DEF U16
<1>2. ShiftBytes(v, 0) = v /\ ShiftBytes(v, 1) = v \div 256
  BY <1>1, ShiftBytesValues
<1>3. e[1] = ShiftBytes(v, 1) % 256 /\ e[2] = ShiftBytes(v, 0) % 256
  BY SMT DEF EncodeBE, ByteOf
<1>4. e[1] = v \div 256 /\ e[2] = v % 256
  BY <1>1, <1>2, <1>3, SMT
<1>5. QED
  BY <1>1, <1>4, SMT DEF U16FromBE
\* parse_step_output inverts the step encoder for every step output whose
\* slot is a u64: the four fields are read back from their own slices.
LEMMA StepRoundTrip ==
    ASSUME NEW r \in StepOutputT, FitsU64(r.finalized_slot)
    PROVE  /\ EncodeStep(r) \in Seq(Byte)
           /\ Len(EncodeStep(r)) = 74
           /\ parse_step_output(EncodeStep(r)) = r
<1> DEFINE e == EncodeStep(r)
<1>1. /\ r.finalized_header_root \in [1..32 -> Byte]
      /\ r.execution_state_root \in [1..32 -> Byte]
      /\ r.finalized_slot \in Nat
      /\ r.participation \in U16
  BY DEF StepOutputT, Bytes32
<1>2. e = [i \in 1..74 |->
        IF i <= 32 THEN r.finalized_header_root[i]
        ELSE IF i <= 64 THEN r.execution_state_root[i - 32]
        ELSE IF i <= 72 THEN ByteOf(r.finalized_slot, 72 - i)
        ELSE ByteOf(r.participation, 74 - i)]
  BY DEF EncodeStep
<1>3. SubSeq(e, 1, 32) = r.finalized_header_root
  <2>1. SubSeq(e, 1, 32) = [i \in 1..32 |-> e[i]]
    OBVIOUS
  <2>2. \A i \in 1..32 : e[i] = r.finalized_header_root[i]
    <3> SUFFICES ASSUME NEW i \in 1..32 PROVE e[i] = r.finalized_header_root[i]
      OBVIOUS
    <3>1. i \in 1..74 /\ i <= 32
      BY SMT
    <3>2. QED
      BY <1>2, <3>1, Zenon
  <2>3. QED
    BY <1>1, <2>1, <2>2
<1>4. SubSeq(e, 33, 64) = r.execution_state_root
  <2>1. SubSeq(e, 33, 64) = [i \in 1..32 |-> e[i + 32]]
    OBVIOUS
  <2>2. \A j \in 33..64 : e[j] = r.execution_state_root[j - 32]
    <3> SUFFICES ASSUME NEW j \in 33..64 PROVE e[j] = r.execution_state_root[j - 32]
      OBVIOUS
    <3>1. j \in 1..74 /\ ~(j <= 32) /\ j <= 64
      BY SMT
    <3>2. QED
      BY <1>2, <3>1, Zenon
  <2>3. QED
    BY <1>1, <2>1, <2>2, SMT
<1>5. SubSeq(e, 65, 72) = EncodeBE(r.finalized_slot, 8)
  <2>1. SubSeq(e, 65, 72) = [i \in 1..8 |-> e[i + 64]]
    OBVIOUS
  <2>2. \A i \in 1..8 : e[i + 64] = ByteOf(r.finalized_slot, 8 - i)
    BY <1>2
  <2>3. QED
    BY <2>1, <2>2 DEF EncodeBE
<1>6. SubSeq(e, 73, 74) = EncodeBE(r.participation, 2)
  <2>1. SubSeq(e, 73, 74) = [i \in 1..2 |-> e[i + 72]]
    OBVIOUS
  <2>2. \A i \in 1..2 : e[i + 72] = ByteOf(r.participation, 2 - i)
    BY <1>2
  <2>3. QED
    BY <2>1, <2>2 DEF EncodeBE
<1>7. U64FromBE(SubSeq(e, 65, 72)) = r.finalized_slot
  BY <1>1, <1>5, U64RoundTrip
<1>8. U16FromBE(SubSeq(e, 73, 74)) = r.participation
  BY <1>1, <1>6, U16RoundTrip
<1>9. parse_step_output(e) = r
  BY <1>3, <1>4, <1>7, <1>8 DEF parse_step_output, StepOutputT
<1>10. e \in Seq(Byte) /\ Len(e) = 74
  <2>1. \A k \in 0..8 : ShiftBytes(r.finalized_slot, k) \in Nat
    BY <1>1, ShiftBytesValues
  <2>2. \A k \in 0..8 : ShiftBytes(r.participation, k) \in Nat
    BY <1>1, ShiftBytesValues DEF U16
  <2>3. \A i \in 1..74 : e[i] \in Byte
    BY <1>1, <1>2, <2>1, <2>2 DEF ByteOf, Byte
  <2>4. QED
    BY <1>2, <2>3
<1>11. QED
  BY <1>9, <1>10

\* parse_rotate_output returns a 32-byte poseidon unchanged: the 32-byte
\* buffer is right-aligned with no padding.
LEMMA RotateRoundTrip ==
    ASSUME NEW q \in Bytes32
    PROVE  /\ q \in Seq(Byte)
           /\ Len(q) = 32
           /\ ~RotateOutputAborts(q)
           /\ parse_rotate_output(q) = q
<1>1. q \in [1..32 -> Byte]
  BY DEF Bytes32
<1>2. q = [i \in 1..32 |-> q[i]]
  BY <1>1
<1>3. q \in Seq(Byte) /\ Len(q) = 32
  BY <1>1, <1>2, SMT
<1>4. ~RotateOutputAborts(q)
  BY <1>3 DEF RotateOutputAborts
<1>5. parse_rotate_output(q) = q
  <2>1. \A i \in 1..32 : ~(i <= 32 - Len(q)) /\ i - (32 - Len(q)) = i
    BY <1>3, SMT
  <2>2. QED
    BY <1>1, <2>1 DEF parse_rotate_output
<1>6. QED
  BY <1>3, <1>4, <1>5

\* Integer division undoes one Horner step.
LEMMA HornerStep ==
    ASSUME NEW h \in Nat, NEW c \in Byte
    PROVE  /\ 256 * h + c \in Nat
           /\ (256 * h + c) \div 256 = h
           /\ (256 * h + c) % 256 = c
BY SMT DEF Byte

\* The 8-byte big-endian encoding of u64::from_be_bytes of 8 bytes is
\* those bytes: the decoder loses nothing.
LEMMA U64BytesRoundTrip ==
    ASSUME NEW b \in [1..8 -> Byte]
    PROVE  EncodeBE(U64FromBE(b), 8) = b
<1> DEFINE h1 == b[1]
           h2 == h1 * 256 + b[2]
           h3 == h2 * 256 + b[3]
           h4 == h3 * 256 + b[4]
           h5 == h4 * 256 + b[5]
           h6 == h5 * 256 + b[6]
           h7 == h6 * 256 + b[7]
           n == h7 * 256 + b[8]
<1>1. \A i \in 1..8 : b[i] \in Byte
  OBVIOUS
<1>2. /\ h1 \in Nat /\ h2 \in Nat /\ h3 \in Nat /\ h4 \in Nat
      /\ h5 \in Nat /\ h6 \in Nat /\ h7 \in Nat /\ n \in Nat
  BY <1>1 DEF Byte
<1>3. n = U64FromBE(b)
  BY DEF U64FromBE
<1>4. /\ ShiftBytes(n, 0) = n
      /\ ShiftBytes(n, 1) = h7 /\ ShiftBytes(n, 2) = h6 /\ ShiftBytes(n, 3) = h5
      /\ ShiftBytes(n, 4) = h4 /\ ShiftBytes(n, 5) = h3 /\ ShiftBytes(n, 6) = h2
      /\ ShiftBytes(n, 7) = h1
  <2>1. n \div 256 = h7 /\ n % 256 = b[8]
    BY <1>1, <1>2, HornerStep
  <2>2. h7 \div 256 = h6 /\ h7 % 256 = b[7]
    BY <1>1, <1>2, HornerStep
  <2>3. h6 \div 256 = h5 /\ h6 % 256 = b[6]
    BY <1>1, <1>2, HornerStep
  <2>4. h5 \div 256 = h4 /\ h5 % 256 = b[5]
    BY <1>1, <1>2, HornerStep
  <2>5. h4 \div 256 = h3 /\ h4 % 256 = b[4]
    BY <1>1, <1>2, HornerStep
  <2>6. h3 \div 256 = h2 /\ h3 % 256 = b[3]
    BY <1>1, <1>2, HornerStep
  <2>7. h2 \div 256 = h1 /\ h2 % 256 = b[2]
    BY <1>1, <1>2, HornerStep
  <2>8. QED
    BY <2>1, <2>2, <2>3, <2>4, <2>5, <2>6, <2>7 DEF ShiftBytes
<1>5. \A i \in 1..8 : ByteOf(n, 8 - i) = b[i]
  <2>1. h1 % 256 = b[1]
    BY <1>1 DEF Byte
  <2>2. n % 256 = b[8] /\ h7 % 256 = b[7] /\ h6 % 256 = b[6] /\ h5 % 256 = b[5]
        /\ h4 % 256 = b[4] /\ h3 % 256 = b[3] /\ h2 % 256 = b[2]
    BY <1>1, <1>2, HornerStep
  <2>3. QED
    BY <1>4, <2>1, <2>2 DEF ByteOf
<1>6. QED
  BY <1>3, <1>5 DEF EncodeBE

=============================================================================
