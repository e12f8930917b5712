------------------------ MODULE MessageCodecProofs ------------------------
(***************************************************************************)
(* Proofs about MessageCodec for every message buffer: the type invariant *)
(* and lossless header decoding.                                          *)
(***************************************************************************)
EXTENDS MessageCodec, OutputCodecProofs, SequenceTheorems, TLAPS

-----------------------------------------------------------------------------
(* Lemmas about slices.                                                    *)

\* A slice from m to the end, possibly empty, is a sequence over S.
LEMMA SubSeqTail ==
    ASSUME NEW S, NEW s \in Seq(S), NEW m \in Nat, 1 <= m, m <= Len(s) + 1
    PROVE  SubSeq(s, m, Len(s)) \in Seq(S)
<1>1. \A i \in 1..(Len(s) - m + 1) : s[i + m - 1] \in S
  BY SMT
<1>2. Len(s) - m + 1 \in Nat
  BY SMT
<1>3. [i \in 1..(Len(s) - m + 1) |-> s[i + m - 1]] \in Seq(S)
  BY <1>1, <1>2, SMT
<1>4. QED
  BY <1>3

-----------------------------------------------------------------------------
(* Lemmas about the decoders.                                              *)

\* u32::from_be_bytes of four bytes is a natural number.
LEMMA U32FromBEType ==
    ASSUME NEW b \in [1..4 -> Byte]
    PROVE  U32FromBE(b) \in Nat
<1>1. b[1] \in Nat /\ b[2] \in Nat /\ b[3] \in Nat /\ b[4] \in Nat
  BY SMT DEF Byte
<1>2. QED
  BY <1>1, SMT DEF U32FromBE

(***************************************************************************)
(* decode_message fills a Message from any buffer of at least 69 bytes:    *)
(* each fixed slice has its field's width, and the payload is the rest.    *)
(***************************************************************************)
LEMMA DecodeMessageType ==
    ASSUME NEW m \in Seq(Byte), ~MessageAborts(m)
    PROVE  decode_message(m) \in MessageT
<1>1. Len(m) >= 69 /\ Len(m) \in Nat
  BY DEF MessageAborts
<1>2. m[1] \in Byte
  BY <1>1, SMT
<1>3. U64FromBE(SubSeq(m, 2, 9)) \in Nat
  <2>1. SubSeq(m, 2, 9) \in [1..8 -> Byte]
    BY <1>1, SubSeqType, SMT
  <2>2. QED
    BY <2>1, U64FromBEType
<1>4. U32FromBE(SubSeq(m, 10, 13)) \in Nat
  <2>1. SubSeq(m, 10, 13) \in [1..4 -> Byte]
    BY <1>1, SubSeqType, SMT
  <2>2. QED
    BY <2>1, U32FromBEType
<1>5. SubSeq(m, 14, 33) \in [1..20 -> Byte]
  <2>1. 1 <= 14 /\ 14 <= 33 /\ 33 <= Len(m) /\ 20 = 33 - 14 + 1
    BY <1>1, SMT
  <2>2. QED
    BY <2>1, SubSeqType, Zenon
<1>6. U32FromBE(SubSeq(m, 34, 37)) \in Nat
  <2>1. SubSeq(m, 34, 37) \in [1..4 -> Byte]
    BY <1>1, SubSeqType, SMT
  <2>2. QED
    BY <2>1, U32FromBEType
<1>7. SubSeq(m, 38, 69) \in Bytes32
  <2>1. 1 <= 38 /\ 38 <= 69 /\ 69 <= Len(m) /\ 32 = 69 - 38 + 1
    BY <1>1, SMT
  <2>2. QED
    BY <2>1, SubSeqType, Zenon DEF Bytes32
<1>8. SubSeq(m, 70, Len(m)) \in Seq(Byte)
  <2>1. 1 <= 70 /\ 70 <= Len(m) + 1
    BY <1>1, SMT
  <2>2. QED
    BY <2>1, SubSeqTail
<1>9. QED
  BY <1>2, <1>3, <1>4, <1>5, <1>6, <1>7, <1>8 DEF decode_message, MessageT

\* decode_message_data of a payload of three words yields two 32-byte words.
LEMMA DecodeMessageDataType ==
    ASSUME NEW p \in Seq(Byte), MessageDataDecodes(p)
    PROVE  decode_message_data(p) \in MessageDataT
<1>1. Len(p) >= 96 /\ Len(p) \in Nat
  BY DEF MessageDataDecodes
<1>2. SubSeq(p, 1, 32) \in Bytes32
  <2>1. 1 <= 1 /\ 1 <= 32 /\ 32 <= Len(p) /\ 32 = 32 - 1 + 1
    BY <1>1, SMT
  <2>2. QED
    BY <2>1, SubSeqType, Zenon DEF Bytes32
<1>3. SubSeq(p, 33, 64) \in Bytes32
  <2>1. 1 <= 33 /\ 33 <= 64 /\ 64 <= Len(p) /\ 32 = 64 - 33 + 1
    BY <1>1, SMT
  <2>2. QED
    BY <2>1, SubSeqType, Zenon DEF Bytes32
<1>4. QED
  BY <1>2, <1>3 DEF decode_message_data, MessageDataT

-----------------------------------------------------------------------------
(* The type invariant.                                                     *)

LEMMA InitTypeOK == Init => TypeOK
BY DEF Init, TypeOK, MsgResult, DataResult

LEMMA NextTypeOK == TypeOK /\ [Next]_vars => TypeOK'
<1> SUFFICES ASSUME TypeOK, [Next]_vars PROVE TypeOK'
  OBVIOUS
<1>1. ASSUME NEW m \in Messages, DecodeMessage(m) PROVE TypeOK'
  <2>1. m \in Seq(Byte)
    BY MessagesAssumption
  <2>2. CASE MessageAborts(m)
    BY <1>1, <2>1, <2>2 DEF DecodeMessage, TypeOK, MsgResult, DataResult
  <2>3. CASE ~MessageAborts(m)
    BY <1>1, <2>1, <2>3, DecodeMessageType
       DEF DecodeMessage, TypeOK, MsgResult, DataResult
  <2>4. QED
    BY <2>2, <2>3
<1>2. ASSUME DecodeMessageData PROVE TypeOK'
  <2>1. msgResult.msg.data \in Seq(Byte)
    BY <1>2 DEF DecodeMessageData, TypeOK, MessageT
  <2>2. CASE MessageDataDecodes(msgResult.msg.data)
    BY <1>2, <2>1, <2>2, DecodeMessageDataType
       DEF DecodeMessageData, TypeOK, DataResult
  <2>3. CASE ~MessageDataDecodes(msgResult.msg.data)
    BY <1>2, <2>3 DEF DecodeMessageData, TypeOK, DataResult
  <2>4. QED
    BY <2>2, <2>3
<1>3. CASE UNCHANGED vars
  BY <1>3 DEF vars, TypeOK
<1>4. QED
  BY <1>1, <1>2, <1>3 DEF Next

(***************************************************************************)
(* Type correctness of the message codec: whatever buffers the relayer     *)
(* submits, decode_message yields a Message with fields of their widths    *)
(* and decode_message_data two 32-byte words.                              *)
(***************************************************************************)
THEOREM MessageTypeCorrect == Spec => []TypeOK
BY InitTypeOK, NextTypeOK, PTL DEF Spec

-----------------------------------------------------------------------------
(* Lossless header decoding.                                               *)

\* Re-encoding the u32 read from four big-endian bytes gives the bytes back.
LEMMA U32BytesRoundTrip ==
    ASSUME NEW b \in [1..4 -> Byte]
    PROVE  EncodeBE(U32FromBE(b), 4) = b
<1> DEFINE h1 == b[1]
           h2 == h1 * 256 + b[2]
           h3 == h2 * 256 + b[3]
           n == h3 * 256 + b[4]
<1>1. \A i \in 1..4 : b[i] \in Byte
  OBVIOUS
<1>2. h1 \in Nat /\ h2 \in Nat /\ h3 \in Nat /\ n \in Nat
  BY <1>1 DEF Byte
<1>3. n = U32FromBE(b)
  BY DEF U32FromBE
<1>4. /\ n \div 256 = h3 /\ n % 256 = b[4]
      /\ h3 \div 256 = h2 /\ h3 % 256 = b[3]
      /\ h2 \div 256 = h1 /\ h2 % 256 = b[2]
      /\ h1 % 256 = b[1]
  <2>1. n \div 256 = h3 /\ n % 256 = b[4]
    BY <1>1, <1>2, HornerStep
  <2>2. h3 \div 256 = h2 /\ h3 % 256 = b[3]
    BY <1>1, <1>2, HornerStep
  <2>3. h2 \div 256 = h1 /\ h2 % 256 = b[2]
    BY <1>1, <1>2, HornerStep
  <2>4. h1 % 256 = b[1]
    BY <1>1 DEF Byte
  <2>5. QED
    BY <2>1, <2>2, <2>3, <2>4
<1>5. /\ ShiftBytes(n, 0) = n /\ ShiftBytes(n, 1) = h3
      /\ ShiftBytes(n, 2) = h2 /\ ShiftBytes(n, 3) = h1
  BY <1>4 DEF ShiftBytes
<1>6. \A i \in 1..4 : ByteOf(n, 4 - i) = b[i]
  BY <1>4, <1>5 DEF ByteOf
<1>7. QED
  BY <1>3, <1>6 DEF EncodeBE

\* A length of at least the header's is the header's or more.
LEMMA HeaderOrMore ==
    ASSUME NEW n \in Nat, n >= 69
    PROVE  n = 69 \/ 70 <= n
  BY SMT

\* Re-encoding a decoded message gives back the buffer: every byte of the
\* header lands in its field and the rest is the payload.
LEMMA DecodeLossless ==
    ASSUME NEW m \in Seq(Byte), ~MessageAborts(m)
    PROVE  EncodeMessage(decode_message(m)) = m
<1> DEFINE d == decode_message(m)
           L == Len(m)
           e == EncodeMessage(d)
<1>1. L \in Nat /\ L >= 69
  BY DEF MessageAborts
<1>2. d.data = SubSeq(m, 70, L) /\ Len(d.data) = L - 69
  <2>1. d.data = SubSeq(m, 70, L)
    BY DEF decode_message
  <2>2. SubSeq(m, 70, L) \in Seq(Byte)
    BY <1>1, SubSeqTail
  <2>3. DOMAIN SubSeq(m, 70, L) = 1..(L - 69)
    BY <1>1, SMT
  <2>4. Len(SubSeq(m, 70, L)) = L - 69
    <3>1. \A i \in 70..L : m[i] \in Byte
      BY <1>1, SMT
    <3>2. Len(SubSeq(m, 70, L)) = IF 70 <= L THEN L - 70 + 1 ELSE 0
      BY <3>1, SubSeqProperties
    <3>3. L = 69 \/ 70 <= L
      BY <1>1, HeaderOrMore
    <3>4. CASE 70 <= L
      <4>1. L - 70 + 1 = L - 69
        BY <1>1, SMT
      <4>2. QED
        BY <3>2, <3>4, <4>1, Zenon
    <3>6. CASE L = 69
      <4>1. ~(70 <= L) /\ L - 69 = 0
        BY <3>6, SMT
      <4>2. QED
        BY <3>2, <4>1, Zenon
    <3>5. QED
      BY <3>3, <3>4, <3>6
  <2>5. QED
    BY <2>1, <2>4
<1>3. DOMAIN e = 1..L
  BY <1>1, <1>2, SMT DEF EncodeMessage
<1>4. \A i \in 1..L :
        e[i] = IF i = 1 THEN d.version
               ELSE IF i <= 9 THEN ByteOf(d.nonce, 9 - i)
               ELSE IF i <= 13 THEN ByteOf(d.source_chain_id, 13 - i)
               ELSE IF i <= 33 THEN d.source_address[i - 13]
               ELSE IF i <= 37 THEN ByteOf(d.destination_chain_id, 37 - i)
               ELSE IF i <= 69 THEN d.destination_address[i - 37]
               ELSE d.data[i - 69]
  BY <1>1, <1>2, SMT DEF EncodeMessage
<1>5. d.version = m[1]
  BY DEF decode_message
<1>6. \A i \in 2..9 : ByteOf(d.nonce, 9 - i) = m[i]
  <2>1. SubSeq(m, 2, 9) \in [1..8 -> Byte]
    BY <1>1, SubSeqType, SMT
  <2>2. EncodeBE(d.nonce, 8) = SubSeq(m, 2, 9)
    BY <2>1, U64BytesRoundTrip DEF decode_message
  <2> SUFFICES ASSUME NEW i \in 2..9 PROVE ByteOf(d.nonce, 9 - i) = m[i]
    OBVIOUS
  <2>3. EncodeBE(d.nonce, 8)[i - 1] = ByteOf(d.nonce, 9 - i)
    BY SMT DEF EncodeBE
  <2>4. SubSeq(m, 2, 9)[i - 1] = m[i]
    BY SMT
  <2>5. QED
    BY <2>2, <2>3, <2>4
<1>7. \A i \in 10..13 : ByteOf(d.source_chain_id, 13 - i) = m[i]
  <2>1. SubSeq(m, 10, 13) \in [1..4 -> Byte]
    BY <1>1, SubSeqType, SMT
  <2>2. EncodeBE(d.source_chain_id, 4) = SubSeq(m, 10, 13)
    BY <2>1, U32BytesRoundTrip DEF decode_message
  <2> SUFFICES ASSUME NEW i \in 10..13 PROVE ByteOf(d.source_chain_id, 13 - i) = m[i]
    OBVIOUS
  <2>3. EncodeBE(d.source_chain_id, 4)[i - 9] = ByteOf(d.source_chain_id, 13 - i)
    BY SMT DEF EncodeBE
  <2>4. SubSeq(m, 10, 13)[i - 9] = m[i]
    BY SMT
  <2>5. QED
    BY <2>2, <2>3, <2>4
<1>8. \A i \in 14..33 : d.source_address[i - 13] = m[i]
  <2>1. d.source_address = SubSeq(m, 14, 33)
    BY DEF decode_message
  <2> SUFFICES ASSUME NEW i \in 14..33 PROVE d.source_address[i - 13] = m[i]
    OBVIOUS
  <2>2. SubSeq(m, 14, 33)[i - 13] = m[i]
    BY SMT
  <2>3. QED
    BY <2>1, <2>2
<1>9. \A i \in 34..37 : ByteOf(d.destination_chain_id, 37 - i) = m[i]
  <2>1. SubSeq(m, 34, 37) \in [1..4 -> Byte]
    BY <1>1, SubSeqType, SMT
  <2>2. EncodeBE(d.destination_chain_id, 4) = SubSeq(m, 34, 37)
    BY <2>1, U32BytesRoundTrip DEF decode_message
  <2> SUFFICES ASSUME NEW i \in 34..37 PROVE ByteOf(d.destination_chain_id, 37 - i) = m[i]
    OBVIOUS
  <2>3. EncodeBE(d.destination_chain_id, 4)[i - 33] = ByteOf(d.destination_chain_id, 37 - i)
    BY SMT DEF EncodeBE
  <2>4. SubSeq(m, 34, 37)[i - 33] = m[i]
    BY SMT
  <2>5. QED
    BY <2>2, <2>3, <2>4
<1>10. \A i \in 38..69 : d.destination_address[i - 37] = m[i]
  <2>1. d.destination_address = SubSeq(m, 38, 69)
    BY DEF decode_message
  <2> SUFFICES ASSUME NEW i \in 38..69 PROVE d.destination_address[i - 37] = m[i]
    OBVIOUS
  <2>2. SubSeq(m, 38, 69)[i - 37] = m[i]
    BY SMT
  <2>3. QED
    BY <2>1, <2>2
<1>11. \A i \in 70..L : d.data[i - 69] = m[i]
  <2> SUFFICES ASSUME NEW i \in 70..L PROVE d.data[i - 69] = m[i]
    OBVIOUS
  <2>1. SubSeq(m, 70, L)[i - 69] = m[i]
    BY <1>1, SMT
  <2>2. QED
    BY <1>2, <2>1
<1>12. \A i \in 1..L : e[i] = m[i]
  <2> SUFFICES ASSUME NEW i \in 1..L PROVE e[i] = m[i]
    OBVIOUS
  <2>1. CASE i = 1
    BY <2>1, <1>4, <1>5
  <2>2. CASE 2 <= i /\ i <= 9
    BY <2>2, <1>4, <1>6, SMT
  <2>3. CASE 10 <= i /\ i <= 13
    BY <2>3, <1>4, <1>7, SMT
  <2>4. CASE 14 <= i /\ i <= 33
    <3>1. e[i] = d.source_address[i - 13]
      BY <2>4, <1>4, SMT
    <3>2. i \in 14..33
      BY <2>4, SMT
    <3>3. QED
      BY <3>1, <3>2, <1>8
  <2>5. CASE 34 <= i /\ i <= 37
    BY <2>5, <1>4, <1>9, SMT
  <2>6. CASE 38 <= i /\ i <= 69
    <3>1. e[i] = d.destination_address[i - 37]
      BY <2>6, <1>4, SMT
    <3>2. i \in 38..69
      BY <2>6, SMT
    <3>3. QED
      BY <3>1, <3>2, <1>10
  <2>7. CASE 70 <= i
    BY <2>7, <1>4, <1>11, SMT
  <2>8. QED
    BY <2>1, <2>2, <2>3, <2>4, <2>5, <2>6, <2>7, SMT
<1>13. m = [i \in 1..L |-> m[i]]
  BY SMT
<1>14. e = [i \in 1..L |-> e[i]]
  BY <1>1, <1>2, SMT DEF EncodeMessage
<1>15. QED
  BY <1>12, <1>13, <1>14, Zenon

(***************************************************************************)
(* The inductive invariant: an accepted message is the decoding of the     *)
(* buffer it came from, and that buffer holds the whole header.            *)
(***************************************************************************)
MsgDecoded ==
    msgResult.status = "Ok" =>
        /\ ~MessageAborts(msgResult.input)
        /\ msgResult.msg = decode_message(msgResult.input)

LInv == TypeOK /\ MsgDecoded

LEMMA NextMsgDecoded == LInv /\ [Next]_vars => MsgDecoded'
<1> SUFFICES ASSUME LInv, [Next]_vars PROVE MsgDecoded'
  OBVIOUS
<1>1. ASSUME NEW m \in Messages, DecodeMessage(m) PROVE MsgDecoded'
  <2>1. CASE MessageAborts(m)
    BY <1>1, <2>1 DEF DecodeMessage, MsgResult, MsgDecoded
  <2>2. CASE ~MessageAborts(m)
    BY <1>1, <2>2 DEF DecodeMessage, MsgResult, MsgDecoded
  <2>3. QED
    BY <2>1, <2>2
<1>2. ASSUME DecodeMessageData PROVE MsgDecoded'
  BY <1>2 DEF LInv, DecodeMessageData, MsgDecoded
<1>3. CASE UNCHANGED vars
  BY <1>3 DEF LInv, vars, MsgDecoded
<1>4. QED
  BY <1>1, <1>2, <1>3 DEF Next

(***************************************************************************)
(* Lossless header decoding, for every buffer the relayer submits: a       *)
(* message decode_message accepted re-encodes, field by field in the wire  *)
(* layout, to exactly the bytes it was decoded from.                       *)
(***************************************************************************)
THEOREM MessageLosslessness == Spec => []MessageLossless
<1>1. Init => LInv
  BY InitTypeOK DEF LInv, Init, MsgDecoded, MsgResult
<1>2. LInv /\ [Next]_vars => LInv'
  BY NextTypeOK, NextMsgDecoded DEF LInv
<1>3. LInv => MessageLossless
  <2> SUFFICES ASSUME LInv, msgResult.status = "Ok"
               PROVE  EncodeMessage(msgResult.msg) = msgResult.input
    BY DEF MessageLossless
  <2>1. msgResult.input \in Seq(Byte) /\ ~MessageAborts(msgResult.input)
    BY DEF LInv, TypeOK, MsgDecoded
  <2>2. msgResult.msg = decode_message(msgResult.input)
    BY DEF LInv, MsgDecoded
  <2>3. QED
    BY <2>1, <2>2, DecodeLossless
<1>4. QED
  BY <1>1, <1>2, <1>3, PTL DEF Spec

=============================================================================
