--------------------------- MODULE MessageCodec ---------------------------
(***************************************************************************)
(* The cross-chain message codec of src/pallets/succinct/src/target_amb.rs: *)
(* decode_message reads the fixed 69-byte header and the opaque payload,   *)
(* decode_message_data ABI-decodes the payload as three 32-byte words      *)
(* (bytes32, uint256, address) and keeps the first two.                    *)
(*                                                                         *)
(* The relayer hands in a message buffer; the host decodes it and, when    *)
(* that succeeds, decodes its payload.  A decoder that aborts (slice index *)
(* past the end) is a result status, and nothing is decoded.              *)
(***************************************************************************)
EXTENDS OutputCodec

CONSTANTS
    Messages,   \* the message buffers a relayer may submit
    NoValue     \* the decoded value of a result that has none

ASSUME MessagesAssumption == Messages \subseteq Seq(Byte)

VARIABLES
    msgResult,   \* outcome of the last decode_message: input, status, message
    dataResult   \* outcome of the last decode_message_data on that message

vars == <<msgResult, dataResult>>

-----------------------------------------------------------------------------
\* u32::from_be_bytes on a 4-byte slice.
U32FromBE(b) == ((b[1] * 256 + b[2]) * 256 + b[3]) * 256 + b[4]

\* The type Message: an H160 is kept as its 20 bytes, an H256 as its 32.
MessageT ==
    [version : Byte, nonce : Nat, source_chain_id : Nat,
     source_address : [1..20 -> Byte], destination_chain_id : Nat,
     destination_address : Bytes32, data : Seq(Byte)]

\* The type MessageData: the recipient H256 and the U256 amount as 32 bytes.
MessageDataT == [recipient_address : Bytes32, amount : Bytes32]

(***************************************************************************)
(* decode_message.  message[0] and the slices [1..9], [9..13], [13..33],   *)
(* [33..37], [37..69] and [69..] are taken without a length check: a      *)
(* buffer shorter than 69 bytes aborts.                                    *)
(***************************************************************************)
MessageAborts(message) == Len(message) < 69

\* Mutant: the payload is taken from [68..], re-reading the last byte of the
\* destination address.
MutantPayloadOffByOne(message) ==
    [version              |-> message[1],
     nonce                |-> U64FromBE(SubSeq(message, 2, 9)),
     source_chain_id      |-> U32FromBE(SubSeq(message, 10, 13)),
     source_address       |-> SubSeq(message, 14, 33),
     destination_chain_id |-> U32FromBE(SubSeq(message, 34, 37)),
     destination_address  |-> SubSeq(message, 38, 69),
     data                 |-> SubSeq(message, 69, Len(message))]

\* Mutant: the destination address slice ends one byte early ([37..68]).
MutantShortDestAddress(message) ==
    [version              |-> message[1],
     nonce                |-> U64FromBE(SubSeq(message, 2, 9)),
     source_chain_id      |-> U32FromBE(SubSeq(message, 10, 13)),
     source_address       |-> SubSeq(message, 14, 33),
     destination_chain_id |-> U32FromBE(SubSeq(message, 34, 37)),
     destination_address  |-> SubSeq(message, 38, 68),
     data                 |-> SubSeq(message, 70, Len(message))]

decode_message(message) ==
    [version              |-> message[1],
     nonce                |-> U64FromBE(SubSeq(message, 2, 9)),
     source_chain_id      |-> U32FromBE(SubSeq(message, 10, 13)),
     source_address       |-> SubSeq(message, 14, 33),
     destination_chain_id |-> U32FromBE(SubSeq(message, 34, 37)),
     destination_address  |-> SubSeq(message, 38, 69),
     data                 |-> SubSeq(message, 70, Len(message))]

(***************************************************************************)
(* decode_message_data.  ethabi::decode of (bytes32, uint256, address)     *)
(* needs three 32-byte words and fails with CannotDecodeMessageData        *)
(* otherwise; extra bytes are ignored, and so is the address word.  The    *)
(* token conversions that follow (get, into_fixed_bytes, into_uint) cannot *)
(* fail once the decode succeeded, because the token kinds are fixed by    *)
(* the requested types.                                                    *)
(***************************************************************************)

MessageDataDecodes(message) == Len(message) >= 96

decode_message_data(message) ==
    [recipient_address |-> SubSeq(message, 1, 32),
     amount            |-> SubSeq(message, 33, 64)]

-----------------------------------------------------------------------------
MsgResult(input, status, msg) == [input |-> input, status |-> status, msg |-> msg]

DataResult(status, data) == [status |-> status, data |-> data]

Init ==
    /\ msgResult = MsgResult(<< >>, "None", NoValue)
    /\ dataResult = DataResult("None", NoValue)

\* The relayer submits a message buffer; the host decodes it.  A new message
\* clears the outcome of the previous payload decode.
DecodeMessage(m) ==
    /\ msgResult' = IF MessageAborts(m) THEN MsgResult(m, "PanicIndex", NoValue)
                    ELSE MsgResult(m, "Ok", decode_message(m))
    /\ dataResult' = DataResult("None", NoValue)

\* The payload of the decoded message is ABI-decoded.
DecodeMessageData ==
    /\ msgResult.status = "Ok"
    /\ dataResult.status = "None"
    /\ dataResult' =
          IF MessageDataDecodes(msgResult.msg.data)
          THEN DataResult("Ok", decode_message_data(msgResult.msg.data))
          ELSE DataResult("CannotDecodeMessageData", NoValue)
    /\ UNCHANGED msgResult

Next ==
    \/ \E m \in Messages : DecodeMessage(m)
    \/ DecodeMessageData

Spec == Init /\ [][Next]_vars

-----------------------------------------------------------------------------
TypeOK ==
    /\ msgResult.input \in Seq(Byte)
    /\ msgResult.status \in {"None", "Ok", "PanicIndex"}
    /\ msgResult.msg \in IF msgResult.status = "Ok" THEN MessageT ELSE {NoValue}
    /\ dataResult.status \in {"None", "Ok", "CannotDecodeMessageData"}
    /\ dataResult.data \in IF dataResult.status = "Ok" THEN MessageDataT ELSE {NoValue}

(***************************************************************************)
(* Reference encoder of the wire layout of spec section 4.4, written       *)
(* independently of decode_message: exact for every u64 field value.       *)
(***************************************************************************)
EncodeMessage(msg) ==
    [i \in 1..(69 + Len(msg.data)) |->
        IF i = 1 THEN msg.version
        ELSE IF i <= 9 THEN ByteOf(msg.nonce, 9 - i)
        ELSE IF i <= 13 THEN ByteOf(msg.source_chain_id, 13 - i)
        ELSE IF i <= 33 THEN msg.source_address[i - 13]
        ELSE IF i <= 37 THEN ByteOf(msg.destination_chain_id, 37 - i)
        ELSE IF i <= 69 THEN msg.destination_address[i - 37]
        ELSE msg.data[i - 69]]

(***************************************************************************)
(* Lossless header decoding: a message decode_message accepted re-encodes, *)
(* field by field in the wire layout, to exactly the buffer the relayer    *)
(* sent.  No header byte is dropped, duplicated or shifted into the        *)
(* payload.                                                                *)
(***************************************************************************)
MessageLossless ==
    msgResult.status = "Ok" => EncodeMessage(msgResult.msg) = msgResult.input

\* decode_message never aborts: a buffer shorter than 69 bytes is the typed
\* error TruncatedMessage (spec sections 4.4 and 7), not a panic.
MessageTotal == msgResult.status # "PanicIndex"

=============================================================================
