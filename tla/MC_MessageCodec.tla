------------------------- MODULE MC_MessageCodec -------------------------
(***************************************************************************)
(* Model-checking instance of MessageCodec: the message of the unit test   *)
(* test_message_decoding in target_amb.rs, its truncations, and headers    *)
(* carrying payloads of 0, 2, 70 and 96 bytes.                            *)
(***************************************************************************)
EXTENDS MessageCodec

\* A header with version v, nonce n and source chain c, the source address
\* e2b19845..ba20, destination chain 100 and destination address 12345678
\* of the unit-test message.
Header(v, n, c) ==
    << v >> \o EncodeBE(n, 8) \o EncodeBE(c, 4)
        \o << 226, 177, 152, 69, 254, 43, 123, 179, 83, 243,
             119, 209, 45, 213, 26, 240, 18, 251, 186, 32 >>
        \o EncodeBE(100, 4) \o EncodeBE(12345678, 32)

\* The header of the unit-test message.
TestHeader == Header(1, 123, 5)

\* Headers whose nonces and chain ids set bytes in every position TLC's
\* integers reach.
Headers ==
    { Header(v, n, c) : v \in {0, 1, 255}, n \in {0, 123, 65536, 2130706432},
                        c \in {5, 16777216} }

\* A 32-byte ABI word with the value n.
Word(n) == EncodeBE(n, 32)

\* A payload of three ABI words: recipient 7, amount 1000, address 9.
FullPayload == Word(7) \o Word(1000) \o Word(9)

\* The payloads: none, the two bytes of the unit test, two words and a
\* bit, three words, three words and a byte.
Payloads ==
    { << >>, << 103, 137 >>, SubSeq(FullPayload, 1, 70), FullPayload,
      FullPayload \o << 5 >> }

MCMessages ==
    { SubSeq(TestHeader, 1, 68), << >> }            \* truncated buffers
    \cup { h \o p : h \in Headers, p \in Payloads }

=============================================================================
