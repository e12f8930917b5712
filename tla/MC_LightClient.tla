--------------------------- MODULE MC_LightClient ---------------------------
(***************************************************************************)
(* A small instance of LightClient: one step circuit (function 1) and one  *)
(* rotate circuit (function 2), two inputs each, and a relayer that may    *)
(* submit every true output and the malformed or forged buffers that reach *)
(* the decoders' edge cases.                                               *)
(***************************************************************************)
EXTENDS LightClient

CONSTANTS a1, a2

\* A hash whose last byte is n.
HashN(n) == [i \in 1..32 |-> IF i = 32 THEN n ELSE 0]

StepA == [finalized_header_root |-> HashN(1), execution_state_root |-> HashN(2),
          finalized_slot |-> 7634848, participation |-> 509]
StepB == [finalized_header_root |-> HashN(3), execution_state_root |-> HashN(4),
          finalized_slot |-> 7634849, participation |-> 300]
\* A forgery: StepA's slot and participation with another header root.
StepForged == [StepA EXCEPT !.finalized_header_root = HashN(3)]

MCFacts ==
    [k \in {1, 2} \X {1, 2} |->
        CASE k = <<1, 1>> -> StepFact(StepA)
          [] k = <<1, 2>> -> StepFact(StepB)
          [] k = <<2, 1>> -> RotateFact(HashN(7))
          [] k = <<2, 2>> -> RotateFact(HashN(8))]

MCOutputs ==
    {EncodeStep(StepA), EncodeStep(StepB), HashN(7), HashN(8),
     EncodeStep(StepForged),
     SubSeq(EncodeStep(StepA), 1, 73),   \* one byte short: 73 bytes
     EncodeStep(StepB) \o <<0>>,          \* one trailing byte: 75 bytes
     <<0>> \o HashN(7),                   \* 33 bytes
     << >>}

MCThresholds == {0, 400, 510}
MCAccounts == {a1, a2}
=============================================================================
