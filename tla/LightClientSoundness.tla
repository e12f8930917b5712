------------------------ MODULE LightClientSoundness ------------------------
(***************************************************************************)
(* Soundness of the light client for every value of its constants: every  *)
(* successful call returns the fact the circuit proves for its key, and    *)
(* every recorded header is the pair some step circuit proved for its     *)
(* slot.  Both rest on the decoders inverting the prover's encoding        *)
(* (StepRoundTrip, RotateRoundTrip) and on the stores holding facts.       *)
(***************************************************************************)
EXTENDS LightClientProofs

-----------------------------------------------------------------------------
(* What an accepted output decodes to.                                     *)

\* An output the oracle accepts for k that parse_step_output does not abort
\* on is a step output, and it decodes to the step fact of k: a rotate
\* fact's 32 bytes are too short for the step decoder.
LEMMA FactOfStepOutput ==
    ASSUME NEW k \in Keys, NEW out, out = TrueOutput(k), ~StepOutputAborts(out)
    PROVE  Facts[k] = StepFact(parse_step_output(out))
<1>1. Facts[k] \in FactT
  BY ConstantsAssumption
<1>2. Facts[k].kind = "step"
  <2> SUFFICES ASSUME Facts[k].kind # "step" PROVE FALSE
    OBVIOUS
  <2>1. Facts[k].kind = "rotate" /\ Facts[k].poseidon \in Bytes32
    BY <1>1 DEF FactT
  <2>2. out = Facts[k].poseidon
    BY <2>1 DEF TrueOutput
  <2>3. Len(out) = 32
    BY <2>1, <2>2, RotateRoundTrip
  <2>4. QED
    BY <2>3 DEF StepOutputAborts
<1>3. Facts[k].step \in StepOutputT /\ Facts[k] = StepFact(Facts[k].step)
  BY <1>1, <1>2 DEF FactT, StepFact
<1>4. FitsU64(Facts[k].step.finalized_slot)
  BY <1>2, SlotsAssumption
<1>5. out = EncodeStep(Facts[k].step)
  BY <1>2 DEF TrueOutput
<1>6. parse_step_output(out) = Facts[k].step
  BY <1>3, <1>4, <1>5, StepRoundTrip
<1>7. QED
  BY <1>3, <1>6

\* Likewise an accepted output the rotate decoder takes is the poseidon of
\* a rotate fact: a step output's 74 bytes are too long for it.
LEMMA FactOfRotateOutput ==
    ASSUME NEW k \in Keys, NEW out, out = TrueOutput(k), ~RotateOutputAborts(out)
    PROVE  Facts[k] = RotateFact(parse_rotate_output(out))
<1>1. Facts[k] \in FactT
  BY ConstantsAssumption
<1>2. Facts[k].kind = "rotate"
  <2> SUFFICES ASSUME Facts[k].kind # "rotate" PROVE FALSE
    OBVIOUS
  <2>1. Facts[k].kind = "step" /\ Facts[k].step \in StepOutputT
    BY <1>1 DEF FactT
  <2>2. out = EncodeStep(Facts[k].step)
    BY <2>1 DEF TrueOutput
  <2>3. Len(out) = 74
    BY <2>1, <2>2, SlotsAssumption, StepRoundTrip
  <2>4. QED
    BY <2>3 DEF RotateOutputAborts
<1>3. Facts[k].poseidon \in Bytes32 /\ Facts[k] = RotateFact(Facts[k].poseidon)
  BY <1>1, <1>2 DEF FactT, RotateFact
<1>4. out = Facts[k].poseidon
  BY <1>2 DEF TrueOutput
<1>5. QED
  BY <1>3, <1>4, RotateRoundTrip

-----------------------------------------------------------------------------
(* The inductive invariant.  ResultSound and HeaderSound are not inductive *)
(* alone: a store hit answers from the store without the oracle, so the    *)
(* stores must be known to hold facts, and the result and headers must be  *)
(* typed for a hit to be read.                                             *)

\* A store that is not its Default holds the fact of its key.
StepStoreFact ==
    stepStore # DefaultStepStore =>
        LET k == <<stepStore.verified_function_id, stepStore.verified_input_hash>>
        IN  k \in Keys /\ Facts[k] = StepFact(stepStore.verified_output)

RotateStoreFact ==
    rotateStore # DefaultRotateStore =>
        LET k == <<rotateStore.verified_function_id, rotateStore.verified_input_hash>>
        IN  k \in Keys /\ Facts[k] = RotateFact(rotateStore.sync_committee_poseidon)

SInv == TypeOK /\ StepStoreFact /\ RotateStoreFact /\ ResultSound /\ HeaderSound


\* The store of a hit is not the Default: its input hash is a real one.
LEMMA StepHitNotDefault ==
    ASSUME TypeOK, NEW f \in FunctionIds, NEW h \in InputHashes,
           StepHit(stepStore, f, h)
    PROVE  stepStore # DefaultStepStore
           /\ <<stepStore.verified_function_id, stepStore.verified_input_hash>> = <<f, h>>
BY KeysAssumption DEF StepHit, DefaultStepStore

LEMMA RotateHitNotDefault ==
    ASSUME TypeOK, NEW f \in FunctionIds, NEW h \in InputHashes,
           RotateHit(rotateStore, f, h)
    PROVE  rotateStore # DefaultRotateStore
           /\ <<rotateStore.verified_function_id, rotateStore.verified_input_hash>> = <<f, h>>
BY KeysAssumption DEF RotateHit, DefaultRotateStore

\* A step fulfilment keeps the stores, the result and the headers sound:
\* whether answered from the store or verified, its output is the fact of
\* its key, and that output is what it stores, returns and records.
LEMMA FulfillStepSound ==
    ASSUME SInv, NEW f \in FunctionIds, NEW h \in InputHashes,
           NEW out \in Outputs, NEW p \in Proofs, FulfillStep(f, h, out, p)
    PROVE  SInv'
<1> DEFINE k == <<f, h>>
           parsed == parse_step_output(out)
           hit == StepHit(stepStore, f, h)
           output == IF hit THEN stepStore.verified_output ELSE parsed
<1>1. TypeOK'
  BY FulfillStepTypeOK DEF SInv
<1>2. RotateStoreFact'
  BY DEF FulfillStep, StepStoreAfter, SInv, RotateStoreFact
<1>3. CASE \/ ~ProofDecodes(p) \/ StepOutputAborts(out)
           \/ ~hit /\ ~Verify(k, out, p)
           \/ output.participation < lcState.finality_threshold
  <2>1. UNCHANGED <<stepStore, headers>> /\ result'.status # "Ok"
    BY <1>3 DEF FulfillStep, StepStoreAfter, Result
  <2>2. QED
    BY <1>1, <1>2, <2>1 DEF SInv, StepStoreFact, ResultSound, HeaderSound
<1>4. CASE /\ ProofDecodes(p) /\ ~StepOutputAborts(out)
           /\ hit \/ Verify(k, out, p)
           /\ ~(output.participation < lcState.finality_threshold)
  <2>1. k \in Keys
    BY DEF Keys
  <2>2. ~hit => Facts[k] = StepFact(parsed)
    <3> SUFFICES ASSUME ~hit PROVE Facts[k] = StepFact(parsed)
      OBVIOUS
    <3>1. out = TrueOutput(k)
      BY <1>4 DEF Verify
    <3>2. QED
      BY <2>1, <3>1, <1>4, FactOfStepOutput
  <2>3. Facts[k] = StepFact(output)
    <3>1. CASE hit
      BY <3>1, StepHitNotDefault DEF SInv, StepStoreFact
    <3>2. CASE ~hit
      BY <3>2, <2>2
    <3>3. QED
      BY <3>1, <3>2
  <2>4. /\ stepStore' = IF hit THEN stepStore
                        ELSE [verified_function_id |-> f, verified_input_hash |-> h,
                              verified_output |-> parsed]
        /\ headers' = SetHeader(output.finalized_slot, RootsOf(output))
        /\ result' = Result("step", "Ok", k, output)
    BY <1>4 DEF FulfillStep, StepStoreAfter
  <2>5. StepStoreFact'
    <3>1. CASE hit
      BY <3>1, <2>4 DEF SInv, StepStoreFact
    <3>2. CASE ~hit
      BY <3>2, <2>1, <2>2, <2>4 DEF StepStoreFact
    <3>3. QED
      BY <3>1, <3>2
  <2>6. ResultSound'
    BY <2>3, <2>4 DEF ResultSound, Result
  <2>7. HeaderSound'
    <3> SUFFICES ASSUME NEW s \in DOMAIN headers'
                 PROVE  \E kk \in Keys :
                           /\ Facts[kk].kind = "step"
                           /\ Facts[kk].step.finalized_slot = s
                           /\ headers'[s] = RootsOf(Facts[kk].step)
      BY DEF HeaderSound
    <3>1. CASE s = output.finalized_slot
      <4>1. headers'[s] = RootsOf(output)
        BY <2>4, <3>1 DEF SetHeader
      <4>2. Facts[k].kind = "step" /\ Facts[k].step = output
        BY <2>3 DEF StepFact
      <4>3. QED
        BY <2>1, <3>1, <4>1, <4>2
    <3>2. CASE s # output.finalized_slot
      <4>1. s \in DOMAIN headers /\ headers'[s] = headers[s]
        BY <2>4, <3>2 DEF SetHeader
      <4>2. QED
        BY <4>1 DEF SInv, HeaderSound
    <3>3. QED
      BY <3>1, <3>2
  <2>8. QED
    BY <1>1, <1>2, <2>5, <2>6, <2>7 DEF SInv
<1>5. QED
  BY <1>3, <1>4


\* A rotate fulfilment answers from the store or verifies and stores the
\* decoded poseidon, which is the rotate fact of its key.
LEMMA FulfillRotateSound ==
    ASSUME SInv, NEW f \in FunctionIds, NEW h \in InputHashes,
           NEW out \in Outputs, NEW p \in Proofs, FulfillRotate(f, h, out, p)
    PROVE  SInv'
<1> DEFINE k == <<f, h>>
           parsed == parse_rotate_output(out)
           hit == RotateHit(rotateStore, f, h)
<1>1. TypeOK'
  BY FulfillRotateTypeOK DEF SInv
<1>2. StepStoreFact' /\ HeaderSound'
  BY DEF FulfillRotate, SInv, StepStoreFact, HeaderSound
<1>3. k \in Keys
  BY DEF Keys
<1>4. CASE ~ProofDecodes(p) \/ RotateOutputAborts(out)
  <2>1. UNCHANGED rotateStore /\ result'.status # "Ok"
    BY <1>4 DEF FulfillRotate, Result
  <2>2. QED
    BY <1>1, <1>2, <2>1 DEF SInv, RotateStoreFact, ResultSound
<1>5. CASE ProofDecodes(p) /\ ~RotateOutputAborts(out) /\ hit
  <2>1. UNCHANGED rotateStore
        /\ result' = Result("rotate", "Ok", k, rotateStore.sync_committee_poseidon)
    BY <1>5 DEF FulfillRotate
  <2>2. Facts[k] = RotateFact(rotateStore.sync_committee_poseidon)
    BY <1>5, RotateHitNotDefault DEF SInv, RotateStoreFact
  <2>3. ResultSound'
    BY <2>1, <2>2 DEF ResultSound, Result
  <2>4. QED
    BY <1>1, <1>2, <2>1, <2>3 DEF SInv, RotateStoreFact
<1>6. CASE ProofDecodes(p) /\ ~RotateOutputAborts(out) /\ ~hit /\ ~Verify(k, out, p)
  <2>1. UNCHANGED rotateStore /\ result'.status # "Ok"
    BY <1>6 DEF FulfillRotate, Result
  <2>2. QED
    BY <1>1, <1>2, <2>1 DEF SInv, RotateStoreFact, ResultSound
<1>7. CASE ProofDecodes(p) /\ ~RotateOutputAborts(out) /\ ~hit /\ Verify(k, out, p)
  <2>1. /\ rotateStore' = [verified_function_id |-> f, verified_input_hash |-> h,
                           sync_committee_poseidon |-> parsed]
        /\ result' = Result("rotate", "Ok", k, parsed)
    BY <1>7 DEF FulfillRotate
  <2>2. Facts[k] = RotateFact(parsed)
    <3>1. out = TrueOutput(k)
      BY <1>7 DEF Verify
    <3>2. QED
      BY <1>3, <1>7, <3>1, FactOfRotateOutput
  <2>3. RotateStoreFact'
    BY <1>3, <2>1, <2>2 DEF RotateStoreFact
  <2>4. ResultSound'
    BY <2>1, <2>2 DEF ResultSound, Result
  <2>5. QED
    BY <1>1, <1>2, <2>3, <2>4 DEF SInv
<1>8. QED
  BY <1>4, <1>5, <1>6, <1>7

\* An update touches neither the stores nor the headers, and its result is
\* an update result.
LEMMA UpdateStateSound ==
    ASSUME SInv, NEW c \in Accounts, NEW u \in Accounts, NEW t \in Thresholds,
           UpdateState(c, u, t)
    PROVE  SInv'
<1>1. TypeOK'
  BY UpdateStateTypeOK DEF SInv
<1>2. result'.op = "update"
  BY DEF UpdateState, Result
<1>3. QED
  BY <1>1, <1>2 DEF UpdateState, SInv, StepStoreFact, RotateStoreFact,
                    ResultSound, HeaderSound

\* SInv holds in every reachable state: it holds initially and every step
\* of Next, one action at a time, preserves it.
LEMMA SoundInvariant == Spec => []SInv
<1>1. Init => SInv
  <2> SUFFICES ASSUME Init PROVE SInv
    OBVIOUS
  <2>1. StepStoreFact /\ RotateStoreFact /\ ResultSound /\ HeaderSound
    BY DEF Init, StepStoreFact, RotateStoreFact, ResultSound, HeaderSound, Result
  <2>2. QED
    BY <2>1, InitTypeOK DEF SInv
<1>2. SInv /\ [Next]_vars => SInv'
  <2> SUFFICES ASSUME SInv, [Next]_vars PROVE SInv'
    OBVIOUS
  <2>1. CASE \E f \in FunctionIds, h \in InputHashes, out \in Outputs, p \in Proofs :
               FulfillStep(f, h, out, p)
    BY <2>1, FulfillStepSound
  <2>2. CASE \E f \in FunctionIds, h \in InputHashes, out \in Outputs, p \in Proofs :
               FulfillRotate(f, h, out, p)
    BY <2>2, FulfillRotateSound
  <2>3. CASE \E c, u \in Accounts, t \in Thresholds : UpdateState(c, u, t)
    BY <2>3, UpdateStateSound
  <2>4. CASE UNCHANGED vars
    <3>1. TypeOK'
      BY <2>4, StutterTypeOK DEF SInv
    <3>2. QED
      BY <2>4, <3>1 DEF vars, SInv, StepStoreFact, RotateStoreFact,
                        ResultSound, HeaderSound
  <2>5. QED
    BY <2>1, <2>2, <2>3, <2>4 DEF Next
<1>3. QED
  BY <1>1, <1>2, PTL DEF Spec

(***************************************************************************)
(* Result soundness, for every value of the constants: a step or rotate    *)
(* call that returns Ok returns exactly the fact the circuit proves for    *)
(* its key, whether the answer came from a verified-call store or from the *)
(* pairing oracle and the output decoder.                                  *)
(***************************************************************************)
THEOREM ResultSoundness == Spec => []ResultSound
BY SoundInvariant, PTL DEF SInv

(***************************************************************************)
(* Header soundness, for every value of the constants: every header and    *)
(* execution state root recorded for a slot is the pair a step circuit     *)
(* proved for exactly that slot, so no misread field or forged output      *)
(* reaches the header map.                                                 *)
(***************************************************************************)
THEOREM HeaderSoundness == Spec => []HeaderSound
BY SoundInvariant, PTL DEF SInv

=============================================================================
