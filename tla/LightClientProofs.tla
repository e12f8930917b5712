------------------------- MODULE LightClientProofs -------------------------
(***************************************************************************)
(* Proofs about LightClient for every value of its constants: the type     *)
(* invariant, and coherence of the verified-call stores.                   *)
(***************************************************************************)
EXTENDS LightClient, OutputCodecProofs, TLAPS

-----------------------------------------------------------------------------
(* Lemmas about the state the actions write.                               *)

\* H256::zero() is a 32-byte image.
LEMMA Zero32Type == Zero32 \in Bytes32
BY SMT DEF Zero32, Bytes32, Byte

\* The Default stores are well typed.
LEMMA DefaultStoresType ==
    DefaultStepStore \in StepStoreT /\ DefaultRotateStore \in RotateStoreT
<1>1. DefaultStepOutput \in StepOutputT
  BY Zero32Type, SMT DEF DefaultStepOutput, StepOutputT, U16
<1>2. QED
  BY <1>1, Zero32Type, Zenon
     DEF DefaultStepStore, DefaultRotateStore, StepStoreT, RotateStoreT

\* A failed or aborted call leaves a well-typed result without a value.
LEMMA ResultErrType ==
    ASSUME NEW op \in {"none", "step", "rotate", "update"},
           NEW st \in ResultStatus, st # "Ok",
           NEW k \in Keys \cup {NoValue}
    PROVE  ResultTypeOK(Result(op, st, k, NoValue))
<1>1. ResultValues(op, st) = {NoValue}
  BY DEF ResultValues
<1>2. QED
  BY <1>1 DEF ResultTypeOK, Result

\* A successful call leaves a well-typed result carrying its value.
LEMMA ResultOkType ==
    /\ \A k \in Keys, v \in StepOutputT : ResultTypeOK(Result("step", "Ok", k, v))
    /\ \A k \in Keys, v \in Bytes32 : ResultTypeOK(Result("rotate", "Ok", k, v))
    /\ ResultTypeOK(Result("none", "Ok", NoValue, NoValue))
    /\ ResultTypeOK(Result("update", "Ok", NoValue, NoValue))
<1>1. "Ok" \in ResultStatus
  BY DEF ResultStatus
<1>2. /\ ResultValues("step", "Ok") = StepOutputT
      /\ ResultValues("rotate", "Ok") = Bytes32
      /\ ResultValues("none", "Ok") = {NoValue}
      /\ ResultValues("update", "Ok") = {NoValue}
  BY DEF ResultValues
<1>3. QED
  BY <1>1, <1>2 DEF ResultTypeOK, Result

\* Recording roots under a slot keeps headers well typed.
LEMMA SetHeaderType ==
    ASSUME HeadersTypeOK(headers), NEW s \in Nat, NEW r \in RootsT
    PROVE  HeadersTypeOK(SetHeader(s, r))
BY DEF HeadersTypeOK, SetHeader

\* The roots of a step output are a headers entry.
LEMMA RootsOfType ==
    ASSUME NEW o \in StepOutputT
    PROVE  RootsOf(o) \in RootsT
BY DEF RootsOf, RootsT, StepOutputT

-----------------------------------------------------------------------------
(* Type correctness.                                                       *)

LEMMA InitTypeOK == Init => TypeOK
<1> SUFFICES ASSUME Init PROVE TypeOK
  OBVIOUS
<1>1. lcState \in StateT
  BY ConstantsAssumption DEF Init, StateT
<1>2. HeadersTypeOK(headers)
  BY DEF Init, HeadersTypeOK
<1>3. QED
  BY <1>1, <1>2, DefaultStoresType, ResultOkType DEF Init, TypeOK

\* Every step of FulfillStep keeps the state well typed.
LEMMA FulfillStepTypeOK ==
    ASSUME TypeOK, NEW f \in FunctionIds, NEW h \in InputHashes,
           NEW out \in Outputs, NEW p \in Proofs, FulfillStep(f, h, out, p)
    PROVE  TypeOK'
<1> DEFINE k == <<f, h>>
           parsed == parse_step_output(out)
           hit == StepHit(stepStore, f, h)
           output == IF hit THEN stepStore.verified_output ELSE parsed
<1>1. k \in Keys /\ out \in Seq(Byte)
  BY ConstantsAssumption DEF Keys
<1>2. {"PanicToProof", "PanicStepOutput", "VerificationFailed",
       "NotEnoughParticipants"} \subseteq ResultStatus \ {"Ok"}
  BY DEF ResultStatus, PanicStatus
<1>3. CASE ~ProofDecodes(p) \/ StepOutputAborts(out)
           \/ (~hit /\ ~Verify(k, out, p))
           \/ output.participation < lcState.finality_threshold
  <2>1. UNCHANGED <<lcState, stepStore, rotateStore, headers, verified>>
    BY <1>3 DEF FulfillStep, StepStoreAfter
  <2>2. \E st \in ResultStatus \ {"Ok"} : result' = Result("step", st, k, NoValue)
    BY <1>2, <1>3 DEF FulfillStep, StepStoreAfter
  <2>3. ResultTypeOK(result')
    BY <1>1, <2>2, ResultErrType
  <2>4. QED
    BY <2>1, <2>3 DEF TypeOK, HeadersTypeOK
<1>4. CASE /\ ProofDecodes(p) /\ ~StepOutputAborts(out)
           /\ (hit \/ Verify(k, out, p))
           /\ ~(output.participation < lcState.finality_threshold)
  <2>1. parsed \in StepOutputT
    BY <1>1, <1>4, ParseStepType
  <2>2. output \in StepOutputT
    BY <2>1 DEF TypeOK, StepStoreT
  <2>3. /\ stepStore' = IF hit THEN stepStore
                        ELSE [verified_function_id |-> f, verified_input_hash |-> h,
                              verified_output |-> parsed]
        /\ headers' = SetHeader(output.finalized_slot, RootsOf(output))
        /\ result' = Result("step", "Ok", k, output)
        /\ verified' = IF hit THEN verified ELSE verified \cup {<<"step", k>>}
        /\ UNCHANGED <<lcState, rotateStore>>
    BY <1>4 DEF FulfillStep, StepStoreAfter
  <2>4. stepStore' \in StepStoreT
    BY <2>1, <2>3 DEF TypeOK, StepStoreT
  <2>5. HeadersTypeOK(headers')
    BY <2>2, <2>3, SetHeaderType, RootsOfType DEF TypeOK, StepOutputT
  <2>6. ResultTypeOK(result')
    BY <1>1, <2>2, <2>3, ResultOkType
  <2>7. verified' \subseteq {"step", "rotate"} \X Keys
    BY <1>1, <2>3 DEF TypeOK
  <2>8. QED
    BY <2>3, <2>4, <2>5, <2>6, <2>7 DEF TypeOK
<1>5. QED
  BY <1>3, <1>4

\* Every step of FulfillRotate keeps the state well typed.
LEMMA FulfillRotateTypeOK ==
    ASSUME TypeOK, NEW f \in FunctionIds, NEW h \in InputHashes,
           NEW out \in Outputs, NEW p \in Proofs, FulfillRotate(f, h, out, p)
    PROVE  TypeOK'
<1> DEFINE k == <<f, h>>
           parsed == parse_rotate_output(out)
           hit == RotateHit(rotateStore, f, h)
<1>1. k \in Keys /\ out \in Seq(Byte)
  BY ConstantsAssumption DEF Keys
<1>2. UNCHANGED <<lcState, stepStore, headers>>
  BY DEF FulfillRotate
<1>3. CASE ~ProofDecodes(p) \/ RotateOutputAborts(out)
           \/ (~hit /\ ~Verify(k, out, p))
  <2>1. UNCHANGED <<rotateStore, verified>>
    BY <1>3 DEF FulfillRotate
  <2>2. \E st \in ResultStatus \ {"Ok"} : result' = Result("rotate", st, k, NoValue)
    BY <1>3 DEF FulfillRotate, ResultStatus, PanicStatus
  <2>3. ResultTypeOK(result')
    BY <1>1, <2>2, ResultErrType
  <2>4. QED
    BY <1>2, <2>1, <2>3 DEF TypeOK, HeadersTypeOK
<1>4. CASE ProofDecodes(p) /\ ~RotateOutputAborts(out) /\ hit
  <2>1. result' = Result("rotate", "Ok", k, rotateStore.sync_committee_poseidon)
        /\ UNCHANGED <<rotateStore, verified>>
    BY <1>4 DEF FulfillRotate
  <2>2. rotateStore.sync_committee_poseidon \in Bytes32
    BY DEF TypeOK, RotateStoreT
  <2>3. QED
    BY <1>1, <1>2, <2>1, <2>2, ResultOkType DEF TypeOK, HeadersTypeOK
<1>5. CASE ProofDecodes(p) /\ ~RotateOutputAborts(out) /\ ~hit /\ Verify(k, out, p)
  <2>1. /\ rotateStore' = [verified_function_id |-> f, verified_input_hash |-> h,
                           sync_committee_poseidon |-> parsed]
        /\ result' = Result("rotate", "Ok", k, parsed)
        /\ verified' = verified \cup {<<"rotate", k>>}
    BY <1>5 DEF FulfillRotate
  <2>2. parsed \in Bytes32
    BY <1>1, <1>5, ParseRotateType
  <2>3. rotateStore' \in RotateStoreT
    BY <2>1, <2>2 DEF RotateStoreT
  <2>4. verified' \subseteq {"step", "rotate"} \X Keys
    BY <1>1, <2>1 DEF TypeOK
  <2>5. QED
    BY <1>1, <1>2, <2>1, <2>2, <2>3, <2>4, ResultOkType DEF TypeOK, HeadersTypeOK
<1>6. QED
  BY <1>3, <1>4, <1>5

\* UpdateState keeps the state well typed.
LEMMA UpdateStateTypeOK ==
    ASSUME TypeOK, NEW c \in Accounts, NEW u \in Accounts, NEW t \in Thresholds,
           UpdateState(c, u, t)
    PROVE  TypeOK'
<1>1. UNCHANGED <<stepStore, rotateStore, headers, verified>>
  BY DEF UpdateState
<1>2. CASE c # lcState.updater
  <2>1. result' = Result("update", "BadOrigin", NoValue, NoValue) /\ UNCHANGED lcState
    BY <1>2 DEF UpdateState
  <2>2. "BadOrigin" \in ResultStatus
    BY DEF ResultStatus
  <2>3. QED
    BY <1>1, <2>1, <2>2, ResultErrType DEF TypeOK, HeadersTypeOK
<1>3. CASE c = lcState.updater
  <2>1. /\ lcState' = [updater |-> u, finality_threshold |-> t]
        /\ result' = Result("update", "Ok", NoValue, NoValue)
    BY <1>3 DEF UpdateState
  <2>2. lcState' \in StateT
    BY <2>1, ConstantsAssumption DEF StateT
  <2>3. QED
    BY <1>1, <2>1, <2>2, ResultOkType DEF TypeOK, HeadersTypeOK
<1>4. QED
  BY <1>2, <1>3

\* Stuttering keeps the state well typed.
LEMMA StutterTypeOK ==
    ASSUME TypeOK, UNCHANGED vars
    PROVE  TypeOK'
BY DEF TypeOK, vars, HeadersTypeOK, ResultTypeOK, ResultValues

(***************************************************************************)
(* Type correctness of the light-client flow: in every reachable state the *)
(* configuration, both verified-call stores, the recorded headers and the  *)
(* last result have their types, whatever the constants.  In particular    *)
(* every store write and every recorded header comes from a decoder that   *)
(* did not abort, so its fields are well formed.                           *)
(***************************************************************************)
THEOREM TypeCorrect == Spec => []TypeOK
<1>1. Init => TypeOK
  BY InitTypeOK
<1>2. TypeOK /\ [Next]_vars => TypeOK'
  <2> SUFFICES ASSUME TypeOK, [Next]_vars PROVE TypeOK'
    OBVIOUS
  <2>1. CASE \E f \in FunctionIds, h \in InputHashes, out \in Outputs, p \in Proofs :
               FulfillStep(f, h, out, p)
    BY <2>1, FulfillStepTypeOK
  <2>2. CASE \E f \in FunctionIds, h \in InputHashes, out \in Outputs, p \in Proofs :
               FulfillRotate(f, h, out, p)
    BY <2>2, FulfillRotateTypeOK
  <2>3. CASE \E c, u \in Accounts, t \in Thresholds : UpdateState(c, u, t)
    BY <2>3, UpdateStateTypeOK
  <2>4. CASE UNCHANGED vars
    BY <2>4, StutterTypeOK
  <2>5. QED
    BY <2>1, <2>2, <2>3, <2>4 DEF Next
<1>3. QED
  BY <1>1, <1>2, PTL DEF Spec

-----------------------------------------------------------------------------
(* Store coherence.  StoresCoherent is not inductive alone: a store hit    *)
(* returns the stored output, whose fields must be typed for the headers   *)
(* and the result to stay typed; so it is proved together with TypeOK.     *)

IInv == TypeOK /\ StoresCoherent

\* A store written by a fulfilment holds the decoding of the true output of
\* its key: the write happens only when the oracle accepted (f, h, out).
LEMMA FulfillStepCoherent ==
    ASSUME IInv, NEW f \in FunctionIds, NEW h \in InputHashes,
           NEW out \in Outputs, NEW p \in Proofs, FulfillStep(f, h, out, p)
    PROVE  StoresCoherent'
<1> DEFINE k == <<f, h>>
           parsed == parse_step_output(out)
           hit == StepHit(stepStore, f, h)
<1>1. RotateStoreCoherent'
  BY DEF FulfillStep, StepStoreAfter, IInv, StoresCoherent, RotateStoreCoherent
<1>2. CASE stepStore' = stepStore
  BY <1>1, <1>2 DEF IInv, StoresCoherent, StepStoreCoherent
<1>3. CASE stepStore' # stepStore
  <2>1. ~hit /\ Verify(k, out, p)
        /\ stepStore' = [verified_function_id |-> f, verified_input_hash |-> h,
                         verified_output |-> parsed]
    BY <1>3 DEF FulfillStep, StepStoreAfter
  <2>2. out = TrueOutput(k) /\ k \in Keys
    BY <2>1 DEF Verify, Keys
  <2>3. StepStoreCoherent'
    BY <2>1, <2>2 DEF StepStoreCoherent
  <2>4. QED
    BY <1>1, <2>3 DEF StoresCoherent
<1>4. QED
  BY <1>2, <1>3

LEMMA FulfillRotateCoherent ==
    ASSUME IInv, NEW f \in FunctionIds, NEW h \in InputHashes,
           NEW out \in Outputs, NEW p \in Proofs, FulfillRotate(f, h, out, p)
    PROVE  StoresCoherent'
<1> DEFINE k == <<f, h>>
           parsed == parse_rotate_output(out)
<1>1. StepStoreCoherent'
  BY DEF FulfillRotate, IInv, StoresCoherent, StepStoreCoherent
<1>2. CASE rotateStore' = rotateStore
  BY <1>1, <1>2 DEF IInv, StoresCoherent, RotateStoreCoherent
<1>3. CASE rotateStore' # rotateStore
  <2>1. Verify(k, out, p)
        /\ rotateStore' = [verified_function_id |-> f, verified_input_hash |-> h,
                           sync_committee_poseidon |-> parsed]
    BY <1>3 DEF FulfillRotate
  <2>2. out = TrueOutput(k) /\ k \in Keys
    BY <2>1 DEF Verify, Keys
  <2>3. RotateStoreCoherent'
    BY <2>1, <2>2 DEF RotateStoreCoherent
  <2>4. QED
    BY <1>1, <2>3 DEF StoresCoherent
<1>4. QED
  BY <1>2, <1>3

(***************************************************************************)
(* Store coherence of VerifiedStepCallStore and VerifiedRotateCallStore:   *)
(* in every reachable state each store is its Default or holds, under its  *)
(* key, exactly the decoding of the output the oracle accepts for that     *)
(* key.  This is what makes answering a repeated call from the store,      *)
(* without a new pairing check, sound, whatever the constants.            *)
(***************************************************************************)
THEOREM StoresCoherence == Spec => []StoresCoherent
<1>1. Init => IInv
  <2> SUFFICES ASSUME Init PROVE IInv
    OBVIOUS
  <2>1. StoresCoherent
    BY DEF Init, StoresCoherent, StepStoreCoherent, RotateStoreCoherent
  <2>2. QED
    BY <2>1, InitTypeOK DEF IInv
<1>2. IInv /\ [Next]_vars => IInv'
  <2> SUFFICES ASSUME IInv, [Next]_vars PROVE IInv'
    OBVIOUS
  <2>1. TypeOK'
    <3>1. CASE \E f \in FunctionIds, h \in InputHashes, out \in Outputs, p \in Proofs :
                 FulfillStep(f, h, out, p)
      BY <3>1, FulfillStepTypeOK DEF IInv
    <3>2. CASE \E f \in FunctionIds, h \in InputHashes, out \in Outputs, p \in Proofs :
                 FulfillRotate(f, h, out, p)
      BY <3>2, FulfillRotateTypeOK DEF IInv
    <3>3. CASE \E c, u \in Accounts, t \in Thresholds : UpdateState(c, u, t)
      BY <3>3, UpdateStateTypeOK DEF IInv
    <3>4. CASE UNCHANGED vars
      BY <3>4, StutterTypeOK DEF IInv
    <3>5. QED
      BY <3>1, <3>2, <3>3, <3>4 DEF Next
  <2>2. StoresCoherent'
    <3>1. CASE \E f \in FunctionIds, h \in InputHashes, out \in Outputs, p \in Proofs :
                 FulfillStep(f, h, out, p)
      BY <3>1, FulfillStepCoherent
    <3>2. CASE \E f \in FunctionIds, h \in InputHashes, out \in Outputs, p \in Proofs :
                 FulfillRotate(f, h, out, p)
      BY <3>2, FulfillRotateCoherent
    <3>3. CASE \E c, u \in Accounts, t \in Thresholds : UpdateState(c, u, t)
      BY <3>3 DEF UpdateState, IInv, StoresCoherent, StepStoreCoherent,
                  RotateStoreCoherent
    <3>4. CASE UNCHANGED vars
      BY <3>4 DEF vars, IInv, StoresCoherent, StepStoreCoherent, RotateStoreCoherent
    <3>5. QED
      BY <3>1, <3>2, <3>3, <3>4 DEF Next
  <2>3. QED
    BY <2>1, <2>2 DEF IInv
<1>3. IInv => StoresCoherent
  BY DEF IInv
<1>4. QED
  BY <1>1, <1>2, <1>3, PTL DEF Spec

=============================================================================
