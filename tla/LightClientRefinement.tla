----------------------- MODULE LightClientRefinement -----------------------
(***************************************************************************)
(* The host flow of LightClient implements the abstract VerifiedCalls, for *)
(* every value of the constants: with the verified-call stores, the        *)
(* pairing oracle and the history hidden, every step is a failed call, an *)
(* accepted call of the circuit's own output, an update or a stutter.     *)
(* The refinement mapping is the identity on lcState, headers and result;  *)
(* SInv supplies that what a store hit returns is the fact of its key.     *)
(* The module also proves the action property StoreDiscipline (a store is *)
(* written only by a call that missed it and succeeded) and the second     *)
(* refinement, of the memo cache VerifiedCache by the two store records.   *)
(***************************************************************************)
EXTENDS LightClientSoundness

-----------------------------------------------------------------------------
(* The output a step call accepts is the step fact of its key, and the     *)
(* poseidon a rotate call accepts the rotate fact of its key, whether it   *)
(* comes from the store or from the oracle and the decoder.               *)

LEMMA StepOutputIsFact ==
    ASSUME SInv, NEW f \in FunctionIds, NEW h \in InputHashes, NEW out, NEW p,
           ~StepOutputAborts(out),
           StepHit(stepStore, f, h) \/ Verify(<<f, h>>, out, p)
    PROVE  Facts[<<f, h>>] =
              StepFact(IF StepHit(stepStore, f, h) THEN stepStore.verified_output
                       ELSE parse_step_output(out))
<1>1. <<f, h>> \in Keys
  BY DEF Keys
<1>2. CASE StepHit(stepStore, f, h)
  BY <1>2, StepHitNotDefault DEF SInv, StepStoreFact
<1>3. CASE ~StepHit(stepStore, f, h)
  <2>1. out = TrueOutput(<<f, h>>)
    BY <1>3 DEF Verify
  <2>2. QED
    BY <1>1, <1>3, <2>1, FactOfStepOutput
<1>4. QED
  BY <1>2, <1>3

LEMMA RotateOutputIsFact ==
    ASSUME SInv, NEW f \in FunctionIds, NEW h \in InputHashes, NEW out, NEW p,
           ~RotateOutputAborts(out),
           RotateHit(rotateStore, f, h) \/ Verify(<<f, h>>, out, p)
    PROVE  Facts[<<f, h>>] =
              RotateFact(IF RotateHit(rotateStore, f, h)
                         THEN rotateStore.sync_committee_poseidon
                         ELSE parse_rotate_output(out))
<1>1. <<f, h>> \in Keys
  BY DEF Keys
<1>2. CASE RotateHit(rotateStore, f, h)
  BY <1>2, RotateHitNotDefault DEF SInv, RotateStoreFact
<1>3. CASE ~RotateHit(rotateStore, f, h)
  <2>1. out = TrueOutput(<<f, h>>)
    BY <1>3 DEF Verify
  <2>2. QED
    BY <1>1, <1>3, <2>1, FactOfRotateOutput
<1>4. QED
  BY <1>2, <1>3

-----------------------------------------------------------------------------
(* One lemma per action of LightClient: the abstract step it maps to.     *)

\* A step fulfilment that fails is VerifiedCalls' Fail; one that succeeds is
\* AcceptStep of its key, with the threshold in force.
LEMMA FulfillStepRefines ==
    ASSUME SInv, NEW f \in FunctionIds, NEW h \in InputHashes,
           NEW out \in Outputs, NEW p \in Proofs, FulfillStep(f, h, out, p)
    PROVE  VC!Next
<1> DEFINE k == <<f, h>>
           hit == StepHit(stepStore, f, h)
           output == IF hit THEN stepStore.verified_output ELSE parse_step_output(out)
<1>1. k \in Keys
  BY DEF Keys
<1>2. CASE \/ ~ProofDecodes(p) \/ StepOutputAborts(out)
           \/ ~hit /\ ~Verify(k, out, p)
           \/ output.participation < lcState.finality_threshold
  <2>1. \E st \in VC!FailStatus : result' = VC!Result("step", st, k, NoValue)
    BY <1>2 DEF FulfillStep, Result, VC!Result, VC!FailStatus
  <2>2. UNCHANGED <<lcState, headers>>
    BY <1>2 DEF FulfillStep
  <2>3. VC!Fail("step", k)
    BY <2>1, <2>2 DEF VC!Fail
  <2>4. QED
    BY <1>1, <2>3 DEF VC!Next, VC!Keys, Keys
<1>3. CASE /\ ProofDecodes(p) /\ ~StepOutputAborts(out)
           /\ hit \/ Verify(k, out, p)
           /\ ~(output.participation < lcState.finality_threshold)
  <2>1. Facts[k] = StepFact(output)
    BY <1>3, StepOutputIsFact
  <2>2. Facts[k].kind = "step" /\ Facts[k].step = output
    BY <2>1 DEF StepFact
  <2>3. output \in StepOutputT /\ lcState \in StateT
    BY <1>1, <2>2, ConstantsAssumption DEF SInv, TypeOK, FactT
  <2>4. output.participation >= lcState.finality_threshold
    BY <1>3, <2>3 DEF StepOutputT, StateT, U16
  <2>5. /\ headers' = SetHeader(output.finalized_slot, RootsOf(output))
        /\ result' = Result("step", "Ok", k, output)
        /\ UNCHANGED lcState
    BY <1>3 DEF FulfillStep
  <2>6. VC!AcceptStep(k)
    BY <2>2, <2>4, <2>5 DEF VC!AcceptStep, SetHeader, VC!SetHeader,
                           RootsOf, VC!RootsOf, Result, VC!Result
  <2>7. QED
    BY <1>1, <2>6 DEF VC!Next, VC!Keys, Keys
<1>4. QED
  BY <1>2, <1>3

\* A rotate fulfilment that fails is Fail; a store hit or a verified output
\* is AcceptRotate of its key.
LEMMA FulfillRotateRefines ==
    ASSUME SInv, NEW f \in FunctionIds, NEW h \in InputHashes,
           NEW out \in Outputs, NEW p \in Proofs, FulfillRotate(f, h, out, p)
    PROVE  VC!Next
<1> DEFINE k == <<f, h>>
           hit == RotateHit(rotateStore, f, h)
           poseidon == IF hit THEN rotateStore.sync_committee_poseidon
                       ELSE parse_rotate_output(out)
<1>1. k \in Keys
  BY DEF Keys
<1>2. CASE \/ ~ProofDecodes(p) \/ RotateOutputAborts(out)
           \/ ~hit /\ ~Verify(k, out, p)
  <2>1. \E st \in VC!FailStatus : result' = VC!Result("rotate", st, k, NoValue)
    BY <1>2 DEF FulfillRotate, Result, VC!Result, VC!FailStatus
  <2>2. UNCHANGED <<lcState, headers>>
    BY <1>2 DEF FulfillRotate
  <2>3. VC!Fail("rotate", k)
    BY <2>1, <2>2 DEF VC!Fail
  <2>4. QED
    BY <1>1, <2>3 DEF VC!Next, VC!Keys, Keys
<1>3. CASE /\ ProofDecodes(p) /\ ~RotateOutputAborts(out)
           /\ hit \/ Verify(k, out, p)
  <2>1. Facts[k] = RotateFact(poseidon)
    BY <1>3, RotateOutputIsFact
  <2>2. Facts[k].kind = "rotate" /\ Facts[k].poseidon = poseidon
    BY <2>1 DEF RotateFact
  <2>3. result' = Result("rotate", "Ok", k, poseidon) /\ UNCHANGED <<lcState, headers>>
    BY <1>3 DEF FulfillRotate
  <2>4. VC!AcceptRotate(k)
    BY <2>2, <2>3 DEF VC!AcceptRotate, Result, VC!Result
  <2>5. QED
    BY <1>1, <2>4 DEF VC!Next, VC!Keys, Keys
<1>4. QED
  BY <1>2, <1>3

\* UpdateState is Update, refusal included.
LEMMA UpdateStateRefines ==
    ASSUME NEW c \in Accounts, NEW u \in Accounts, NEW t \in Thresholds,
           UpdateState(c, u, t)
    PROVE  VC!Next
<1>1. VC!Update(c, u, t)
  BY DEF UpdateState, VC!Update, Result, VC!Result
<1>2. QED
  BY <1>1 DEF VC!Next, VC!Keys, Keys

-----------------------------------------------------------------------------
(* The cache refinement.  The two records implement VerifiedCache under    *)
(* the mapping cache <- CacheOf: a store that changes is a verified miss   *)
(* that puts one entry and keeps the other kind's; every other step leaves *)
(* both records, and so the cache, unchanged.                              *)

\* Steps that leave both records alone leave the cache alone.
LEMMA StoresUnchangedCache ==
    ASSUME UNCHANGED <<stepStore, rotateStore>>
    PROVE  UNCHANGED CacheOf
BY DEF CacheOf, StoreEntries

\* The rotate record's entry, as a set: kept by a step put.
RotateEntries ==
    IF rotateStore = DefaultRotateStore THEN {}
    ELSE {<<"rotate", <<rotateStore.verified_function_id, rotateStore.verified_input_hash>>>>}

StepEntries ==
    IF stepStore = DefaultStepStore THEN {}
    ELSE {<<"step", <<stepStore.verified_function_id, stepStore.verified_input_hash>>>>}

LEMMA EntriesSplit == StoreEntries = StepEntries \cup RotateEntries
BY DEF StoreEntries, StepEntries, RotateEntries

\* A step fulfilment is a put of its entry on a verified miss, and a
\* stutter of the cache otherwise.
LEMMA FulfillStepCache ==
    ASSUME SInv, NEW f \in FunctionIds, NEW h \in InputHashes,
           NEW out \in Outputs, NEW p \in Proofs, FulfillStep(f, h, out, p)
    PROVE  [VCache!Next]_CacheOf
<1> DEFINE k == <<f, h>>
           parsed == parse_step_output(out)
           e == <<"step", k>>
<1>1. UNCHANGED rotateStore
  BY DEF FulfillStep
<1>2. CASE UNCHANGED stepStore
  BY <1>1, <1>2, StoresUnchangedCache
<1>3. CASE stepStore' # stepStore
  <2>1. /\ ~StepHit(stepStore, f, h)
        /\ ~StepOutputAborts(out) /\ Verify(k, out, p)
        /\ stepStore' = [verified_function_id |-> f, verified_input_hash |-> h,
                         verified_output |-> parsed]
    BY <1>3 DEF FulfillStep, StepStoreAfter
  <2>2. Facts[k] = StepFact(parsed)
    BY <2>1, StepOutputIsFact
  <2>3. stepStore' # DefaultStepStore
    BY <2>1, KeysAssumption DEF DefaultStepStore
  <2>4. StepEntries' = {e} /\ RotateEntries' = RotateEntries
    BY <1>1, <2>1, <2>3 DEF StepEntries, RotateEntries
  <2>5. e \notin StepEntries \cup RotateEntries
    BY <2>1 DEF StepEntries, RotateEntries, StepHit
  <2>6. CacheOf' = [x \in RotateEntries \cup {e} |->
                      IF x = e THEN VCache!Proved(e[1], e[2]) ELSE CacheOf[x]]
    <3>1. StoreEntries' = RotateEntries \cup {e}
      BY <2>4 DEF StoreEntries, StepEntries, RotateEntries
    <3>2. \A x \in RotateEntries : x # e /\ x[1] = "rotate" /\ x \in StoreEntries
      BY EntriesSplit DEF RotateEntries
    <3>3. Facts[k].step = parsed
      BY <2>2 DEF StepFact
    <3>4. \A x \in RotateEntries \cup {e} :
            CacheOf'[x] = IF x = e THEN VCache!Proved(e[1], e[2]) ELSE CacheOf[x]
      BY <1>1, <2>1, <3>1, <3>2, <3>3 DEF CacheOf, VCache!Proved
    <3>5. QED
      BY <3>1, <3>4 DEF CacheOf
  <2>7. VCache!Put(e)
    <3>1. Facts[e[2]].kind = e[1]
      BY <2>2 DEF StepFact
    <3>2. RotateEntries \in SUBSET DOMAIN CacheOf
      BY EntriesSplit DEF CacheOf
    <3>3. e \notin DOMAIN CacheOf
      BY <2>5, EntriesSplit DEF CacheOf
    <3>4. QED
      BY <2>6, <3>1, <3>2, <3>3 DEF VCache!Put
  <2>8. QED
    BY <2>7 DEF VCache!Next, VCache!Kinds, VCache!Keys, Keys
<1>4. QED
  BY <1>2, <1>3

\* A rotate fulfilment likewise: a put of its entry on a verified miss.
LEMMA FulfillRotateCache ==
    ASSUME SInv, NEW f \in FunctionIds, NEW h \in InputHashes,
           NEW out \in Outputs, NEW p \in Proofs, FulfillRotate(f, h, out, p)
    PROVE  [VCache!Next]_CacheOf
<1> DEFINE k == <<f, h>>
           parsed == parse_rotate_output(out)
           e == <<"rotate", k>>
<1>1. UNCHANGED stepStore
  BY DEF FulfillRotate
<1>2. CASE UNCHANGED rotateStore
  BY <1>1, <1>2, StoresUnchangedCache
<1>3. CASE rotateStore' # rotateStore
  <2>1. /\ ~RotateHit(rotateStore, f, h)
        /\ ~RotateOutputAborts(out) /\ Verify(k, out, p)
        /\ rotateStore' = [verified_function_id |-> f, verified_input_hash |-> h,
                           sync_committee_poseidon |-> parsed]
    BY <1>3 DEF FulfillRotate
  <2>2. Facts[k] = RotateFact(parsed)
    BY <2>1, RotateOutputIsFact
  <2>3. rotateStore' # DefaultRotateStore
    BY <2>1, KeysAssumption DEF DefaultRotateStore
  <2>4. RotateEntries' = {e} /\ StepEntries' = StepEntries
    BY <1>1, <2>1, <2>3 DEF StepEntries, RotateEntries
  <2>5. e \notin StepEntries \cup RotateEntries
    BY <2>1 DEF StepEntries, RotateEntries, RotateHit
  <2>6. CacheOf' = [x \in StepEntries \cup {e} |->
                      IF x = e THEN VCache!Proved(e[1], e[2]) ELSE CacheOf[x]]
    <3>1. StoreEntries' = StepEntries \cup {e}
      BY <2>4 DEF StoreEntries, StepEntries, RotateEntries
    <3>2. \A x \in StepEntries : x # e /\ x[1] = "step" /\ x \in StoreEntries
      BY EntriesSplit DEF StepEntries
    <3>3. Facts[k].poseidon = parsed
      BY <2>2 DEF RotateFact
    <3>4. \A x \in StepEntries \cup {e} :
            CacheOf'[x] = IF x = e THEN VCache!Proved(e[1], e[2]) ELSE CacheOf[x]
      BY <1>1, <2>1, <3>1, <3>2, <3>3 DEF CacheOf, VCache!Proved
    <3>5. QED
      BY <3>1, <3>4 DEF CacheOf
  <2>7. VCache!Put(e)
    <3>1. Facts[e[2]].kind = e[1]
      BY <2>2 DEF RotateFact
    <3>2. StepEntries \in SUBSET DOMAIN CacheOf
      BY EntriesSplit DEF CacheOf
    <3>3. e \notin DOMAIN CacheOf
      BY <2>5, EntriesSplit DEF CacheOf
    <3>4. QED
      BY <2>6, <3>1, <3>2, <3>3 DEF VCache!Put
  <2>8. QED
    BY <2>7 DEF VCache!Next, VCache!Kinds, VCache!Keys, Keys
<1>4. QED
  BY <1>2, <1>3

(***************************************************************************)
(* Cache refinement, for every value of the constants: the single-record   *)
(* verified-call stores implement the memo cache of spec section 4.3 up to *)
(* eviction.  An entry appears only when a call of its kind missed the     *)
(* store and the oracle verified it, and it then holds what the circuit    *)
(* proved for its key; hits, failed calls and updates change no entry.    *)
(***************************************************************************)
THEOREM CacheRefinement == Spec => CacheRefines
<1>1. Init => VCache!Init
  <2> SUFFICES ASSUME Init PROVE CacheOf = [x \in {} |-> VCache!Proved("step", x)]
    BY DEF VCache!Init
  <2>1. StoreEntries = {}
    BY DEF Init, StoreEntries
  <2>2. QED
    BY <2>1 DEF CacheOf
<1>2. SInv /\ [Next]_vars => [VCache!Next]_CacheOf
  <2> SUFFICES ASSUME SInv, [Next]_vars PROVE [VCache!Next]_CacheOf
    OBVIOUS
  <2>1. CASE \E f \in FunctionIds, h \in InputHashes, out \in Outputs, p \in Proofs :
               FulfillStep(f, h, out, p)
    BY <2>1, FulfillStepCache
  <2>2. CASE \E f \in FunctionIds, h \in InputHashes, out \in Outputs, p \in Proofs :
               FulfillRotate(f, h, out, p)
    BY <2>2, FulfillRotateCache
  <2>3. CASE \E c, u \in Accounts, t \in Thresholds : UpdateState(c, u, t)
    BY <2>3, StoresUnchangedCache DEF UpdateState
  <2>4. CASE UNCHANGED vars
    BY <2>4, StoresUnchangedCache DEF vars
  <2>5. QED
    BY <2>1, <2>2, <2>3, <2>4 DEF Next
<1>3. QED
  BY <1>1, <1>2, SoundInvariant, PTL DEF Spec, CacheRefines, VCache!Spec

(***************************************************************************)
(* Refinement, for every value of the constants: every behaviour of the    *)
(* host flow over the verified-call stores, the pairing oracle and the     *)
(* decoders is a behaviour of VerifiedCalls.  A call fails without         *)
(* touching the headers or the configuration, or it is accepted with the   *)
(* circuit's own output for its key and the finality threshold in force,   *)
(* store hit or not; only the updater changes the configuration.          *)
(***************************************************************************)
THEOREM Refinement == Spec => Refines
<1>1. Init => VC!Init
  BY DEF Init, VC!Init, Result, VC!Result
<1>2. SInv /\ [Next]_vars => [VC!Next]_VC!avars
  <2> SUFFICES ASSUME SInv, [Next]_vars PROVE [VC!Next]_VC!avars
    OBVIOUS
  <2>1. CASE \E f \in FunctionIds, h \in InputHashes, out \in Outputs, p \in Proofs :
               FulfillStep(f, h, out, p)
    BY <2>1, FulfillStepRefines
  <2>2. CASE \E f \in FunctionIds, h \in InputHashes, out \in Outputs, p \in Proofs :
               FulfillRotate(f, h, out, p)
    BY <2>2, FulfillRotateRefines
  <2>3. CASE \E c, u \in Accounts, t \in Thresholds : UpdateState(c, u, t)
    BY <2>3, UpdateStateRefines
  <2>4. CASE UNCHANGED vars
    BY <2>4 DEF vars, VC!avars
  <2>5. QED
    BY <2>1, <2>2, <2>3, <2>4 DEF Next
<1>3. QED
  BY <1>1, <1>2, SoundInvariant, PTL DEF Spec, Refines, VC!Spec

-----------------------------------------------------------------------------
(* The discipline of the verified-call stores.  It needs no invariant:     *)
(* each action writes a store only in its accepting branch, on a miss.    *)

LEMMA FulfillStepStores ==
    ASSUME NEW f, NEW h, NEW out, NEW p, FulfillStep(f, h, out, p)
    PROVE  StoreWriteVerified
<1> DEFINE hit == StepHit(stepStore, f, h)
           parsed == parse_step_output(out)
<1>1. UNCHANGED rotateStore
  BY DEF FulfillStep
<1>2. CASE stepStore' # stepStore
  <2>1. /\ ~hit
        /\ stepStore' = [verified_function_id |-> f, verified_input_hash |-> h,
                         verified_output |-> parsed]
        /\ result' = Result("step", "Ok", <<f, h>>, parsed)
    BY <1>2 DEF FulfillStep, StepStoreAfter
  <2>2. QED
    BY <1>1, <2>1 DEF StoreWriteVerified, StepHit, Result
<1>3. QED
  BY <1>1, <1>2 DEF StoreWriteVerified

LEMMA FulfillRotateStores ==
    ASSUME NEW f, NEW h, NEW out, NEW p, FulfillRotate(f, h, out, p)
    PROVE  StoreWriteVerified
<1> DEFINE hit == RotateHit(rotateStore, f, h)
           parsed == parse_rotate_output(out)
<1>1. UNCHANGED stepStore
  BY DEF FulfillRotate
<1>2. CASE rotateStore' # rotateStore
  <2>1. /\ ~hit
        /\ rotateStore' = [verified_function_id |-> f, verified_input_hash |-> h,
                           sync_committee_poseidon |-> parsed]
        /\ result' = Result("rotate", "Ok", <<f, h>>, parsed)
    BY <1>2 DEF FulfillRotate
  <2>2. QED
    BY <1>1, <2>1 DEF StoreWriteVerified, RotateHit, Result
<1>3. QED
  BY <1>1, <1>2 DEF StoreWriteVerified

(***************************************************************************)
(* Memoized verification, for every value of the constants: no step of     *)
(* the host flow changes a verified-call store except a call that misses   *)
(* the store and succeeds, and it leaves the store answering for the key   *)
(* it was asked with the value it returned.  An update never touches them. *)
(***************************************************************************)
THEOREM StoreDisciplined == Spec => StoreDiscipline
<1>1. [Next]_vars => StoreWriteVerified
  <2> SUFFICES ASSUME [Next]_vars PROVE StoreWriteVerified
    OBVIOUS
  <2>1. CASE \E f \in FunctionIds, h \in InputHashes, out \in Outputs, p \in Proofs :
               FulfillStep(f, h, out, p)
    BY <2>1, FulfillStepStores
  <2>2. CASE \E f \in FunctionIds, h \in InputHashes, out \in Outputs, p \in Proofs :
               FulfillRotate(f, h, out, p)
    BY <2>2, FulfillRotateStores
  <2>3. CASE \E c, u \in Accounts, t \in Thresholds : UpdateState(c, u, t)
    BY <2>3 DEF UpdateState, StoreWriteVerified
  <2>4. CASE UNCHANGED vars
    BY <2>4 DEF vars, StoreWriteVerified
  <2>5. QED
    BY <2>1, <2>2, <2>3, <2>4 DEF Next
<1>2. QED
  BY <1>1, PTL DEF Spec, StoreDiscipline

=============================================================================
