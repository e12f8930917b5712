---------------------------- MODULE LightClient ----------------------------
(***************************************************************************)
(* The light-client host flow around the verified-call stores of           *)
(* src/pallets/succinct/src/state.rs.                                      *)
(*                                                                         *)
(* An untrusted relayer fulfils a call (function id, input hash, raw       *)
(* output bytes, proof).  The proof strings are converted to curve points  *)
(* (CircomProof::to_proof, PublicSignals::get), the output bytes are       *)
(* decoded (parse_step_output / parse_rotate_output), then the verified-   *)
(* call store either answers for the same (function id, input hash) or    *)
(* the pairing oracle is asked and, on success, the store is overwritten.  *)
(* An accepted step whose participation reaches the finality threshold     *)
(* records its header and execution state roots under its slot.  The      *)
(* updater may change the light-client configuration (State).             *)
(*                                                                         *)
(* The stores are single records, as the structs VerifiedStepCallStore     *)
(* and VerifiedRotateCallStore are, starting at their Default values.      *)
(* The host flow itself (dispatch order, oracle, revert of a failed call)  *)
(* is not under src/ and follows spec.md sections 2, 4.3 and 7.           *)
(***************************************************************************)
EXTENDS OutputCodec

CONSTANTS
    FunctionIds,   \* function identifiers (H256, compared only for equality)
    InputHashes,   \* input hashes (H256, compared only for equality)
    Accounts,      \* signed origins, candidates for the updater
    Thresholds,    \* finality_threshold values the updater may set (u16)
    Facts,         \* Facts[<<f, h>>]: what circuit f proves for input h
    Outputs,       \* the output buffers a relayer may submit
    NoValue        \* the key or value of a result that has none

\* H256::zero(), the identifier held by the Default stores.
ZeroHash == 0

Keys == FunctionIds \X InputHashes

\* A fact is the decoded result the circuit commits to: a step output or a
\* sync-committee poseidon (a U256, kept as its 32 bytes).
StepFact(r) == [kind |-> "step", step |-> r]
RotateFact(p) == [kind |-> "rotate", poseidon |-> p]
FactT == [kind : {"step"}, step : StepOutputT] \cup [kind : {"rotate"}, poseidon : Bytes32]

ASSUME KeysAssumption ==
    /\ FunctionIds \subseteq Nat /\ InputHashes \subseteq Nat
    \* an input hash is a sha256 image, never the zero hash
    /\ ZeroHash \notin InputHashes

ASSUME ConstantsAssumption ==
    /\ Thresholds \subseteq U16 /\ Thresholds # {}
    /\ Accounts # {}
    /\ Outputs \subseteq Seq(Byte)
    /\ Facts \in [Keys -> FactT]

\* The step circuit outputs its finalized slot as a u64 (8 bytes).
ASSUME SlotsAssumption ==
    \A k \in Keys : Facts[k].kind = "step" => FitsU64(Facts[k].step.finalized_slot)

\* The bytes circuit f outputs for input h: the only output for which the
\* pairing oracle accepts a proof of (f, h).
TrueOutput(k) ==
    IF Facts[k].kind = "step" THEN EncodeStep(Facts[k].step)
    ELSE Facts[k].poseidon

\* The relayer's proof: valid for the true output, invalid, or strings that
\* do not parse as field elements.
Proofs == {"Valid", "Invalid", "Malformed"}

VARIABLES
    lcState,      \* State: the updater and the finality threshold
    stepStore,    \* VerifiedStepCallStore
    rotateStore,  \* VerifiedRotateCallStore
    headers,      \* finalized slot -> header and execution state roots
    result,       \* outcome of the last call
    verified      \* history: the (kind, key) pairs the pairing oracle accepted

vars == <<lcState, stepStore, rotateStore, headers, result, verified>>

-----------------------------------------------------------------------------
\* The type State, abstracted to the fields a property reads: the other
\* fields (genesis root and time, slot lengths, chain id) are never read
\* by the code under src/.
StateT == [updater : Accounts, finality_threshold : U16]

StepStoreT ==
    [verified_function_id : FunctionIds \cup {ZeroHash},
     verified_input_hash  : InputHashes \cup {ZeroHash},
     verified_output      : StepOutputT]

RotateStoreT ==
    [verified_function_id    : FunctionIds \cup {ZeroHash},
     verified_input_hash     : InputHashes \cup {ZeroHash},
     sync_committee_poseidon : Bytes32]

\* VerifiedStepCallStore::default() and VerifiedRotateCallStore::default().
DefaultStepStore ==
    [verified_function_id |-> ZeroHash, verified_input_hash |-> ZeroHash,
     verified_output |-> DefaultStepOutput]

DefaultRotateStore ==
    [verified_function_id |-> ZeroHash, verified_input_hash |-> ZeroHash,
     sync_committee_poseidon |-> Zero32]

\* What headers maps a slot to: the two roots of an accepted step.
RootsT == [header_root : Bytes32, execution_state_root : Bytes32]

RootsOf(o) ==
    [header_root |-> o.finalized_header_root,
     execution_state_root |-> o.execution_state_root]

Result(op, status, k, v) == [op |-> op, status |-> status, key |-> k, value |-> v]

-----------------------------------------------------------------------------
\* CircomProof::to_proof and PublicSignals::get unwrap every field-element
\* parse: a malformed string aborts.
ProofDecodes(proof) == proof # "Malformed"

\* Mutant: the output is not bound into the verified public inputs, so any
\* well-formed valid proof verifies whatever output accompanies it.
MutantVerifyUnbound(k, out, proof) == proof = "Valid"

\* The pairing oracle: a proof of (f, h, out) verifies only for the output
\* the circuit really computes.
Verify(k, out, proof) == proof = "Valid" /\ out = TrueOutput(k)

\* The store answers for (f, h) when it holds exactly that key.
StepHit(store, f, h) ==
    store.verified_function_id = f /\ store.verified_input_hash = h

RotateHit(store, f, h) ==
    store.verified_function_id = f /\ store.verified_input_hash = h

\* headers with slot s set to roots r (overwriting: slots need not grow).
SetHeader(s, r) == [x \in DOMAIN headers \cup {s} |-> IF x = s THEN r ELSE headers[x]]

Init ==
    /\ lcState \in [updater : Accounts, finality_threshold : Thresholds]
    /\ stepStore = DefaultStepStore
    /\ rotateStore = DefaultRotateStore
    /\ headers = [s \in {} |-> NoValue]
    /\ result = Result("none", "Ok", NoValue, NoValue)
    /\ verified = {}

\* Mutant: the store is rewritten with the relayer's decoded output on a
\* hit too, so an output the oracle never saw replaces the verified one.
MutantStepStoreOnHit(hit, f, h, parsed) ==
    [verified_function_id |-> f, verified_input_hash |-> h, verified_output |-> parsed]

\* The step store after an accepted step: kept on a hit, overwritten with
\* the verified output and its key on a miss.
StepStoreAfter(hit, f, h, parsed) ==
    IF hit THEN stepStore
    ELSE [verified_function_id |-> f, verified_input_hash |-> h, verified_output |-> parsed]

(***************************************************************************)
(* Fulfil a step call.  Decoding comes first and aborts on a malformed     *)
(* proof or a short output; a call that fails returns an error and leaves  *)
(* storage unchanged (the dispatch is transactional).                      *)
(***************************************************************************)
FulfillStep(f, h, out, proof) ==
    LET k == <<f, h>>
        parsed == parse_step_output(out)
        hit == StepHit(stepStore, f, h)
        output == IF hit THEN stepStore.verified_output ELSE parsed
    IN
    /\ UNCHANGED lcState
    /\ IF ~ProofDecodes(proof)
       THEN /\ result' = Result("step", "PanicToProof", k, NoValue)
            /\ UNCHANGED <<stepStore, rotateStore, headers, verified>>
       ELSE IF StepOutputAborts(out)
       THEN /\ result' = Result("step", "PanicStepOutput", k, NoValue)
            /\ UNCHANGED <<stepStore, rotateStore, headers, verified>>
       ELSE IF ~hit /\ ~Verify(k, out, proof)
       THEN /\ result' = Result("step", "VerificationFailed", k, NoValue)
            /\ UNCHANGED <<stepStore, rotateStore, headers, verified>>
       ELSE IF output.participation < lcState.finality_threshold
       THEN /\ result' = Result("step", "NotEnoughParticipants", k, NoValue)
            /\ UNCHANGED <<stepStore, rotateStore, headers, verified>>
       ELSE /\ stepStore' = StepStoreAfter(hit, f, h, parsed)
            /\ headers' = SetHeader(output.finalized_slot, RootsOf(output))
            /\ result' = Result("step", "Ok", k, output)
            /\ verified' = IF hit THEN verified ELSE verified \cup {<<"step", k>>}
            /\ UNCHANGED rotateStore

\* Fulfil a rotate call: decode, answer from the store or verify and store.
FulfillRotate(f, h, out, proof) ==
    LET k == <<f, h>>
        parsed == parse_rotate_output(out)
        hit == RotateHit(rotateStore, f, h)
    IN
    /\ UNCHANGED <<lcState, stepStore, headers>>
    /\ IF ~ProofDecodes(proof)
       THEN /\ result' = Result("rotate", "PanicToProof", k, NoValue)
            /\ UNCHANGED <<rotateStore, verified>>
       ELSE IF RotateOutputAborts(out)
       THEN /\ result' = Result("rotate", "PanicRotateOutput", k, NoValue)
            /\ UNCHANGED <<rotateStore, verified>>
       ELSE IF hit
       THEN /\ result' = Result("rotate", "Ok", k, rotateStore.sync_committee_poseidon)
            /\ UNCHANGED <<rotateStore, verified>>
       ELSE IF ~Verify(k, out, proof)
       THEN /\ result' = Result("rotate", "VerificationFailed", k, NoValue)
            /\ UNCHANGED <<rotateStore, verified>>
       ELSE /\ rotateStore' = [verified_function_id |-> f, verified_input_hash |-> h,
                               sync_committee_poseidon |-> parsed]
            /\ result' = Result("rotate", "Ok", k, parsed)
            /\ verified' = verified \cup {<<"rotate", k>>}

\* The updater sets a new updater and finality threshold; any other origin
\* is refused.  The verified-call stores are left alone.
UpdateState(caller, updater, threshold) ==
    /\ UNCHANGED <<stepStore, rotateStore, headers, verified>>
    /\ IF caller # lcState.updater
       THEN /\ result' = Result("update", "BadOrigin", NoValue, NoValue)
            /\ UNCHANGED lcState
       ELSE /\ lcState' = [updater |-> updater, finality_threshold |-> threshold]
            /\ result' = Result("update", "Ok", NoValue, NoValue)

Next ==
    \/ \E f \in FunctionIds, h \in InputHashes, out \in Outputs, p \in Proofs:
          \/ FulfillStep(f, h, out, p)
          \/ FulfillRotate(f, h, out, p)
    \/ \E c, u \in Accounts, t \in Thresholds: UpdateState(c, u, t)

Spec == Init /\ [][Next]_vars

-----------------------------------------------------------------------------
\* A call that aborts, and where: the proof conversion or a decoder.
PanicStatus == {"PanicToProof", "PanicStepOutput", "PanicRotateOutput"}

\* What a result may carry: a step output or a poseidon after a successful
\* call, nothing otherwise.
ResultValues(op, status) ==
    IF status = "Ok" /\ op = "step" THEN StepOutputT
    ELSE IF status = "Ok" /\ op = "rotate" THEN Bytes32
    ELSE {NoValue}

ResultStatus ==
    {"Ok", "VerificationFailed", "NotEnoughParticipants", "BadOrigin"} \cup PanicStatus

HeadersTypeOK(hd) ==
    /\ DOMAIN hd \subseteq Nat
    /\ \A s \in DOMAIN hd : hd[s] \in RootsT

ResultTypeOK(r) ==
    /\ r = Result(r.op, r.status, r.key, r.value)
    /\ r.op \in {"none", "step", "rotate", "update"}
    /\ r.status \in ResultStatus
    /\ r.key \in Keys \cup {NoValue}
    /\ r.value \in ResultValues(r.op, r.status)

TypeOK ==
    /\ lcState \in StateT
    /\ stepStore \in StepStoreT
    /\ rotateStore \in RotateStoreT
    /\ HeadersTypeOK(headers)
    /\ ResultTypeOK(result)
    /\ verified \subseteq {"step", "rotate"} \X Keys

(***************************************************************************)
(* Store coherence: each verified-call store is either still its Default   *)
(* or holds, under its key, the decoding of the output the oracle accepts  *)
(* for that key.  This is what lets a store hit skip the pairing check.    *)
(***************************************************************************)
StepStoreCoherent ==
    \/ stepStore = DefaultStepStore
    \/ /\ <<stepStore.verified_function_id, stepStore.verified_input_hash>> \in Keys
       /\ stepStore.verified_output =
            parse_step_output(TrueOutput(<<stepStore.verified_function_id,
                                           stepStore.verified_input_hash>>))

RotateStoreCoherent ==
    \/ rotateStore = DefaultRotateStore
    \/ /\ <<rotateStore.verified_function_id, rotateStore.verified_input_hash>> \in Keys
       /\ rotateStore.sync_committee_poseidon =
            parse_rotate_output(TrueOutput(<<rotateStore.verified_function_id,
                                             rotateStore.verified_input_hash>>))

StoresCoherent == StepStoreCoherent /\ RotateStoreCoherent

(***************************************************************************)
(* Result soundness: a call that succeeds returns exactly what the circuit *)
(* proves for the key the relayer asked about, whether it was answered     *)
(* from the store or by the oracle and the decoder.                        *)
(***************************************************************************)
ResultSound ==
    result.status = "Ok" /\ result.op \in {"step", "rotate"} =>
        \/ result.op = "step" /\ Facts[result.key] = StepFact(result.value)
        \/ result.op = "rotate" /\ Facts[result.key] = RotateFact(result.value)

(***************************************************************************)
(* Header soundness: every recorded header and execution state root is the *)
(* pair some step circuit proved for exactly that slot.  It fails if the   *)
(* decoder misreads a field or a forged output is accepted.                *)
(***************************************************************************)
HeaderSound ==
    \A s \in DOMAIN headers :
        \E k \in Keys :
            /\ Facts[k].kind = "step"
            /\ Facts[k].step.finalized_slot = s
            /\ headers[s] = RootsOf(Facts[k].step)

(***************************************************************************)
(* Idempotent verification (spec sections 1 and 9): once the oracle has    *)
(* accepted a call, the verified-call store keeps answering for its key,   *)
(* so the same call is never sent to the pairing check again.  The code    *)
(* keeps one record per store, which the next verified call overwrites.    *)
(***************************************************************************)
CacheRetains ==
    \A v \in verified :
        IF v[1] = "step" THEN StepHit(stepStore, v[2][1], v[2][2])
        ELSE RotateHit(rotateStore, v[2][1], v[2][2])

(***************************************************************************)
(* Refinement: the host flow over the stores, the oracle and the decoders  *)
(* implements VerifiedCalls, with the stores and the oracle history        *)
(* hidden.  Every fulfilment either fails without touching the headers or  *)
(* is an accepted call of the circuit's true output, checked against the   *)
(* finality threshold in force when the call is made, cache hit or not.    *)
(***************************************************************************)
VC == INSTANCE VerifiedCalls
        WITH lcState <- lcState, headers <- headers, result <- result

Refines == VC!Spec

\* The entries the two store records hold: none while a store is its
\* Default, else one, under the store's kind and key.
StoreEntries ==
    (IF stepStore = DefaultStepStore THEN {}
     ELSE {<<"step", <<stepStore.verified_function_id, stepStore.verified_input_hash>>>>})
    \cup
    (IF rotateStore = DefaultRotateStore THEN {}
     ELSE {<<"rotate", <<rotateStore.verified_function_id, rotateStore.verified_input_hash>>>>})

\* The cache the two records implement: each entry maps to its record's value.
CacheOf ==
    [e \in StoreEntries |->
        IF e[1] = "step" THEN stepStore.verified_output
        ELSE rotateStore.sync_committee_poseidon]

(***************************************************************************)
(* Cache refinement: the two single-record stores implement the memo cache *)
(* of spec section 4.3 (VerifiedCache), up to eviction.  An entry appears  *)
(* only when a call of its kind missed and was verified, and it holds what *)
(* the circuit proved for its key; a hit, a failed call or an update       *)
(* leaves the cache as it was.                                             *)
(***************************************************************************)
VCache == INSTANCE VerifiedCache WITH cache <- CacheOf

CacheRefines == VCache!Spec

(***************************************************************************)
(* Memoized verification (spec sections 2 and 4.3): a verified-call store *)
(* changes only on a miss, only in a call that succeeds, and then holds    *)
(* exactly the key that call asked about and the value it returned.  A     *)
(* hit answers from the store and leaves it alone, so an output the oracle *)
(* did not accept can never enter a store.                                 *)
(***************************************************************************)
StoreWriteVerified ==
    /\ stepStore' # stepStore =>
          /\ result'.op = "step" /\ result'.status = "Ok"
          /\ ~StepHit(stepStore, result'.key[1], result'.key[2])
          /\ StepHit(stepStore', result'.key[1], result'.key[2])
          /\ stepStore'.verified_output = result'.value
    /\ rotateStore' # rotateStore =>
          /\ result'.op = "rotate" /\ result'.status = "Ok"
          /\ ~RotateHit(rotateStore, result'.key[1], result'.key[2])
          /\ RotateHit(rotateStore', result'.key[1], result'.key[2])
          /\ rotateStore'.sync_committee_poseidon = result'.value

StoreDiscipline == [][StoreWriteVerified]_vars

\* parse_step_output never aborts: a truncated output is a typed error
\* (TruncatedOutput, spec sections 4.2 and 7), not a panic.
StepOutputTotal == result.status # "PanicStepOutput"

\* parse_rotate_output never aborts: an oversized output is a typed error
\* (OutputTooLarge, spec sections 4.2 and 7), not a panic.
RotateOutputTotal == result.status # "PanicRotateOutput"

=============================================================================
