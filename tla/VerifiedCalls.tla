--------------------------- MODULE VerifiedCalls ---------------------------
(***************************************************************************)
(* What the light client promises its callers (spec sections 2, 4.3 and    *)
(* 8), with the verified-call stores, the pairing oracle and the byte      *)
(* decoders hidden.  A call either fails and changes nothing but its       *)
(* result, or returns exactly what the circuit proved for the key asked;   *)
(* an accepted step must reach the finality threshold in force and records *)
(* its header and execution state roots under its slot.                    *)
(***************************************************************************)
EXTENDS OutputCodec

CONSTANTS FunctionIds, InputHashes, Accounts, Thresholds, Facts, NoValue

VARIABLES lcState, headers, result

avars == <<lcState, headers, result>>

Keys == FunctionIds \X InputHashes

Result(op, status, k, v) == [op |-> op, status |-> status, key |-> k, value |-> v]

RootsOf(o) ==
    [header_root |-> o.finalized_header_root,
     execution_state_root |-> o.execution_state_root]

SetHeader(s, r) == [x \in DOMAIN headers \cup {s} |-> IF x = s THEN r ELSE headers[x]]

\* The ways a fulfilment may fail, aborts included.
FailStatus ==
    {"VerificationFailed", "NotEnoughParticipants",
     "PanicToProof", "PanicStepOutput", "PanicRotateOutput"}

Init ==
    /\ lcState \in [updater : Accounts, finality_threshold : Thresholds]
    /\ headers = [s \in {} |-> NoValue]
    /\ result = Result("none", "Ok", NoValue, NoValue)

\* A fulfilment of key k fails: only the result changes.
Fail(op, k) ==
    /\ \E st \in FailStatus : result' = Result(op, st, k, NoValue)
    /\ UNCHANGED <<lcState, headers>>

\* A step of key k is accepted with the output its circuit proved.
AcceptStep(k) ==
    LET o == Facts[k].step IN
    /\ Facts[k].kind = "step"
    /\ o.participation >= lcState.finality_threshold
    /\ headers' = SetHeader(o.finalized_slot, RootsOf(o))
    /\ result' = Result("step", "Ok", k, o)
    /\ UNCHANGED lcState

\* A rotate of key k is accepted with the poseidon its circuit proved.
AcceptRotate(k) ==
    /\ Facts[k].kind = "rotate"
    /\ result' = Result("rotate", "Ok", k, Facts[k].poseidon)
    /\ UNCHANGED <<lcState, headers>>

\* Only the updater changes the configuration.
Update(caller, updater, threshold) ==
    /\ UNCHANGED headers
    /\ \/ /\ caller # lcState.updater
          /\ result' = Result("update", "BadOrigin", NoValue, NoValue)
          /\ UNCHANGED lcState
       \/ /\ caller = lcState.updater
          /\ lcState' = [updater |-> updater, finality_threshold |-> threshold]
          /\ result' = Result("update", "Ok", NoValue, NoValue)

Next ==
    \/ \E k \in Keys : Fail("step", k) \/ Fail("rotate", k)
                       \/ AcceptStep(k) \/ AcceptRotate(k)
    \/ \E c, u \in Accounts, t \in Thresholds : Update(c, u, t)

Spec == Init /\ [][Next]_avars

=============================================================================
