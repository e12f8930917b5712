---------------------------- MODULE FieldCodec ----------------------------
(***************************************************************************)
(* The field and group codec of src/pallets/succinct/src/state.rs:        *)
(* CircomProof::new and CircomProof::to_proof turn the decimal strings of  *)
(* a Groth16 proof into two G1 points and a G2 point, and                  *)
(* PublicSignals::get turns the decimal public inputs into scalars.        *)
(*                                                                         *)
(* Every string goes through ark-ff's FromStr for a prime field (version  *)
(* 0.3, the one whose GroupAffine::new takes the infinity flag as the code *)
(* passes it), followed by unwrap().  That parser is the subject of the    *)
(* properties here, so a string is kept as its characters: a digit 0..9 or *)
(* NonDigit, standing for every other character.  The prime fields are     *)
(* scaled down to the moduli FqModulus (base field, coordinates) and       *)
(* FrModulus (scalar field, public inputs); as in BN254, Fr < Fq.          *)
(* G1Affine::new and G2Affine::new with infinity = false check nothing in  *)
(* ark-ec 0.3: a point is its coordinates.                                 *)
(***************************************************************************)
EXTENDS Naturals, Sequences

CONSTANTS
    FqModulus,      \* the order of the base field Fq
    FrModulus,      \* the order of the scalar field Fr
    NonDigit,       \* a character for which char::to_digit(10) is None
    CircomProofs,   \* the (pi_a, pi_b, pi_c) string vectors a relayer may send
    Signals,        \* the public-signal string vectors a relayer may send
    NoValue         \* the value of a result that has none

ASSUME FieldAssumption ==
    /\ FqModulus \in Nat \ {0, 1}
    /\ FrModulus \in Nat \ {0, 1}
    /\ NonDigit \notin 0..9

VARIABLES
    proofResult,    \* outcome of the last to_proof: input, status, proof
    signalsResult   \* outcome of the last PublicSignals::get

vars == <<proofResult, signalsResult>>

-----------------------------------------------------------------------------
(***************************************************************************)
(* FromStr for Fp (ark-ff 0.3): an empty string is an error; "0" is zero;  *)
(* otherwise every character must be a decimal digit and the first one    *)
(* must not be 0, and the value is accumulated as res = res * 10 + digit   *)
(* in the field, that is modulo the field's order.  The final is_valid    *)
(* test always holds for a reduced element.                               *)
(***************************************************************************)

\* Mutant: leading zeros accepted, as a big-integer parser would.
MutantFromStrLeadingZeros(s) ==
    \/ s = << >>
    \/ \E i \in 1..Len(s) : s[i] \notin 0..9

FromStrFails(s) ==
    \/ s = << >>
    \/ \E i \in 1..Len(s) : s[i] \notin 0..9
    \/ s # << 0 >> /\ s[1] = 0

\* The value from_str computes for a string it accepts, in the field of
\* order p: Horner's rule with a reduction after every digit.
FromStrValue(s, p) ==
    LET res[i \in 0..Len(s)] == IF i = 0 THEN 0 ELSE (res[i - 1] * 10 + s[i]) % p
    IN  res[Len(s)]

\* CircomProof::new: the three coordinate vectors, tagged groth16 / bn128.
CircomProofNew(a, b, c) ==
    [pi_a |-> a, pi_b |-> b, pi_c |-> c, protocol |-> "groth16", curve |-> "bn128"]

\* The eight coordinate strings to_proof reads, in the order it reads them.
CoordStrings(cp) ==
    << cp.pi_a[1], cp.pi_a[2], cp.pi_b[1][1], cp.pi_b[1][2],
       cp.pi_b[2][1], cp.pi_b[2][2], cp.pi_c[1], cp.pi_c[2] >>

(***************************************************************************)
(* to_proof indexes pi_a[0..1], pi_b[0..1][0..1] and pi_c[0..1] without a *)
(* length check and unwraps every parse: a short vector or a string       *)
(* from_str rejects aborts.                                                *)
(***************************************************************************)
ToProofAborts(cp) ==
    \/ Len(cp.pi_a) < 2 \/ Len(cp.pi_b) < 2
    \/ Len(cp.pi_b[1]) < 2 \/ Len(cp.pi_b[2]) < 2 \/ Len(cp.pi_c) < 2
    \/ \E k \in 1..8 : FromStrFails(CoordStrings(cp)[k])

\* Fp256::from_str(..).unwrap() in the base field.
Fq(s) == FromStrValue(s, FqModulus)

G1(v) == [x |-> Fq(v[1]), y |-> Fq(v[2]), infinity |-> FALSE]

\* Mutant: the two halves of each quadratic-extension coordinate swapped.
MutantToProofSwappedC(cp) ==
    [a |-> G1(cp.pi_a),
     b |-> [x |-> [c0 |-> Fq(cp.pi_b[1][2]), c1 |-> Fq(cp.pi_b[1][1])],
            y |-> [c0 |-> Fq(cp.pi_b[2][2]), c1 |-> Fq(cp.pi_b[2][1])],
            infinity |-> FALSE],
     c |-> G1(cp.pi_c)]

to_proof(cp) ==
    [a |-> G1(cp.pi_a),
     b |-> [x |-> [c0 |-> Fq(cp.pi_b[1][1]), c1 |-> Fq(cp.pi_b[1][2])],
            y |-> [c0 |-> Fq(cp.pi_b[2][1]), c1 |-> Fq(cp.pi_b[2][2])],
            infinity |-> FALSE],
     c |-> G1(cp.pi_c)]

\* Mutant: the scalar parser accepts leading zeros.
MutantGetLeadingZeros(signals) ==
    \E i \in 1..Len(signals) : MutantFromStrLeadingZeros(signals[i])

\* PublicSignals::get unwraps Fr::from_str of every input, in order.
GetAborts(signals) == \E i \in 1..Len(signals) : FromStrFails(signals[i])

\* Mutant: the inputs parsed in the base field Fq instead of Fr.
MutantGetInFq(signals) ==
    [i \in 1..Len(signals) |-> FromStrValue(signals[i], FqModulus)]

get(signals) == [i \in 1..Len(signals) |-> FromStrValue(signals[i], FrModulus)]

-----------------------------------------------------------------------------
Result(input, status, value) == [input |-> input, status |-> status, value |-> value]

Init ==
    /\ proofResult = Result(NoValue, "None", NoValue)
    /\ signalsResult = Result(NoValue, "None", NoValue)

\* The host builds a CircomProof from the relayer's strings and converts it.
ToProof(a, b, c) ==
    LET cp == CircomProofNew(a, b, c) IN
    /\ proofResult' = IF ToProofAborts(cp) THEN Result(cp, "Panic", NoValue)
                      ELSE Result(cp, "Ok", to_proof(cp))
    /\ UNCHANGED signalsResult

\* The host wraps the relayer's public inputs (PublicSignals::from) and
\* converts them.
GetSignals(signals) ==
    /\ signalsResult' = IF GetAborts(signals) THEN Result(signals, "Panic", NoValue)
                        ELSE Result(signals, "Ok", get(signals))
    /\ UNCHANGED proofResult

Next ==
    \/ \E p \in CircomProofs : ToProof(p.pi_a, p.pi_b, p.pi_c)
    \/ \E s \in Signals : GetSignals(s)

Spec == Init /\ [][Next]_vars

-----------------------------------------------------------------------------
\* Fq2, G1 and G2 elements of the scaled-down fields.
FqElem == 0..(FqModulus - 1)

G1T == [x : FqElem, y : FqElem, infinity : {FALSE}]

G2T == [x : [c0 : FqElem, c1 : FqElem], y : [c0 : FqElem, c1 : FqElem],
        infinity : {FALSE}]

TypeOK ==
    /\ proofResult.status \in {"None", "Ok", "Panic"}
    /\ proofResult.value \in IF proofResult.status = "Ok"
                             THEN [a : G1T, b : G2T, c : G1T] ELSE {NoValue}
    /\ signalsResult.status \in {"None", "Ok", "Panic"}
    /\ signalsResult.value \in IF signalsResult.status = "Ok"
                               THEN Seq(0..(FrModulus - 1)) ELSE {NoValue}

(***************************************************************************)
(* Reference: the canonical decimal spelling of a natural number, written  *)
(* without the parser: its digits from the most significant, no leading    *)
(* zero, and "0" for zero.                                                 *)
(***************************************************************************)
Decimal(n) ==
    LET k == CHOOSE k \in 1..(n + 1) : n < 10^k /\ (k = 1 \/ 10^(k - 1) <= n)
    IN  [i \in 1..k |-> (n \div 10^(k - i)) % 10]

\* s is the decimal spelling of a number n, and v is n in the field of order p.
Denotes(s, v, p) == \E n \in 0..(10^Len(s)) : Decimal(n) = s /\ v = n % p

\* The eight coordinates of a G1, G2, G1 proof, in the order of CoordStrings.
ProofCoords(pf) ==
    << pf.a.x, pf.a.y, pf.b.x.c0, pf.b.x.c1, pf.b.y.c0, pf.b.y.c1, pf.c.x, pf.c.y >>

(***************************************************************************)
(* A converted proof means what its strings say: each of the eight         *)
(* coordinates of the proof to_proof returns is the number its string      *)
(* spells in canonical decimal, reduced into Fq, and it sits in the slot   *)
(* of that string (pi_b[i][0] is c0 and pi_b[i][1] is c1 of the i-th G2    *)
(* coordinate).  A malformed string never yields a proof.                  *)
(***************************************************************************)
ProofDenotes ==
    proofResult.status = "Ok" =>
        \A k \in 1..8 : Denotes(CoordStrings(proofResult.input)[k],
                                ProofCoords(proofResult.value)[k], FqModulus)

(***************************************************************************)
(* Public inputs keep their meaning and their order: PublicSignals::get    *)
(* returns one scalar per string, and the i-th is the number the i-th      *)
(* string spells, reduced into Fr (not Fq, whose order is larger).         *)
(***************************************************************************)
SignalsDenote ==
    signalsResult.status = "Ok" =>
        /\ Len(signalsResult.value) = Len(signalsResult.input)
        /\ \A i \in 1..Len(signalsResult.input) :
              Denotes(signalsResult.input[i], signalsResult.value[i], FrModulus)

\* Only canonical field elements are accepted (spec section 3): a string
\* spelling a number at or above the modulus is InvalidFieldElement, so no
\* two strings convert to the same proof.
ProofCanonical ==
    proofResult.status = "Ok" =>
        \A k \in 1..8 : \E n \in 0..(FqModulus - 1) :
            Decimal(n) = CoordStrings(proofResult.input)[k]

=============================================================================
