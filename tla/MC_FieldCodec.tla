-------------------------- MODULE MC_FieldCodec --------------------------
(***************************************************************************)
(* Model-checking instance of FieldCodec: moduli Fq = 13 and Fr = 11, so   *)
(* one- and two-digit strings cover numbers below both moduli, between     *)
(* them (12) and above both (17, reducing to 4 in Fq and 6 in Fr).        *)
(***************************************************************************)
EXTENDS FieldCodec

\* The coordinate strings: canonical numbers, one between the moduli, one
\* above both, a leading zero, the empty string and a non-digit.
Strs ==
    { << 1 >>, << 4 >>, << 1, 2 >>, << 1, 7 >>, << 0 >>, << 0, 5 >>, << >>,
      << 3, NonDigit >> }

\* A proof with the eight coordinate strings v[1..8].
FromCoords(v) ==
    [pi_a |-> << v[1], v[2] >>,
     pi_b |-> << << v[3], v[4] >>, << v[5], v[6] >> >>,
     pi_c |-> << v[7], v[8] >>]

\* A well-formed proof whose coordinates 1..8 are all different.
Base == << << 1 >>, << 2 >>, << 3 >>, << 4 >>, << 5 >>, << 6 >>, << 7 >>, << 8 >> >>

\* The base proof with one coordinate replaced by each string, and proofs
\* whose pi_a, a row of pi_b, pi_b itself or pi_c is too short.
MCCircomProofs ==
    { FromCoords([Base EXCEPT ![k] = s]) : k \in 1..8, s \in Strs }
    \cup { [FromCoords(Base) EXCEPT !.pi_a = << << 1 >> >>],
           [FromCoords(Base) EXCEPT !.pi_b = << << << 3 >>, << 4 >> >> >>],
           [FromCoords(Base) EXCEPT !.pi_b[2] = << << 5 >> >>],
           [FromCoords(Base) EXCEPT !.pi_c = << >>] }

\* Every vector of at most two strings.
MCSignals == { << >> } \cup { << s >> : s \in Strs }
             \cup { << s, t >> : s \in Strs, t \in Strs }

=============================================================================
