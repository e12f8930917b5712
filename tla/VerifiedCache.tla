--------------------------- MODULE VerifiedCache ---------------------------
(***************************************************************************)
(* The verified-call cache as spec section 4.3 states its contract: a memo *)
(* table from (kind, function id, input hash) to the output the circuit    *)
(* proved, with no correctness check of its own.  An entry is created only *)
(* when a call missed the cache and the pairing oracle then verified it,   *)
(* and it holds what the circuit proved for its key; a hit reads and       *)
(* changes nothing.  The spec's cache never expires an entry; the code     *)
(* keeps one record per kind, so a put may evict the other entries, and    *)
(* that is allowed here (the run cache_retains shows the eviction).        *)
(***************************************************************************)
CONSTANTS FunctionIds, InputHashes, Facts

VARIABLE cache   \* entry -> value: the verified calls the cache answers

Kinds == {"step", "rotate"}

Keys == FunctionIds \X InputHashes

\* What the circuit proved for key k, as the cache of kind kd stores it: a
\* step output or a sync-committee poseidon.
Proved(kd, k) == IF kd = "step" THEN Facts[k].step ELSE Facts[k].poseidon

Init == cache = [e \in {} |-> Proved("step", e)]

\* A verified miss puts entry e with the proved value; some of the other
\* entries may be evicted.
Put(e) ==
    /\ e \notin DOMAIN cache
    /\ Facts[e[2]].kind = e[1]
    /\ \E kept \in SUBSET DOMAIN cache :
          cache' = [x \in kept \cup {e} |-> IF x = e THEN Proved(e[1], e[2]) ELSE cache[x]]

Next == \E e \in Kinds \X Keys : Put(e)

Spec == Init /\ [][Next]_cache

=============================================================================
