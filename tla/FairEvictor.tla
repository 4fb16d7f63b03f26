---------------------------- MODULE FairEvictor ----------------------------
(***************************************************************************)
(* What the fair evictor computes (evictor/fair_evictor.py and the         *)
(* CacheEntry of mem_pool/base_pool.py), as operators on the evictor's     *)
(* tables.  FairBackend.tla keeps the tables as variables and says when    *)
(* they are read and written.                                              *)
(*                                                                         *)
(* A cache entry is a record [slot, lambda, access]: the pool chunk that   *)
(* holds its data, its decay rate, and its access_map, which gives the     *)
(* time of the last access of every client that shares it.  Two fields of  *)
(* the CacheEntry class are not kept: "value", because the code recomputes *)
(* it after every change of the access_map, so that it always equals       *)
(* Score(entry), and "last_access_time", which is read only while the      *)
(* access_map is empty, and no registered entry has an empty one.          *)
(***************************************************************************)
EXTENDS Dicts, Integers, FiniteSets

CONSTANTS
    Keys,              \* chunk keys; Naturals, because CacheEngineKeys are ordered
    Clients,           \* client ids
    Lambdas,           \* decay rates: LAMBDA_LOW, LAMBDA_HIGH
    SizePerChunk,      \* mpool.size_per_chunk: the bytes of a pool chunk
    ThresholdInverse   \* 1 / value_threshold

ASSUME EvictorAssumption ==
    /\ Keys \subseteq Nat /\ IsFiniteSet(Keys)
    /\ IsFiniteSet(Clients)
    /\ Lambdas \subseteq Nat
    /\ SizePerChunk \in Nat \ {0}
    /\ ThresholdInverse \in Nat

(* cache_size / num_clients is a float division; sizes are taken divisible *)
(* so that the integer quotient of the model is the exact one.             *)
ASSUME ShareAssumption ==
    \A n \in 1 .. Cardinality(Clients) : SizePerChunk % n = 0

(***************************************************************************)
(* calculate_value returns log(S) with S = sum_i exp(lambda * t_i).  The   *)
(* code only compares these values, and log is monotone, so the score is S *)
(* itself; the base of the exponential is 2 to keep it an integer.  The    *)
(* sum is the size of a disjoint union, which spares the proofs a fold.    *)
(***************************************************************************)
Weight(entry, c) == 2^(entry.lambda * entry.access[c])
Score(entry) ==
    Cardinality(UNION {{c} \X (1 .. Weight(entry, c)) : c \in DOMAIN entry.access})

(* instant_value(now) < value_threshold: P(now) = exp(-lambda * now) * S.  *)
BelowThreshold(entry, now) ==
    Score(entry) * ThresholdInverse < 2^(entry.lambda * now)

(***************************************************************************)
(* The heaps hold (value, key) tuples, compared lexicographically.  An     *)
(* entry is only ever removed from the top, and duplicates behave as one,  *)
(* so a heap is a set of pairs.                                            *)
(***************************************************************************)
HeapLeq(p, q) == p[1] < q[1] \/ (p[1] = q[1] /\ p[2] <= q[2])

(* _update_global_heap: push a pair, leaving the older pairs of its key.   *)
PushGlobal(heaps, l, pair) == [heaps EXCEPT ![l] = @ \cup {pair}]

(* _update_client_heap: the same, in the heaps of client c.                *)
PushClient(heaps, c, l, pair) == [heaps EXCEPT ![c][l] = @ \cup {pair}]

(* The loop over the sharers C of a chunk in update_on_get.  Faulty        *)
(* variant: clients that already have a pair for the chunk are left out.   *)
PushSharedOnce(heaps, C, l, pair) ==
    [c \in Clients |-> IF c \in C /\ \A p \in heaps[c][l] : p[2] # pair[2]
                      THEN [heaps[c] EXCEPT ![l] = @ \cup {pair}] ELSE heaps[c]]
PushShared(heaps, C, l, pair) ==
    [c \in Clients |-> IF c \in C THEN [heaps[c] EXCEPT ![l] = @ \cup {pair}] ELSE heaps[c]]

(* key_to_clients[key].add(client_id)                                      *)
AddClient(map, key, c) == Assoc(map, key, Lookup(map, key, {}) \cup {c})

(* _get_min_value_key: a global pair is valid if its key is cached under   *)
(* this lambda with exactly this value, and is not excluded.  Faulty       *)
(* variant: an outdated value is accepted.                                 *)
ValidGlobalStale(heaps, dict, excluded) ==
    [l \in Lambdas |-> {p \in heaps[l] : /\ p[2] \in DOMAIN dict \ excluded
                                         /\ dict[p[2]].lambda = l}]
ValidGlobal(heaps, dict, excluded) ==
    [l \in Lambdas |-> {p \in heaps[l] : /\ p[2] \in DOMAIN dict \ excluded
                                         /\ dict[p[2]].lambda = l
                                         /\ Score(dict[p[2]]) = p[1]}]

(* _get_min_value_key_for_client: the same test for one client's heaps,    *)
(* but the value of the pair is not compared with that of the entry.       *)
ValidClient(heaps, c, dict, excluded) ==
    [l \in Lambdas |-> {p \in heaps[l] : /\ p[2] \in DOMAIN dict \ excluded
                                         /\ dict[p[2]].lambda = l
                                         /\ c \in DOMAIN dict[p[2]].access}]

(* The "while heap" loops pop the top of each heap until it is valid ...   *)
PopInvalid(heaps, valid) ==
    [l \in Lambdas |-> {p \in heaps[l] : \E q \in valid[l] : HeapLeq(q, p)}]

(* ... and the least of these tops is the result, None if there is none.   *)
(* On a tie between lambdas the order of the dictionary of heaps decides,  *)
(* which is left open.                                                     *)
MinKeys(valid) ==
    LET tops == UNION {{p \in valid[l] : \A q \in valid[l] : HeapLeq(p, q)} : l \in Lambdas}
    IN  {p[2] : p \in {q \in tops : \A r \in tops : q[1] <= r[1]}}

(***************************************************************************)
(* Client cache sizes.                                                     *)
(***************************************************************************)
MaxClients(sizes) == {c \in DOMAIN sizes : \A d \in DOMAIN sizes : sizes[d] <= sizes[c]}

(* max(0, ...); faulty variant: the clamp is forgotten.                    *)
NonNegUnclamped(n) == n
NonNeg(n) == IF n < 0 THEN 0 ELSE n
ShareOf(n) == SizePerChunk \div n

(* The loops that take an entry's bytes back from its sharers.             *)
TakeShares(sizes, entry) ==
    [c \in DOMAIN sizes |->
        IF c \in DOMAIN entry.access
        THEN NonNeg(sizes[c] - ShareOf(Cardinality(DOMAIN entry.access)))
        ELSE sizes[c]]

(* update_on_get: the sizes after client c accesses an entry.  The share   *)
(* of an old sharer that has no size is set, the others' are exchanged.    *)
GiveShares(sizes, entry, c) ==
    LET old == DOMAIN entry.access
        n   == Cardinality(old)
    IN  IF c \notin old /\ n > 0
        THEN [d \in DOMAIN sizes \cup old \cup {c} |->
                 IF d = c THEN Lookup(sizes, c, 0) + ShareOf(n + 1)
                 ELSE IF d \in old
                      THEN NonNeg(Lookup(sizes, d, ShareOf(n)) - ShareOf(n) + ShareOf(n + 1))
                      ELSE sizes[d]]
        ELSE IF Cardinality(old \cup {c}) = 1
             THEN Assoc(sizes, c, Lookup(sizes, c, 0) + SizePerChunk)
             ELSE sizes
=============================================================================
