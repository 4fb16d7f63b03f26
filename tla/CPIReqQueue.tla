---------------------------- MODULE CPIReqQueue ----------------------------
(***************************************************************************)
(* The waiting queue of the fair scheduler (vllm/core/cpi_req_queue.py,    *)
(* class CPIReqQueue): one FIFO queue per client, a scoreboard "served" of *)
(* the service each client has been charged for, and the credits it holds  *)
(* as the creator of prefixes that others reuse.  These are the operators  *)
(* on the three tables; FairScheduler.tla keeps them as variables.         *)
(*                                                                         *)
(* Weights are integers: hit_weight = 0.02, prefill_weight = 0.1 and       *)
(* decode_weight = 0.2 are 1, 5 and 10 in units of 0.02.  The statistics   *)
(* served_requests, served_tokens, hit_tokens_count and miss_tokens_count, *)
(* which the code only reports, are left out.                              *)
(***************************************************************************)
EXTENDS Dicts, Integers, FiniteSetsExt, SequencesExt

CONSTANTS
    Requests,       \* sequence groups
    Clients,        \* client ids
    ClientOf,       \* seq_group.client_id
    HitWeight, PrefillWeight, DecodeWeight,
    Eta             \* ETA_ATTRIBUTION

ASSUME QueueAssumption ==
    /\ IsFiniteSet(Requests) /\ IsFiniteSet(Clients)
    /\ ClientOf \in [Requests -> Clients]
    /\ {HitWeight, PrefillWeight, DecodeWeight, Eta} \subseteq Nat

(* max(0, n).  Faulty variant: no clamp.                                   *)
NonNegativeNot(n) == n
NonNegative(n) == Max({0, n})

(* The requests of a client.                                               *)
OwnedBy(c) == {r \in Requests : ClientOf[r] = c}

(* The elements of s that are in S, in their order: SelectSeq without its  *)
(* recursion, the n-th one given by counting.                              *)
Kept(s, S) ==
    LET I == {i \in DOMAIN s : s[i] \in S}
    IN  [n \in 1 .. Cardinality(I) |->
            s[CHOOSE i \in I : Cardinality({j \in I : j <= i}) = n]]

(* The clients that have a waiting request.                                *)
Backlogged(queues) == {c \in DOMAIN queues : queues[c] # <<>>}

(* __getitem__(0) and popleft: min() over the scoreboard, skipping clients *)
(* with an empty queue.  Of several minima min() takes the client that     *)
(* appeared first; the model leaves the choice open.                       *)
(* Faulty variant: the client charged most.                                *)
HeadClientsMost(queues, served) ==
    {c \in Backlogged(queues) : \A d \in Backlogged(queues) : served[c] >= served[d]}
HeadClients(queues, served) ==
    {c \in Backlogged(queues) : \A d \in Backlogged(queues) : served[c] <= served[d]}

PopLeft(queues, c) == [queues EXCEPT ![c] = Tail(@)]

(* append: r joins the queue of its client, which is created if need be.   *)
Appended(queues, r) ==
    Assoc(queues, ClientOf[r], Append(Lookup(queues, ClientOf[r], <<>>), r))

(* append, second half: a client whose queue was empty is lifted to the    *)
(* least served of the clients that are waiting already.                   *)
(* Faulty variant: set to it, even if that lowers it.                      *)
LiftedOrLowered(queues, served, c) ==
    LET others == Backlogged(queues) \ {c}
    IN  Assoc(served, c,
              IF Len(queues[c]) = 1 /\ others # {}
              THEN Min({served[d] : d \in others})
              ELSE Lookup(served, c, 0))
Lifted(queues, served, c) ==
    LET others == Backlogged(queues) \ {c}
        own    == Lookup(served, c, 0)
    IN  Assoc(served, c,
              IF Len(queues[c]) = 1 /\ others # {}
              THEN Max({own, Min({served[d] : d \in others})})
              ELSE own)

(* extendleft: the groups of the list go to the head of their client's     *)
(* queue one after the other.  Faulty variant: as one block.               *)
ExtendedLeftBlock(queues, list) ==
    [c \in DOMAIN queues |-> Kept(list, OwnedBy(c)) \o queues[c]]
ExtendedLeft(queues, list) ==
    [c \in DOMAIN queues |-> Reverse(Kept(list, OwnedBy(c))) \o queues[c]]

(* remove: r is in at most one queue, that of its client.                  *)
(* Faulty variant: the queue is left alone.                                *)
RemovedNot(queues, r) == queues
Removed(queues, r) ==
    [c \in DOMAIN queues |-> Kept(queues[c], Requests \ {r})]

(* The decode loop at the end of _schedule_default: every scheduled group  *)
(* is charged for one token.                                               *)
DecodeCharged(served, list) ==
    [c \in DOMAIN served |-> served[c] + DecodeWeight * Len(Kept(list, OwnedBy(c)))]

(* lmcache_retrieve_kv: a client that reuses "tok" tokens which the        *)
(* clients "old" had in the cache pays its share 1/(k+1) of them as misses *)
(* and each of the k old clients earns the difference of the shares.       *)
AdjustedHit(hit, tok, old) == hit - tok \div (Cardinality(old) + 1)
CreditPerOld(tok, old) ==
    LET k == Cardinality(old)
    IN  (Eta * PrefillWeight * tok) \div (k * (k + 1))

(* update_prefill_served, first loop: the credits are added ...            *)
Granted(credits, tok, old) ==
    [c \in DOMAIN credits \cup old |->
        Lookup(credits, c, 0) + (IF c \in old THEN CreditPerOld(tok, old) ELSE 0)]

(* ... second loop: the credit pays what it can of the cost, the rest goes *)
(* to the scoreboard.                                                      *)
PrefillCost(hit, miss) == HitWeight * hit + PrefillWeight * miss
PrefillServed(served, credits, c, cost) ==
    Assoc(served, c, Lookup(served, c, 0) + NonNegative(cost - Lookup(credits, c, 0)))
CreditsLeft(credits, c, cost) ==
    Assoc(credits, c, NonNegative(Lookup(credits, c, 0) - cost))
=============================================================================
