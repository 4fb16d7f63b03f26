---------------------------- MODULE CacheEngine ----------------------------
(***************************************************************************)
(* One model execution with the cache around it (new_execute_model): for   *)
(* each sequence of the batch LMCacheEngine.retrieve, then the model, then *)
(* lmcache_store_kv with LMCacheEngine.lookup and store.  Each of them is  *)
(* several calls of the fair backend, and the put worker runs between the  *)
(* calls.  The engine lives on the backend's "main" thread.                *)
(*                                                                         *)
(* A prompt is the sequence of the keys of its chunks.  A key is the hash  *)
(* of all tokens up to the end of its chunk, so it determines its prefix.  *)
(* Sizes count tokens: SizePerChunk is chunk_size.  vLLM's own prefix      *)
(* caching is off: the mask of a retrieval skips nothing.                  *)
(***************************************************************************)
EXTENDS FairBackend

CONSTANTS
    PrefillBatches,   \* the batches of prefills: sequences of Sequence records
    DecodeBatches,    \* the batches of decodes, with save_decode_cache
    RankZero,         \* the process has rank 0 (or no distributed runtime)
    LocalDevice,      \* local_device, where the pool is: "cpu" or "cuda"
    MaxSteps          \* bound: model executions

Batches == PrefillBatches \cup DecodeBatches

(* aligned: seq_len % chunk_size = 0, tested for decodes only.             *)
Requests == [client : Clients, prompt : Seq(Keys), lambda : Lambdas, aligned : BOOLEAN]

(* A batch has a sequence, and a prompt a chunk: llm_engine.py:1764,       *)
(* "Prompt cannot be empty".  The keys that a retrieval returns are a      *)
(* prefix of a prompt, and the backend is told of them.                    *)
ASSUME EngineAssumption ==
    /\ Batches \subseteq Seq(Requests) \ {<<>>}
    /\ \A b \in Batches : \A i \in DOMAIN b : b[i].prompt # <<>>
    /\ \A b \in Batches : \A i \in DOMAIN b :
          \A n \in 0 .. Len(b[i].prompt) : SubSeq(b[i].prompt, 1, n) \in Prefixes
    /\ \A b, d \in Batches :
          \A i \in DOMAIN b, j \in DOMAIN d :
             \A n \in DOMAIN b[i].prompt, m \in DOMAIN d[j].prompt :
                b[i].prompt[n] = d[j].prompt[m] =>
                   SubSeq(b[i].prompt, 1, n) = SubSeq(d[j].prompt, 1, m)
    /\ RankZero \in BOOLEAN /\ MaxSteps \in Nat
    /\ LocalDevice \in {"cpu", "cuda"}

VARIABLES
    step,       \* the model execution in progress
    charges,    \* what each sequence of the step was charged, in order
    nsteps      \* model executions so far, for the bound

engineVars == <<step, charges, nsteps>>
allVars == <<vars, engineVars>>

NoStep == [pc |-> "idle"]

EngineInit == Init /\ step = NoStep /\ charges = <<>> /\ nsteps = 0

Current == step.batch[step.seq]     \* the sequence that the loop is at
Prompt == Current.prompt
GotKeys == SubSeq(Prompt, 1, Len(step.got))
LockFree == update_lock = "free"

(* kv_obj.data.to(dst_device), dst_device being the model's GPU: a copy of *)
(* a chunk of the CPU pool, but for a chunk of the GPU pool, which is on   *)
(* that device already, a view of it.  A view shows what the pool chunk    *)
(* holds when it is read, the chunk of another key if it was reused.       *)
OnDevice(slot) ==
    IF LocalDevice = "cpu" THEN [data |-> mem_pool[slot]] ELSE [view |-> slot]
Seen(tensor) == IF LocalDevice = "cpu" THEN tensor.data ELSE mem_pool[tensor.view]

(* lmcache_should_store: a prefill is always stored, a decode when it has  *)
(* just filled a chunk.                                                    *)
StoreStatus(kind, r) == IF kind = "prefill" \/ r.aligned THEN "STORE" ELSE "NONE"

-----------------------------------------------------------------------------
(***************************************************************************)
(* lmcache_retrieve_kv, which only a prefill runs.                         *)
(***************************************************************************)
BeginStep(kind, batch) ==
    /\ MainReady /\ step = NoStep /\ nsteps < MaxSteps
    /\ step' = [pc |-> IF kind = "prefill" THEN "get" ELSE "store",
                batch |-> batch, seq |-> 1, got |-> <<>>, info |-> <<>>,
                retrieved |-> IF kind = "prefill" THEN <<>> ELSE [i \in DOMAIN batch |-> <<>>],
                status |-> [i \in DOMAIN batch |-> StoreStatus(kind, batch[i])],
                idx |-> 1, cached |-> 0, todo |-> 0]
    /\ charges' = <<>>
    /\ nsteps' = nsteps + 1
    /\ UNCHANGED vars

(* Faulty variant of the next action: a missing chunk is skipped.          *)
GetChunkSkipping ==
    /\ step.pc = "get" /\ MainReady /\ LockFree
    /\ LET left == {i \in DOMAIN Prompt : i > Len(step.got) /\ Prompt[i] \in DOMAIN dict}
       IN  IF left # {}
           THEN \E i \in left :
                   /\ \A j \in left : i <= j
                   /\ step' = [step EXCEPT !.got = Append(@, OnDevice(dict[Prompt[i]].slot))]
           ELSE step' = [step EXCEPT !.pc = "attribute"]
    /\ UNCHANGED <<vars, charges, nsteps>>

(* One iteration of batched_get: contains, then get.  The loop ends at the *)
(* first chunk that is missing, or at the end of the prompt.               *)
GetChunk ==
    /\ step.pc = "get" /\ MainReady /\ LockFree
    /\ LET n == Len(step.got) + 1
       IN  IF n \in DOMAIN Prompt /\ Prompt[n] \in DOMAIN dict
           THEN step' = [step EXCEPT !.got = Append(@, OnDevice(dict[Prompt[n]].slot))]
           ELSE step' = [step EXCEPT !.pc = "attribute"]
    /\ UNCHANGED <<vars, charges, nsteps>>

(* get_attribution_info for one key: was_new_client and old_client_ids.    *)
Attribution(key, c) ==
    IF key \in DOMAIN dict
    THEN [new |-> c \notin DOMAIN dict[key].access, old |-> DOMAIN dict[key].access]
    ELSE [new |-> FALSE, old |-> {}]

GetAttributionInfo ==
    /\ step.pc = "attribute" /\ MainReady /\ LockFree
    /\ step' = [step EXCEPT !.pc = "update",
                            !.info = [i \in DOMAIN GotKeys |-> Attribution(GotKeys[i], Current.client)]]
    /\ UNCHANGED <<vars, charges, nsteps>>

(* update_after_get; its loop is UpdateNext and EndUpdate of the backend.  *)
(* Faulty variant: the call is forgotten.                                  *)
UpdateForgotten ==
    /\ step.pc = "update" /\ MainReady
    /\ step' = [step EXCEPT !.pc = "charge"]
    /\ UNCHANGED <<vars, charges, nsteps>>
UpdateAfterGet ==
    /\ step.pc = "update"
    /\ BeginUpdate(Current.client, GotKeys)
    /\ step' = [step EXCEPT !.pc = "charge"]
    /\ UNCHANGED <<charges, nsteps>>

(***************************************************************************)
(* Cost attribution.  Of a chunk that k others used before, the newcomer   *)
(* pays the (k+1)th part as if it had missed it.  A chunk counts with      *)
(* chunk_size tokens; ShareAssumption makes the parts whole, so the code's *)
(* round() changes nothing.  The sums of the code are numbers of tokens, a *)
(* token being a place in a chunk.  Faulty variant of Part: the newcomer   *)
(* pays the whole chunk.                                                   *)
(***************************************************************************)
Tokens(keys) == {t \in (DOMAIN keys) \X (1 .. SizePerChunk) : t[2] <= ChunkSize[keys[t[1]]]}
TokensOf(keys) == Cardinality(Tokens(keys))

Joined(info) == info.new /\ info.old # {}

PartWhole(info) == IF Joined(info) THEN SizePerChunk ELSE 0
Part(info) == IF Joined(info) THEN SizePerChunk \div (Cardinality(info.old) + 1) ELSE 0

HitReduction(info) ==
    Cardinality({t \in (DOMAIN info) \X (1 .. SizePerChunk) : t[2] <= Part(info[t[1]])})

(* num_computed_tokens: a prompt that was found completely computes its    *)
(* last token again.                                                       *)
Computed(keys, prompt) == TokensOf(keys) - (IF keys = prompt THEN 1 ELSE 0)

ChargeOf(keys, prompt, info) ==
    LET hit == Computed(keys, prompt) - HitReduction(info)
    IN  [hit |-> hit, miss |-> TokensOf(prompt) - hit]

(* The end of retrieve, which concatenates what was got, and of the loop   *)
(* body for one sequence.                                                  *)
ChargeSequence ==
    /\ step.pc = "charge" /\ MainReady
    /\ charges' = Append(charges, ChargeOf(GotKeys, Prompt, step.info))
    /\ step' = [step EXCEPT !.retrieved = Append(@, GotKeys), !.got = <<>>, !.info = <<>>,
                            !.pc = IF step.seq = Len(step.batch) THEN "store" ELSE "get",
                            !.seq = IF @ = Len(step.batch) THEN 1 ELSE @ + 1]
    /\ UNCHANGED <<vars, nsteps>>

-----------------------------------------------------------------------------
(***************************************************************************)
(* lmcache_store_kv.  seq is the loop's position, idx both of the indices  *)
(* seq_data_idx and retrieved_keys_idx.  Faulty variant of Advance: the    *)
(* indices are never advanced.                                             *)
(***************************************************************************)
AdvanceLoopOnly(s, advanceIdx) ==
    IF s.seq = Len(s.batch)
    THEN NoStep
    ELSE [s EXCEPT !.pc = "store", !.seq = @ + 1, !.cached = 0, !.todo = 0]

Advance(s, advanceIdx) ==
    IF s.seq = Len(s.batch)
    THEN NoStep
    ELSE [s EXCEPT !.pc = "store", !.seq = @ + 1, !.idx = IF advanceIdx THEN @ + 1 ELSE @,
                   !.cached = 0, !.todo = 0]

(* "continue" leaves the indices where they are.                           *)
SkipSequence ==
    /\ step.pc = "store" /\ MainReady
    /\ step.status[step.idx] = "NONE"
    /\ step' = Advance(step, FALSE)
    /\ UNCHANGED <<vars, charges, nsteps>>

BeginStore ==
    /\ step.pc = "store" /\ MainReady
    /\ step.status[step.idx] = "STORE"
    /\ step' = [step EXCEPT !.pc = "lookup"]
    /\ UNCHANGED <<vars, charges, nsteps>>

(* lookup, and then the loop of _make_chunks_skip_existing, walk over the  *)
(* chunks that are cached.                                                 *)
NextCached ==
    LET n == step.cached + 1
    IN  n \in DOMAIN Prompt /\ Prompt[n] \in DOMAIN dict

WalkCached(pc, next) ==
    /\ step.pc = pc /\ MainReady /\ LockFree
    /\ step' = IF NextCached
               THEN [step EXCEPT !.cached = @ + 1]
               ELSE IF step.cached = Len(Prompt)
               THEN Advance(step, TRUE)
               ELSE [step EXCEPT !.pc = next, !.todo = Len(Prompt)]
    /\ UNCHANGED <<vars, charges, nsteps>>

LookupChunk == WalkCached("lookup", "contains")
(* Faulty variant: a missing chunk sends the caller back to lookup.        *)
ContainsChunkRetry == WalkCached("contains", "lookup")
ContainsChunk == WalkCached("contains", "put")

PutItem(n) ==
    [client |-> Current.client, key |-> Prompt[n], lambda |-> Current.lambda,
     retrieved |-> step.retrieved[step.idx]]

(* Faulty variant of the next definition: the first missing chunk is left  *)
(* out.                                                                    *)
LastToPutOffByOne == step.todo <= step.cached + 2
LastToPut == step.todo = step.cached + 1

(* batched_put queues the chunks from the last one to the first missing    *)
(* one.  On rank 0 put() raises after it has queued the chunk.             *)
PutChunk ==
    /\ step.pc = "put"
    /\ EnqueuePut(PutItem(step.todo))
    /\ step' = IF RankZero THEN [step EXCEPT !.pc = "raised"]
               ELSE IF LastToPut THEN Advance(step, TRUE)
               ELSE [step EXCEPT !.todo = @ - 1]
    /\ UNCHANGED <<charges, nsteps>>

EngineStep ==
    \/ GetChunk \/ GetAttributionInfo \/ UpdateAfterGet \/ ChargeSequence
    \/ SkipSequence \/ BeginStore \/ LookupChunk \/ ContainsChunk \/ PutChunk
    \/ MainLoop /\ UNCHANGED engineVars

EngineClose == step = NoStep /\ Close /\ UNCHANGED engineVars

EngineNext ==
    \/ \E b \in PrefillBatches : BeginStep("prefill", b)
    \/ \E b \in DecodeBatches : BeginStep("decode", b)
    \/ EngineStep
    \/ EngineClose
    \/ (Worker \/ Tick \/ Terminated) /\ UNCHANGED engineVars

EngineSpec ==
    /\ EngineInit /\ [][EngineNext]_allVars
    /\ WF_allVars(EngineStep)
    /\ WF_allVars(Worker /\ UNCHANGED engineVars)

-----------------------------------------------------------------------------
(* "The retrieved KV cache should be a prefix of the input tokens": what   *)
(* retrieve has collected is the data of the first chunks of the prompt,   *)
(* in order, until it is concatenated after update_after_get, although the *)
(* worker evicts and replaces chunks between the iterations.  It holds for *)
(* the CPU pool; a view of a chunk of the GPU pool may have changed.       *)
RetrievesPrefix ==
    step.pc \in {"get", "attribute", "update", "charge"} =>
        \A i \in DOMAIN step.got : i \in DOMAIN Prompt /\ Seen(step.got[i]) = Prompt[i]

(* "{client_id:(hit_length, not_hit_length)}": what a sequence is charged  *)
(* is a number of hits and of misses that add up to its tokens.            *)
ChargesAreLengths ==
    \A i \in DOMAIN charges : charges[i].hit >= 0 /\ charges[i].miss >= 0

(* Every execution ends: neither the worker nor its lock, nor the loops    *)
(* over a cache that changes meanwhile, keep the engine for ever.          *)
StepCompletes == (step.pc # "idle") ~> (step.pc = "idle")

(* local_backend.py:852: get leaves the access map alone, so that          *)
(* get_attribution_info sees it before the update and can tell "whether    *)
(* the current client is a newly joining sharer": a client that            *)
(* update_after_get adds to the sharers of a chunk was taken for new.      *)
JoinWasAttributed ==
    [][step.pc = "charge" =>
          \A i \in DOMAIN step.info :
             (/\ GotKeys[i] \in DOMAIN dict \cap DOMAIN dict'
              /\ Current.client \in DOMAIN dict'[GotKeys[i]].access
                                    \ DOMAIN dict[GotKeys[i]].access)
             => Joined(step.info[i])]_allVars

(* vllm_adapter.py:376, store_status: "Indicate whether and how KV cache   *)
(* of each req is stored".  A sequence is stored only if its own status    *)
(* says so, and with its own retrieved keys, although the loop and its two *)
(* indices are advanced at different places.  (After a skipped sequence    *)
(* the indices stay behind, and all the others are skipped too.)           *)
StoresItsOwn ==
    [][(step.pc = "store" /\ step'.pc = "lookup") =>
          step.status[step.seq] = "STORE" /\ step.idx = step.seq]_allVars
=============================================================================
