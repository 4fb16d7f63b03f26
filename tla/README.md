# FairCache in TLA+

FairCache serves one language model to several tenants ("clients") and shares
the key/value cache of common prompt prefixes between them. It consists of a
modified vLLM (`vllm-0.6.2/`), a modified LMCache (`LMCache/`) and the adapter
between the two (`lmcache-vllm/`). Its own logic is about two questions:

* whose request runs next (the scoreboard of `CPIReqQueue` and the scheduler), and
* whose cached chunk is evicted (the `FairEvictor` and `LMCLocalFairBackend`).

Around these, LMCache has storage backends in memory, on disk and on a remote
server. This directory models all of that, checks it with TLC, and proves the
safety properties of the fair backend, the LRU and disk backends and the
scheduler, and part of those of the cache engine, with TLAPS.

## 1. The system

| Component | State | Operations | Hard parts |
|---|---|---|---|
| Fair evictor (`storage_backend/evictor/fair_evictor.py`, `mem_pool/base_pool.py`) | total bytes, bytes per client, key → clients, heaps of (value, key) per decay rate, globally and per client | `update_on_get`, `update_on_put`, `register_new_cache` | lazy deletion; bytes shared between clients; one victim accounted for in two functions |
| Fair local backend (`storage_backend/local_backend.py`, `mem_pool/local_pool.py`) | the cache, the pool and its free list, the put queue, one lock | `put` (blocking or queued), `get`, `contains`, `get_attribution_info`, `update_after_get`, `remove`, `close`; the put worker | two threads; the lock is given up while data is copied; the exception of an empty pool |
| Cache engine (`cache_engine.py`) | statistics | `retrieve`, `store`, `lookup`: several backend calls each | the worker runs between the calls |
| Adapter (`lmcache_vllm/vllm_adapter.py`, `vllm_injection.py`) | none of its own | `new_execute_model`, `lmcache_retrieve_kv`, `lmcache_store_kv` | cost attribution; indices of a batch |
| Fair waiting queue (`vllm/core/cpi_req_queue.py`) | a FIFO queue, a score and credits per client | `append`, `popleft`, `extendleft`, `remove`, `update_prefill_served` | the lift of returning clients; two places that charge |
| Scheduler and engine (`vllm/core/scheduler.py`, `block_manager_v1.py`, `engine/llm_engine.py`) | running and swapped queues, block tables, free blocks | add, abort, one engine step | preemption, swapping, the watermark, liveness |
| LRU memory backend (`local_backend.py`, `evictor/lru_evictor.py`) | an ordered dictionary, a pool, a size, a queue, a lock | `put`, `get`, `remove`, `close`; the put worker | the size counts replaced chunks twice; blocking puts take no lock |
| Disk backend (`local_backend.py`) | dictionary, files, buffers, futures | the same; four save processes | saves outlive the call; buffers are given back by whoever meets the future |
| Remote and hybrid backends (`remote_backend.py`, `hybrid_backend.py`) | a local store, a connection, a queue | `put`, `get`, `batched_get`, `contains`, prefetch | two threads on one connection; local eviction |
| Server and connector (`server/__main__.py`, `server_storage_backend/local_backend.py`, `connector/lm_connector.py`, `protocol.py`) | a dictionary, a lock, one thread per client | PUT, GET, EXIST, LIST | unacknowledged PUTs; clients lost inside a request |
| Experimental storage manager, blending, serialisers, redis | | | not modelled; see section 6 |

How they interact: the engine loop adds and aborts requests, then makes a step:
`Scheduler.schedule` picks the waiting request of the client with the lowest
score, or decodes. For a prefill the adapter calls `LMCacheEngine.retrieve`, which
reads chunks from the backend, asks which clients used them before, and records
the access. The adapter turns hits, misses and earlier users into costs and
credits, which travel back in the model output and are charged by
`update_prefill_served`. After the model ran, the adapter stores the new chunks;
the backend queues them and its worker thread evicts and copies. A hybrid backend
puts every chunk into its local store and sends it to the server, and asks the
server for what the local store does not have.

What makes the parts correct:

* backends: a pool chunk, buffer or file has one owner and none is lost; what is
  published under a key is that key's complete data; the byte count is within
  the limit; the tables of the evictor describe the cache; retrieved chunks
  survive; `close` ends.
* engine: a retrieval is a prefix; a store leaves no hole; sharers are charged
  once, and with lengths that add up.
* scheduler: no request is lost, duplicated, reordered within its client or
  billed twice; no block leaks; the score of a client that is served does not
  run away from one that waits; every request leaves.
* server: what is stored under a key is that key's data, whatever clients send
  and wherever they die; replies match requests; what was put is found again.

## 2. Modules

| Module | Models |
|---|---|
| `Dicts` | Python dictionaries |
| `FairEvictor` | what the evictor computes, as operators on its tables |
| `FairBackend` | the backend with its pool and evictor, and its two threads |
| `MCFairBackend` | instances of `FairBackend` |
| `FairBackend_proofs` | theorems about `FairBackend`: types and pool chunks; evictor, tables, byte count, refinement |
| `AbstractCache` | what a backend promises: a map that may forget but never lies, and begins queued puts in order |
| `CacheEngine` | one model execution around `FairBackend`: retrieve, charge, lookup, store |
| `MCCacheEngine` | batches, and history variables for two properties |
| `CacheEngine_proofs` | theorems about `CacheEngine` |
| `CPIReqQueue` | what the waiting queue computes, as operators |
| `FairScheduler` | `_schedule_default`, the block manager's counts, the engine step |
| `MCFairScheduler` | instances of `FairScheduler` and three history variables |
| `FairScheduler_proofs`, `FairScheduler_clients` | theorems about `FairScheduler`: queues, budget, blocks; billing, fair shares, order of arrival |
| `LRUEvictor`, `LRUEvictor_proofs` | what the LRU evictor computes; lemmas about it |
| `LocalBackend`, `MCLocalBackend` | the LRU memory backend; the history of uses |
| `LocalBackend_proofs`, `DiskBackend_proofs` | theorems about the two backends |
| `DiskBackend` | the disk backend and its save processes |
| `CacheServer` | the server's handler threads, its memory store, the frames of the protocol |
| `HybridBackend`, `MCHybridBackend` | `LocalBackend` + remote backend + `CacheServer` + a peer; what callers know |
| `HybridBackend_proofs` | theorems about `HybridBackend` |

`CacheEngine` extends `FairBackend`, and `HybridBackend` extends `LocalBackend`
and `CacheServer`: the composed module adds the steps of the caller and leaves
the steps of the parts as they are. `FairBackend` and `LocalBackend` are shown to
implement `AbstractCache` (`ImplementsCache`).

### FairBackend

The variables carry the names of the code's attributes. `job` holds, for each
thread, the call it executes; `pc` is the place in it:

| `pc` | code |
|---|---|
| `threshold`, `maxclient` | the two loops of `update_on_put` |
| `illegal` | the return with `PutStatus.ILLEGAL` |
| `remove` | removing the victims, then `mpool.allocate` |
| `dead` | the exception of `allocate`, raised with the lock held |
| `copy`, `copying` | the copy into the pool chunk, without the lock |
| `register` | the second critical section |
| `update` | the loop of `update_after_get` |

`put_blocking` and `put_nonblocking` have the same control flow and are the same
actions, taken by the main thread or by the worker. Each iteration of a loop is
a step, under the lock where the code holds it. Reading methods (`contains`,
`get`, `get_attribution_info`) change nothing and have no action here; they are
steps of `CacheEngine`.

Abstractions of data:

* *Values.* The code compares `log S`, `S = Σ exp(λ·tᵢ)`. The model compares `S`
  itself, with base 2: the order, all that is used, is the same. The sum is
  written as the size of a disjoint union, which the prover can reason about.
* *Heaps* are sets of pairs: the code only looks at and pops the top.
* *Sizes.* An entry's size is always `size_per_chunk`; a new tensor may be
  shorter (`ChunkSize`). Shares are exact (`ShareAssumption`).
* *Contents.* A pool chunk holds the data of a key, is blank, or is torn.
* *Device.* The actions are the same for a pool on the CPU and on the GPU; what
  differs is what `get` returns, which is modelled in `CacheEngine`.
* *Ties.* Between equal clients, or equal values of different decay rates, the
  order of a dictionary decides; the model leaves it open.

### FairScheduler

`phase` is the place in the engine step, `batch` the lists that one call of
`_schedule_default` builds. The step is split into the iterations of its loops;
adding and aborting happen between steps, as in `MQLLMEngine.run_engine_loop`.
Blocks are counted, not named. The weights 0.02, 0.1 and 0.2 are 1, 5 and 10.
A prefill finds any number of its tokens in the cache; of these, the tokens
that others used first are attributed as one group with one set of earlier
clients. Configuration: default policy, no chunked prefill, one sequence per
group, no delay factor, synchronous output processing, a token budget that
admits any prompt within the limit.

### CacheEngine

`step` is the model execution in progress (`new_execute_model`): `seq` is the
loop over the sequences of the batch, `idx` the indices `seq_data_idx` and
`retrieved_keys_idx`, which the code advances elsewhere. A prompt is the sequence
of the keys of its chunks; a key is the hash of everything up to its chunk, which
`EngineAssumption` demands. `GetChunk` is one iteration of `batched_get`:
`contains` and `get` are two critical sections, but a chunk that disappears
between them is a miss like any other. `get` returns
`kv_obj.data.to(dst_device)`, and `LocalDevice` says what that is: with the pool
on the CPU a copy of the data; with `local_device="cuda"` a view of the pool chunk,
which shows whatever the chunk holds when it is read (`OnDevice`, `Seen`). The
tensors are read when `retrieve` concatenates them, after `update_after_get`: the
pool chunks are free to change until `ChargeSequence`. `RankZero` is the rank on which `put()`
raises after it has queued the chunk, because it calls
`output_cache_size_of_each_client`, which no class defines; the runs have it
`FALSE`, the other ranks. The sums of the cost attribution (tokens of a prompt,
tokens taken off the hits) are written as sizes of sets of tokens. A prompt has a
chunk, since `_validate_model_inputs` refuses an empty one.

### LocalBackend and DiskBackend

`order` is the order of the `OrderedDict`. In memory, sizes are multiples of
`size_per_chunk`, whatever the tensor's length; on disk, chunks of one size are
assumed. `raised` is the end of a call by an exception, with the lock held if it
was. `MCLocalBackend` adds a clock of uses and the last use of each key. A save
process creates the file, then fills it; a file that is removed meanwhile is
written to without a name. `LocalSpec` has queued puts only, `HybridBackend`
blocking ones only: these are the two ways the repository calls the backend.

### CacheServer and HybridBackend

A connection is two sequences of frames: headers, replies, and the bytes of a
chunk or of the list of keys. A handler that expects a chunk takes whatever bytes
come next: if a header is in front of them, the chunk it stores is garbage, and
as many bytes at the end are left over. `lost` are connections that the client
closed or lost; what was sent before is delivered. `call` is the call of the main
thread, `sender` the chunk that `put_worker` is sending. The peer writes to the
same server and may stop or be lost at any point. Headers are shorter than
chunks. The results of a read, `got`, are copies of local chunks or, with the local
pool on the GPU, views of them, as in `CacheEngine`; a chunk from the server is a
tensor of its own.

## 3. Runs

### Runs that pass

| Run | Checks | Instance |
|---|---|---|
| `backend_sharing` | `TypeOK`, `NoSlotLeak`, `AccountingExact`, `PoolNeverExhausted`, `TablesDescribeCache`, `RetrievedKept`, `ThresholdExhaustive` | queued puts; 3 keys, 2 symmetric clients, a limit of 5 for chunks of 2 (room for two, three in the pool), 3 puts, 1 access, clock 0..2 |
| `backend_threads` | `SlotsExclusive`, `CachedDataIntact`, `ImplementsCache`, `CloseJoins` | blocking and queued puts of 3 keys, 3 puts, both decay rates, clock 0..1, room for 2 chunks, three in the pool |
| `scheduler_fairness` | `TypeOK`, `FairShare`, `OnePlace`, `BudgetHolds`, `ServedMonotone` | 2 clients × 2 requests, 3 GPU and 3 CPU blocks, swapping, a group that can never come back, hits, attribution and credits |
| `scheduler_recompute` | `BilledOnce`, `BlocksConserved`, `ClientFifo`, `EveryRequestLeaves` | 2 requests of one client, 1 of another, 5 blocks: several victims in a step, and groups that outgrow the GPU |
| `engine_sharing` | `RetrievesPrefix`, `ChargesAreLengths`, `AttributedOnce`, `StoreLeavesNoHole`, `StoresItsOwn`, `StepCompletes` | 2 executions of batches of one or two sequences; 3 keys, prompts that share a prefix, room for 2 chunks, pool on the CPU |
| `local_queued` | `NoPutRaises`, `WithinLimit`, `PoolConserved`, `EvictsLeastRecent`, `ImplementsCache` | 3 keys, room for 2, 5 calls |
| `disk_saves` | `BuffersConserved`, `SavesReadTheirData`, `FileIntact` | 4 keys, room for 2 and three buffers, 5 calls |
| `hybrid_peers` | `NeverLies`, `WriteThrough`, `RepliesFit`, `NothingForgotten`, `EveryCallReturns`, `PutsArrive` | 2 keys of this instance, room for 1, pool on the CPU; a peer that puts one of them and one of another model |

`SlotsExclusive` and `CachedDataIntact` hold for blocking and queued puts
together, `NoSlotLeak` and `AccountingExact` only for queued ones, which are all
the serving path uses. With `Modes = {TRUE, FALSE}` TLC reports a leak: a
blocking and a queued put of one key overlap, neither finds an old entry, and
the second registration (`local_backend.py:739`) drops the first entry together
with its pool chunk. `FairShare` compares a client `c` with every
client `d` that has waited without a break since `c` was last admitted: `c` is
at most `Slack` ahead, one admitted prefill plus the decodes of all the groups
that can run. It holds with credits, lifts, aborts and preemption.

`TablesDescribeCache` is the conjunction of `GlobalHeapComplete`,
`ClientHeapComplete` and `KeyToClientsAgrees`, outside the critical sections.
`ImplementsCache` maps `dict` and the pool to `held`, the queue to `queue`, and
the put a thread executes to `writing`; that a torn or foreign chunk is never
visible, that an entry appears only at the end of a put of its key, and that
queued puts begin in order are then one property.

*Bounds.* `MaxTime`, `MaxPuts`, `MaxUpdates`, `MaxSteps`, `MaxOps` and
`MaxPeerPuts` bound the clock and the callers. Three puts into a cache of two
chunks already reach an eviction by each of the two steps, a refused put, a
replaced key, and a put that overlaps with another or with an access. In
`backend_threads` a chunk is then cached while another is being filled, the two
threads fill two at once, and a chunk is evicted and its pool chunk taken again
while the other thread copies. The
requests of the scheduler runs are finite; `MaxTokens` lets a group grow past its
blocks, so that preemption, repeated preemption and swapping happen. Two
executions are enough for a second one to meet the queued puts of the first. Five
calls fill the LRU and disk caches, replace a key and evict another while
a save or a copy is under way, and use up the buffers of the disk backend. A local store of one chunk makes every second call
of the hybrid store evict. Each property is broken by a mutant of the code
(`PROJECT.json`, "mutants") within the same bounds.

*Fairness.* Backends: weak fairness of the worker and of the calls in progress;
they are operating system threads and the lock is released by every holder.
Nobody is obliged to call. Scheduler: weak fairness of the engine step, a busy
loop (`run_engine_loop`) that steps as long as there is work; no request is
obliged to arrive, stop early or be aborted. Engine: weak fairness of the
execution in progress and of the worker. Hybrid: weak fairness of the main thread
in a call and of every handler thread of the server; none of the peer, which may
stop between two frames. The disk run has no liveness property: see section 5.

### Runs that refute a statement of the code or its docs

| Run | Statement | What happens |
|---|---|---|
| `backend_short` | `local_pool.py:49-50` "Shouldn't happen!" | short chunks count by tensor size but take a whole pool chunk; the pool runs dry and the exception leaves the lock held |
| `scheduler_wedged` | `docs/source/models/performance.rst:9-16` preempted requests resume; "ensures system robustness" | `can_swap_in` answers LATER for ever, and prefills wait for the swapped queue |
| `engine_attribution` | `local_backend.py:852-853` the attribution tells whether the client is a new sharer | a queued put replaces the entry between the attribution and the update |
| `hybrid_framing` | `lm_connector.py:39` "Thread-safe function to send the data" | a request of the main thread goes between the header and the bytes of a PUT of the put worker |

## 4. Proofs

TLC checks the instances of section 3; the theorems hold for every value of the
constants that satisfies the modules' assumptions: any finite sets of keys,
clients and requests, any pool, any limits, any bounds on the callers. The
proofs are in modules of their own. A lemma per action shows that the action
keeps the inductive invariant; the theorem follows from the lemmas. Every
inductive invariant was an invariant of a TLC run before it was proved.

### Fair backend (`FairBackend_proofs`)

| Theorem | States | Hypotheses |
|---|---|---|
| `TypeCorrect`, `SlotsAreExclusive`, `CachedDataIsIntact` | `TypeOK`, `SlotsExclusive`, `CachedDataIntact` | none |
| `RetrievedAreKept` | `RetrievedKept` | none |
| `HeapsDescribeCache` | the two heap parts of `TablesDescribeCache` | none |
| `TablesDescribe` | `TablesDescribeCache` | queued puts |
| `PoolIsWhole` | `NoSlotLeak` | queued puts |
| `AccountingIsExact`, `PoolIsNeverExhausted` | `AccountingExact`, `PoolNeverExhausted` | queued puts, full chunks |
| `ThresholdIsExhaustive` | `ThresholdExhaustive` | one decay rate |
| `RefinesCache` | `ImplementsCache` | none |

*Hypotheses.* "Queued puts" is `TRUE \notin Modes`: the serving path calls `put`
with `blocking=False` only, and with both kinds the statements are false (section
3). "Full chunks" is `FullChunksOnly`: the run `backend_short` shows that the
two statements are false without it. "One decay rate" is `OneRate`; with two, the
code compares values that are not comparable (section 5).

*Argument.* `SlotsExclusive` is not inductive: a chunk that a put fills must not
be free, cached or another put's, which needs its slot to be a real one
(`SlotType`); `CachedDataIntact` needs to know that a put which is about to
register has finished its copy (`FilledBeforeRegister`). Together they are
`SlotInv`. Registering over an entry of the same key leaks that entry's chunk,
which `SlotInv` allows and `NoSlotLeak` does not.

`EvictInv` says what the lock protects: a thread is in a critical section exactly
if it holds the lock; a put chooses at most one victim, which is still cached and
not among the retrieved keys; and the count stays within the limit. The tables describe the
cache only between critical sections. `HeapInv` and `MapInv` therefore speak of
`Live`, the cached keys without the victims already chosen: an evictor
function takes a victim out of the tables before the backend takes it out of the
cache. `MapInv` needs queued puts (`QueuedInv`), because a blocking put that
overlaps with a queued one registers a key twice. `ExactInv` counts: the total is the
size of the live keys, plus the put in progress once its victims are chosen. With
`NoSlotLeak` this gives the number of free chunks, and so the chunk that
`allocate` needs.

`ThresholdExhaustive` follows from `HeapInv`. When step 1 looks for a victim,
every cached chunk that is not chosen has a current pair in its heap
(`EveryCandidate`). Values are natural numbers (`ScoreType`), so a heap with a
pair has a top (`HeapTop`), and the chunk that step 1 looks at has a value that no
other one undercuts (`LeastCandidate`). If that chunk is not below the threshold,
none is (`AboveThreshold`).

### LRU memory backend (`LocalBackend_proofs`, `LRUEvictor_proofs`)

`QueuedPutsNeverRaise` (`NoPutRaises`), `LimitHolds` (`WithinLimit`),
`PoolIsConserved` (`PoolConserved`), `LeastRecentGoesFirst` (`EvictsLeastRecent`)
and `LocalRefinesCache` (`ImplementsCache`, if the capacity is not 0). `StoreInv` is about the dictionary, the order and the
pool: the order lists the keys once (`OrderInv`), every entry has a chunk of its
own with the key's data, a put in flight has a chunk that nobody else has, and
nothing is lost. `LimitInv` is about the count: only the worker puts, the chunk of
its put is counted from the start and its victims are not, and the count is at
most the capacity and at least what is cached. `NoPutRaises` needs both: a count
that leaves no room means that something is cached and can be evicted, and the
pool has a chunk left because what is cached and counted is within the capacity.
`LRUEvictor_proofs` has the lemmas about the `OrderedDict` (pop, move to end,
first key) that the disk backend shares.

`EvictsLeastRecent` is about one step; `AgeInv` is what all the others must keep:
the order lists the keys by their last use (`Aged`), also while a put is between
its two critical sections. Removing a key keeps the order of the rest
(`PoppedAged`), and a key that is read, or published after its old entry was
removed, goes to the end (`AppendedAged`).

### Disk backend (`DiskBackend_proofs`)

`SavedDataIsRight` (`SavesReadTheirData`), `CachedFilesAreWhole` (`FileIntact`)
and `BuffersAreConserved` (`BuffersConserved`), for queued and blocking puts.
`FileIntact` says that the file of a cached key never holds another key's chunk, and
that it is there and complete unless it is still to be written. It does not say that
a `get` finds it complete: a put of a cached key writes its file again, and a `get`
that comes before the put has entered its future reads a partial file and fails
(section 5).
`DiskInv` ties the three tables together: a buffer that a save reads belongs to
a future of the same key (`BufferInv`), a key has one save at most (`SaveInv`), and a
file is incomplete only while its save runs (`FileInv`). Because a save reads its own
key's data, no file gets another key's (`OwnChunks`).

### Cache engine (`CacheEngine_proofs`)

`EngineCallsBackend`: every step of the engine is a step of `FairBackend` or
leaves it alone, so the theorems above hold under the engine.
`RetrievalsArePrefixes` (`RetrievesPrefix`), if the pool is on the CPU
(`LocalDevice = "cpu"`): the data was intact when each chunk was copied, and the
loop ends at the first miss. With the pool on the GPU TLC finds it
false (section 5). The other theorems here hold for both devices. `StoresAreOwn` (`StoresItsOwn`): a
sequence is stored under its own index and only if its status says so, although
`seq_data_idx` stays behind (`IndexInv`).

`ChargesArePossible` (`ChargesAreLengths`), if each chunk is more than half full
(`LongChunks`). A newcomer pays for at most half of `chunk_size` tokens, because
there is an earlier client; a retrieved chunk has more tokens than that, and only
the last token is taken off besides. The code takes a short last chunk for a full
one (`cache_engine.py:462`); with a last chunk of half or less the statement is
false: the hits that it takes off are more than the chunk has.

`NewcomersPayOnce` (`AttributedOnce`) and `StoresAreWhole` (`StoreLeavesNoHole`)
are about `MCSpec`, the engine with the history variables of `MCCacheEngine`, for
any batches. `AttributedInv` says that a client which was charged as a newcomer
to a cached entry is one of its sharers, or its update is still to come
(`Awaited`): in the call that the engine is about to make, or among the keys that
`update_after_get` has not reached. The engine attributes nothing before the
update is over, and a replaced entry is a new one. `StoreInv` there says, for each
place in `store`, which chunks of the prompt are already accounted for (`Kept`:
cached, queued, being put, or lost since the store began): those that `lookup` and
`_make_chunks_skip_existing` walked over, and those that `batched_put` queued. Every
step of the worker takes a chunk from one of these states to another.

### Scheduler (`FairScheduler_proofs`, `FairScheduler_clients`)

| Theorem | States | Hypotheses |
|---|---|---|
| `SchedulerTypes`, `GroupsHaveOnePlace`, `BudgetIsKept` | `TypeOK`, `OnePlace`, `BudgetHolds` | none |
| `BlocksAreAccounted` | `BlockInv`: what is not free is held by running, swapped or failed groups | none |
| `BlocksAreConserved` | `BlocksConserved` | recomputation |
| `ScoreboardGrows` | `ServedMonotone` | none |
| `PrefillsAreBilledOnce` | `BilledOnce` | none |
| `SharesAreFair` | `FairShare` | `HitWeight <= PrefillWeight` |
| `ClientsAreFifo` | `ClientFifo` | recomputation |

*Hypotheses.* "None" includes both preemption modes. With swapping,
`BlocksConserved` fails, because a group that can never come back keeps its CPU
blocks (section 5), and `ClientFifo` fails, because groups come back in the order
in which they were swapped out, the youngest first. A hit costs 0.02 and a miss 0.1 in the
code; if hits cost more, `Slack` would be too small.

*Argument.* `SchedInv` says, for each phase of the step, which lists may be
filled (`PhaseInv`), that every client with a queue or a running group is on the
scoreboard (`KnownInv`), that a group has the blocks of its tokens (`TableInv`),
and that the free counts are what is left (`BlockInv`). `OnePlace` needs the
lists of the step: a group that is being scheduled is in none of the three
queues.

`BillInv` adds that a request without a token was not billed, and one with a
token was. For `FairShare`, the score at the moment of a comparison is not
enough: the decodes and the prefill that a step has scheduled but not charged are
still to come. `ShareInv` bounds the score *plus the charges still due*, and
`LiveInv` bounds the number of groups that can decode at all, swapped ones
included, because no prefill is admitted while a group is swapped out.

For `ClientFifo`, the queue is not ordered by arrival in the middle of a step.
`OrderInv` orders all the lists of the step: what runs, in order of arrival, is
older than what was preempted in this step (the last one preempted is the
oldest), and that is older than what waits. `_schedule_running` preempts the
youngest group first and `extendleft` reverses, which restores the order.

### Hybrid store and server (`HybridBackend_proofs`)

`HybridNeverLies` (`NeverLies`), `PutsAreWrittenThrough` (`WriteThrough`),
`RepliesAlwaysFit` (`RepliesFit`) and `NothingIsForgotten` (`NothingForgotten`) for
`MCSpec`: blocking puts, any keys and batches, a peer that may be lost anywhere.
The run `hybrid_framing` shows that the first is false with queued puts. It also
supposes that the local pool is on the CPU; the other three hold for both devices.
With the GPU pool its first two parts, about what is cached and stored, still hold
(`StoreInv`, `ServerInv`), but what was returned need not stay the key's data
(section 5).

`HybridInv` has six parts. `StoreInv` is the one of the LRU backend, whose lemmas
are used again. `CallInv` says what a call may look like at each place in the
code. `JobInv`: the main thread alone uses the local store, and only while the call
stores its key. `ServerInv` is the framing. No stream begins with the bytes of a
chunk, every chunk follows the header of its key, and only the last header may be
without, if the client is about to send the bytes. This holds for the stream
*including the header that the handler already took*, which is why the next bytes
that a handler takes are those it waits for. `TalkInv` is the conversation: the question that the main thread
waits on is the last frame it sent, or its handler has it, or it is answered and
the connection is quiet; otherwise there are only PUTs on their way and no
replies. `SafeInv`: what is known is stored at the server or in transit on this
connection. A question is behind all PUTs that were sent before it on the same
connection, so when it is answered, a key that is known is stored; a negative
answer therefore never concerns a known key, and a read drops none of them.

### Only model-checked

* `CloseJoins`, `EveryRequestLeaves`, `StepCompletes`, `EveryCallReturns` and
  `PutsArrive` are liveness properties under fairness, out of the prover's reach.
  Every other property of a passing run is stated by a theorem above.
* What the hypotheses of the theorems leave out: where a statement is false
  without its hypothesis, section 3 or 5 says how.

## 5. What the modelling showed besides

Behaviour of the code that follows from a line or two and needs no run; the
models have it, and the properties above are stated so that they hold with it.

* `fair_evictor.py:224`: a repeated access by the only client of a chunk adds the
  chunk's size to that client once more (line 229: "no size change").
* `fair_evictor.py:312`: a client whose chunks are all protected is deleted from
  `client_cache_sizes` and never put back (line 310: "temporarily").
* `fair_evictor.py:147`: an outdated pair of a client heap passes the test, so
  step 2 may evict a recently used chunk; the global heaps compare the value.
* `fair_evictor.py:120`: with several decay rates, scores that are not comparable
  are compared; `ThresholdExhaustive` then fails.
* `local_backend.py:840`: on rank 0 `put()` raises after it queued the chunk; the
  rest of the prompt is not stored.
* `vllm_adapter.py:424`: after a sequence that is not stored, the indices stay
  behind, and all later sequences of the batch are skipped too.
* `cache_engine.py:462`: a short last chunk is attributed with `chunk_size` tokens;
  at half of that or less, a newcomer's hits may become negative.
* `scheduler.py:705`: a swapped group that can never come back is dropped without
  giving back its CPU blocks.
* `local_backend.py:166-192`: `put_blocking` of a cached key in a full LRU backend
  removes the key first and may then find it among the victims (`KeyError`). The
  hybrid store does not meet it, because its callers ask `contains` first.
* `local_backend.py:866` and `:241`: with `local_device="cuda"` `get` returns a view
  of the pool chunk. In `retrieve` the put worker may evict the key and fill its
  chunk with another key's data before the chunks are concatenated
  (`cache_engine.py:430`; lines 345-346: "should be a prefix of the input tokens").
  In `batched_get([k1, k2])` of the hybrid store (`hybrid_backend.py:117`), with `k1`
  a local hit and `k2` fetched from the server, storing `k2` locally may evict `k1`
  and overwrite the tensor already in the result. With `LocalDevice = "cuda"` in
  their configurations, `engine_sharing` violates `RetrievesPrefix` and
  `hybrid_peers` violates `NeverLies`. `LocalGPUPool` is commented "only for unit
  testing" (`local_pool.py:106`), but `config.py:97` and `:148` accept the setting
  for every backend.
* `local_backend.py:383`: `while not self.stop_event` is false for every `Event`
  object, so the sweeper ends at once. Buffers come back only when their key is
  read, and the put worker may wait for one for ever.
* `local_backend.py:368`: evicting a key whose file was not created yet raises with
  the lock held; so does a `get` of a key that is put again, between the start of
  the save and line 452. An evicted key stays in `future_pool`, and later puts of it are
  skipped.
* `server/__main__.py:41-44`: a client lost inside a PUT leaves the store's lock
  held, and every later GET or PUT of any client waits for ever.

## 6. Not modelled

* `LMCPipelinedRemoteBackend` (its workers match results to keys by position and
  skip missing keys), the redis connectors, the server's disk store, a server
  that crashes (the connector has no retry).
* Callers that mix blocking and queued puts on the LRU or disk backend at once.
* The cache engine over the LRU, disk and hybrid backends: it calls
  `update_after_get` and passes `retrieved_keys`, which only the fair backend
  accepts. Their own interface is modelled.
* vLLM's prefix caching (the mask of a retrieval), chunked prefill, the priority
  policy, LoRA, several sequences per group, asynchronous output processing,
  `ReqQueue`, the ZeroMQ and HTTP front ends.
* The rest of vLLM (models, kernels, workers, tokenizers, entry points) is the
  unmodified upstream: tensor code and I/O around the scheduler, most of the
  repository's lines.
* Blending, serialisers and CUDA kernels (numeric tensor code); the experimental
  storage manager (not used by the fair configuration).

## 7. Plan

Done: the evictor, the fair backend, the queue, the scheduler, the cache engine,
the LRU, disk and hybrid backends, the server, the abstract cache; the proofs of
section 4, which cover every safety property that the runs check. Next, in this
order:

1. The pipelined remote backend and asynchronous output processing.
2. Bounds in place of `OneRate`: which chunks two decay rates can hide.
