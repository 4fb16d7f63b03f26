---------------------------- MODULE FairBackend ----------------------------
(***************************************************************************)
(* LMCLocalFairBackend (storage_backend/local_backend.py) with its         *)
(* FairEvictor and its memory pool, and the two threads that use it:       *)
(*                                                                         *)
(*   "main"   the engine's thread, which calls the backend's methods;      *)
(*   "worker" put_worker, which takes the puts of put_queue one by one.    *)
(*                                                                         *)
(* update_lock is held over the evictor's bookkeeping but not while the    *)
(* data of a new chunk is copied into its pool chunk, so the threads       *)
(* interleave between the two critical sections of a put.  The iterations  *)
(* of the evictor's loops are steps of their own; they run under the lock. *)
(* A call without a client id (None or -1) returns at once and changes     *)
(* nothing; it is a stuttering step.                                       *)
(***************************************************************************)
EXTENDS FairEvictor, Sequences

CONSTANTS
    MaxCacheSize,   \* evictor.MAX_CACHE_SIZE, in the unit of SizePerChunk
    ChunkSize,      \* bytes of the tensor of a key: less than SizePerChunk
                    \* for the last, partly filled chunk of a prompt
    Modes,          \* the values of put's argument "blocking" callers use
    Prefixes,       \* the lists of retrieved keys callers pass
    MaxTime,        \* bound: how far the clock runs
    MaxPuts,        \* bound: calls of put
    MaxUpdates      \* bound: calls of update_after_get

ASSUME BackendAssumption ==
    /\ MaxCacheSize \in Nat
    /\ ChunkSize \in [Keys -> 1 .. SizePerChunk]
    /\ Modes \subseteq BOOLEAN
    /\ Prefixes \subseteq Seq(Keys)
    /\ MaxTime \in Nat /\ MaxPuts \in Nat /\ MaxUpdates \in Nat

(* init_max_chunk_num: the pool has one chunk more than fits the limit.    *)
(* Faulty variant: one chunk less.                                         *)
SlotsShort == 0 .. (MaxCacheSize \div SizePerChunk) - 2
Slots == 0 .. (MaxCacheSize \div SizePerChunk)

Threads == {"main", "worker"}
NoSlot == -1
Blank == -1      \* content of a pool chunk that was never written
Torn == -2       \* content of a pool chunk while it is being written

VARIABLES
    dict,                 \* the cache: key -> entry
    free_pool,            \* free chunks of the pool (which one a list pops
                          \* first is immaterial: a set)
    mem_pool,             \* what each pool chunk holds: the KV data of a key
    current_cache_size,   \* evictor: bytes in use
    client_cache_sizes,   \* evictor: client -> bytes
    key_to_clients,       \* evictor: key -> its clients
    global_heaps,         \* evictor: lambda -> heap
    client_heaps,         \* evictor: client -> lambda -> heap
    update_lock,          \* "free" or the thread that holds it
    put_queue,            \* puts waiting for the worker
    job,                  \* for each thread, the call it executes
    now,                  \* time()
    closed,               \* close() was called: the end signal follows put_queue
    nputs, nupdates       \* calls so far, for the bounds

evictorTables == <<key_to_clients, global_heaps, client_heaps>>
cacheVars == <<dict, free_pool, client_cache_sizes>>
envVars == <<now, closed, nputs, nupdates>>
vars == <<dict, free_pool, mem_pool, current_cache_size, client_cache_sizes,
          evictorTables, update_lock, put_queue, job, envVars>>

PutItems == [client : Clients, key : Keys, retrieved : Prefixes, lambda : Lambdas]

IdleJob == [pc |-> "idle"]
StoppedJob == [pc |-> "stopped"]
UpdateJob(c, ks) == [pc |-> "update", client |-> c, keys |-> ks]

Init ==
    /\ dict = [k \in {} |-> k]
    /\ free_pool = Slots
    /\ mem_pool = [s \in Slots |-> Blank]
    /\ current_cache_size = 0
    /\ client_cache_sizes = [c \in {} |-> 0]
    /\ key_to_clients = [k \in {} |-> {}]
    /\ global_heaps = [l \in Lambdas |-> {}]
    /\ client_heaps = [c \in Clients |-> [l \in Lambdas |-> {}]]
    /\ update_lock = "free"
    /\ put_queue = <<>>
    /\ job = [t \in Threads |-> IdleJob]
    /\ now = 0 /\ closed = FALSE /\ nputs = 0 /\ nupdates = 0

-----------------------------------------------------------------------------
(***************************************************************************)
(* LocalPool.free and the pop of LocalPool.allocate.  Faulty variants: a   *)
(* chunk is not given back; a chunk is read off the list but stays on it.  *)
(***************************************************************************)
FreedNot(pool, s) == pool
Freed(pool, s) == pool \cup {s}
TakenNot(pool, s) == pool
Taken(pool, s) == pool \ {s}

(***************************************************************************)
(* remove(key): free the entry's pool chunk and take its bytes back from   *)
(* its sharers.  It leaves current_cache_size to its caller.               *)
(***************************************************************************)
Remove(key) ==
    IF key \in DOMAIN dict
    THEN /\ dict' = Without(dict, key)
         /\ free_pool' = Freed(free_pool, dict[key].slot)
         /\ client_cache_sizes' = TakeShares(client_cache_sizes, dict[key])
         /\ key_to_clients' = Without(key_to_clients, key)
    ELSE UNCHANGED <<dict, free_pool, client_cache_sizes, key_to_clients>>

(* cache_size + current_cache_size > MAX_CACHE_SIZE                        *)
Over(t) == ChunkSize[job[t].key] + current_cache_size > MaxCacheSize

Excluded(t) == Range(job[t].evict)

(* min_key in retrieved_keys; faulty variant: the list is ignored.         *)
ProtectedNever(t, key) == FALSE
Protected(t, key) == key \in Range(job[t].retrieved)

(* The state of a put after its first lines: the old entry of the key is   *)
(* gone, and a chunk larger than the whole cache is refused at once.       *)
StartedJob(item, oldSize) ==
    [pc |-> IF ChunkSize[item.key] > MaxCacheSize THEN "illegal" ELSE "threshold",
     client |-> item.client, key |-> item.key, lambda |-> item.lambda,
     retrieved |-> item.retrieved, old |-> oldSize, evict |-> <<>>, slot |-> NoSlot]

(* The bytes of the entry a put replaces; faulty variant: not taken off.   *)
OldSizeIgnored(key) == 0
OldSize(key) == IF key \in DOMAIN dict THEN SizePerChunk ELSE 0

(* put_nonblocking / put_blocking up to the call of update_on_put.         *)
StartPut(t, item) ==
    /\ update_lock = "free"
    /\ update_lock' = t
    /\ current_cache_size' = current_cache_size - OldSize(item.key)
    /\ job' = [job EXCEPT ![t] = StartedJob(item, OldSize(item.key))]
    /\ Remove(item.key)
    /\ UNCHANGED <<mem_pool, global_heaps, client_heaps, now, closed, nupdates>>

(***************************************************************************)
(* update_on_put, step 1: evict the least valuable chunk as long as it is  *)
(* below the threshold.  Choosing a victim already takes its bytes out of  *)
(* the totals; the backend removes it later.                               *)
(***************************************************************************)
ChooseVictim(t, key) ==
    /\ job' = [job EXCEPT ![t].evict = Append(@, key)]
    /\ current_cache_size' = current_cache_size - SizePerChunk
    /\ client_cache_sizes' = TakeShares(client_cache_sizes, dict[key])
    /\ key_to_clients' = Without(key_to_clients, key)

GlobalCandidates(t) == ValidGlobal(global_heaps, dict, Excluded(t))

EvictBelowThreshold(t) ==
    /\ job[t].pc = "threshold" /\ Over(t)
    /\ global_heaps' = PopInvalid(global_heaps, GlobalCandidates(t))
    /\ \E key \in MinKeys(GlobalCandidates(t)) :
          /\ ~Protected(t, key)
          /\ BelowThreshold(dict[key], now)
          /\ ChooseVictim(t, key)
    /\ UNCHANGED <<dict, free_pool, mem_pool, client_heaps, update_lock, put_queue,
                   envVars>>

LeaveThreshold(t) ==
    /\ job[t].pc = "threshold"
    /\ IF Over(t)
       THEN /\ global_heaps' = PopInvalid(global_heaps, GlobalCandidates(t))
            /\ \/ MinKeys(GlobalCandidates(t)) = {}
               \/ \E key \in MinKeys(GlobalCandidates(t)) :
                     Protected(t, key) \/ ~BelowThreshold(dict[key], now)
       ELSE UNCHANGED global_heaps
    /\ job' = [job EXCEPT ![t].pc = "maxclient"]
    /\ UNCHANGED <<cacheVars, mem_pool, current_cache_size, key_to_clients, client_heaps,
                   update_lock, put_queue, envVars>>

(***************************************************************************)
(* update_on_put, step 2: evict from the client with the largest share. A  *)
(* client with nothing to evict is deleted from client_cache_sizes; if no  *)
(* client is left the put is refused.                                      *)
(***************************************************************************)
ClientCandidates(t, c) == ValidClient(client_heaps[c], c, dict, Excluded(t))

EvictFromMaxClient(t) ==
    /\ job[t].pc = "maxclient" /\ Over(t)
    /\ \E c \in MaxClients(client_cache_sizes) :
          /\ client_heaps' = [client_heaps EXCEPT ![c] = PopInvalid(@, ClientCandidates(t, c))]
          /\ \E key \in MinKeys(ClientCandidates(t, c)) :
                ~Protected(t, key) /\ ChooseVictim(t, key)
    /\ UNCHANGED <<dict, free_pool, mem_pool, global_heaps, update_lock, put_queue,
                   envVars>>

DropMaxClient(t) ==
    /\ job[t].pc = "maxclient" /\ Over(t)
    /\ \E c \in MaxClients(client_cache_sizes) :
          /\ client_heaps' = [client_heaps EXCEPT ![c] = PopInvalid(@, ClientCandidates(t, c))]
          /\ \/ MinKeys(ClientCandidates(t, c)) = {}
             \/ \E key \in MinKeys(ClientCandidates(t, c)) : Protected(t, key)
          /\ client_cache_sizes' = Without(client_cache_sizes, c)
    /\ UNCHANGED <<dict, free_pool, mem_pool, current_cache_size, key_to_clients,
                   global_heaps, update_lock, put_queue, job, envVars>>

RefusePut(t) ==
    /\ job[t].pc = "maxclient" /\ Over(t)
    /\ DOMAIN client_cache_sizes = {}
    /\ job' = [job EXCEPT ![t].pc = "illegal"]
    /\ UNCHANGED <<cacheVars, mem_pool, current_cache_size, evictorTables, update_lock,
                   put_queue, envVars>>

AcceptPut(t) ==
    /\ job[t].pc = "maxclient" /\ ~Over(t)
    /\ current_cache_size' = current_cache_size + ChunkSize[job[t].key]
    /\ job' = [job EXCEPT ![t].pc = "remove"]
    /\ UNCHANGED <<cacheVars, mem_pool, evictorTables, update_lock, put_queue, envVars>>

(* PutStatus.ILLEGAL: put back the size of the old entry, unlock, return.  *)
AbandonPut(t) ==
    /\ job[t].pc = "illegal"
    /\ current_cache_size' = current_cache_size + job[t].old
    /\ update_lock' = "free"
    /\ job' = [job EXCEPT ![t] = IdleJob]
    /\ UNCHANGED <<cacheVars, mem_pool, evictorTables, put_queue, envVars>>

(***************************************************************************)
(* The rest of a put: remove the victims and allocate a pool chunk under   *)
(* the lock, copy the data without it, take it again to publish the entry. *)
(***************************************************************************)
RemoveVictim(t) ==
    /\ job[t].pc = "remove" /\ job[t].evict # <<>>
    /\ Remove(Head(job[t].evict))
    /\ job' = [job EXCEPT ![t].evict = Tail(@)]
    /\ UNCHANGED <<mem_pool, current_cache_size, global_heaps, client_heaps, update_lock,
                   put_queue, envVars>>

(* mpool.allocate: an empty free list raises, with the lock still held.    *)
Allocate(t) ==
    /\ job[t].pc = "remove" /\ job[t].evict = <<>>
    /\ IF free_pool = {}
       THEN /\ job' = [job EXCEPT ![t].pc = "dead"]
            /\ UNCHANGED <<free_pool, update_lock>>
       ELSE LET s == CHOOSE s \in free_pool : TRUE
            IN  /\ free_pool' = Taken(free_pool, s)
                /\ job' = [job EXCEPT ![t].pc = "copy", ![t].slot = s]
                /\ update_lock' = "free"
    /\ UNCHANGED <<dict, mem_pool, current_cache_size, client_cache_sizes, evictorTables,
                   put_queue, envVars>>

(* Faulty variant of the next action: the copy is not waited for.          *)
BeginCopyUnsynchronized(t) ==
    /\ job[t].pc = "copy"
    /\ mem_pool' = [mem_pool EXCEPT ![job[t].slot] = Torn]
    /\ job' = [job EXCEPT ![t].pc = "register"]
    /\ UNCHANGED <<cacheVars, current_cache_size, evictorTables, update_lock, put_queue,
                   envVars>>

(* kv_obj.data.copy_ is not atomic: it begins ...                          *)
BeginCopy(t) ==
    /\ job[t].pc = "copy"
    /\ mem_pool' = [mem_pool EXCEPT ![job[t].slot] = Torn]
    /\ job' = [job EXCEPT ![t].pc = "copying"]
    /\ UNCHANGED <<cacheVars, current_cache_size, evictorTables, update_lock, put_queue,
                   envVars>>

(* ... and put_stream.synchronize() waits for its end.                     *)
EndCopy(t) ==
    /\ job[t].pc = "copying"
    /\ mem_pool' = [mem_pool EXCEPT ![job[t].slot] = job[t].key]
    /\ job' = [job EXCEPT ![t].pc = "register"]
    /\ UNCHANGED <<cacheVars, current_cache_size, evictorTables, update_lock, put_queue,
                   envVars>>

NewEntry(t) ==
    [slot |-> job[t].slot, lambda |-> job[t].lambda,
     access |-> [c \in {job[t].client} |-> now]]

(* self.dict[key] = cache_entry; evictor.register_new_cache(...)           *)
Register(t) ==
    /\ job[t].pc = "register"
    /\ update_lock = "free"
    /\ LET key == job[t].key
           c == job[t].client
           l == job[t].lambda
           pair == <<Score(NewEntry(t)), key>>
       IN  /\ dict' = Assoc(dict, key, NewEntry(t))
           /\ key_to_clients' = AddClient(key_to_clients, key, c)
           /\ global_heaps' = PushGlobal(global_heaps, l, pair)
           /\ client_heaps' = PushClient(client_heaps, c, l, pair)
           /\ client_cache_sizes' = Assoc(client_cache_sizes, c,
                                          Lookup(client_cache_sizes, c, 0) + SizePerChunk)
    /\ job' = [job EXCEPT ![t] = IdleJob]
    /\ UNCHANGED <<free_pool, mem_pool, current_cache_size, update_lock, put_queue,
                   envVars>>

ContinuePut(t) ==
    \/ EvictBelowThreshold(t) \/ LeaveThreshold(t)
    \/ EvictFromMaxClient(t) \/ DropMaxClient(t) \/ RefusePut(t) \/ AcceptPut(t)
    \/ AbandonPut(t) \/ RemoveVictim(t) \/ Allocate(t)
    \/ BeginCopy(t) \/ EndCopy(t) \/ Register(t)

-----------------------------------------------------------------------------
(***************************************************************************)
(* The worker: put_worker.  Faulty variant: the newest put is taken first. *)
(***************************************************************************)
TakePutNewest ==
    /\ job["worker"].pc = "idle"
    /\ put_queue # <<>>
    /\ StartPut("worker", put_queue[Len(put_queue)])
    /\ put_queue' = SubSeq(put_queue, 1, Len(put_queue) - 1)
    /\ UNCHANGED nputs
TakePut ==
    /\ job["worker"].pc = "idle"
    /\ put_queue # <<>>
    /\ StartPut("worker", Head(put_queue))
    /\ put_queue' = Tail(put_queue)
    /\ UNCHANGED nputs

(* The end signal is the last item that ever enters the queue.             *)
(* Faulty variant: close() is noticed before the queue is drained.         *)
StopWorkerEarly ==
    /\ job["worker"].pc = "idle"
    /\ closed
    /\ job' = [job EXCEPT !["worker"] = StoppedJob]
    /\ UNCHANGED <<cacheVars, mem_pool, current_cache_size, evictorTables, update_lock,
                   put_queue, envVars>>
StopWorker ==
    /\ job["worker"].pc = "idle"
    /\ put_queue = <<>> /\ closed
    /\ job' = [job EXCEPT !["worker"] = StoppedJob]
    /\ UNCHANGED <<cacheVars, mem_pool, current_cache_size, evictorTables, update_lock,
                   put_queue, envVars>>

Worker == TakePut \/ StopWorker \/ ContinuePut("worker")

(***************************************************************************)
(* The main thread: the backend's methods.  contains, get and              *)
(* get_attribution_info only read the cache, under the lock.               *)
(***************************************************************************)
MainReady == job["main"].pc = "idle" /\ ~closed

EnqueuePut(item) ==
    /\ MainReady /\ nputs < MaxPuts /\ FALSE \in Modes
    /\ put_queue' = Append(put_queue, item)
    /\ nputs' = nputs + 1
    /\ UNCHANGED <<cacheVars, mem_pool, current_cache_size, evictorTables, update_lock,
                   job, now, closed, nupdates>>

BlockingPut(item) ==
    /\ MainReady /\ nputs < MaxPuts /\ TRUE \in Modes
    /\ StartPut("main", item)
    /\ nputs' = nputs + 1
    /\ UNCHANGED put_queue

(* update_after_get takes the lock and walks the keys from the last one.   *)
BeginUpdate(c, keys) ==
    /\ MainReady /\ nupdates < MaxUpdates
    /\ update_lock = "free"
    /\ update_lock' = "main"
    /\ job' = [job EXCEPT !["main"] = UpdateJob(c, keys)]
    /\ nupdates' = nupdates + 1
    /\ UNCHANGED <<cacheVars, mem_pool, current_cache_size, evictorTables, put_queue,
                   now, closed, nputs>>

(* The entry after update_on_get: access_map[client_id] = time().          *)
Touched(entry, c) == [entry EXCEPT !.access = Assoc(@, c, now)]

(* evictor.update_on_get, for a key that is still cached.                  *)
UpdateOnGet(key, c) ==
    LET entry == Touched(dict[key], c)
        l == entry.lambda
        pair == <<Score(entry), key>>
    IN  /\ dict' = [dict EXCEPT ![key] = entry]
        /\ key_to_clients' = AddClient(key_to_clients, key, c)
        /\ global_heaps' = PushGlobal(global_heaps, l, pair)
        /\ client_heaps' = PushShared(client_heaps, DOMAIN entry.access, l, pair)
        /\ client_cache_sizes' = GiveShares(client_cache_sizes, dict[key], c)

UpdateNext ==
    /\ job["main"].pc = "update" /\ job["main"].keys # <<>>
    /\ LET keys == job["main"].keys
           key == keys[Len(keys)]
       IN  IF key \in DOMAIN dict
           THEN UpdateOnGet(key, job["main"].client)
           ELSE UNCHANGED <<dict, client_cache_sizes, evictorTables>>
    /\ job' = [job EXCEPT !["main"].keys = SubSeq(@, 1, Len(@) - 1)]
    /\ UNCHANGED <<free_pool, mem_pool, current_cache_size, update_lock, put_queue, envVars>>

EndUpdate ==
    /\ job["main"].pc = "update" /\ job["main"].keys = <<>>
    /\ job' = [job EXCEPT !["main"] = IdleJob]
    /\ update_lock' = "free"
    /\ UNCHANGED <<cacheVars, mem_pool, current_cache_size, evictorTables, put_queue, envVars>>

(* close(): queue the end signal; it then joins the worker.                *)
Close ==
    /\ MainReady
    /\ closed' = TRUE
    /\ UNCHANGED <<cacheVars, mem_pool, current_cache_size, evictorTables, update_lock,
                   put_queue, job, now, nputs, nupdates>>

MainLoop == ContinuePut("main") \/ UpdateNext \/ EndUpdate

(* time() is read once per critical section of a put, so it need not       *)
(* advance inside one.                                                     *)
Tick ==
    /\ now < MaxTime
    /\ \A t \in Threads : update_lock # t \/ job[t].pc = "update"
    /\ now' = now + 1
    /\ UNCHANGED <<cacheVars, mem_pool, current_cache_size, evictorTables, update_lock,
                   put_queue, job, closed, nputs, nupdates>>

(* After close() has joined the worker nothing happens any more.           *)
Terminated == closed /\ job["worker"].pc = "stopped" /\ UNCHANGED vars

Next ==
    \/ Worker
    \/ \E item \in PutItems : EnqueuePut(item) \/ BlockingPut(item)
    \/ \E c \in Clients, keys \in Prefixes : BeginUpdate(c, keys)
    \/ MainLoop
    \/ Close
    \/ Tick
    \/ Terminated

(* The threads run: each one that can take a step of a call it has begun   *)
(* eventually does.  Callers are never obliged to call.                    *)
Fairness == WF_vars(Worker) /\ WF_vars(MainLoop)

Spec == Init /\ [][Next]_vars /\ Fairness

-----------------------------------------------------------------------------
(***************************************************************************)
(* Types.                                                                  *)
(***************************************************************************)
PartialMap(f, D, R) == DOMAIN f \subseteq D /\ f \in [DOMAIN f -> R]
AccessMaps == UNION {[C -> 0 .. MaxTime] : C \in (SUBSET Clients) \ {{}}}
Entries == [slot : Slots, lambda : Lambdas, access : AccessMaps]
Heaps == SUBSET ({Score(e) : e \in Entries} \X Keys)

PutPcs == {"threshold", "maxclient", "illegal", "remove", "dead", "copy", "copying", "register"}
PutJobs == [pc : PutPcs, client : Clients, key : Keys, lambda : Lambdas, retrieved : Prefixes,
            old : {0, SizePerChunk}, evict : Seq(Keys), slot : Slots \cup {NoSlot}]
UpdateJobs == [pc : {"update"}, client : Clients, keys : Seq(Keys)]

(* Every variable keeps its type; in particular the size of a client, from *)
(* which the code subtracts shares in several places, is never negative.   *)
TypeOK ==
    /\ PartialMap(dict, Keys, Entries)
    /\ free_pool \subseteq Slots
    /\ mem_pool \in [Slots -> Keys \cup {Blank, Torn}]
    /\ current_cache_size \in Int
    /\ PartialMap(client_cache_sizes, Clients, Nat)
    /\ PartialMap(key_to_clients, Keys, SUBSET Clients)
    /\ global_heaps \in [Lambdas -> Heaps]
    /\ client_heaps \in [Clients -> [Lambdas -> Heaps]]
    /\ update_lock \in Threads \cup {"free"}
    /\ put_queue \in Seq(PutItems)
    /\ job \in [Threads -> {IdleJob, StoppedJob} \cup PutJobs \cup UpdateJobs]
    /\ now \in 0 .. MaxTime /\ closed \in BOOLEAN
    /\ nputs \in 0 .. MaxPuts /\ nupdates \in 0 .. MaxUpdates

(***************************************************************************)
(* Safety.                                                                 *)
(***************************************************************************)
Putting(t, pcs) == job[t].pc \in pcs
HoldsSlot(t) == Putting(t, {"copy", "copying", "register"})
InFlight == {t \in Threads : HoldsSlot(t)}

(* No pool chunk has two owners: a chunk is free, or belongs to one entry, *)
(* or to one put that is filling it (remove, allocate and register hand it *)
(* over, the last two in different critical sections).                     *)
SlotsExclusive ==
    /\ \A k \in DOMAIN dict : dict[k].slot \notin free_pool
    /\ \A k, m \in DOMAIN dict : k # m => dict[k].slot # dict[m].slot
    /\ \A t \in InFlight : /\ job[t].slot \notin free_pool
                           /\ \A k \in DOMAIN dict : dict[k].slot # job[t].slot
    /\ \A t, u \in InFlight : t # u => job[t].slot # job[u].slot

(* No pool chunk is lost: "free old block to avoid mem leak".              *)
NoSlotLeak ==
    \A s \in Slots : \/ s \in free_pool
                     \/ \E k \in DOMAIN dict : dict[k].slot = s
                     \/ \E t \in InFlight : job[t].slot = s

(* What get() reads for a cached key, at any moment it can hold the lock,  *)
(* is the complete data of that key, although the pool chunk is filled     *)
(* outside the lock and may have belonged to another key before.           *)
CachedDataIntact == \A k \in DOMAIN dict : mem_pool[dict[k].slot] = k

(* Between puts the evictor's total is exactly the pool memory in use, and *)
(* never exceeds the limit.                                                *)
AccountingExact ==
    update_lock = "free" =>
        /\ current_cache_size = SizePerChunk * (Cardinality(DOMAIN dict) + Cardinality(InFlight))
        /\ current_cache_size <= MaxCacheSize

(* allocate never meets an empty free list: "No free memory chunks.        *)
(* Shouldn't happen! Evictor might be failing!".                           *)
PoolNeverExhausted == \A t \in Threads : job[t].pc # "dead"

(* The lazy deletion of the global heaps never loses a live pair: every    *)
(* cached key is in the heap of its lambda with its current value, so step *)
(* 1 can find it.                                                          *)
GlobalHeapComplete ==
    \A k \in DOMAIN dict : <<Score(dict[k]), k>> \in global_heaps[dict[k].lambda]

(* The same for the heaps of the clients: each sharer of a cached chunk    *)
(* finds it in its own heap with its current value, so a client that has   *)
(* something to evict is not taken off the size table by mistake.  (Older  *)
(* pairs of the chunk may be there too, and name it as the victim.)        *)
ClientHeapComplete ==
    \A k \in DOMAIN dict : \A c \in DOMAIN dict[k].access :
        <<Score(dict[k]), k>> \in client_heaps[c][dict[k].lambda]

(* The evictor's reverse map agrees with the access maps of the cache.     *)
KeyToClientsAgrees ==
    key_to_clients = [k \in DOMAIN dict |-> DOMAIN dict[k].access]

(* Outside the critical sections the evictor's heaps and its reverse map,  *)
(* which update_on_get, update_on_put, register_new_cache and remove each  *)
(* change in part, describe the cache: no chunk is invisible to an         *)
(* eviction or charged to the wrong clients.                               *)
TablesDescribeCache ==
    update_lock = "free" =>
        GlobalHeapComplete /\ ClientHeapComplete /\ KeyToClientsAgrees

(* "retrieved_keys: List of keys that were just retrieved (should not be   *)
(* evicted)": a put removes none of them, except the key it replaces.      *)
RetrievedKept ==
    [][\A t \in Threads :
          Putting(t, PutPcs) =>
              \A k \in Range(job[t].retrieved) \ {job[t].key} :
                  (update_lock = t /\ k \in DOMAIN dict) => k \in DOMAIN dict']_vars

(* "No more caches below threshold": when step 1 ends with the cache still *)
(* full and no cached chunk protected, no cached chunk is below the        *)
(* threshold any more.  This needs a single decay rate: scores of          *)
(* different rates are not comparable, but the code compares them.         *)
ThresholdExhaustive ==
    [][\A t \in Threads :
          (/\ Putting(t, {"threshold"}) /\ Over(t)
           /\ job'[t].pc = "maxclient"
           /\ Range(job[t].retrieved) \cap DOMAIN dict = {})
          => \A k \in DOMAIN dict \ Excluded(t) : ~BelowThreshold(dict[k], now)]_vars

(***************************************************************************)
(* The backend as the cache engine sees it: AbstractCache with the data    *)
(* that get copies out of the pool, the queue, and the puts in progress.   *)
(***************************************************************************)
Abstract == INSTANCE AbstractCache WITH
    Writers <- Threads,
    held <- [k \in DOMAIN dict |-> mem_pool[dict[k].slot]],
    queue <- [i \in DOMAIN put_queue |-> put_queue[i].key],
    writing <- [t \in Threads |-> IF Putting(t, PutPcs) THEN {job[t].key} ELSE {}]

(* The backend implements a cache that forgets but never lies: no get ever *)
(* returns a torn chunk, another key's data or a chunk nobody put, and no  *)
(* queued put is lost, repeated or overtaken, whatever is evicted, copied  *)
(* or replaced meanwhile.                                                  *)
ImplementsCache == Abstract!Spec

(* Every put the queue accepted is carried out, and close() joins the      *)
(* worker: once it is called, the worker drains the queue and stops.       *)
CloseJoins == closed ~> (put_queue = <<>> /\ job["worker"].pc = "stopped")
=============================================================================
