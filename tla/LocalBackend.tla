---------------------------- MODULE LocalBackend ----------------------------
(***************************************************************************)
(* LMCLocalBackend (storage_backend/local_backend.py) with its LRUEvictor  *)
(* and its LocalPool: the backend of the hybrid store.  put_nonblocking    *)
(* runs on the put worker and takes update_lock twice; put_blocking runs   *)
(* on the caller's thread and takes no lock at all.  A caller that mixes   *)
(* the two ways has unsynchronized accesses to the dictionary; the module  *)
(* serves the two ways the repository uses: all queued (LocalSpec), or all *)
(* blocking (HybridBackend).                                               *)
(*                                                                         *)
(* Every size the evictor adds or takes off is mpool.size_per_chunk, so    *)
(* sizes count chunks.  The data of a chunk is named by its key.           *)
(***************************************************************************)
EXTENDS Dicts, LRUEvictor, FiniteSets

CONSTANTS
    Keys,
    Capacity,     \* chunks that fit MAX_CACHE_SIZE
    MaxOps        \* bound: calls of put and get

ASSUME LocalAssumption ==
    Capacity \in Nat /\ MaxOps \in Nat

(* init_max_chunk_num.  Faulty variant: two chunks less.                   *)
PoolChunksShort == 0 .. Capacity - 2
PoolChunks == 0 .. Capacity
Threads == {"main", "worker"}
Blank == "blank"      \* a pool chunk that was never written
Torn == "torn"        \* a pool chunk while it is being written

VARIABLES
    dict,                 \* key -> pool chunk
    order,                \* the keys of dict, an OrderedDict, oldest first
    free_pool, mem_pool,  \* the pool's free chunks and their contents
    current_cache_size,   \* evictor: chunks accounted for
    update_lock,          \* "free" or the thread that holds it
    put_queue,            \* keys of the puts that wait for the worker
    job,                  \* for each thread, the put it executes
    closed, nops

storeVars == <<dict, order, free_pool, mem_pool, current_cache_size>>
localVars == <<storeVars, update_lock, put_queue, job, closed, nops>>

IdleJob == [pc |-> "idle"]
Job(pc, k, d, victims) == [pc |-> pc, key |-> k, data |-> d, evict |-> victims, slot |-> -1]

LocalInit ==
    /\ dict = [k \in {} |-> k] /\ order = <<>>
    /\ free_pool = PoolChunks /\ mem_pool = [s \in PoolChunks |-> Blank]
    /\ current_cache_size = 0
    /\ update_lock = "free" /\ put_queue = <<>>
    /\ job = [t \in Threads |-> IdleJob]
    /\ closed = FALSE /\ nops = 0

Ready == job["main"] = IdleJob /\ ~closed

-----------------------------------------------------------------------------
(***************************************************************************)
(* evictor.update_on_put.  An exception ends the put where it is: the      *)
(* worker dies and keeps the lock.  Without room for a single chunk the    *)
(* put returns at once (PutStatus.ILLEGAL).                                *)
(***************************************************************************)
Raised(t) == [job EXCEPT ![t].pc = "raised"]

UpdateOnPut(t, k, d, nextPc) ==
    IF Capacity = 0
    THEN UNCHANGED <<job, current_cache_size>>
    ELSE /\ current_cache_size' = SizeAfterPut(order, current_cache_size, Capacity)
         /\ job' = [job EXCEPT ![t] =
                       IF RunsOut(order, current_cache_size, Capacity)
                       THEN Job("raised", k, d, <<>>)
                       ELSE Job(nextPc, k, d, Victims(order, current_cache_size, Capacity))]

(* put_nonblocking removes the victims and then the old entry of the key,  *)
(* put_blocking the other way round.                                       *)
StartNonblocking ==
    /\ job["worker"].pc = "idle" /\ put_queue # <<>>
    /\ update_lock = "free"
    /\ update_lock' = IF Capacity = 0 THEN "free" ELSE "worker"
    /\ put_queue' = Tail(put_queue)
    /\ UpdateOnPut("worker", Head(put_queue), Head(put_queue), "evict")
    /\ UNCHANGED <<dict, order, free_pool, mem_pool, closed, nops>>

StartBlocking(k, d) ==
    /\ Ready
    /\ UpdateOnPut("main", k, d, "old")
    /\ UNCHANGED <<dict, order, free_pool, mem_pool, update_lock, put_queue, closed, nops>>

Unlocked(t) == IF update_lock = t THEN "free" ELSE update_lock

(* remove(key): dict.pop raises KeyError if the key is not there.          *)
(* Faulty variant: the pool chunk is not given back.                       *)
RemoveLeaking(k) ==
    /\ dict' = Without(dict, k)
    /\ order' = Popped(order, k)
    /\ UNCHANGED free_pool
Remove(k) ==
    /\ dict' = Without(dict, k)
    /\ order' = Popped(order, k)
    /\ free_pool' = free_pool \cup {dict[k]}

RemoveVictim(t) ==
    /\ job[t].pc = "evict" /\ job[t].evict # <<>>
    /\ LET k == Head(job[t].evict)
       IN  IF k \in DOMAIN dict
           THEN Remove(k) /\ job' = [job EXCEPT ![t].evict = Tail(@)]
           ELSE job' = Raised(t) /\ UNCHANGED <<dict, order, free_pool>>
    /\ UNCHANGED <<mem_pool, current_cache_size, update_lock, put_queue, closed, nops>>

VictimsRemoved(t) ==
    /\ job[t].pc = "evict" /\ job[t].evict = <<>>
    /\ job' = [job EXCEPT ![t].pc = IF t = "worker" THEN "old" ELSE "allocate"]
    /\ UNCHANGED <<storeVars, update_lock, put_queue, closed, nops>>

(* "free old block to avoid mem leak"; its size is not taken off.          *)
RemoveOld(t) ==
    /\ job[t].pc = "old"
    /\ IF job[t].key \in DOMAIN dict
       THEN Remove(job[t].key)
       ELSE UNCHANGED <<dict, order, free_pool>>
    /\ job' = [job EXCEPT ![t].pc = IF t = "worker" THEN "allocate" ELSE "evict"]
    /\ UNCHANGED <<mem_pool, current_cache_size, update_lock, put_queue, closed, nops>>

Allocate(t) ==
    /\ job[t].pc = "allocate"
    /\ IF free_pool = {}
       THEN job' = Raised(t) /\ UNCHANGED <<free_pool, update_lock>>
       ELSE LET s == CHOOSE s \in free_pool : TRUE
            IN  /\ free_pool' = free_pool \ {s}
                /\ job' = [job EXCEPT ![t].pc = "copy", ![t].slot = s]
                /\ update_lock' = Unlocked(t)
    /\ UNCHANGED <<dict, order, mem_pool, current_cache_size, put_queue, closed, nops>>

(* Faulty variant of the next action: the copy is not waited for.          *)
BeginCopyUnsynchronized(t) ==
    /\ job[t].pc = "copy"
    /\ mem_pool' = [mem_pool EXCEPT ![job[t].slot] = Torn]
    /\ job' = [job EXCEPT ![t].pc = "publish"]
    /\ UNCHANGED <<dict, order, free_pool, current_cache_size, update_lock, put_queue, closed, nops>>
BeginCopy(t) ==
    /\ job[t].pc = "copy"
    /\ mem_pool' = [mem_pool EXCEPT ![job[t].slot] = Torn]
    /\ job' = [job EXCEPT ![t].pc = "copying"]
    /\ UNCHANGED <<dict, order, free_pool, current_cache_size, update_lock, put_queue, closed, nops>>

EndCopy(t) ==
    /\ job[t].pc = "copying"
    /\ mem_pool' = [mem_pool EXCEPT ![job[t].slot] = job[t].data]
    /\ job' = [job EXCEPT ![t].pc = "publish"]
    /\ UNCHANGED <<dict, order, free_pool, current_cache_size, update_lock, put_queue, closed, nops>>

(* self.dict[key] = kv_obj: a new key goes to the end of the order.        *)
Publish(t) ==
    /\ job[t].pc = "publish"
    /\ t = "worker" => update_lock = "free"
    /\ dict' = Assoc(dict, job[t].key, job[t].slot)
    /\ order' = Inserted(order, job[t].key)
    /\ job' = [job EXCEPT ![t] = IdleJob]
    /\ UNCHANGED <<free_pool, mem_pool, current_cache_size, update_lock, put_queue, closed, nops>>

ContinuePut(t) ==
    \/ RemoveVictim(t) \/ VictimsRemoved(t) \/ RemoveOld(t)
    \/ Allocate(t) \/ BeginCopy(t) \/ EndCopy(t) \/ Publish(t)

-----------------------------------------------------------------------------
(* put(blocking=False).                                                    *)
EnqueuePut(k) ==
    /\ Ready /\ nops < MaxOps
    /\ nops' = nops + 1
    /\ put_queue' = Append(put_queue, k)
    /\ UNCHANGED <<storeVars, update_lock, job, closed>>

(* get: under the lock, and the key becomes the most recent one.           *)
Touch(k) ==
    /\ update_lock = "free"
    /\ order' = IF k \in DOMAIN dict THEN MovedToEnd(order, k) ELSE order

Get(k) ==
    /\ Ready /\ nops < MaxOps
    /\ nops' = nops + 1
    /\ Touch(k)
    /\ UNCHANGED <<dict, free_pool, mem_pool, current_cache_size, update_lock, put_queue, job, closed>>

Close ==
    /\ Ready
    /\ closed' = TRUE
    /\ UNCHANGED <<storeVars, update_lock, put_queue, job, nops>>

StopWorker ==
    /\ job["worker"].pc = "idle" /\ put_queue = <<>> /\ closed
    /\ job' = [job EXCEPT !["worker"].pc = "stopped"]
    /\ UNCHANGED <<storeVars, update_lock, put_queue, closed, nops>>

LocalWorker == StartNonblocking \/ ContinuePut("worker") \/ StopWorker
Terminated == closed /\ job["worker"].pc = "stopped" /\ UNCHANGED localVars

(* Callers that queue all their puts.                                      *)
LocalNext ==
    \/ LocalWorker
    \/ \E k \in Keys : EnqueuePut(k) \/ Get(k)
    \/ Close
    \/ Terminated

LocalSpec == LocalInit /\ [][LocalNext]_localVars /\ WF_localVars(LocalWorker)

-----------------------------------------------------------------------------
PutPcs == {"evict", "old", "allocate", "copy", "copying", "publish", "raised"}
Putting(t) == job[t].pc \in PutPcs
Filling == {t \in Threads : job[t].pc \in {"copy", "copying", "publish"}}

(* No put of a chunk that fits raises: "Store the KV cache of the tokens   *)
(* into the cache engine".  The evictor always finds enough victims, they  *)
(* are still cached when they are removed, and the pool is never empty.    *)
NoPutRaises == \A t \in Threads : job[t].pc # "raised"

(* The limit holds for what is really in the pool: the evictor may count a *)
(* replaced chunk twice, but it never forgets one that is cached or being  *)
(* written.                                                                *)
WithinLimit ==
    update_lock = "free" =>
        /\ Cardinality(DOMAIN dict) + Cardinality(Filling) <= current_cache_size
        /\ current_cache_size <= Capacity

(* No pool chunk is lost or has two owners, whatever is replaced or        *)
(* evicted: "free old block to avoid mem leak".                            *)
PoolConserved ==
    LET owners == Cardinality(free_pool) + Cardinality(DOMAIN dict) + Cardinality(Filling)
    IN  /\ free_pool \cup Range(dict) \cup {job[t].slot : t \in Filling} = PoolChunks
        /\ owners = Cardinality(PoolChunks)

Abstract == INSTANCE AbstractCache WITH
    Writers <- Threads,
    held <- [k \in DOMAIN dict |-> mem_pool[dict[k]]],
    queue <- put_queue,
    writing <- [t \in Threads |-> IF Putting(t) THEN {job[t].key} ELSE {}]

(* The backend implements a cache that forgets but never lies.             *)
ImplementsCache == Abstract!Spec
=============================================================================
