---------------------------- MODULE DiskBackend ----------------------------
(***************************************************************************)
(* LMCLocalDiskBackend (storage_backend/local_backend.py) with its         *)
(* LRUEvictor, its LocalCPUBufferPool and its pool of saving processes.    *)
(*                                                                         *)
(* A queued put copies its chunk into a buffer, hands the buffer to a      *)
(* process that writes the file, and publishes the key; the buffer goes    *)
(* back to its pool when somebody meets the finished future.  The code     *)
(* means the sweeper thread to do that, but its loop condition is          *)
(* "not self.stop_event", which is false for every Event object: it ends   *)
(* at once and has no action here, and only get gives buffers back.        *)
(*                                                                         *)
(* Sizes count chunks of one size.  A blocking put is made only when all   *)
(* queued puts are carried out.                                            *)
(***************************************************************************)
EXTENDS Dicts, LRUEvictor, FiniteSets

CONSTANTS
    Keys,
    Capacity,     \* chunks that fit MAX_CACHE_SIZE
    MaxOps        \* bound: calls of put and get

ASSUME DiskAssumption == Capacity \in Nat /\ MaxOps \in Nat

(* LocalCPUBufferPool has the size of the memory pool.                     *)
Buffers == 0 .. Capacity
Threads == {"main", "worker"}

VARIABLES
    order,                \* the keys of dict, an OrderedDict, oldest first
    files,                \* the files: key -> "partial", or whose data it holds
    free_pool, mem_pool,  \* the buffer pool's free buffers and their contents
    future_pool,          \* key -> the buffer its save uses
    saves,                \* the saves that are not done: submitted or writing
    current_cache_size,   \* evictor: chunks accounted for
    update_lock,          \* "free" or the thread that holds it
    put_queue,            \* keys of the puts that wait for the worker
    job,                  \* for each thread, the call it executes
    closed, nops

cacheVars == <<order, files, current_cache_size>>
bufferVars == <<free_pool, mem_pool, future_pool, saves>>
threadVars == <<update_lock, put_queue, job, closed, nops>>
diskVars == <<cacheVars, bufferVars, threadVars>>

IdleJob == [pc |-> "idle"]
Job(pc, k, victims) == [pc |-> pc, key |-> k, evict |-> victims, buffer |-> -1]
Save(k, b, state) == [key |-> k, buffer |-> b, state |-> state]

Cached == Range(order)
Writing(k) == \E s \in saves : s.key = k /\ s.state = "writing"
SavingFile(k) == job["main"].pc = "saving" /\ job["main"].key = k

(* future.done().  Faulty variant: it is not asked.                        *)
DoneAssumed(k) == TRUE
Done(k) == ~\E s \in saves : s.key = k /\ s.buffer = future_pool[k]

DiskInit ==
    /\ order = <<>> /\ files = [k \in {} |-> k]
    /\ free_pool = Buffers /\ mem_pool = [b \in Buffers |-> "blank"]
    /\ future_pool = [k \in {} |-> 0] /\ saves = {}
    /\ current_cache_size = 0
    /\ update_lock = "free" /\ put_queue = <<>>
    /\ job = [t \in Threads |-> IdleJob]
    /\ closed = FALSE /\ nops = 0

Ready == job["main"].pc = "idle" /\ ~closed

-----------------------------------------------------------------------------
(***************************************************************************)
(* Both kinds of put begin alike: under the lock the evictor chooses the   *)
(* victims, and their files are removed.  An exception (the dictionary or  *)
(* a file is not there) ends the call with the lock held.                  *)
(***************************************************************************)
UpdateOnPut(t, k) ==
    IF Capacity = 0
    THEN UNCHANGED <<job, current_cache_size, update_lock>>
    ELSE /\ update_lock' = t
         /\ current_cache_size' = SizeAfterPut(order, current_cache_size, Capacity)
         /\ job' = [job EXCEPT ![t] =
                       IF RunsOut(order, current_cache_size, Capacity)
                       THEN Job("raised", k, <<>>)
                       ELSE Job("evict", k, Victims(order, current_cache_size, Capacity))]

(* put_nonblocking skips a key whose save was not collected yet.           *)
SkipPut ==
    /\ job["worker"].pc = "idle" /\ put_queue # <<>> /\ update_lock = "free"
    /\ Head(put_queue) \in DOMAIN future_pool
    /\ put_queue' = Tail(put_queue)
    /\ UNCHANGED <<cacheVars, bufferVars, update_lock, job, closed, nops>>

(* Faulty variant of the next action: the test for a save is forgotten.    *)
StartNonblockingAlways ==
    /\ job["worker"].pc = "idle" /\ put_queue # <<>> /\ update_lock = "free"
    /\ put_queue' = Tail(put_queue)
    /\ UpdateOnPut("worker", Head(put_queue))
    /\ UNCHANGED <<order, files, bufferVars, closed, nops>>
StartNonblocking ==
    /\ job["worker"].pc = "idle" /\ put_queue # <<>> /\ update_lock = "free"
    /\ Head(put_queue) \notin DOMAIN future_pool
    /\ put_queue' = Tail(put_queue)
    /\ UpdateOnPut("worker", Head(put_queue))
    /\ UNCHANGED <<order, files, bufferVars, closed, nops>>

StartBlocking(k) ==
    /\ Ready /\ nops < MaxOps /\ update_lock = "free"
    /\ put_queue = <<>> /\ job["worker"].pc = "idle"
    /\ nops' = nops + 1
    /\ UpdateOnPut("main", k)
    /\ UNCHANGED <<order, files, bufferVars, put_queue, closed>>

(* remove(key): dict.pop, then os.remove.  A process that has the file     *)
(* open goes on writing to a file without a name.  Faulty variant: only    *)
(* the file is removed.                                                    *)
RemoveFileOnly(t) ==
    /\ job[t].pc = "evict" /\ job[t].evict # <<>>
    /\ files' = Without(files, Head(job[t].evict))
    /\ job' = [job EXCEPT ![t].evict = Tail(@)]
    /\ UNCHANGED <<order, bufferVars, current_cache_size, update_lock, put_queue, closed, nops>>
RemoveVictim(t) ==
    /\ job[t].pc = "evict" /\ job[t].evict # <<>>
    /\ LET k == Head(job[t].evict)
       IN  /\ order' = Popped(order, k)
           /\ IF k \in DOMAIN files
              THEN /\ files' = Without(files, k)
                   /\ saves' = {IF s.key = k /\ s.state = "writing"
                                THEN [s EXCEPT !.state = "unlinked"] ELSE s : s \in saves}
                   /\ job' = [job EXCEPT ![t].evict = Tail(@)]
              ELSE /\ job' = [job EXCEPT ![t].pc = "raised"]
                   /\ UNCHANGED <<files, saves>>
    /\ UNCHANGED <<free_pool, mem_pool, future_pool, current_cache_size, update_lock,
                   put_queue, closed, nops>>

VictimsRemoved(t) ==
    /\ job[t].pc = "evict" /\ job[t].evict = <<>>
    /\ update_lock' = "free"
    /\ job' = [job EXCEPT ![t].pc = IF t = "worker" THEN "buffer" ELSE "save"]
    /\ UNCHANGED <<cacheVars, bufferVars, put_queue, closed, nops>>

(***************************************************************************)
(* The rest of put_nonblocking: wait for a buffer, copy, submit the save,  *)
(* and only then enter the future and the key, under the lock.             *)
(***************************************************************************)
AllocateBuffer ==
    /\ job["worker"].pc = "buffer" /\ update_lock = "free" /\ free_pool # {}
    /\ LET b == CHOOSE b \in free_pool : TRUE
       IN  /\ free_pool' = free_pool \ {b}
           /\ mem_pool' = [mem_pool EXCEPT ![b] = job["worker"].key]
           /\ job' = [job EXCEPT !["worker"].pc = "submit", !["worker"].buffer = b]
    /\ UNCHANGED <<cacheVars, future_pool, saves, update_lock, put_queue, closed, nops>>

(* allocate returns None: sleep and try again.                             *)
WaitForBuffer ==
    /\ job["worker"].pc = "buffer" /\ update_lock = "free" /\ free_pool = {}
    /\ UNCHANGED diskVars

Submit ==
    /\ job["worker"].pc = "submit"
    /\ saves' = saves \cup {Save(job["worker"].key, job["worker"].buffer, "submitted")}
    /\ job' = [job EXCEPT !["worker"].pc = "publish"]
    /\ UNCHANGED <<cacheVars, free_pool, mem_pool, future_pool, update_lock, put_queue,
                   closed, nops>>

Publish ==
    /\ job["worker"].pc = "publish" /\ update_lock = "free"
    /\ future_pool' = Assoc(future_pool, job["worker"].key, job["worker"].buffer)
    /\ order' = Inserted(order, job["worker"].key)
    /\ job' = [job EXCEPT !["worker"] = IdleJob]
    /\ UNCHANGED <<files, free_pool, mem_pool, saves, current_cache_size, update_lock,
                   put_queue, closed, nops>>

(***************************************************************************)
(* save_disk in a process of the pool: the file is created, then filled    *)
(* from the buffer, whose memory the process shares.                       *)
(***************************************************************************)
BeginSave(s) ==
    /\ s.state = "submitted"
    /\ saves' = (saves \ {s}) \cup {[s EXCEPT !.state = "writing"]}
    /\ files' = Assoc(files, s.key, "partial")
    /\ UNCHANGED <<order, current_cache_size, free_pool, mem_pool, future_pool, threadVars>>

EndSave(s) ==
    /\ s.state \in {"writing", "unlinked"}
    /\ saves' = saves \ {s}
    /\ files' = IF s.state = "unlinked" \/ SavingFile(s.key) THEN files
                ELSE Assoc(files, s.key, mem_pool[s.buffer])
    /\ UNCHANGED <<order, current_cache_size, free_pool, mem_pool, future_pool, threadVars>>

(***************************************************************************)
(* put_blocking writes the file itself, without the lock; a process may    *)
(* still be writing the same file.                                         *)
(***************************************************************************)
BeginSaveFile ==
    /\ job["main"].pc = "save"
    /\ files' = Assoc(files, job["main"].key, "partial")
    /\ job' = [job EXCEPT !["main"].pc = "saving"]
    /\ UNCHANGED <<order, current_cache_size, bufferVars, update_lock, put_queue, closed, nops>>

EndSaveFile ==
    /\ job["main"].pc = "saving"
    /\ files' = IF Writing(job["main"].key) THEN files
                ELSE Assoc(files, job["main"].key, job["main"].key)
    /\ job' = [job EXCEPT !["main"].pc = "enter"]
    /\ UNCHANGED <<order, current_cache_size, bufferVars, update_lock, put_queue, closed, nops>>

EnterBlocking ==
    /\ job["main"].pc = "enter" /\ update_lock = "free"
    /\ order' = Inserted(order, job["main"].key)
    /\ job' = [job EXCEPT !["main"] = IdleJob]
    /\ UNCHANGED <<files, current_cache_size, bufferVars, update_lock, put_queue, closed, nops>>

-----------------------------------------------------------------------------
EnqueuePut(k) ==
    /\ Ready /\ nops < MaxOps
    /\ nops' = nops + 1
    /\ put_queue' = Append(put_queue, k)
    /\ UNCHANGED <<cacheVars, bufferVars, update_lock, job, closed>>

(* get: a key that is absent, or whose save is not done, is a miss.        *)
Miss(k) == k \notin Cached \/ (k \in DOMAIN future_pool /\ ~Done(k))

(* Otherwise the buffer of a finished save is given back, the file is read *)
(* and the key becomes the most recent one.  A missing or partial file     *)
(* raises, with the lock held.                                             *)
Get(k) ==
    /\ Ready /\ nops < MaxOps /\ update_lock = "free" /\ ~Miss(k)
    /\ nops' = nops + 1
    /\ free_pool' = free_pool \cup (IF k \in DOMAIN future_pool THEN {future_pool[k]} ELSE {})
    /\ future_pool' = Without(future_pool, k)
    /\ order' = MovedToEnd(order, k)
    /\ IF Lookup(files, k, "absent") \in {"absent", "partial"}
       THEN update_lock' = "main" /\ job' = [job EXCEPT !["main"] = Job("raised", k, <<>>)]
       ELSE UNCHANGED <<update_lock, job>>
    /\ UNCHANGED <<files, current_cache_size, mem_pool, saves, put_queue, closed>>

Close ==
    /\ Ready
    /\ closed' = TRUE
    /\ UNCHANGED <<cacheVars, bufferVars, update_lock, put_queue, job, nops>>

StopWorker ==
    /\ job["worker"].pc = "idle" /\ put_queue = <<>> /\ closed
    /\ job' = [job EXCEPT !["worker"].pc = "stopped"]
    /\ UNCHANGED <<cacheVars, bufferVars, update_lock, put_queue, closed, nops>>

(* Nothing more happens when the backend is closed, or when a thread that  *)
(* raised keeps the lock.                                                  *)
AtRest ==
    /\ \/ job["worker"].pc = "stopped"
       \/ \E t \in Threads : job[t].pc = "raised"
    /\ UNCHANGED diskVars

PutWorker ==
    \/ SkipPut \/ StartNonblocking \/ RemoveVictim("worker") \/ VictimsRemoved("worker")
    \/ AllocateBuffer \/ Submit \/ Publish \/ StopWorker

BlockingPut ==
    \/ RemoveVictim("main") \/ VictimsRemoved("main")
    \/ BeginSaveFile \/ EndSaveFile \/ EnterBlocking

SaveStep == \E s \in saves : BeginSave(s) \/ EndSave(s)

DiskNext ==
    \/ PutWorker \/ WaitForBuffer \/ BlockingPut \/ SaveStep
    \/ \E k \in Keys : EnqueuePut(k) \/ StartBlocking(k) \/ Get(k)
    \/ Close
    \/ AtRest

DiskSpec == DiskInit /\ [][DiskNext]_diskVars

-----------------------------------------------------------------------------
InHand == IF job["worker"].pc \in {"submit", "publish"} THEN {job["worker"].buffer} ELSE {}

(* No buffer is lost or given back twice: it is free, or held by one       *)
(* future, or by the put in progress, although puts, gets and evictions of *)
(* a key meet its future in any order.                                     *)
BuffersConserved ==
    /\ free_pool \cup Range(future_pool) \cup InHand = Buffers
    /\ Cardinality(free_pool) + Cardinality(DOMAIN future_pool) + Cardinality(InHand)
         = Cardinality(Buffers)

(* local_backend.py:454, freeing a buffer too early "will result in data   *)
(* corruption": while a process saves a buffer, the buffer holds the data  *)
(* of the key that is saved and is not free for another.                   *)
SavesReadTheirData ==
    \A s \in saves : mem_pool[s.buffer] = s.key /\ s.buffer \notin free_pool

(* The file of a cached key holds that key's chunk, never another one's,   *)
(* and is complete, unless it is still to be written: a save that is under *)
(* way, or a second put of the key, leaves it partial meanwhile, and a get *)
(* that comes before the future is entered meets it so.                    *)
Unfinished(k) == SavingFile(k) \/ \E s \in saves : s.key = k /\ s.state # "unlinked"
FileIntact ==
    \A k \in Cached :
        /\ k \in DOMAIN files => files[k] \in {k, "partial"}
        /\ Unfinished(k) \/ (k \in DOMAIN files /\ files[k] = k)
=============================================================================
