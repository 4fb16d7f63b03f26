------------------------ MODULE DiskBackend_proofs ------------------------
(***************************************************************************)
(* Proofs about DiskBackend, for every value of its constants.             *)
(***************************************************************************)
EXTENDS DiskBackend, LRUEvictor_proofs

(***************************************************************************)
(* The inductive invariant.                                                *)
(***************************************************************************)
MainPcs == {"evict", "save", "saving", "enter"}
WorkerPcs == {"evict", "buffer", "submit", "publish"}
PutJobs == [pc : MainPcs \cup WorkerPcs \cup {"raised"}, key : Keys, evict : Seq(Keys), buffer : Int]
Jobs == [pc : {"idle", "stopped"}] \cup PutJobs
Saves == [key : Keys, buffer : Buffers, state : {"submitted", "writing", "unlinked"}]

DiskTypeOK ==
    /\ order \in Seq(Keys)
    /\ free_pool \subseteq Buffers
    /\ mem_pool \in [Buffers -> Keys \cup {"blank"}]
    /\ DOMAIN future_pool \subseteq Keys /\ future_pool \in [DOMAIN future_pool -> Buffers]
    /\ saves \subseteq Saves
    /\ put_queue \in Seq(Keys) /\ current_cache_size \in Int
    /\ job \in [Threads -> Jobs]
    /\ job["main"].pc \in MainPcs \cup {"idle", "raised"}
    /\ job["worker"].pc \in WorkerPcs \cup {"idle", "stopped", "raised"}

(* A blocking put has the backend for itself.                              *)
TurnInv ==
    job["main"].pc \in MainPcs => job["worker"].pc = "idle" /\ put_queue = <<>> /\ ~closed

Holding == job["worker"].pc \in {"submit", "publish"}

(* Each buffer has one owner.  The key of a put has no future.             *)
BufferInv ==
    /\ \A k, l \in DOMAIN future_pool : future_pool[k] = future_pool[l] => k = l
    /\ \A k \in DOMAIN future_pool : future_pool[k] \notin free_pool
    /\ Holding => /\ job["worker"].buffer \in Buffers \ free_pool
                  /\ \A k \in DOMAIN future_pool : future_pool[k] # job["worker"].buffer
    /\ job["worker"].pc \in WorkerPcs => job["worker"].key \notin DOMAIN future_pool

NoneLost ==
    \A b \in Buffers :
        \/ b \in free_pool
        \/ \E k \in DOMAIN future_pool : future_pool[k] = b
        \/ Holding /\ job["worker"].buffer = b

(* A save belongs to the future of its key, or to the put that is about to *)
(* enter the future; there is one for a key at most, and its buffer has    *)
(* the data of the key.                                                    *)
Owned(s) ==
    \/ s.key \in DOMAIN future_pool /\ future_pool[s.key] = s.buffer
    \/ job["worker"].pc = "publish" /\ job["worker"].key = s.key /\ job["worker"].buffer = s.buffer

SaveInv ==
    /\ \A s \in saves : Owned(s) /\ mem_pool[s.buffer] = s.key
    /\ \A s, r \in saves : s.key = r.key => s = r
    /\ Holding => mem_pool[job["worker"].buffer] = job["worker"].key

(* The keys that are cached, or saved and about to be.  Their files are    *)
(* whole, unless somebody will still write to them.                        *)
Entered ==
    Cached \cup {job[t].key : t \in {u \in Threads : job[u].pc \in {"publish", "enter"}}}

FileInv ==
    \A k \in Entered : Unfinished(k) \/ (k \in DOMAIN files /\ files[k] = k)

DiskInv ==
    DiskTypeOK /\ Distinct(order) /\ TurnInv /\ BufferInv /\ NoneLost /\ SaveInv /\ FileInv
-----------------------------------------------------------------------------
(***************************************************************************)
(* The records of the threads.                                             *)
(***************************************************************************)
(* A step of t's call.                                                     *)
MovedTo(t, pc) ==
    /\ job' \in [Threads -> Jobs]
    /\ \A u \in Threads \ {t} : job'[u] = job[u]
    /\ job'[t].pc = pc /\ job'[t].key = job[t].key /\ job'[t].buffer = job[t].buffer

(* The record of a call in progress.                                       *)
LEMMA PutJob ==
    ASSUME DiskTypeOK, NEW t \in Threads, job[t].pc \notin {"idle", "stopped"}
    PROVE  job[t] \in PutJobs /\ job[t].key \in Keys
BY DEF DiskTypeOK, Jobs, PutJobs

(* A step that only moves on.                                              *)
LEMMA MoveOnly ==
    ASSUME DiskTypeOK, NEW t \in Threads, job[t].pc \notin {"idle", "stopped"},
           NEW pc \in MainPcs \cup WorkerPcs \cup {"raised"}, job' = [job EXCEPT ![t].pc = pc]
    PROVE  MovedTo(t, pc)
<1>1. job[t] \in PutJobs
  BY PutJob
<1>2. job'[t] = [job[t] EXCEPT !.pc = pc] /\ \A u \in Threads \ {t} : job'[u] = job[u]
  BY DEF DiskTypeOK
<1>3. job'[t] \in Jobs
  BY <1>1, <1>2 DEF Jobs, PutJobs
<1>4. job' \in [Threads -> Jobs]
  BY <1>3 DEF DiskTypeOK
<1> QED
  BY <1>1, <1>2, <1>4 DEF MovedTo, PutJobs

(* A call begins, or ends in an exception at once.                         *)
LEMMA JobIsPut ==
    ASSUME NEW pc \in MainPcs \cup WorkerPcs \cup {"raised"}, NEW k \in Keys, NEW v \in Seq(Keys)
    PROVE  /\ Job(pc, k, v) \in Jobs
           /\ Job(pc, k, v).pc = pc /\ Job(pc, k, v).key = k
BY DEF Job, Jobs, PutJobs

(* update_on_put of a thread that is idle.                                 *)
LEMMA UpdateOnPutEffect ==
    ASSUME DiskTypeOK, NEW t \in Threads, NEW k \in Keys, UpdateOnPut(t, k)
    PROVE  \/ UNCHANGED <<job, current_cache_size>>
           \/ /\ job' \in [Threads -> Jobs] /\ \A u \in Threads \ {t} : job'[u] = job[u]
              /\ job'[t].pc \in {"raised", "evict"} /\ job'[t].key = k
              /\ current_cache_size' \in Int
<1>1. SUFFICES ASSUME Capacity # 0
               PROVE  /\ job' \in [Threads -> Jobs] /\ \A u \in Threads \ {t} : job'[u] = job[u]
                      /\ job'[t].pc \in {"raised", "evict"} /\ job'[t].key = k
                      /\ current_cache_size' \in Int
  BY DEF UpdateOnPut
<1>2. PICK victims, out : /\ victims = Victims(order, current_cache_size, Capacity)
                          /\ out <=> RunsOut(order, current_cache_size, Capacity)
  OBVIOUS
<1>3. /\ order \in Seq(Keys) /\ Len(order) \in Nat /\ current_cache_size \in Int
      /\ Excess(current_cache_size, Capacity) \in Int
  BY DiskAssumption DEF DiskTypeOK, Excess
<1>4. ~out => victims \in Seq(Keys) /\ Len(victims) \in Nat
  BY <1>2, <1>3 DEF Victims, RunsOut
<1>5. PICK j : /\ j = (IF RunsOut(order, current_cache_size, Capacity)
                       THEN Job("raised", k, <<>>) ELSE Job("evict", k, victims))
               /\ job' = [job EXCEPT ![t] = j]
  BY <1>1, <1>2 DEF UpdateOnPut
<1>6. j \in Jobs /\ j.pc \in {"raised", "evict"} /\ j.key = k
  <2>1. CASE out
    <3>1. PICK e \in Seq(Keys) : e = <<>>
      BY EmptySeq
    <3>2. j = Job("raised", k, e)
      BY <1>2, <1>5, <2>1, <3>1
    <3> QED
      BY <3>2, JobIsPut DEF MainPcs
  <2>2. CASE ~out
    <3>1. j = Job("evict", k, victims)
      BY <1>2, <1>5, <2>2
    <3> QED
      BY <1>4, <2>2, <3>1, JobIsPut DEF MainPcs
  <2> QED
    BY <2>1, <2>2
<1>7. current_cache_size' \in Int
  <2>1. current_cache_size' = IF out THEN current_cache_size - Len(order)
                              ELSE current_cache_size - Len(victims) + 1
    BY <1>1, <1>2 DEF UpdateOnPut, SizeAfterPut
  <2> QED
    BY <1>3, <1>4, <2>1
<1> QED
  BY <1>5, <1>6, <1>7 DEF DiskTypeOK

(***************************************************************************)
(* The steps that leave files and buffers alone.                           *)
(***************************************************************************)
LEMMA QuietDisk ==
    ASSUME DiskInv, UNCHANGED <<order, files, bufferVars>>, DiskTypeOK', TurnInv',
           \A t \in Threads : \/ job'[t] = job[t]
                              \/ {job[t].pc, job'[t].pc} \cap {"submit", "publish", "enter", "saving"} = {},
           job'["worker"].pc \in WorkerPcs => job'["worker"].key \notin DOMAIN future_pool
    PROVE  DiskInv'
<1> USE DEF bufferVars
<1>1. /\ Holding' <=> Holding
      /\ Holding => job'["worker"] = job["worker"]
      /\ job'["worker"].pc = "publish" <=> job["worker"].pc = "publish"
      /\ job["worker"].pc = "publish" => job'["worker"] = job["worker"]
  BY DEF Holding, Threads
<1>2. \A k : SavingFile(k)' <=> SavingFile(k)
  BY DEF SavingFile, Threads
<1>3. Entered' = Entered
  <2>1. \A t \in Threads : /\ job'[t].pc \in {"publish", "enter"} <=> job[t].pc \in {"publish", "enter"}
                           /\ job[t].pc \in {"publish", "enter"} => job'[t] = job[t]
    OBVIOUS
  <2> QED
    BY <2>1 DEF Entered, Cached
<1>4. BufferInv' /\ NoneLost'
  BY <1>1 DEF DiskInv, BufferInv, NoneLost
<1>5. SaveInv'
  BY <1>1 DEF DiskInv, SaveInv, Owned
<1>6. FileInv'
  <2>1. \A k : Unfinished(k)' <=> Unfinished(k)
    BY <1>2 DEF Unfinished
  <2> QED
    BY <1>3, <2>1 DEF DiskInv, FileInv
<1> QED
  BY <1>4, <1>5, <1>6 DEF DiskInv
(* All the steps of this kind.                                             *)
LEMMA QuietSteps ==
    ASSUME DiskInv,
           \/ SkipPut \/ StartNonblocking \/ StopWorker \/ WaitForBuffer
           \/ \E t \in Threads : VictimsRemoved(t)
           \/ \E k \in Keys : EnqueuePut(k) \/ StartBlocking(k)
           \/ Close \/ AtRest \/ UNCHANGED diskVars
    PROVE  DiskInv'
<1> USE DEF bufferVars, cacheVars
<1>0. DiskTypeOK /\ TurnInv /\ BufferInv /\ {"main", "worker"} = Threads
  BY DEF DiskInv, Threads
<1>1. ASSUME UNCHANGED <<cacheVars, bufferVars, job>>, put_queue' \in Seq(Keys), TurnInv'
      PROVE  DiskInv'
  <2>1. DiskTypeOK'
    BY <1>0, <1>1 DEF DiskTypeOK
  <2> QED
    BY <1>0, <1>1, <2>1, QuietDisk DEF BufferInv
<1>2. CASE SkipPut
  <2>1. put_queue' \in Seq(Keys)
    BY <1>0, <1>2 DEF SkipPut, DiskTypeOK
  <2>2. TurnInv'
    BY <1>0, <1>2 DEF SkipPut, TurnInv
  <2> QED
    BY <1>1, <1>2, <2>1, <2>2 DEF SkipPut
<1>3. CASE StartNonblocking
  <2>1. PICK k : k = Head(put_queue)
    OBVIOUS
  <2>2. /\ job["worker"].pc = "idle" /\ put_queue # <<>> /\ k \notin DOMAIN future_pool
        /\ put_queue' = Tail(put_queue) /\ UpdateOnPut("worker", k)
        /\ UNCHANGED <<order, files, bufferVars, closed>>
    BY <1>3, <2>1 DEF StartNonblocking
  <2>3. k \in Keys /\ put_queue' \in Seq(Keys)
    BY <1>0, <2>1, <2>2 DEF DiskTypeOK
  <2>4. job["main"].pc \notin MainPcs
    BY <1>0, <2>2 DEF TurnInv
  <2>5. CASE UNCHANGED <<job, current_cache_size>>
    <3>1. TurnInv'
      BY <2>4, <2>5 DEF TurnInv
    <3> QED
      BY <1>1, <2>2, <2>3, <2>5, <3>1
  <2>6. CASE /\ job' \in [Threads -> Jobs] /\ \A u \in Threads \ {"worker"} : job'[u] = job[u]
             /\ job'["worker"].pc \in {"raised", "evict"} /\ job'["worker"].key = k
             /\ current_cache_size' \in Int
    <3>1. job'["main"] = job["main"]
      BY <1>0, <2>6
    <3>2. TurnInv'
      BY <2>4, <3>1 DEF TurnInv
    <3>3. DiskTypeOK'
      BY <1>0, <2>2, <2>3, <2>6, <3>1 DEF DiskTypeOK, WorkerPcs
    <3>4. \A t \in Threads : \/ job'[t] = job[t]
                  \/ {job[t].pc, job'[t].pc} \cap {"submit", "publish", "enter", "saving"} = {}
      BY <1>0, <2>2, <2>6
    <3> QED
      BY <2>2, <2>6, <3>2, <3>3, <3>4, QuietDisk
  <2> QED
    BY <1>0, <2>2, <2>3, <2>5, <2>6, UpdateOnPutEffect
<1>4. CASE StopWorker
  <2>1. /\ job["worker"].pc = "idle" /\ closed /\ job' = [job EXCEPT !["worker"].pc = "stopped"]
        /\ UNCHANGED <<cacheVars, bufferVars, put_queue, closed>>
    BY <1>4 DEF StopWorker
  <2>2. job["worker"] \in [pc : {"idle", "stopped"}]
    BY <1>0, <2>1 DEF DiskTypeOK, Jobs, PutJobs, MainPcs, WorkerPcs
  <2>3. [job["worker"] EXCEPT !.pc = "stopped"] \in Jobs
    BY <2>2 DEF Jobs
  <2>4. job' \in [Threads -> Jobs] /\ job'["worker"].pc = "stopped" /\ job'["main"] = job["main"]
    BY <1>0, <2>1, <2>2, <2>3 DEF DiskTypeOK
  <2>5. DiskTypeOK'
    BY <1>0, <2>1, <2>4 DEF DiskTypeOK
  <2>6. TurnInv'
    BY <1>0, <2>1, <2>4 DEF TurnInv
  <2>7. \A t \in Threads : \/ job'[t] = job[t]
                  \/ {job[t].pc, job'[t].pc} \cap {"submit", "publish", "enter", "saving"} = {}
    BY <1>0, <2>1, <2>4
  <2>8. job'["worker"].pc \notin WorkerPcs
    BY <2>4 DEF WorkerPcs
  <2> QED
    BY <2>1, <2>5, <2>6, <2>7, <2>8, QuietDisk
<1>5. ASSUME NEW t \in Threads, VictimsRemoved(t)
      PROVE  DiskInv'
  <2>1. /\ job[t].pc = "evict" /\ UNCHANGED <<cacheVars, bufferVars, put_queue, closed>>
        /\ job' = [job EXCEPT ![t].pc = IF t = "worker" THEN "buffer" ELSE "save"]
    BY <1>5 DEF VictimsRemoved
  <2>2. MovedTo(t, IF t = "worker" THEN "buffer" ELSE "save")
    BY <1>0, <2>1, MoveOnly DEF MainPcs, WorkerPcs
  <2>3. DiskTypeOK'
    <3>1. /\ job'["main"].pc \in MainPcs \cup {"idle", "raised"}
          /\ job'["worker"].pc \in WorkerPcs \cup {"idle", "stopped", "raised"}
      BY <1>0, <2>2 DEF MovedTo, DiskTypeOK, MainPcs, WorkerPcs
    <3> QED
      BY <1>0, <2>1, <2>2, <3>1 DEF MovedTo, DiskTypeOK
  <2>4. TurnInv'
    BY <1>0, <2>1, <2>2 DEF MovedTo, TurnInv, MainPcs
  <2>5. \A u \in Threads : \/ job'[u] = job[u]
                  \/ {job[u].pc, job'[u].pc} \cap {"submit", "publish", "enter", "saving"} = {}
    BY <2>1, <2>2 DEF MovedTo
  <2>6. job'["worker"].pc \in WorkerPcs => job'["worker"].key \notin DOMAIN future_pool
    BY <1>0, <2>1, <2>2 DEF MovedTo, BufferInv, WorkerPcs
  <2> QED
    BY <2>1, <2>3, <2>4, <2>5, <2>6, QuietDisk
<1>6. ASSUME NEW k \in Keys, EnqueuePut(k)
      PROVE  DiskInv'
  <2>1. put_queue' \in Seq(Keys)
    BY <1>0, <1>6 DEF EnqueuePut, DiskTypeOK
  <2>2. TurnInv'
    BY <1>6 DEF EnqueuePut, Ready, TurnInv, MainPcs
  <2> QED
    BY <1>1, <1>6, <2>1, <2>2 DEF EnqueuePut
<1>7. ASSUME NEW k \in Keys, StartBlocking(k)
      PROVE  DiskInv'
  <2>1. /\ job["main"].pc = "idle" /\ ~closed /\ put_queue = <<>> /\ job["worker"].pc = "idle"
        /\ UpdateOnPut("main", k) /\ UNCHANGED <<order, files, bufferVars, put_queue, closed>>
    BY <1>7 DEF StartBlocking, Ready
  <2>2. put_queue' \in Seq(Keys)
    BY <1>0, <2>1 DEF DiskTypeOK
  <2>3. CASE UNCHANGED <<job, current_cache_size>>
    <3>1. TurnInv'
      BY <2>1, <2>3 DEF TurnInv
    <3> QED
      BY <1>1, <2>1, <2>2, <2>3, <3>1
  <2>4. CASE /\ job' \in [Threads -> Jobs] /\ \A u \in Threads \ {"main"} : job'[u] = job[u]
             /\ job'["main"].pc \in {"raised", "evict"} /\ job'["main"].key = k
             /\ current_cache_size' \in Int
    <3>1. job'["worker"] = job["worker"]
      BY <1>0, <2>4
    <3>2. TurnInv'
      BY <2>1, <3>1 DEF TurnInv
    <3>3. DiskTypeOK'
      BY <1>0, <2>1, <2>2, <2>4, <3>1 DEF DiskTypeOK, MainPcs
    <3>4. \A t \in Threads : \/ job'[t] = job[t]
                  \/ {job[t].pc, job'[t].pc} \cap {"submit", "publish", "enter", "saving"} = {}
      BY <1>0, <2>1, <2>4
    <3>5. job'["worker"].pc \notin WorkerPcs
      BY <2>1, <3>1 DEF WorkerPcs
    <3> QED
      BY <2>1, <2>4, <3>2, <3>3, <3>4, <3>5, QuietDisk
  <2> QED
    BY <1>0, <2>1, <2>3, <2>4, UpdateOnPutEffect
<1>8. CASE Close
  <2>1. TurnInv' /\ put_queue' \in Seq(Keys)
    BY <1>0, <1>8 DEF Close, Ready, TurnInv, MainPcs, DiskTypeOK
  <2> QED
    BY <1>1, <1>8, <2>1 DEF Close
<1>9. CASE WaitForBuffer \/ AtRest \/ UNCHANGED diskVars
  <2>1. UNCHANGED diskVars
    BY <1>9 DEF WaitForBuffer, AtRest
  <2>2. TurnInv' /\ put_queue' \in Seq(Keys)
    BY <1>0, <2>1 DEF diskVars, threadVars, TurnInv, DiskTypeOK
  <2> QED
    BY <1>1, <2>1, <2>2 DEF diskVars, threadVars
<1> QED
  BY <1>2, <1>3, <1>4, <1>5, <1>6, <1>7, <1>8, <1>9
(***************************************************************************)
(* A victim goes: its key, its file, and the name of a file that a process *)
(* is writing.                                                             *)
(***************************************************************************)
Unlink(s, k) == IF s.key = k /\ s.state = "writing" THEN [s EXCEPT !.state = "unlinked"] ELSE s

(* remove(key) of a victim keeps the invariant, also when it raises.       *)
LEMMA RemoveVictimKeeps ==
    ASSUME DiskInv, NEW t \in Threads, RemoveVictim(t)
    PROVE  DiskInv'
<1>0. DiskTypeOK /\ TurnInv /\ BufferInv /\ NoneLost /\ SaveInv /\ FileInv /\ Distinct(order)
      /\ {"main", "worker"} = Threads
  BY DEF DiskInv, Threads
<1>1. PICK k : k = Head(job[t].evict)
  OBVIOUS
<1>2. /\ job[t].pc = "evict" /\ job[t].evict # <<>> /\ order' = Popped(order, k)
      /\ UNCHANGED <<free_pool, mem_pool, future_pool, current_cache_size, put_queue, closed>>
  BY <1>1 DEF RemoveVictim
<1>3. job[t] \in PutJobs
  BY <1>0, <1>2, PutJob
<1>4. order' \in Seq(Keys) /\ Distinct(order') /\ k \notin Range(order') /\ Range(order') \subseteq Range(order)
  <2>1. CASE k \in Range(order)
    BY <1>0, <1>2, <2>1, PoppedPresent DEF DiskTypeOK
  <2>2. CASE k \notin Range(order)
    BY <1>0, <1>2, <2>2, PoppedAbsent DEF DiskTypeOK
  <2> QED
    BY <2>1, <2>2
<1>5. \E pc \in {"evict", "raised"} : MovedTo(t, pc)
  <2>1. CASE k \in DOMAIN files
    <3>1. job' = [job EXCEPT ![t].evict = Tail(@)]
      BY <1>1, <2>1 DEF RemoveVictim
    <3>2. Tail(job[t].evict) \in Seq(Keys)
      BY <1>2, <1>3 DEF PutJobs
    <3>3. job'[t] = [job[t] EXCEPT !.evict = Tail(job[t].evict)]
          /\ \A u \in Threads \ {t} : job'[u] = job[u]
      BY <1>0, <3>1 DEF DiskTypeOK
    <3>4. job'[t] \in Jobs
      BY <1>3, <3>2, <3>3 DEF Jobs, PutJobs
    <3>5. job' \in [Threads -> Jobs]
      BY <1>0, <3>1, <3>4 DEF DiskTypeOK
    <3>6. MovedTo(t, "evict")
      BY <1>2, <1>3, <3>3, <3>5 DEF MovedTo, PutJobs
    <3> QED
      BY <3>6
  <2>2. CASE k \notin DOMAIN files
    <3>1. job' = [job EXCEPT ![t].pc = "raised"]
      BY <1>1, <2>2 DEF RemoveVictim
    <3>2. MovedTo(t, "raised")
      BY <1>0, <1>2, <3>1, MoveOnly
    <3> QED
      BY <3>2
  <2> QED
    BY <2>1, <2>2
<1>6. /\ \A u \in Threads : \/ job'[u] = job[u]
                            \/ {job[u].pc, job'[u].pc} \cap {"submit", "publish", "enter", "saving"} = {}
      /\ job'["main"].pc \in MainPcs \cup {"idle", "raised"}
      /\ job'["worker"].pc \in WorkerPcs \cup {"idle", "stopped", "raised"}
      /\ job'["main"].pc \in MainPcs => job["main"].pc \in MainPcs
      /\ job["worker"].pc = "idle" => job'["worker"].pc = "idle"
      /\ job'["worker"].pc \in WorkerPcs =>
            job["worker"].pc \in WorkerPcs /\ job'["worker"].key = job["worker"].key
  BY <1>0, <1>2, <1>5 DEF MovedTo, DiskTypeOK, MainPcs, WorkerPcs
<1>7. \A u \in Threads : job[u].pc \notin {"submit", "publish", "enter", "saving"}
  BY <1>0, <1>2 DEF TurnInv, MainPcs, DiskTypeOK, WorkerPcs
<1>8. \A u \in Threads : job'[u].pc \notin {"submit", "publish", "enter", "saving"}
  BY <1>6, <1>7
<1>9. \/ UNCHANGED <<saves, files>>
      \/ /\ saves' = {Unlink(s, k) : s \in saves}
         /\ files' = Without(files, k)
  BY <1>1 DEF RemoveVictim, Unlink
<1>10. /\ \A s \in saves : /\ Unlink(s, k) \in Saves /\ Unlink(s, k).key = s.key
                           /\ Unlink(s, k).buffer = s.buffer
                           /\ s.key # k => Unlink(s, k) = s
  BY <1>0 DEF DiskTypeOK, Saves, Unlink
<1>11. DiskTypeOK'
  <2>1. saves' \subseteq Saves
    BY <1>0, <1>9, <1>10 DEF DiskTypeOK
  <2> QED
    BY <1>0, <1>2, <1>4, <1>5, <1>6, <2>1 DEF DiskTypeOK, MovedTo
<1>12. TurnInv'
  BY <1>0, <1>2, <1>6 DEF TurnInv
<1>13. BufferInv' /\ NoneLost'
  BY <1>0, <1>2, <1>6, <1>7, <1>8 DEF BufferInv, NoneLost, Holding
<1>14. SaveInv'
  <2>1. ~Holding /\ ~Holding' /\ job["worker"].pc # "publish"
    BY <1>0, <1>7, <1>8 DEF Holding
  <2>2. \A s \in saves : s.key \in DOMAIN future_pool /\ future_pool[s.key] = s.buffer
                         /\ mem_pool[s.buffer] = s.key
    BY <1>0, <2>1 DEF SaveInv, Owned
  <2>3. \A r \in saves' : \E s \in saves : r = s \/ r = Unlink(s, k)
    BY <1>9
  <2>4. \A r \in saves' : Owned(r)' /\ mem_pool'[r.buffer] = r.key
    BY <1>2, <1>10, <2>2, <2>3 DEF Owned
  <2>5. \A r, q \in saves' : r.key = q.key => r = q
    BY <1>0, <1>9, <1>10 DEF SaveInv
  <2> QED
    BY <2>1, <2>4, <2>5 DEF SaveInv
<1>15. FileInv'
  <2>1. Entered' = Range(order') /\ Range(order') \subseteq Entered /\ k \notin Range(order')
    BY <1>4, <1>7, <1>8 DEF Entered, Cached
  <2>2. SUFFICES ASSUME NEW l \in Range(order'), ~Unfinished(l)'
                 PROVE  l \in DOMAIN files' /\ files'[l] = l
    BY <2>1 DEF FileInv
  <2>3. l # k /\ l \in Entered
    BY <2>1, <2>2
  <2>4. \A s \in saves : s.key = l => s \in saves'
    BY <1>9, <1>10, <2>3
  <2>5. ~SavingFile(l)
    BY <1>0, <1>7 DEF SavingFile
  <2>6. ~Unfinished(l)
    BY <2>2, <2>4, <2>5 DEF Unfinished
  <2>7. l \in DOMAIN files /\ files[l] = l
    BY <1>0, <2>3, <2>6 DEF FileInv
  <2> QED
    BY <1>9, <2>3, <2>7 DEF Without, Restrict
<1> QED
  BY <1>4, <1>11, <1>12, <1>13, <1>14, <1>15 DEF DiskInv
(***************************************************************************)
(* The rest of a queued put.                                               *)
(***************************************************************************)
(* The pool gives a buffer to the worker, which fills it.                  *)
LEMMA AllocateKeeps ==
    ASSUME DiskInv, AllocateBuffer
    PROVE  DiskInv'
<1>0. DiskTypeOK /\ TurnInv /\ BufferInv /\ NoneLost /\ SaveInv /\ FileInv /\ Distinct(order)
      /\ {"main", "worker"} = Threads
  BY DEF DiskInv, Threads
<1>1. PICK k, b : k = job["worker"].key /\ b = CHOOSE x \in free_pool : TRUE
  OBVIOUS
<1>2. /\ job["worker"].pc = "buffer" /\ b \in free_pool /\ free_pool' = free_pool \ {b}
      /\ mem_pool' = [mem_pool EXCEPT ![b] = k]
      /\ job' = [job EXCEPT !["worker"].pc = "submit", !["worker"].buffer = b]
      /\ UNCHANGED <<order, files, current_cache_size, future_pool, saves, put_queue, closed>>
  BY <1>1 DEF AllocateBuffer, cacheVars
<1>3. b \in Buffers /\ b \in Int
  BY <1>0, <1>2, DiskAssumption DEF DiskTypeOK, Buffers
<1>4. job["worker"] \in PutJobs
  BY <1>0, <1>2, PutJob
<1>5. /\ job'["worker"] = [job["worker"] EXCEPT !.pc = "submit", !.buffer = b]
      /\ job'["main"] = job["main"]
  BY <1>0, <1>2 DEF DiskTypeOK
<1>6. job'["worker"].pc = "submit" /\ job'["worker"].buffer = b /\ job'["worker"].key = k
      /\ job'["worker"] \in Jobs
  BY <1>1, <1>3, <1>4, <1>5 DEF Jobs, PutJobs, WorkerPcs
<1>7. DiskTypeOK'
  <2>1. job' \in [Threads -> Jobs]
    BY <1>0, <1>2, <1>6 DEF DiskTypeOK
  <2>2. mem_pool' \in [Buffers -> Keys \cup {"blank"}]
    BY <1>0, <1>1, <1>2, <1>3, <1>4 DEF DiskTypeOK, PutJobs
  <2> QED
    BY <1>0, <1>2, <1>3, <1>5, <1>6, <2>1, <2>2 DEF DiskTypeOK, WorkerPcs
<1>8. TurnInv'
  BY <1>0, <1>2, <1>5 DEF TurnInv
<1>9. BufferInv' /\ NoneLost'
  <2>1. k \notin DOMAIN future_pool
    BY <1>0, <1>1, <1>2 DEF BufferInv, WorkerPcs
  <2>2. Holding' /\ ~Holding
    BY <1>2, <1>6 DEF Holding
  <2>3. BufferInv'
    <3>1. b \notin free_pool' /\ \A l \in DOMAIN future_pool : future_pool[l] # b
      BY <1>0, <1>2 DEF BufferInv
    <3> QED
      BY <1>0, <1>2, <1>3, <1>6, <2>1, <3>1 DEF BufferInv
  <2>4. NoneLost'
    BY <1>0, <1>2, <1>6, <2>2 DEF NoneLost
  <2> QED
    BY <2>3, <2>4
<1>10. SaveInv'
  <2>1. \A s \in saves : s.key \in DOMAIN future_pool /\ future_pool[s.key] = s.buffer
                         /\ mem_pool[s.buffer] = s.key
    BY <1>0, <1>2 DEF SaveInv, Owned
  <2>2. \A s \in saves : s.buffer # b
    BY <1>0, <1>2, <2>1 DEF BufferInv
  <2>3. \A x \in Buffers : mem_pool'[x] = IF x = b THEN k ELSE mem_pool[x]
    BY <1>0, <1>2, <1>3 DEF DiskTypeOK
  <2>4. \A s \in saves : s.buffer \in Buffers
    BY <1>0 DEF DiskTypeOK, Saves
  <2>5. \A s \in saves' : Owned(s)' /\ mem_pool'[s.buffer] = s.key
    BY <1>2, <2>1, <2>2, <2>3, <2>4 DEF Owned
  <2>6. mem_pool'[job'["worker"].buffer] = job'["worker"].key
    BY <1>3, <1>6, <2>3
  <2> QED
    BY <1>0, <1>2, <2>5, <2>6 DEF SaveInv
<1>11. FileInv'
  <2>1. Entered' = Entered
    <3>1. \A t \in Threads : /\ job'[t].pc \in {"publish", "enter"} <=> job[t].pc \in {"publish", "enter"}
                             /\ job'[t].key = job[t].key
      BY <1>0, <1>1, <1>2, <1>5, <1>6
    <3>2. {job'[t].key : t \in {u \in Threads : job'[u].pc \in {"publish", "enter"}}}
            = {job[t].key : t \in {u \in Threads : job[u].pc \in {"publish", "enter"}}}
      BY <3>1
    <3> QED
      BY <1>2, <3>2 DEF Entered, Cached
  <2>2. \A l : Unfinished(l)' <=> Unfinished(l)
    BY <1>2, <1>5 DEF Unfinished, SavingFile
  <2> QED
    BY <1>0, <1>2, <2>1, <2>2 DEF FileInv
<1> QED
  BY <1>0, <1>2, <1>7, <1>8, <1>9, <1>10, <1>11 DEF DiskInv

(* The worker submits the save.                                            *)
LEMMA SubmitKeeps ==
    ASSUME DiskInv, Submit
    PROVE  DiskInv'
<1>0. DiskTypeOK /\ TurnInv /\ BufferInv /\ NoneLost /\ SaveInv /\ FileInv /\ Distinct(order)
      /\ {"main", "worker"} = Threads
  BY DEF DiskInv, Threads
<1>1. PICK k, b : k = job["worker"].key /\ b = job["worker"].buffer
  OBVIOUS
<1>2. /\ job["worker"].pc = "submit" /\ saves' = saves \cup {Save(k, b, "submitted")}
      /\ job' = [job EXCEPT !["worker"].pc = "publish"]
      /\ UNCHANGED <<order, files, current_cache_size, free_pool, mem_pool, future_pool, put_queue,
                     closed>>
  BY <1>1 DEF Submit, cacheVars
<1>3. MovedTo("worker", "publish") /\ k \in Keys
  BY <1>0, <1>1, <1>2, MoveOnly, PutJob DEF WorkerPcs
<1>4. job'["worker"].pc = "publish" /\ job'["worker"].key = k /\ job'["worker"].buffer = b
      /\ job'["main"] = job["main"] /\ job' \in [Threads -> Jobs]
  BY <1>0, <1>1, <1>3 DEF MovedTo
<1>5. b \in Buffers /\ mem_pool[b] = k /\ k \notin DOMAIN future_pool
  BY <1>0, <1>1, <1>2 DEF BufferInv, SaveInv, Holding, WorkerPcs
<1>6. PICK s \in Saves : s = Save(k, b, "submitted") /\ s.key = k /\ s.buffer = b /\ s.state = "submitted"
  <2>1. PICK s : s = Save(k, b, "submitted")
    OBVIOUS
  <2>2. s \in Saves /\ s.key = k /\ s.buffer = b /\ s.state = "submitted"
    BY <1>3, <1>5, <2>1 DEF Save, Saves
  <2> QED
    BY <2>1, <2>2
<1>7. saves' = saves \cup {s}
  BY <1>2, <1>6
<1>8. DiskTypeOK'
  BY <1>0, <1>2, <1>4, <1>6, <1>7 DEF DiskTypeOK, WorkerPcs
<1>9. TurnInv'
  BY <1>0, <1>2, <1>4 DEF TurnInv
<1>10. BufferInv' /\ NoneLost'
  BY <1>0, <1>1, <1>2, <1>4, <1>5 DEF BufferInv, NoneLost, Holding
<1>11. SaveInv'
  <2>1. \A r \in saves : r.key \in DOMAIN future_pool /\ future_pool[r.key] = r.buffer
                         /\ mem_pool[r.buffer] = r.key
    BY <1>0, <1>2 DEF SaveInv, Owned
  <2>2. \A r \in saves' : Owned(r)' /\ mem_pool'[r.buffer] = r.key
    BY <1>2, <1>4, <1>5, <1>6, <1>7, <2>1 DEF Owned
  <2>3. \A r, q \in saves' : r.key = q.key => r = q
    BY <1>0, <1>5, <1>6, <1>7, <2>1 DEF SaveInv
  <2> QED
    BY <1>2, <1>4, <1>5, <2>2, <2>3 DEF SaveInv
<1>12. FileInv'
  <2>1. Entered' = Entered \cup {k}
    BY <1>0, <1>2, <1>4 DEF Entered, Cached
  <2>2. \A l : Unfinished(l) => Unfinished(l)'
    BY <1>4, <1>7 DEF Unfinished, SavingFile
  <2>3. Unfinished(k)'
    BY <1>6, <1>7 DEF Unfinished
  <2> QED
    BY <1>0, <1>2, <2>1, <2>2, <2>3 DEF FileInv
<1> QED
  BY <1>0, <1>2, <1>8, <1>9, <1>10, <1>11, <1>12 DEF DiskInv

(* The worker enters the future and the key.                               *)
LEMMA PublishKeeps ==
    ASSUME DiskInv, Publish
    PROVE  DiskInv'
<1>0. DiskTypeOK /\ TurnInv /\ BufferInv /\ NoneLost /\ SaveInv /\ FileInv /\ Distinct(order)
      /\ {"main", "worker"} = Threads
  BY DEF DiskInv, Threads
<1>1. PICK k, b : k = job["worker"].key /\ b = job["worker"].buffer
  OBVIOUS
<1>2. /\ job["worker"].pc = "publish" /\ future_pool' = Assoc(future_pool, k, b)
      /\ order' = Inserted(order, k) /\ job' = [job EXCEPT !["worker"] = IdleJob]
      /\ UNCHANGED <<files, free_pool, mem_pool, saves, current_cache_size, put_queue, closed>>
  BY <1>1 DEF Publish
<1>3. b \in Buffers /\ b \notin free_pool /\ k \notin DOMAIN future_pool /\ k \in Keys
      /\ \A l \in DOMAIN future_pool : future_pool[l] # b
  BY <1>0, <1>1, <1>2, PutJob DEF BufferInv, Holding, WorkerPcs
<1>4. /\ DOMAIN future_pool' = DOMAIN future_pool \cup {k} /\ future_pool'[k] = b
      /\ \A l \in DOMAIN future_pool : future_pool'[l] = future_pool[l]
      /\ future_pool' \in [DOMAIN future_pool' -> Buffers]
  BY <1>0, <1>2, <1>3 DEF Assoc, DiskTypeOK
<1>5. order' \in Seq(Keys) /\ Distinct(order') /\ Range(order') = Range(order) \cup {k}
  BY <1>0, <1>2, <1>3, InsertedKey DEF DiskTypeOK
<1>6. job'["worker"].pc = "idle" /\ job'["main"] = job["main"] /\ job' \in [Threads -> Jobs]
  <2>1. IdleJob \in Jobs
    BY DEF IdleJob, Jobs
  <2> QED
    BY <1>0, <1>2, <2>1 DEF DiskTypeOK, IdleJob
<1>7. DiskTypeOK'
  BY <1>0, <1>2, <1>3, <1>4, <1>5, <1>6 DEF DiskTypeOK
<1>8. TurnInv'
  BY <1>0, <1>2, <1>6 DEF TurnInv
<1>9. BufferInv'
  BY <1>0, <1>2, <1>3, <1>4, <1>6 DEF BufferInv, Holding, WorkerPcs
<1>10. NoneLost'
  <2>1. SUFFICES ASSUME NEW x \in Buffers
                 PROVE  x \in free_pool' \/ \E l \in DOMAIN future_pool' : future_pool'[l] = x
    BY DEF NoneLost
  <2>2. x \in free_pool \/ (\E l \in DOMAIN future_pool : future_pool[l] = x) \/ x = b
    BY <1>0, <1>1 DEF NoneLost
  <2> QED
    BY <1>2, <1>4, <2>2
<1>11. SaveInv'
  <2>1. \A s \in saves : /\ mem_pool[s.buffer] = s.key
                         /\ \/ s.key \in DOMAIN future_pool /\ future_pool[s.key] = s.buffer
                            \/ s.key = k /\ s.buffer = b
    BY <1>0, <1>1 DEF SaveInv, Owned
  <2>2. \A s \in saves' : Owned(s)' /\ mem_pool'[s.buffer] = s.key
    BY <1>2, <1>4, <2>1 DEF Owned
  <2> QED
    BY <1>0, <1>2, <1>6, <2>2 DEF SaveInv, Holding
<1>12. FileInv'
  <2>1. Entered' = Entered
    <3>1. k \in Entered
      BY <1>0, <1>1, <1>2 DEF Entered
    <3>2. Entered' \subseteq Entered
      BY <1>0, <1>5, <1>6, <3>1 DEF Entered, Cached
    <3>3. Entered \subseteq Entered'
      BY <1>0, <1>1, <1>2, <1>5, <1>6 DEF Entered, Cached
    <3> QED
      BY <3>2, <3>3
  <2>2. \A l : Unfinished(l)' <=> Unfinished(l)
    BY <1>2, <1>6 DEF Unfinished, SavingFile
  <2> QED
    BY <1>0, <1>2, <2>1, <2>2 DEF FileInv
<1> QED
  BY <1>5, <1>7, <1>8, <1>9, <1>10, <1>11, <1>12 DEF DiskInv
(***************************************************************************)
(* The processes that save.                                                *)
(***************************************************************************)
(* A process creates the file.                                             *)
LEMMA BeginSaveKeeps ==
    ASSUME DiskInv, NEW s \in saves, BeginSave(s)
    PROVE  DiskInv'
<1>0. DiskTypeOK /\ TurnInv /\ BufferInv /\ NoneLost /\ SaveInv /\ FileInv /\ Distinct(order)
  BY DEF DiskInv
<1>1. /\ saves' = (saves \ {s}) \cup {[s EXCEPT !.state = "writing"]}
      /\ files' = Assoc(files, s.key, "partial") /\ s.state = "submitted"
      /\ UNCHANGED <<order, current_cache_size, free_pool, mem_pool, future_pool, put_queue, job, closed>>
  BY DEF BeginSave, threadVars
<1>2. PICK r \in Saves : r = [s EXCEPT !.state = "writing"] /\ r.key = s.key /\ r.buffer = s.buffer
                         /\ r.state = "writing"
  <2>1. s \in Saves
    BY <1>0 DEF DiskTypeOK
  <2>2. PICK r : r = [s EXCEPT !.state = "writing"]
    OBVIOUS
  <2>3. r \in Saves /\ r.key = s.key /\ r.buffer = s.buffer /\ r.state = "writing"
    BY <2>1, <2>2 DEF Saves
  <2> QED
    BY <2>2, <2>3
<1>3. saves' = (saves \ {s}) \cup {r}
  BY <1>1, <1>2
<1>4. DiskTypeOK' /\ TurnInv' /\ BufferInv' /\ NoneLost'
  BY <1>0, <1>1, <1>2, <1>3 DEF DiskTypeOK, TurnInv, BufferInv, NoneLost, Holding
<1>5. SaveInv'
  <2>1. \A q \in saves : Owned(q)' /\ mem_pool'[q.buffer] = q.key
    BY <1>0, <1>1 DEF SaveInv, Owned
  <2>2. Owned(r)' /\ mem_pool'[r.buffer] = r.key
    BY <1>2, <2>1 DEF Owned
  <2>3. \A q, p \in saves' : q.key = p.key => q = p
    <3>1. \A q \in saves \ {s} : q.key # s.key
      BY <1>0 DEF SaveInv
    <3> QED
      BY <1>0, <1>2, <1>3, <3>1 DEF SaveInv
  <2>4. Holding' => mem_pool'[job'["worker"].buffer] = job'["worker"].key
    BY <1>0, <1>1 DEF SaveInv, Holding
  <2> QED
    BY <1>3, <2>1, <2>2, <2>3, <2>4 DEF SaveInv
<1>6. FileInv'
  <2>1. Entered' = Entered
    BY <1>1 DEF Entered, Cached
  <2>2. SUFFICES ASSUME NEW l \in Entered, ~Unfinished(l)'
                 PROVE  l \in DOMAIN files' /\ files'[l] = l
    BY <2>1 DEF FileInv
  <2>3. l # s.key
    BY <1>2, <1>3, <2>2 DEF Unfinished
  <2>4. ~Unfinished(l)
    BY <1>1, <1>3, <2>2, <2>3 DEF Unfinished, SavingFile
  <2>5. l \in DOMAIN files /\ files[l] = l
    BY <1>0, <2>4 DEF FileInv
  <2> QED
    BY <1>1, <2>3, <2>5 DEF Assoc
<1> QED
  BY <1>0, <1>1, <1>4, <1>5, <1>6 DEF DiskInv

(* A process is done, with a whole file unless the file lost its name or   *)
(* a blocking put writes to it as well.                                    *)
LEMMA EndSaveKeeps ==
    ASSUME DiskInv, NEW s \in saves, EndSave(s)
    PROVE  DiskInv'
<1>0. DiskTypeOK /\ TurnInv /\ BufferInv /\ NoneLost /\ SaveInv /\ FileInv /\ Distinct(order)
  BY DEF DiskInv
<1>1. /\ saves' = saves \ {s} /\ s.state \in {"writing", "unlinked"}
      /\ files' = (IF s.state = "unlinked" \/ SavingFile(s.key) THEN files
                   ELSE Assoc(files, s.key, mem_pool[s.buffer]))
      /\ UNCHANGED <<order, current_cache_size, free_pool, mem_pool, future_pool, put_queue, job, closed>>
  BY DEF EndSave, threadVars
<1>2. DiskTypeOK' /\ TurnInv' /\ BufferInv' /\ NoneLost'
  BY <1>0, <1>1 DEF DiskTypeOK, TurnInv, BufferInv, NoneLost, Holding
<1>3. SaveInv'
  BY <1>0, <1>1 DEF SaveInv, Owned, Holding
<1>4. FileInv'
  <2>1. Entered' = Entered
    BY <1>1 DEF Entered, Cached
  <2>2. SUFFICES ASSUME NEW l \in Entered, ~Unfinished(l)'
                 PROVE  l \in DOMAIN files' /\ files'[l] = l
    BY <2>1 DEF FileInv
  <2>3. ~SavingFile(l) /\ \A r \in saves \ {s} : r.key = l => r.state = "unlinked"
    BY <1>1, <2>2 DEF Unfinished, SavingFile
  <2>4. CASE l = s.key /\ s.state = "writing"
    <3>1. files' = Assoc(files, l, l)
      BY <1>0, <1>1, <2>3, <2>4 DEF SaveInv
    <3> QED
      BY <3>1 DEF Assoc
  <2>5. CASE l # s.key \/ s.state = "unlinked"
    <3>1. ~Unfinished(l)
      BY <2>3, <2>5 DEF Unfinished
    <3>2. l \in DOMAIN files /\ files[l] = l
      BY <1>0, <3>1 DEF FileInv
    <3> QED
      BY <1>1, <2>5, <3>2 DEF Assoc
  <2> QED
    BY <1>1, <2>4, <2>5
<1> QED
  BY <1>0, <1>1, <1>2, <1>3, <1>4 DEF DiskInv

(***************************************************************************)
(* The rest of a blocking put, which has the backend for itself but for    *)
(* the processes.                                                          *)
(***************************************************************************)
(* What all its steps keep.                                                *)
LEMMA MainMove ==
    ASSUME DiskInv, NEW pc \in MainPcs, job["main"].pc \in MainPcs,
           job' = [job EXCEPT !["main"].pc = pc],
           UNCHANGED <<order, current_cache_size, bufferVars, put_queue, closed>>
    PROVE  /\ DiskTypeOK' /\ Distinct(order)' /\ TurnInv' /\ BufferInv' /\ NoneLost' /\ SaveInv'
           /\ job'["main"].pc = pc /\ job'["main"].key = job["main"].key
           /\ job'["worker"] = job["worker"] /\ job["worker"].pc = "idle"
<1> USE DEF bufferVars
<1>0. DiskTypeOK /\ TurnInv /\ BufferInv /\ NoneLost /\ SaveInv /\ Distinct(order)
      /\ {"main", "worker"} = Threads
  BY DEF DiskInv, Threads
<1>1. MovedTo("main", pc)
  BY <1>0, MoveOnly DEF MainPcs
<1>2. job'["main"].pc = pc /\ job'["main"].key = job["main"].key /\ job'["worker"] = job["worker"]
      /\ job["worker"].pc = "idle" /\ job' \in [Threads -> Jobs]
  BY <1>0, <1>1 DEF MovedTo, TurnInv
<1>3. DiskTypeOK' /\ TurnInv'
  BY <1>0, <1>2 DEF DiskTypeOK, TurnInv
<1>4. BufferInv' /\ NoneLost' /\ SaveInv'
  BY <1>0, <1>2 DEF BufferInv, NoneLost, SaveInv, Owned, Holding
<1> QED
  BY <1>0, <1>2, <1>3, <1>4

(* The caller's thread creates the file and fills it.                      *)
LEMMA SaveFileKeeps ==
    ASSUME DiskInv, BeginSaveFile \/ EndSaveFile
    PROVE  DiskInv'
<1>0. FileInv /\ {"main", "worker"} = Threads
  BY DEF DiskInv, Threads
<1>1. PICK k : k = job["main"].key
  OBVIOUS
<1>2. CASE BeginSaveFile
  <2>1. /\ job["main"].pc = "save" /\ files' = Assoc(files, k, "partial")
        /\ job' = [job EXCEPT !["main"].pc = "saving"]
        /\ UNCHANGED <<order, current_cache_size, bufferVars, put_queue, closed>>
    BY <1>1, <1>2 DEF BeginSaveFile
  <2>2. /\ DiskTypeOK' /\ Distinct(order)' /\ TurnInv' /\ BufferInv' /\ NoneLost' /\ SaveInv'
        /\ job'["main"].pc = "saving" /\ job'["main"].key = k
        /\ job'["worker"] = job["worker"] /\ job["worker"].pc = "idle"
    BY <1>1, <2>1, MainMove DEF MainPcs
  <2>3. Entered' = Entered
    BY <1>0, <2>1, <2>2 DEF Entered, Cached
  <2>4. SUFFICES ASSUME NEW l \in Entered, ~Unfinished(l)'
                 PROVE  l \in DOMAIN files' /\ files'[l] = l
    BY <2>2, <2>3 DEF FileInv, DiskInv
  <2>5. l # k
    BY <2>2, <2>4 DEF Unfinished, SavingFile
  <2>6. ~Unfinished(l)
    BY <2>1, <2>4 DEF Unfinished, SavingFile, bufferVars
  <2>7. l \in DOMAIN files /\ files[l] = l
    BY <1>0, <2>6 DEF FileInv
  <2> QED
    BY <2>1, <2>5, <2>7 DEF Assoc
<1>3. CASE EndSaveFile
  <2>1. /\ job["main"].pc = "saving" /\ files' = (IF Writing(k) THEN files ELSE Assoc(files, k, k))
        /\ job' = [job EXCEPT !["main"].pc = "enter"]
        /\ UNCHANGED <<order, current_cache_size, bufferVars, put_queue, closed>>
    BY <1>1, <1>3 DEF EndSaveFile
  <2>2. /\ DiskTypeOK' /\ Distinct(order)' /\ TurnInv' /\ BufferInv' /\ NoneLost' /\ SaveInv'
        /\ job'["main"].pc = "enter" /\ job'["main"].key = k
        /\ job'["worker"] = job["worker"] /\ job["worker"].pc = "idle"
    BY <1>1, <2>1, MainMove DEF MainPcs
  <2>3. Entered' \subseteq Entered \cup {k}
    BY <1>0, <2>1, <2>2 DEF Entered, Cached
  <2>4. SUFFICES ASSUME NEW l \in Entered \cup {k}, ~Unfinished(l)'
                 PROVE  l \in DOMAIN files' /\ files'[l] = l
    BY <2>2, <2>3 DEF FileInv, DiskInv
  <2>5. CASE l = k
    <3>1. ~Writing(k)
      BY <2>1, <2>4, <2>5 DEF Unfinished, Writing, bufferVars
    <3> QED
      BY <2>1, <2>5, <3>1 DEF Assoc
  <2>6. CASE l # k
    <3>1. ~Unfinished(l)
      BY <1>1, <2>1, <2>4, <2>6 DEF Unfinished, SavingFile, bufferVars
    <3>2. l \in DOMAIN files /\ files[l] = l
      BY <1>0, <2>4, <2>6, <3>1 DEF FileInv
    <3> QED
      BY <2>1, <2>6, <3>2 DEF Assoc
  <2> QED
    BY <2>5, <2>6
<1> QED
  BY <1>2, <1>3
(* The caller's thread enters the key.                                     *)
LEMMA EnterKeeps ==
    ASSUME DiskInv, EnterBlocking
    PROVE  DiskInv'
<1> USE DEF bufferVars
<1>0. DiskTypeOK /\ TurnInv /\ BufferInv /\ NoneLost /\ SaveInv /\ FileInv /\ Distinct(order)
      /\ {"main", "worker"} = Threads
  BY DEF DiskInv, Threads
<1>1. PICK k : k = job["main"].key
  OBVIOUS
<1>2. /\ job["main"].pc = "enter" /\ order' = Inserted(order, k)
      /\ job' = [job EXCEPT !["main"] = IdleJob]
      /\ UNCHANGED <<files, current_cache_size, bufferVars, put_queue, closed>>
  BY <1>1 DEF EnterBlocking
<1>3. k \in Keys
  BY <1>0, <1>1, <1>2, PutJob
<1>4. order' \in Seq(Keys) /\ Distinct(order') /\ Range(order') = Range(order) \cup {k}
  BY <1>0, <1>2, <1>3, InsertedKey DEF DiskTypeOK
<1>5. job'["main"].pc = "idle" /\ job'["worker"] = job["worker"] /\ job' \in [Threads -> Jobs]
  <2>1. IdleJob \in Jobs
    BY DEF IdleJob, Jobs
  <2> QED
    BY <1>0, <1>2, <2>1 DEF DiskTypeOK, IdleJob
<1>6. DiskTypeOK' /\ TurnInv'
  BY <1>0, <1>2, <1>4, <1>5 DEF DiskTypeOK, TurnInv, MainPcs
<1>7. BufferInv' /\ NoneLost' /\ SaveInv'
  BY <1>0, <1>2, <1>5 DEF BufferInv, NoneLost, SaveInv, Owned, Holding
<1>8. FileInv'
  <2>1. Entered' \subseteq Entered
    BY <1>0, <1>1, <1>2, <1>4, <1>5 DEF Entered, Cached
  <2>2. \A l : Unfinished(l) => Unfinished(l)'
    BY <1>2 DEF Unfinished, SavingFile
  <2> QED
    BY <1>0, <1>2, <2>1, <2>2 DEF FileInv
<1> QED
  BY <1>4, <1>6, <1>7, <1>8 DEF DiskInv

(* A read gives back the buffer of a finished save, and only then.         *)
LEMMA GetKeeps ==
    ASSUME DiskInv, NEW k \in Keys, Get(k)
    PROVE  DiskInv'
<1>0. DiskTypeOK /\ TurnInv /\ BufferInv /\ NoneLost /\ SaveInv /\ FileInv /\ Distinct(order)
      /\ {"main", "worker"} = Threads
  BY DEF DiskInv, Threads
<1>1. /\ job["main"].pc = "idle" /\ k \in Range(order) /\ (k \in DOMAIN future_pool => Done(k))
      /\ free_pool' = free_pool \cup (IF k \in DOMAIN future_pool THEN {future_pool[k]} ELSE {})
      /\ future_pool' = Without(future_pool, k)
      /\ order' = MovedToEnd(order, k)
      /\ \/ UNCHANGED job
         \/ job' = [job EXCEPT !["main"] = Job("raised", k, <<>>)]
      /\ UNCHANGED <<files, current_cache_size, mem_pool, saves, put_queue, closed>>
  BY DEF Get, Ready, Miss, Cached
<1>2. order' \in Seq(Keys) /\ Distinct(order') /\ Range(order') = Range(order)
  BY <1>0, <1>1, MovedKey DEF DiskTypeOK
<1>3. /\ DOMAIN future_pool' = DOMAIN future_pool \ {k}
      /\ \A l \in DOMAIN future_pool' : future_pool'[l] = future_pool[l]
      /\ future_pool' \in [DOMAIN future_pool' -> Buffers]
  BY <1>0, <1>1 DEF Without, Restrict, DiskTypeOK
<1>4. job' \in [Threads -> Jobs] /\ job'["worker"] = job["worker"] /\ job'["main"].pc \in {"idle", "raised"}
  <2>1. CASE UNCHANGED job
    BY <1>0, <1>1, <2>1 DEF DiskTypeOK
  <2>2. CASE job' = [job EXCEPT !["main"] = Job("raised", k, <<>>)]
    <3>1. PICK e \in Seq(Keys) : e = <<>>
      BY EmptySeq
    <3>2. Job("raised", k, e) \in Jobs /\ Job("raised", k, e).pc = "raised"
      BY JobIsPut DEF MainPcs
    <3> QED
      BY <1>0, <2>2, <3>1, <3>2 DEF DiskTypeOK
  <2> QED
    BY <1>1, <2>1, <2>2
<1>5. DiskTypeOK' /\ TurnInv'
  <2>1. free_pool' \subseteq Buffers
    BY <1>0, <1>1 DEF DiskTypeOK
  <2>2. TurnInv'
    BY <1>4 DEF TurnInv, MainPcs
  <2> QED
    BY <1>0, <1>1, <1>2, <1>3, <1>4, <2>1, <2>2 DEF DiskTypeOK
<1>6. BufferInv'
  BY <1>0, <1>1, <1>3, <1>4 DEF BufferInv, Holding
<1>7. NoneLost'
  <2>1. SUFFICES ASSUME NEW b \in Buffers
                 PROVE  \/ b \in free_pool' \/ \E l \in DOMAIN future_pool' : future_pool'[l] = b
                        \/ Holding' /\ job'["worker"].buffer = b
    BY DEF NoneLost
  <2>2. \/ b \in free_pool \/ \E l \in DOMAIN future_pool : future_pool[l] = b
        \/ Holding /\ job["worker"].buffer = b
    BY <1>0 DEF NoneLost
  <2> QED
    BY <1>1, <1>3, <1>4, <2>2 DEF Holding
<1>8. SaveInv'
  <2>1. ASSUME NEW s \in saves PROVE Owned(s)' /\ mem_pool'[s.buffer] = s.key
    <3>1. Owned(s) /\ mem_pool[s.buffer] = s.key
      BY <1>0 DEF SaveInv
    <3>2. CASE s.key \in DOMAIN future_pool /\ future_pool[s.key] = s.buffer
      <4>1. s.key # k
        BY <1>1, <3>2 DEF Done
      <4> QED
        BY <1>1, <1>3, <3>1, <3>2, <4>1 DEF Owned
    <3>3. CASE job["worker"].pc = "publish" /\ job["worker"].key = s.key /\ job["worker"].buffer = s.buffer
      BY <1>1, <1>4, <3>1, <3>3 DEF Owned
    <3> QED
      BY <3>1, <3>2, <3>3 DEF Owned
  <2> QED
    BY <1>0, <1>1, <1>4, <2>1 DEF SaveInv, Holding
<1>9. FileInv'
  <2>1. Entered' \subseteq Entered
    BY <1>0, <1>2, <1>4 DEF Entered, Cached
  <2>2. \A l : Unfinished(l) => Unfinished(l)'
    BY <1>1 DEF Unfinished, SavingFile
  <2> QED
    BY <1>0, <1>1, <2>1, <2>2 DEF FileInv
<1> QED
  BY <1>2, <1>5, <1>6, <1>7, <1>8, <1>9 DEF DiskInv

-----------------------------------------------------------------------------
(* Every step of the backend keeps the invariant.                          *)
LEMMA NextDisk ==
    ASSUME DiskInv, [DiskNext]_diskVars
    PROVE  DiskInv'
<1>1. CASE \/ SkipPut \/ StartNonblocking \/ StopWorker \/ WaitForBuffer
           \/ \E t \in Threads : VictimsRemoved(t)
           \/ \E k \in Keys : EnqueuePut(k) \/ StartBlocking(k)
           \/ Close \/ AtRest \/ UNCHANGED diskVars
  BY <1>1, QuietSteps
<1>2. CASE \E t \in Threads : RemoveVictim(t)
  BY <1>2, RemoveVictimKeeps
<1>3. CASE AllocateBuffer \/ Submit \/ Publish
  BY <1>3, AllocateKeeps, SubmitKeeps, PublishKeeps
<1>4. CASE SaveStep
  BY <1>4, BeginSaveKeeps, EndSaveKeeps DEF SaveStep
<1>5. CASE BeginSaveFile \/ EndSaveFile \/ EnterBlocking
  BY <1>5, SaveFileKeeps, EnterKeeps
<1>6. CASE \E k \in Keys : Get(k)
  BY <1>6, GetKeeps
<1> QED
  BY <1>1, <1>2, <1>3, <1>4, <1>5, <1>6 DEF DiskNext, PutWorker, BlockingPut, Threads

(* It holds at the start.                                                  *)
LEMMA InitDisk == DiskInit => DiskInv
<1> SUFFICES ASSUME DiskInit PROVE DiskInv
  OBVIOUS
<1>1. /\ order = <<>> /\ free_pool = Buffers /\ DOMAIN future_pool = {} /\ saves = {}
      /\ job = [t \in Threads |-> [pc |-> "idle"]] /\ {"main", "worker"} = Threads
      /\ mem_pool = [b \in Buffers |-> "blank"] /\ put_queue = <<>> /\ current_cache_size = 0
  BY DEF DiskInit, IdleJob, Threads
<1>2. job["main"].pc = "idle" /\ job["worker"].pc = "idle"
  BY <1>1
<1>3. Range(order) = {} /\ Distinct(order)
  BY <1>1 DEF Range, Distinct
<1>4. DiskTypeOK
  <2>1. future_pool \in [DOMAIN future_pool -> Buffers]
    BY <1>1 DEF DiskInit
  <2>2. job \in [Threads -> Jobs]
    BY <1>1 DEF Jobs
  <2> QED
    BY <1>1, <1>2, <2>1, <2>2 DEF DiskTypeOK
<1>5. TurnInv /\ BufferInv /\ NoneLost /\ SaveInv
  BY <1>1, <1>2 DEF TurnInv, MainPcs, BufferInv, NoneLost, SaveInv, Holding, WorkerPcs
<1>6. Entered = {}
  BY <1>1, <1>2, <1>3 DEF Entered, Cached
<1> QED
  BY <1>3, <1>4, <1>5, <1>6 DEF FileInv, DiskInv

(* The inductive invariant of the disk backend.                            *)
THEOREM DiskInvariance == DiskSpec => []DiskInv
BY InitDisk, NextDisk, PTL DEF DiskSpec

(* Freeing a buffer too early "will result in data corruption": no process *)
(* ever saves a buffer that is free or holds the data of another key.      *)
THEOREM SavedDataIsRight == DiskSpec => []SavesReadTheirData
<1>1. ASSUME DiskInv PROVE SavesReadTheirData
  <2>1. SUFFICES ASSUME NEW s \in saves
                 PROVE  mem_pool[s.buffer] = s.key /\ s.buffer \notin free_pool
    BY DEF SavesReadTheirData
  <2>2. Owned(s) /\ mem_pool[s.buffer] = s.key
    BY <1>1 DEF DiskInv, SaveInv
  <2>3. s.buffer \notin free_pool
    BY <1>1, <2>2 DEF Owned, DiskInv, BufferInv, Holding
  <2> QED
    BY <2>2, <2>3
<1> QED
  BY <1>1, DiskInvariance, PTL

(* No file holds the chunk of another key than its own.                    *)
OwnChunks == \A k \in DOMAIN files : files[k] \in {k, "partial"}

LEMMA OwnChunksKept ==
    ASSUME DiskInv, OwnChunks, [DiskNext]_diskVars
    PROVE  OwnChunks'
<1>1. ASSUME NEW k, NEW v \in {k, "partial"}, files' = Assoc(files, k, v) PROVE OwnChunks'
  <2>1. DOMAIN files' = DOMAIN files \cup {k} /\ files'[k] = v
    BY <1>1 DEF Assoc
  <2>2. ASSUME NEW l \in DOMAIN files', l # k PROVE l \in DOMAIN files /\ files'[l] = files[l]
    BY <1>1, <2>1, <2>2 DEF Assoc
  <2> QED
    BY <1>1, <2>1, <2>2 DEF OwnChunks
<1>2. ASSUME NEW k, files' = Without(files, k) PROVE OwnChunks'
  BY <1>2 DEF Without, Restrict, OwnChunks
<1>3. CASE UNCHANGED files
  BY <1>3 DEF OwnChunks
<1>4. ASSUME NEW t \in Threads, RemoveVictim(t) PROVE OwnChunks'
  <2>1. \/ UNCHANGED files
        \/ files' = Without(files, Head(job[t].evict))
    BY <1>4 DEF RemoveVictim
  <2> QED
    BY <1>2, <1>3, <2>1
<1>5. ASSUME NEW s \in saves, BeginSave(s) \/ EndSave(s) PROVE OwnChunks'
  <2>1. mem_pool[s.buffer] = s.key
    BY DEF DiskInv, SaveInv
  <2>2. \/ UNCHANGED files
        \/ \E v \in {s.key, "partial"} : files' = Assoc(files, s.key, v)
    BY <1>5, <2>1 DEF BeginSave, EndSave
  <2> QED
    BY <1>1, <1>3, <2>2
<1>6. CASE BeginSaveFile \/ EndSaveFile
  <2>1. PICK k : k = job["main"].key
    OBVIOUS
  <2>2. \/ UNCHANGED files
        \/ \E v \in {k, "partial"} : files' = Assoc(files, k, v)
    BY <1>6, <2>1 DEF BeginSaveFile, EndSaveFile
  <2> QED
    BY <1>1, <1>3, <2>2
<1>7. CASE \/ SkipPut \/ StartNonblocking \/ AllocateBuffer \/ Submit \/ Publish \/ StopWorker
           \/ WaitForBuffer \/ EnterBlocking \/ Close \/ AtRest \/ UNCHANGED diskVars
           \/ \E t \in Threads : VictimsRemoved(t)
  BY <1>3, <1>7
  DEF SkipPut, StartNonblocking, AllocateBuffer, Submit, Publish, StopWorker, WaitForBuffer,
      EnterBlocking, Close, AtRest, VictimsRemoved, diskVars, cacheVars
<1>8. CASE \E k \in Keys : EnqueuePut(k) \/ StartBlocking(k) \/ Get(k)
  BY <1>3, <1>8 DEF EnqueuePut, StartBlocking, Get, cacheVars
<1> QED
  BY <1>4, <1>5, <1>6, <1>7, <1>8 DEF DiskNext, PutWorker, BlockingPut, SaveStep, Threads

(* The file of a cached key never holds another key's chunk, though files  *)
(* are written from buffers that are reused, and it is whole unless it is  *)
(* still to be written, by a save or by a second put of the key.           *)
THEOREM CachedFilesAreWhole == DiskSpec => []FileIntact
<1>1. DiskInit => OwnChunks
  BY DEF DiskInit, OwnChunks
<1>2. DiskInv /\ OwnChunks /\ [DiskNext]_diskVars => OwnChunks'
  BY OwnChunksKept
<1>3. DiskInv /\ OwnChunks => FileIntact
  BY DEF DiskInv, FileInv, FileIntact, OwnChunks, Entered
<1> QED
  BY <1>1, <1>2, <1>3, DiskInvariance, PTL DEF DiskSpec

(* Each buffer is free, or held by one future, or by the put in progress.  *)
THEOREM BuffersAreConserved == DiskSpec => []BuffersConserved
<1>1. ASSUME DiskInv PROVE BuffersConserved
  <2> DEFINE D == Range(future_pool)
  <2>1. /\ future_pool \in [DOMAIN future_pool -> Buffers] /\ free_pool \subseteq Buffers
        /\ InHand = IF Holding THEN {job["worker"].buffer} ELSE {}
    BY <1>1 DEF DiskInv, DiskTypeOK, InHand, Holding
  <2>2. free_pool \cup D \cup InHand = Buffers
    <3>1. D \subseteq Buffers /\ InHand \subseteq Buffers
      BY <1>1, <2>1 DEF Range, DiskInv, BufferInv
    <3>2. ASSUME NEW b \in Buffers PROVE b \in free_pool \cup D \cup InHand
      BY <1>1, <2>1 DEF DiskInv, NoneLost, Range
    <3> QED
      BY <2>1, <3>1, <3>2
  <2>3. free_pool \cap D = {} /\ (free_pool \cup D) \cap InHand = {}
    BY <1>1, <2>1 DEF DiskInv, BufferInv, Range
  <2>4. IsFiniteSet(Buffers)
    BY FS_Interval, DiskAssumption DEF Buffers
  <2>5. IsFiniteSet(free_pool) /\ IsFiniteSet(D) /\ IsFiniteSet(InHand)
    <3>1. D \subseteq Buffers /\ InHand \subseteq Buffers
      BY <2>2
    <3> QED
      BY <2>1, <2>4, <3>1, FS_Subset
  <2>6. Cardinality(D) = Cardinality(DOMAIN future_pool)
    <3>1. future_pool \in Injection(DOMAIN future_pool, D) /\ future_pool \in Surjection(DOMAIN future_pool, D)
      BY <1>1, <2>1 DEF Surjection, Injection, IsInjective, Range, DiskInv, BufferInv
    <3> QED
      BY <2>5, <3>1, FS_Injection
  <2> HIDE DEF D
  <2>7. IsFiniteSet(free_pool \cup D)
        /\ Cardinality(free_pool \cup D) = Cardinality(free_pool) + Cardinality(D)
    BY <2>3, <2>5, DisjointUnion
  <2>8. Cardinality(free_pool \cup D \cup InHand) = Cardinality(free_pool \cup D) + Cardinality(InHand)
    BY <2>3, <2>5, <2>7, DisjointUnion
  <2> QED
    BY <2>2, <2>6, <2>7, <2>8 DEF BuffersConserved, D
<1> QED
  BY <1>1, DiskInvariance, PTL
=============================================================================
