------------------------ MODULE LocalBackend_proofs ------------------------
(***************************************************************************)
(* Proofs about LocalBackend, for every value of its constants.  The       *)
(* lemmas about the steps of a put hold for either thread, as long as the  *)
(* other one is not putting.                                               *)
(***************************************************************************)
EXTENDS MCLocalBackend, LRUEvictor_proofs

(***************************************************************************)
(* The inductive invariant, in four parts.                                 *)
(***************************************************************************)
Jobs ==
    [pc : {"idle", "stopped"}]
    \cup [pc : PutPcs, key : Keys, data : Keys, evict : Seq(Keys), slot : Int]

LocalTypeOK ==
    /\ DOMAIN dict \subseteq Keys /\ dict \in [DOMAIN dict -> PoolChunks]
    /\ order \in Seq(Keys)
    /\ free_pool \subseteq PoolChunks
    /\ mem_pool \in [PoolChunks -> Keys \cup {Blank, Torn}]
    /\ current_cache_size \in Int
    /\ update_lock \in Threads \cup {"free"}
    /\ put_queue \in Seq(Keys)
    /\ job \in [Threads -> Jobs]
    /\ closed \in BOOLEAN /\ nops \in Nat

(* The sequence is that of the dictionary.                                 *)
OrderInv == Distinct(order) /\ Range(order) = DOMAIN dict

(* From where on the old entry of the key is gone.                         *)
Cleared(t) ==
    \/ job[t].pc \in {"allocate", "copy", "copying", "publish"}
    \/ t = "main" /\ job[t].pc = "evict"

Fills(t) == job[t].pc \in {"copy", "copying", "publish"}

(* Each pool chunk has one owner, and the owners find their own data.      *)
EntriesInv ==
    /\ \A k, l \in DOMAIN dict : dict[k] = dict[l] => k = l
    /\ \A k \in DOMAIN dict : dict[k] \notin free_pool /\ mem_pool[dict[k]] = k

FillsInv ==
    \A t \in Threads :
        /\ Putting(t) => job[t].data = job[t].key
        /\ Fills(t) => /\ job[t].slot \in PoolChunks \ free_pool
                       /\ \A k \in DOMAIN dict : dict[k] # job[t].slot
        /\ job[t].pc = "publish" => mem_pool[job[t].slot] = job[t].key
        /\ Cleared(t) => job[t].key \notin DOMAIN dict

WholeInv ==
    \A s \in PoolChunks :
        \/ s \in free_pool
        \/ \E k \in DOMAIN dict : dict[k] = s
        \/ \E t \in Threads : Fills(t) /\ job[t].slot = s

StoreInv == LocalTypeOK /\ OrderInv /\ EntriesInv /\ FillsInv /\ WholeInv

(* Only t carries out a put.                                               *)
Alone(t) == \A u \in Threads \ {t} : ~Putting(u)

(***************************************************************************)
(* What the worker has counted: the chunk of the put in progress is        *)
(* counted from the start, its victims are not counted any more.           *)
(***************************************************************************)
LimitInv ==
    LET pc == job["worker"].pc
    IN  /\ job["main"] = IdleJob
        /\ pc # "raised"
        /\ update_lock = IF pc \in {"evict", "old", "allocate"} THEN "worker" ELSE "free"
        /\ 0 <= current_cache_size /\ current_cache_size <= Capacity
        /\ pc \in {"idle", "stopped"} =>
              /\ Len(order) <= current_cache_size
              /\ current_cache_size # 0 => Len(order) # 0
        /\ pc = "evict" =>
              /\ Len(job["worker"].evict) <= 1
              /\ \A i \in DOMAIN job["worker"].evict : job["worker"].evict[i] \in Range(order)
              /\ Len(order) + 1 <= current_cache_size + Len(job["worker"].evict)
        /\ pc \in {"old", "allocate", "copy", "copying", "publish"} =>
              Len(order) + 1 <= current_cache_size

-----------------------------------------------------------------------------
(* A step of t's put: the next place in the code, what is left of the      *)
(* victims, and the pool chunk.                                            *)
MovedTo(t, pc, v, s) ==
    /\ job' \in [Threads -> Jobs]
    /\ \A u \in Threads \ {t} : job'[u] = job[u]
    /\ job'[t].pc = pc /\ job'[t].key = job[t].key /\ job'[t].data = job[t].data
    /\ job'[t].evict = v /\ job'[t].slot = s

(* The record of a put in progress.                                        *)
LEMMA PutJob ==
    ASSUME LocalTypeOK, NEW t \in Threads, Putting(t)
    PROVE  /\ job[t] \in [pc : PutPcs, key : Keys, data : Keys, evict : Seq(Keys), slot : Int]
           /\ job[t].key \in Keys /\ job[t].evict \in Seq(Keys) /\ job[t].slot \in Int
BY DEF LocalTypeOK, Jobs, Putting, PutPcs

(* The steps that only move on.                                            *)
LEMMA MoveOnly ==
    ASSUME LocalTypeOK, NEW t \in Threads, Putting(t), NEW pc \in PutPcs,
           job' = [job EXCEPT ![t].pc = pc]
    PROVE  MovedTo(t, pc, job[t].evict, job[t].slot)
<1>1. job[t] \in [pc : PutPcs, key : Keys, data : Keys, evict : Seq(Keys), slot : Int]
  BY PutJob
<1>2. job'[t] = [job[t] EXCEPT !.pc = pc] /\ \A u \in Threads \ {t} : job'[u] = job[u]
  BY DEF LocalTypeOK
<1>3. job'[t] \in Jobs
  BY <1>1, <1>2 DEF Jobs
<1>4. job' \in [Threads -> Jobs]
  BY <1>3 DEF LocalTypeOK
<1> QED
  BY <1>1, <1>2, <1>4 DEF MovedTo

(* What each step of a put does to its record.                             *)
LEMMA PutSteps ==
    ASSUME LocalTypeOK, NEW t \in Threads
    PROVE  /\ RemoveVictim(t) =>
                \/ /\ job[t].evict # <<>> /\ Head(job[t].evict) \in DOMAIN dict
                   /\ MovedTo(t, "evict", Tail(job[t].evict), job[t].slot)
                \/ /\ Head(job[t].evict) \notin DOMAIN dict
                   /\ MovedTo(t, "raised", job[t].evict, job[t].slot)
           /\ VictimsRemoved(t) =>
                MovedTo(t, IF t = "worker" THEN "old" ELSE "allocate", job[t].evict, job[t].slot)
           /\ RemoveOld(t) =>
                MovedTo(t, IF t = "worker" THEN "allocate" ELSE "evict", job[t].evict, job[t].slot)
           /\ Allocate(t) =>
                \/ /\ free_pool = {} /\ UNCHANGED <<free_pool, update_lock>>
                   /\ MovedTo(t, "raised", job[t].evict, job[t].slot)
                \/ \E s \in free_pool :
                     /\ free_pool' = free_pool \ {s} /\ update_lock' = Unlocked(t)
                     /\ MovedTo(t, "copy", job[t].evict, s)
           /\ BeginCopy(t) => MovedTo(t, "copying", job[t].evict, job[t].slot)
           /\ EndCopy(t) => MovedTo(t, "publish", job[t].evict, job[t].slot)
<1>1. ASSUME RemoveVictim(t)
      PROVE  \/ /\ job[t].evict # <<>> /\ Head(job[t].evict) \in DOMAIN dict
                /\ MovedTo(t, "evict", Tail(job[t].evict), job[t].slot)
             \/ /\ Head(job[t].evict) \notin DOMAIN dict
                /\ MovedTo(t, "raised", job[t].evict, job[t].slot)
  <2>1. Putting(t) /\ job[t].pc = "evict" /\ job[t].evict # <<>>
    BY <1>1 DEF RemoveVictim, Putting, PutPcs
  <2>2. CASE Head(job[t].evict) \notin DOMAIN dict
    <3>1. job' = [job EXCEPT ![t].pc = "raised"]
      BY <1>1, <2>2 DEF RemoveVictim, Raised
    <3> QED
      BY <2>1, <2>2, <3>1, MoveOnly DEF PutPcs
  <2>3. CASE Head(job[t].evict) \in DOMAIN dict
    <3>1. job' = [job EXCEPT ![t].evict = Tail(@)]
      BY <1>1, <2>3 DEF RemoveVictim
    <3>2. job[t] \in [pc : PutPcs, key : Keys, data : Keys, evict : Seq(Keys), slot : Int]
      BY <2>1, PutJob
    <3>3. Tail(job[t].evict) \in Seq(Keys)
      BY <2>1, <3>2
    <3>4. job'[t] = [job[t] EXCEPT !.evict = Tail(job[t].evict)]
          /\ \A u \in Threads \ {t} : job'[u] = job[u]
      BY <3>1 DEF LocalTypeOK
    <3>5. job'[t] \in Jobs
      BY <3>2, <3>3, <3>4 DEF Jobs
    <3>6. job' \in [Threads -> Jobs]
      BY <3>1, <3>5 DEF LocalTypeOK
    <3> QED
      BY <2>1, <2>3, <3>2, <3>4, <3>6 DEF MovedTo
  <2> QED
    BY <2>2, <2>3
<1>2. ASSUME Allocate(t)
      PROVE  \/ /\ free_pool = {} /\ UNCHANGED <<free_pool, update_lock>>
                /\ MovedTo(t, "raised", job[t].evict, job[t].slot)
             \/ \E s \in free_pool :
                  /\ free_pool' = free_pool \ {s} /\ update_lock' = Unlocked(t)
                  /\ MovedTo(t, "copy", job[t].evict, s)
  <2>1. Putting(t)
    BY <1>2 DEF Allocate, Putting, PutPcs
  <2>2. CASE free_pool = {}
    <3>1. job' = [job EXCEPT ![t].pc = "raised"] /\ UNCHANGED <<free_pool, update_lock>>
      BY <1>2, <2>2 DEF Allocate, Raised
    <3> QED
      BY <2>1, <2>2, <3>1, MoveOnly DEF PutPcs
  <2>3. CASE free_pool # {}
    <3>1. PICK s \in free_pool : s = CHOOSE x \in free_pool : TRUE
      BY <2>3
    <3>2. /\ free_pool' = free_pool \ {s} /\ update_lock' = Unlocked(t)
          /\ job' = [job EXCEPT ![t].pc = "copy", ![t].slot = s]
      BY <1>2, <2>3, <3>1 DEF Allocate
    <3>3. job[t] \in [pc : PutPcs, key : Keys, data : Keys, evict : Seq(Keys), slot : Int]
      BY <2>1, PutJob
    <3>4. job'[t] = [job[t] EXCEPT !.pc = "copy", !.slot = s]
          /\ \A u \in Threads \ {t} : job'[u] = job[u]
      BY <3>2 DEF LocalTypeOK
    <3>5. s \in Int
      BY LocalAssumption DEF LocalTypeOK, PoolChunks
    <3>6. job'[t] \in Jobs
      BY <3>3, <3>4, <3>5 DEF Jobs, PutPcs
    <3>7. job' \in [Threads -> Jobs]
      BY <3>2, <3>6 DEF LocalTypeOK
    <3>8. MovedTo(t, "copy", job[t].evict, s)
      BY <3>3, <3>4, <3>7 DEF MovedTo
    <3> QED
      BY <3>2, <3>8
  <2> QED
    BY <2>2, <2>3
<1>3. VictimsRemoved(t) =>
        MovedTo(t, IF t = "worker" THEN "old" ELSE "allocate", job[t].evict, job[t].slot)
  BY MoveOnly DEF VictimsRemoved, Putting, PutPcs
<1>4. RemoveOld(t) =>
        MovedTo(t, IF t = "worker" THEN "allocate" ELSE "evict", job[t].evict, job[t].slot)
  BY MoveOnly DEF RemoveOld, Putting, PutPcs
<1>5. BeginCopy(t) => MovedTo(t, "copying", job[t].evict, job[t].slot)
  BY MoveOnly DEF BeginCopy, Putting, PutPcs
<1>6. EndCopy(t) => MovedTo(t, "publish", job[t].evict, job[t].slot)
  BY MoveOnly DEF EndCopy, Putting, PutPcs
<1> QED
  BY <1>1, <1>2, <1>3, <1>4, <1>5, <1>6

(* remove(key).                                                            *)
LEMMA RemoveEffect ==
    ASSUME LocalTypeOK, OrderInv, NEW k \in DOMAIN dict, Remove(k)
    PROVE  /\ DOMAIN dict' = DOMAIN dict \ {k}
           /\ \A l \in DOMAIN dict' : dict'[l] = dict[l]
           /\ dict' \in [DOMAIN dict' -> PoolChunks]
           /\ free_pool' = free_pool \cup {dict[k]} /\ free_pool' \subseteq PoolChunks
           /\ order' \in Seq(Keys) /\ Len(order') = Len(order) - 1
           /\ Range(order') = Range(order) \ {k}
           /\ OrderInv'
<1>1. dict' = [l \in DOMAIN dict \ {k} |-> dict[l]]
  BY DEF Remove, Without, Restrict
<1>2. /\ DOMAIN dict' = DOMAIN dict \ {k}
      /\ \A l \in DOMAIN dict' : dict'[l] = dict[l]
      /\ dict' \in [DOMAIN dict' -> PoolChunks]
  BY <1>1 DEF LocalTypeOK
<1>3. order' = Popped(order, k) /\ k \in Range(order) /\ order \in Seq(Keys) /\ Distinct(order)
  BY DEF Remove, OrderInv, LocalTypeOK
<1>4. /\ order' \in Seq(Keys) /\ Len(order') = Len(order) - 1
      /\ Distinct(order') /\ Range(order') = Range(order) \ {k}
  BY <1>3, PoppedPresent
<1>5. free_pool' = free_pool \cup {dict[k]} /\ free_pool' \subseteq PoolChunks
  BY DEF Remove, LocalTypeOK
<1> QED
  BY <1>2, <1>4, <1>5 DEF OrderInv
(***************************************************************************)
(* Every step of a put keeps the store consistent.                         *)
(***************************************************************************)
(* A step that only moves on.                                              *)
LEMMA StoreMove ==
    ASSUME StoreInv, NEW t \in Threads, Alone(t), Putting(t), NEW pc \in PutPcs, NEW v,
           MovedTo(t, pc, v, job[t].slot), UNCHANGED <<storeVars, put_queue, closed, nops>>,
           update_lock' \in Threads \cup {"free"},
           pc \notin {"copy", "copying", "publish"}, ~Fills(t),
           Cleared(t)' => job[t].key \notin DOMAIN dict
    PROVE  StoreInv'
<1> USE DEF storeVars
<1>1. LocalTypeOK'
  BY DEF StoreInv, LocalTypeOK, MovedTo
<1>2. OrderInv' /\ EntriesInv'
  BY DEF StoreInv, OrderInv, EntriesInv
<1>3. \A u \in Threads : Fills(u)' <=> Fills(u)
  BY DEF MovedTo, Fills
<1>4. \A u \in Threads \ {t} : job'[u] = job[u] /\ ~Putting(u)' /\ ~Fills(u) /\ ~Cleared(u)'
  BY DEF MovedTo, Alone, Putting, Fills, Cleared, PutPcs
<1>5. FillsInv'
  <2>1. SUFFICES ASSUME NEW u \in Threads
                 PROVE  /\ Putting(u)' => job'[u].data = job'[u].key
                        /\ ~Fills(u)' /\ job'[u].pc # "publish"
                        /\ Cleared(u)' => job'[u].key \notin DOMAIN dict'
    BY DEF FillsInv
  <2>2. CASE u = t
    BY <2>2 DEF MovedTo, Fills, StoreInv, FillsInv
  <2>3. CASE u # t
    BY <1>3, <1>4, <2>3 DEF Fills
  <2> QED
    BY <2>2, <2>3
<1>6. WholeInv'
  BY <1>3, <1>4 DEF StoreInv, WholeInv
<1> QED
  BY <1>1, <1>2, <1>5, <1>6 DEF StoreInv

(* A step that removes an entry.                                           *)
LEMMA StoreRemove ==
    ASSUME StoreInv, NEW t \in Threads, Alone(t), Putting(t), NEW pc \in PutPcs, NEW v,
           NEW k \in DOMAIN dict, Remove(k), MovedTo(t, pc, v, job[t].slot),
           UNCHANGED <<mem_pool, current_cache_size, update_lock, put_queue, closed, nops>>,
           pc \notin {"copy", "copying", "publish"}, ~Fills(t),
           Cleared(t)' => job[t].key \notin DOMAIN dict'
    PROVE  StoreInv'
<1>0. LocalTypeOK /\ OrderInv
  BY DEF StoreInv
<1>1. /\ DOMAIN dict' = DOMAIN dict \ {k}
      /\ \A l \in DOMAIN dict' : dict'[l] = dict[l]
      /\ dict' \in [DOMAIN dict' -> PoolChunks]
      /\ free_pool' = free_pool \cup {dict[k]} /\ free_pool' \subseteq PoolChunks
      /\ order' \in Seq(Keys) /\ OrderInv'
  BY <1>0, RemoveEffect
<1>2. LocalTypeOK'
  BY <1>0, <1>1 DEF LocalTypeOK, MovedTo
<1>3. EntriesInv'
  BY <1>1 DEF StoreInv, EntriesInv
<1>4. \A u \in Threads : ~Fills(u)' /\ ~Fills(u) /\ job'[u].pc # "publish"
  BY DEF MovedTo, Alone, Putting, Fills, PutPcs
<1>5. \A u \in Threads \ {t} : ~Putting(u)' /\ ~Cleared(u)'
  BY DEF MovedTo, Alone, Putting, Cleared, PutPcs
<1>6. FillsInv'
  <2>1. SUFFICES ASSUME NEW u \in Threads
                 PROVE  /\ Putting(u)' => job'[u].data = job'[u].key
                        /\ Cleared(u)' => job'[u].key \notin DOMAIN dict'
    BY <1>4 DEF FillsInv
  <2>2. CASE u = t
    BY <2>2 DEF MovedTo, StoreInv, FillsInv
  <2> QED
    BY <1>5, <2>2
<1>7. WholeInv'
  <2>1. SUFFICES ASSUME NEW s \in PoolChunks
                 PROVE  s \in free_pool' \/ \E l \in DOMAIN dict' : dict'[l] = s
    BY DEF WholeInv
  <2>2. s \in free_pool \/ \E l \in DOMAIN dict : dict[l] = s
    BY <1>4 DEF StoreInv, WholeInv
  <2> QED
    BY <1>1, <2>2
<1> QED
  BY <1>1, <1>2, <1>3, <1>6, <1>7 DEF StoreInv

(* The pool gives a chunk to the put.                                      *)
LEMMA StoreAllocate ==
    ASSUME StoreInv, NEW t \in Threads, Alone(t), job[t].pc = "allocate", NEW s \in free_pool,
           MovedTo(t, "copy", job[t].evict, s), free_pool' = free_pool \ {s},
           UNCHANGED <<dict, order, mem_pool, current_cache_size, put_queue, closed, nops>>,
           update_lock' \in Threads \cup {"free"}
    PROVE  StoreInv'
<1>1. LocalTypeOK'
  BY DEF StoreInv, LocalTypeOK, MovedTo
<1>2. OrderInv' /\ EntriesInv'
  BY DEF StoreInv, OrderInv, EntriesInv
<1>3. \A u \in Threads \ {t} : job'[u] = job[u] /\ ~Putting(u)' /\ ~Fills(u)' /\ ~Cleared(u)'
                               /\ job'[u].pc # "publish"
  BY DEF MovedTo, Alone, Putting, Fills, Cleared, PutPcs
<1>4. \A u \in Threads : ~Fills(u)
  BY DEF Alone, Putting, Fills, PutPcs
<1>5. /\ job'[t].data = job'[t].key /\ job'[t].pc = "copy" /\ job'[t].slot = s
      /\ job'[t].key \notin DOMAIN dict'
  BY DEF MovedTo, StoreInv, FillsInv, Putting, PutPcs, Cleared
<1>6. s \in PoolChunks \ free_pool' /\ \A k \in DOMAIN dict : dict[k] # s
  BY DEF StoreInv, LocalTypeOK, EntriesInv
<1>7. FillsInv'
  <2>1. SUFFICES ASSUME NEW u \in Threads
                 PROVE  /\ Putting(u)' => job'[u].data = job'[u].key
                        /\ Fills(u)' => /\ job'[u].slot \in PoolChunks \ free_pool'
                                        /\ \A k \in DOMAIN dict' : dict'[k] # job'[u].slot
                        /\ job'[u].pc # "publish"
                        /\ Cleared(u)' => job'[u].key \notin DOMAIN dict'
    BY DEF FillsInv
  <2>2. CASE u = t
    BY <1>5, <1>6, <2>2
  <2> QED
    BY <1>3, <2>2
<1>8. WholeInv'
  <2>1. SUFFICES ASSUME NEW x \in PoolChunks
                 PROVE  \/ x \in free_pool' \/ \E l \in DOMAIN dict' : dict'[l] = x
                        \/ Fills(t)' /\ job'[t].slot = x
    BY DEF WholeInv
  <2>2. x \in free_pool \/ \E l \in DOMAIN dict : dict[l] = x
    BY <1>4 DEF StoreInv, WholeInv
  <2> QED
    BY <1>5, <2>2 DEF Fills
<1> QED
  BY <1>1, <1>2, <1>7, <1>8 DEF StoreInv

(* The copy: only the chunk of the put changes.                            *)
LEMMA StoreCopy ==
    ASSUME StoreInv, NEW t \in Threads, Alone(t), NEW pc, NEW data,
           \/ job[t].pc = "copy" /\ pc = "copying" /\ data = Torn
           \/ job[t].pc = "copying" /\ pc = "publish" /\ data = job[t].data,
           MovedTo(t, pc, job[t].evict, job[t].slot),
           mem_pool' = [mem_pool EXCEPT ![job[t].slot] = data],
           UNCHANGED <<dict, order, free_pool, current_cache_size, update_lock, put_queue,
                       closed, nops>>
    PROVE  StoreInv' /\ \A k \in DOMAIN dict : mem_pool'[dict[k]] = mem_pool[dict[k]]
<1>0. Putting(t) /\ Fills(t) /\ Cleared(t)
  BY DEF Putting, Fills, PutPcs, Cleared
<1>1. job[t].slot \in PoolChunks \ free_pool /\ (\A k \in DOMAIN dict : dict[k] # job[t].slot)
      /\ job[t].data = job[t].key /\ job[t].key \notin DOMAIN dict
  BY <1>0 DEF StoreInv, FillsInv
<1>2. job[t].data \in Keys
  BY <1>0, PutJob DEF StoreInv
<1>3. LocalTypeOK'
  <2>1. mem_pool' \in [PoolChunks -> Keys \cup {Blank, Torn}]
    BY <1>1, <1>2 DEF StoreInv, LocalTypeOK
  <2> QED
    BY <2>1 DEF StoreInv, LocalTypeOK, MovedTo
<1>4. OrderInv'
  BY DEF StoreInv, OrderInv
<1>5. \A k \in DOMAIN dict : mem_pool'[dict[k]] = mem_pool[dict[k]]
  BY <1>1 DEF StoreInv, LocalTypeOK
<1>6. EntriesInv'
  BY <1>5 DEF StoreInv, EntriesInv
<1>7. \A u \in Threads \ {t} : job'[u] = job[u] /\ ~Putting(u)' /\ ~Fills(u)' /\ ~Cleared(u)'
                               /\ job'[u].pc # "publish" /\ ~Fills(u)
  BY DEF MovedTo, Alone, Putting, Fills, Cleared, PutPcs
<1>8. mem_pool'[job[t].slot] = data
  BY <1>1 DEF StoreInv, LocalTypeOK
<1>9. /\ job'[t].data = job'[t].key /\ job'[t].pc = pc /\ job'[t].slot = job[t].slot
      /\ job'[t].key = job[t].key
  BY <1>1 DEF MovedTo
<1>10. FillsInv'
  <2>1. SUFFICES ASSUME NEW u \in Threads
                 PROVE  /\ Putting(u)' => job'[u].data = job'[u].key
                        /\ Fills(u)' => /\ job'[u].slot \in PoolChunks \ free_pool'
                                        /\ \A k \in DOMAIN dict' : dict'[k] # job'[u].slot
                        /\ job'[u].pc = "publish" => mem_pool'[job'[u].slot] = job'[u].key
                        /\ Cleared(u)' => job'[u].key \notin DOMAIN dict'
    BY DEF FillsInv
  <2>2. CASE u = t
    BY <1>1, <1>8, <1>9, <2>2
  <2> QED
    BY <1>7, <2>2
<1>11. WholeInv'
  <2>1. \A u \in Threads : Fills(u) => Fills(u)' /\ job'[u].slot = job[u].slot
    BY <1>7, <1>9 DEF Fills
  <2> QED
    BY <2>1 DEF StoreInv, WholeInv
<1> QED
  BY <1>3, <1>4, <1>5, <1>6, <1>10, <1>11 DEF StoreInv
(* The new entry gets the chunk of the put.                                *)
LEMMA StorePublish ==
    ASSUME StoreInv, NEW t \in Threads, Alone(t), Publish(t)
    PROVE  /\ StoreInv'
           /\ \A u \in Threads : ~Putting(u)'
           /\ job[t].key \in Keys /\ job[t].key \notin DOMAIN dict
           /\ DOMAIN dict' = DOMAIN dict \cup {job[t].key}
           /\ \A k \in DOMAIN dict : dict'[k] = dict[k]
           /\ mem_pool[dict'[job[t].key]] = job[t].key
           /\ Len(order') = Len(order) + 1
<1>0. Putting(t) /\ Fills(t) /\ Cleared(t) /\ job[t].pc = "publish"
  BY DEF Publish, Putting, Fills, PutPcs, Cleared
<1>1. PICK k, s : k = job[t].key /\ s = job[t].slot
  OBVIOUS
<1>2. /\ s \in PoolChunks \ free_pool /\ \A l \in DOMAIN dict : dict[l] # s
      /\ mem_pool[s] = k /\ k \notin DOMAIN dict /\ k \in Keys
  BY <1>0, <1>1, PutJob DEF StoreInv, FillsInv
<1>3. dict' = [l \in DOMAIN dict \cup {k} |-> IF l = k THEN s ELSE dict[l]]
  BY <1>1 DEF Publish, Assoc
<1>4. /\ DOMAIN dict' = DOMAIN dict \cup {k} /\ dict'[k] = s
      /\ \A l \in DOMAIN dict : dict'[l] = dict[l]
      /\ dict' \in [DOMAIN dict' -> PoolChunks]
  BY <1>2, <1>3 DEF StoreInv, LocalTypeOK
<1>5. /\ order' \in Seq(Keys) /\ Distinct(order') /\ Range(order') = Range(order) \cup {k}
      /\ Len(order') = Len(order) + 1
  <2>1. order' = Inserted(order, k) /\ order \in Seq(Keys) /\ Distinct(order) /\ k \notin Range(order)
    BY <1>1, <1>2 DEF Publish, StoreInv, LocalTypeOK, OrderInv
  <2> QED
    <3>1. PICK new : new = Inserted(order, k)
      OBVIOUS
    <3>2. /\ new \in Seq(Keys) /\ Distinct(new) /\ Range(new) = Range(order) \cup {k}
          /\ Len(new) = IF k \in Range(order) THEN Len(order) ELSE Len(order) + 1
      BY <1>2, <2>1, <3>1, InsertedKey, ZenonT(40)
    <3> QED
      BY <2>1, <3>1, <3>2
<1>6. job'[t] = IdleJob /\ \A u \in Threads \ {t} : job'[u] = job[u]
  BY DEF Publish, StoreInv, LocalTypeOK
<1>7. \A u \in Threads : ~Putting(u)' /\ ~Fills(u)' /\ ~Cleared(u)' /\ job'[u].pc # "publish"
  BY <1>6 DEF Alone, Putting, Fills, Cleared, PutPcs, IdleJob
<1>8. LocalTypeOK'
  <2>1. job' \in [Threads -> Jobs]
    <3>1. IdleJob \in Jobs
      BY DEF IdleJob, Jobs
    <3> QED
      BY <3>1 DEF Publish, StoreInv, LocalTypeOK
  <2> QED
    BY <1>2, <1>4, <1>5, <2>1 DEF Publish, StoreInv, LocalTypeOK
<1>9. OrderInv'
  BY <1>4, <1>5 DEF StoreInv, OrderInv
<1>10. EntriesInv'
  BY <1>2, <1>4 DEF StoreInv, EntriesInv, Publish
<1>11. FillsInv'
  BY <1>7 DEF FillsInv
<1>12. WholeInv'
  <2>1. SUFFICES ASSUME NEW x \in PoolChunks
                 PROVE  x \in free_pool' \/ \E l \in DOMAIN dict' : dict'[l] = x
    BY DEF WholeInv
  <2>2. x \in free_pool \/ (\E l \in DOMAIN dict : dict[l] = x) \/ x = s
    <3>1. \A u \in Threads : Fills(u) => u = t
      BY DEF Alone, Putting, Fills, PutPcs
    <3> QED
      BY <1>1, <3>1 DEF StoreInv, WholeInv
  <2> QED
    BY <1>4, <2>2 DEF Publish
<1> QED
  BY <1>1, <1>2, <1>4, <1>5, <1>7, <1>8, <1>9, <1>10, <1>11, <1>12 DEF StoreInv

(* All the steps of a put.                                                 *)
LEMMA ContinueStore ==
    ASSUME StoreInv, NEW t \in Threads, Alone(t), ContinuePut(t)
    PROVE  StoreInv'
<1>0. LocalTypeOK
  BY DEF StoreInv
<1>1. CASE RemoveVictim(t)
  <2>1. PICK k : k = Head(job[t].evict)
    OBVIOUS
  <2>2. /\ job[t].pc = "evict" /\ Putting(t) /\ ~Fills(t)
        /\ UNCHANGED <<mem_pool, current_cache_size, update_lock, put_queue, closed, nops>>
    BY <1>1 DEF RemoveVictim, Putting, PutPcs, Fills
  <2>3. CASE k \in DOMAIN dict
    <3>1. Remove(k) /\ MovedTo(t, "evict", Tail(job[t].evict), job[t].slot)
      BY <1>0, <1>1, <2>1, <2>3, PutSteps DEF RemoveVictim
    <3>2. Cleared(t)' => job[t].key \notin DOMAIN dict'
      <4>1. Cleared(t)' => Cleared(t)
        BY <2>2, <3>1 DEF Cleared, MovedTo
      <4>2. DOMAIN dict' \subseteq DOMAIN dict
        BY <1>0, <2>3, <3>1, RemoveEffect DEF StoreInv
      <4> QED
        BY <4>1, <4>2 DEF StoreInv, FillsInv
    <3>3. "evict" \in PutPcs
      BY DEF PutPcs
    <3> QED
      BY <2>2, <2>3, <3>1, <3>2, <3>3, StoreRemove
  <2>4. CASE k \notin DOMAIN dict
    <3>1. MovedTo(t, "raised", job[t].evict, job[t].slot) /\ UNCHANGED <<dict, order, free_pool>>
      BY <1>0, <1>1, <2>1, <2>4, PutSteps DEF RemoveVictim
    <3>2. ~Cleared(t)' /\ "raised" \in PutPcs
      BY <3>1 DEF Cleared, MovedTo, PutPcs
    <3>3. update_lock' \in Threads \cup {"free"}
      BY <1>0, <2>2 DEF LocalTypeOK
    <3> QED
      BY <2>2, <3>1, <3>2, <3>3, StoreMove DEF storeVars
  <2> QED
    BY <2>3, <2>4
<1>2. CASE VictimsRemoved(t)
  <2>1. /\ job[t].pc = "evict" /\ Putting(t) /\ ~Fills(t)
        /\ UNCHANGED <<storeVars, update_lock, put_queue, closed, nops>>
    BY <1>2 DEF VictimsRemoved, Putting, PutPcs, Fills
  <2>2. PICK pc \in {"old", "allocate"} :
          pc = (IF t = "worker" THEN "old" ELSE "allocate") /\ MovedTo(t, pc, job[t].evict, job[t].slot)
    BY <1>0, <1>2, PutSteps
  <2>3. Cleared(t)' => job[t].key \notin DOMAIN dict
    <3>1. Cleared(t)' => t = "main"
      BY <2>2 DEF Cleared, MovedTo, Threads
    <3> QED
      BY <2>1, <3>1 DEF Cleared, StoreInv, FillsInv
  <2>4. update_lock' \in Threads \cup {"free"} /\ pc \in PutPcs
    BY <1>0, <2>1 DEF LocalTypeOK, PutPcs
  <2> QED
    BY <2>1, <2>2, <2>3, <2>4, StoreMove
<1>3. CASE RemoveOld(t)
  <2>1. /\ job[t].pc = "old" /\ Putting(t) /\ ~Fills(t)
        /\ UNCHANGED <<mem_pool, current_cache_size, update_lock, put_queue, closed, nops>>
    BY <1>3 DEF RemoveOld, Putting, PutPcs, Fills
  <2>2. PICK pc \in {"evict", "allocate"} : MovedTo(t, pc, job[t].evict, job[t].slot)
    BY <1>0, <1>3, PutSteps
  <2>3. update_lock' \in Threads \cup {"free"} /\ pc \in PutPcs
    BY <1>0, <2>1 DEF LocalTypeOK, PutPcs
  <2>4. CASE job[t].key \in DOMAIN dict
    <3>1. Remove(job[t].key)
      BY <1>3, <2>4 DEF RemoveOld
    <3>2. job[t].key \notin DOMAIN dict'
      BY <1>0, <2>4, <3>1, RemoveEffect DEF StoreInv
    <3> QED
      BY <2>1, <2>2, <2>3, <2>4, <3>1, <3>2, StoreRemove
  <2>5. CASE job[t].key \notin DOMAIN dict
    <3>1. UNCHANGED storeVars
      BY <1>3, <2>1, <2>5 DEF RemoveOld, storeVars
    <3> QED
      BY <2>1, <2>2, <2>3, <2>5, <3>1, StoreMove
  <2> QED
    BY <2>4, <2>5
<1>4. CASE Allocate(t)
  <2>1. /\ job[t].pc = "allocate" /\ Putting(t) /\ ~Fills(t)
        /\ UNCHANGED <<dict, order, mem_pool, current_cache_size, put_queue, closed, nops>>
    BY <1>4 DEF Allocate, Putting, PutPcs, Fills
  <2>2. CASE /\ free_pool = {} /\ UNCHANGED <<free_pool, update_lock>>
             /\ MovedTo(t, "raised", job[t].evict, job[t].slot)
    <3>1. ~Cleared(t)' /\ "raised" \in PutPcs
      BY <2>2 DEF Cleared, MovedTo, PutPcs
    <3>2. update_lock' \in Threads \cup {"free"}
      BY <1>0, <2>2 DEF LocalTypeOK
    <3> QED
      BY <2>1, <2>2, <3>1, <3>2, StoreMove DEF storeVars
  <2>3. ASSUME NEW s \in free_pool, free_pool' = free_pool \ {s}, update_lock' = Unlocked(t),
               MovedTo(t, "copy", job[t].evict, s)
        PROVE  StoreInv'
    <3>1. update_lock' \in Threads \cup {"free"}
      BY <1>0, <2>3 DEF LocalTypeOK, Unlocked
    <3> QED
      BY <2>1, <2>3, <3>1, StoreAllocate
  <2> QED
    BY <1>0, <1>4, <2>2, <2>3, PutSteps
<1>5. CASE BeginCopy(t)
  <2>1. MovedTo(t, "copying", job[t].evict, job[t].slot)
    BY <1>0, <1>5, PutSteps
  <2> QED
    BY <1>5, <2>1, StoreCopy DEF BeginCopy
<1>6. CASE EndCopy(t)
  <2>1. MovedTo(t, "publish", job[t].evict, job[t].slot)
    BY <1>0, <1>6, PutSteps
  <2> QED
    BY <1>6, <2>1, StoreCopy DEF EndCopy
<1>7. CASE Publish(t)
  BY <1>7, StorePublish
<1> QED
  BY <1>1, <1>2, <1>3, <1>4, <1>5, <1>6, <1>7 DEF ContinuePut

(* A put begins, on a thread that is idle.                                 *)
LEMMA StartStore ==
    ASSUME StoreInv, NEW t \in Threads, job[t] = IdleJob, Alone(t), NEW k \in Keys, NEW pc,
           pc = (IF t = "worker" THEN "evict" ELSE "old"), UpdateOnPut(t, k, k, pc),
           UNCHANGED <<dict, order, free_pool, mem_pool, closed>>,
           update_lock' \in Threads \cup {"free"}, put_queue' \in Seq(Keys), nops' \in Nat
    PROVE  /\ StoreInv' /\ \A u \in Threads \ {t} : job'[u] = job[u]
           /\ IF Capacity = 0
              THEN UNCHANGED <<job, current_cache_size>>
              ELSE /\ current_cache_size' = SizeAfterPut(order, current_cache_size, Capacity)
                   /\ job'[t] = IF RunsOut(order, current_cache_size, Capacity)
                                THEN Job("raised", k, k, <<>>)
                                ELSE Job(pc, k, k, Victims(order, current_cache_size, Capacity))
<1>1. CASE Capacity = 0
  <2>1. UNCHANGED <<job, current_cache_size>>
    BY <1>1 DEF UpdateOnPut
  <2>2. LocalTypeOK'
    BY <2>1 DEF StoreInv, LocalTypeOK
  <2>3. OrderInv' /\ EntriesInv' /\ WholeInv' /\ FillsInv'
    BY <2>1 DEF StoreInv, OrderInv, EntriesInv, WholeInv, FillsInv, Fills, Putting, Cleared
  <2> QED
    BY <1>1, <2>1, <2>2, <2>3 DEF StoreInv
<1>2. CASE Capacity # 0
  <2>1. PICK j : /\ j = IF RunsOut(order, current_cache_size, Capacity)
                        THEN Job("raised", k, k, <<>>)
                        ELSE Job(pc, k, k, Victims(order, current_cache_size, Capacity))
                 /\ job' = [job EXCEPT ![t] = j]
                 /\ current_cache_size' = SizeAfterPut(order, current_cache_size, Capacity)
    BY <1>2 DEF UpdateOnPut
  <2>2. order \in Seq(Keys) /\ current_cache_size \in Int /\ Capacity \in Nat
    BY LocalAssumption DEF StoreInv, LocalTypeOK
  <2>3. Excess(current_cache_size, Capacity) \in Int
    BY <2>2 DEF Excess
  <2>4. Len(order) \in Nat /\ (~RunsOut(order, current_cache_size, Capacity) =>
            Excess(current_cache_size, Capacity) <= Len(order))
    BY <2>2, <2>3 DEF RunsOut
  <2>5. ~RunsOut(order, current_cache_size, Capacity)
          => Victims(order, current_cache_size, Capacity) \in Seq(Keys)
    BY <2>2, <2>3, <2>4 DEF Victims
  <2>6. j \in Jobs /\ j.pc \in {"raised", pc} /\ j.key = k /\ j.data = k
    <3>1. CASE RunsOut(order, current_cache_size, Capacity)
      BY <2>1, <3>1 DEF Job, Jobs, PutPcs
    <3>2. CASE ~RunsOut(order, current_cache_size, Capacity)
      BY <2>1, <2>5, <3>2 DEF Job, Jobs, PutPcs
    <3> QED
      BY <3>1, <3>2
  <2>7. current_cache_size' \in Int
    <3>1. CASE RunsOut(order, current_cache_size, Capacity)
      BY <2>1, <2>2, <2>4, <3>1 DEF SizeAfterPut
    <3>2. CASE ~RunsOut(order, current_cache_size, Capacity)
      <4>1. Len(Victims(order, current_cache_size, Capacity)) \in Nat
        BY <2>5, <3>2
      <4> QED
        BY <2>1, <2>2, <3>2, <4>1 DEF SizeAfterPut
    <3> QED
      BY <3>1, <3>2
  <2>8. job'[t] = j /\ (\A u \in Threads \ {t} : job'[u] = job[u]) /\ job' \in [Threads -> Jobs]
    BY <2>1, <2>6 DEF StoreInv, LocalTypeOK
  <2>9. LocalTypeOK'
    BY <2>7, <2>8 DEF StoreInv, LocalTypeOK
  <2>10. OrderInv' /\ EntriesInv'
    BY DEF StoreInv, OrderInv, EntriesInv
  <2>11. \A u \in Threads : ~Fills(u) /\ ~Fills(u)' /\ ~Cleared(u)' /\ job'[u].pc # "publish"
    BY <2>6, <2>8 DEF Fills, Cleared, Alone, Putting, PutPcs, IdleJob, Threads
  <2>12. FillsInv'
    <3>1. \A u \in Threads : Putting(u)' => job'[u].data = job'[u].key
      BY <2>6, <2>8 DEF Alone, Putting
    <3> QED
      BY <2>11, <3>1 DEF FillsInv
  <2>13. WholeInv'
    BY <2>11 DEF StoreInv, WholeInv
  <2> QED
    BY <1>2, <2>1, <2>8, <2>9, <2>10, <2>12, <2>13 DEF StoreInv
<1> QED
  BY <1>1, <1>2

(* A read moves its key to the end.                                        *)
LEMMA TouchStore ==
    ASSUME StoreInv, NEW k, Touch(k),
           UNCHANGED <<dict, free_pool, mem_pool, current_cache_size, update_lock, put_queue,
                       job, closed>>,
           nops' \in Nat
    PROVE  StoreInv' /\ Len(order') = Len(order) /\ Range(order') = Range(order)
<1>1. /\ order' \in Seq(Keys) /\ Distinct(order') /\ Range(order') = Range(order)
      /\ Len(order') = Len(order)
  <2>1. CASE k \in DOMAIN dict
    <3>1. order' = MovedToEnd(order, k) /\ k \in Range(order)
      BY <2>1 DEF Touch, StoreInv, OrderInv
    <3> QED
      BY <3>1, MovedKey DEF StoreInv, LocalTypeOK, OrderInv
  <2>2. CASE k \notin DOMAIN dict
    BY <2>2 DEF Touch, StoreInv, LocalTypeOK, OrderInv
  <2> QED
    BY <2>1, <2>2
<1>2. LocalTypeOK' /\ OrderInv'
  BY <1>1 DEF StoreInv, LocalTypeOK, OrderInv
<1>3. EntriesInv' /\ WholeInv' /\ FillsInv'
  BY DEF StoreInv, EntriesInv, WholeInv, FillsInv, Fills, Putting, Cleared
<1> QED
  BY <1>1, <1>2, <1>3 DEF StoreInv
(* The steps that leave the store and the puts alone.                      *)
LEMMA QuietStore ==
    ASSUME StoreInv, UNCHANGED <<storeVars, update_lock>>,
           put_queue' \in Seq(Keys), nops' \in Nat, closed' \in BOOLEAN,
           UNCHANGED job \/ (job["worker"].pc = "idle" /\ job' = [job EXCEPT !["worker"].pc = "stopped"])
    PROVE  /\ StoreInv'
           /\ \A t \in Threads : job'[t] = job[t] \/ (job[t].pc = "idle" /\ job'[t].pc = "stopped")
<1> USE DEF storeVars
<1>1. job' \in [Threads -> Jobs]
      /\ \A t \in Threads : job'[t] = job[t] \/ (job[t].pc = "idle" /\ job'[t].pc = "stopped")
  <2>1. CASE UNCHANGED job
    BY <2>1 DEF StoreInv, LocalTypeOK
  <2>2. CASE job["worker"].pc = "idle" /\ job' = [job EXCEPT !["worker"].pc = "stopped"]
    <3>1. job["worker"] \in [pc : {"idle", "stopped"}]
      BY <2>2 DEF StoreInv, LocalTypeOK, Jobs, PutPcs, Threads
    <3>2. [job["worker"] EXCEPT !.pc = "stopped"] \in Jobs
      BY <3>1 DEF Jobs
    <3> QED
      BY <2>2, <3>1, <3>2 DEF StoreInv, LocalTypeOK, Threads
  <2> QED
    BY <2>1, <2>2
<1>2. LocalTypeOK'
  BY <1>1 DEF StoreInv, LocalTypeOK
<1>3. OrderInv' /\ EntriesInv'
  BY DEF StoreInv, OrderInv, EntriesInv
<1>4. \A t \in Threads : /\ Fills(t)' <=> Fills(t)
                         /\ Fills(t) => job'[t] = job[t]
                         /\ Putting(t)' \/ Cleared(t)' => job'[t] = job[t]
  BY <1>1 DEF Fills, Putting, Cleared, PutPcs
<1>5. FillsInv'
  <2>1. SUFFICES ASSUME NEW t \in Threads
                 PROVE  /\ Putting(t)' => job'[t].data = job'[t].key
                        /\ Fills(t)' => /\ job'[t].slot \in PoolChunks \ free_pool
                                        /\ \A k \in DOMAIN dict : dict[k] # job'[t].slot
                        /\ job'[t].pc = "publish" => mem_pool[job'[t].slot] = job'[t].key
                        /\ Cleared(t)' => job'[t].key \notin DOMAIN dict
    BY DEF FillsInv
  <2>2. CASE job'[t] = job[t]
    BY <2>2 DEF StoreInv, FillsInv, Fills, Putting, Cleared
  <2>3. CASE job'[t].pc = "stopped"
    BY <2>3 DEF Fills, Putting, Cleared, PutPcs
  <2> QED
    BY <1>1, <2>2, <2>3
<1>6. WholeInv'
  BY <1>4 DEF StoreInv, WholeInv
<1> QED
  BY <1>1, <1>2, <1>3, <1>5, <1>6 DEF StoreInv

(***************************************************************************)
(* Callers that queue all their puts: the limit holds, and no put raises.  *)
(***************************************************************************)
(* A pool that gave out all its chunks would hold more than the limit.     *)
LEMMA PoolSuffices ==
    ASSUME StoreInv, \A t \in Threads : ~Fills(t), Len(order) <= Capacity
    PROVE  free_pool # {}
<1>1. SUFFICES ASSUME free_pool = {} PROVE FALSE
  OBVIOUS
<1>2. dict \in [DOMAIN dict -> PoolChunks] /\ order \in Seq(Keys) /\ Distinct(order)
      /\ Range(order) = DOMAIN dict
  BY DEF StoreInv, LocalTypeOK, OrderInv
<1>3. dict \in Surjection(DOMAIN dict, PoolChunks)
  BY <1>1, <1>2 DEF Surjection, StoreInv, WholeInv
<1>4. IsFiniteSet(DOMAIN dict) /\ Cardinality(DOMAIN dict) = Len(order)
  BY <1>2, LenIsCardinality
<1>5. Cardinality(PoolChunks) <= Len(order)
  BY <1>3, <1>4, FS_Surjection
<1>6. Cardinality(PoolChunks) = Capacity + 1
  BY FS_Interval, LocalAssumption DEF PoolChunks
<1>7. Len(order) \in Nat /\ Capacity \in Nat
  BY <1>2, LocalAssumption
<1> QED
  BY <1>5, <1>6, <1>7

(* The worker is the only one that puts.                                   *)
LEMMA WorkerAlone ==
    ASSUME LimitInv
    PROVE  Alone("worker")
BY DEF LimitInv, Alone, Threads, Putting, PutPcs, IdleJob

(* Every step of the worker's put.                                         *)
LEMMA ContinueLimit ==
    ASSUME StoreInv, LimitInv, ContinuePut("worker")
    PROVE  LimitInv'
<1> DEFINE w == "worker"
           pc == job["worker"].pc
<1>0. /\ LocalTypeOK /\ OrderInv /\ w \in Threads /\ Len(order) \in Nat
      /\ current_cache_size \in Int /\ Capacity \in Nat
  BY LocalAssumption DEF StoreInv, LocalTypeOK, Threads
<1>1. ASSUME NEW to, NEW v, NEW s, MovedTo("worker", to, v, s)
      PROVE  /\ job'["main"] = IdleJob /\ job'["worker"].pc = to /\ job'["worker"].evict = v
  BY <1>1 DEF MovedTo, LimitInv, Threads
<1>2. CASE RemoveVictim("worker")
  <2>1. PICK v : v = job["worker"].evict
    OBVIOUS
  <2>2. /\ v \in Seq(Keys) /\ v # <<>> /\ Len(v) <= 1 /\ pc = "evict"
        /\ \A i \in DOMAIN v : v[i] \in Range(order)
        /\ Len(order) + 1 <= current_cache_size + Len(v)
        /\ update_lock = "worker" /\ UNCHANGED <<current_cache_size, update_lock>>
    BY <1>0, <1>2, <2>1, PutJob DEF RemoveVictim, LimitInv, Putting, PutPcs
  <2>3. Len(v) = 1 /\ Head(v) = v[1] /\ 1 \in DOMAIN v /\ Tail(v) = <<>>
    <3>1. v \in Seq(Keys) /\ v # <<>> /\ Len(v) <= 1
      BY <2>2
    <3>2. Len(v) = 1
      <4>1. Len(v) \in Nat \ {0}
        BY <3>1, EmptySeq
      <4> QED
        BY <3>1, <4>1
    <3>3. Tail(v) \in Seq(Keys) /\ Len(Tail(v)) = 0
      BY <2>2, <3>2
    <3>4. Tail(v) = <<>>
      BY <3>3, EmptySeq
    <3> QED
      BY <2>2, <3>2, <3>4
  <2>4. Head(v) \in DOMAIN dict
    BY <2>2, <2>3 DEF StoreInv, OrderInv
  <2>5. Remove(Head(v)) /\ MovedTo("worker", "evict", <<>>, job["worker"].slot)
    BY <1>0, <1>2, <2>1, <2>3, <2>4, PutSteps DEF RemoveVictim
  <2>6. Len(order') = Len(order) - 1
    BY <1>0, <2>4, <2>5, RemoveEffect
  <2>7. Len(order') + 1 <= current_cache_size
    BY <1>0, <2>2, <2>3, <2>6
  <2>8. job'["main"] = IdleJob /\ job'["worker"].pc = "evict" /\ job'["worker"].evict = <<>>
    BY <1>1, <2>5
  <2> QED
    BY <1>0, <2>2, <2>7, <2>8 DEF LimitInv
<1>3. CASE VictimsRemoved("worker")
  <2>1. /\ pc = "evict" /\ job["worker"].evict = <<>>
        /\ MovedTo("worker", "old", job["worker"].evict, job["worker"].slot)
        /\ UNCHANGED <<order, current_cache_size, update_lock>>
    BY <1>0, <1>3, PutSteps DEF VictimsRemoved, storeVars
  <2>2. Len(order) + 1 <= current_cache_size
    BY <1>0, <2>1 DEF LimitInv
  <2>3. job'["main"] = IdleJob /\ job'["worker"].pc = "old"
    BY <1>1, <2>1
  <2> QED
    BY <2>1, <2>2, <2>3 DEF LimitInv
<1>4. CASE RemoveOld("worker")
  <2>1. /\ pc = "old" /\ UNCHANGED <<current_cache_size, update_lock>>
        /\ MovedTo("worker", "allocate", job["worker"].evict, job["worker"].slot)
    BY <1>0, <1>4, PutSteps DEF RemoveOld
  <2>2. Len(order') <= Len(order) /\ Len(order') \in Nat
    <3>1. CASE job["worker"].key \in DOMAIN dict
      <4>1. Remove(job["worker"].key)
        BY <1>4, <3>1 DEF RemoveOld
      <4>2. order' \in Seq(Keys) /\ Len(order') = Len(order) - 1
        BY <1>0, <3>1, <4>1, RemoveEffect
      <4> QED
        BY <1>0, <4>2
    <3>2. CASE job["worker"].key \notin DOMAIN dict
      BY <1>0, <1>4, <3>2 DEF RemoveOld
    <3> QED
      BY <3>1, <3>2
  <2>3. Len(order') + 1 <= current_cache_size
    BY <1>0, <2>1, <2>2 DEF LimitInv
  <2>4. job'["main"] = IdleJob /\ job'["worker"].pc = "allocate"
    BY <1>1, <2>1
  <2> QED
    BY <2>1, <2>3, <2>4 DEF LimitInv
<1>5. CASE Allocate("worker")
  <2>1. pc = "allocate" /\ UNCHANGED <<order, current_cache_size>>
    BY <1>5 DEF Allocate
  <2>2. Len(order) + 1 <= current_cache_size /\ current_cache_size <= Capacity
        /\ update_lock = "worker"
    BY <2>1 DEF LimitInv
  <2>3. \A t \in Threads : ~Fills(t)
    BY <2>1 DEF Fills, LimitInv, Threads, IdleJob
  <2>4. free_pool # {}
    BY <1>0, <2>2, <2>3, PoolSuffices
  <2>5. PICK s \in free_pool : /\ MovedTo("worker", "copy", job["worker"].evict, s)
                               /\ update_lock' = Unlocked("worker")
    BY <1>0, <1>5, <2>4, PutSteps
  <2>6. update_lock' = "free"
    BY <2>2, <2>5 DEF Unlocked
  <2>7. job'["main"] = IdleJob /\ job'["worker"].pc = "copy"
    BY <1>1, <2>5
  <2>8. 0 <= current_cache_size
    BY DEF LimitInv
  <2> QED
    BY <2>1, <2>2, <2>6, <2>7, <2>8 DEF LimitInv
<1>6. CASE BeginCopy("worker")
  <2>1. /\ pc = "copy" /\ UNCHANGED <<order, current_cache_size, update_lock>>
        /\ MovedTo("worker", "copying", job["worker"].evict, job["worker"].slot)
    BY <1>0, <1>6, PutSteps DEF BeginCopy
  <2>2. job'["main"] = IdleJob /\ job'["worker"].pc = "copying"
    BY <1>1, <2>1
  <2> QED
    BY <2>1, <2>2 DEF LimitInv
<1>7. CASE EndCopy("worker")
  <2>1. /\ pc = "copying" /\ UNCHANGED <<order, current_cache_size, update_lock>>
        /\ MovedTo("worker", "publish", job["worker"].evict, job["worker"].slot)
    BY <1>0, <1>7, PutSteps DEF EndCopy
  <2>2. job'["main"] = IdleJob /\ job'["worker"].pc = "publish"
    BY <1>1, <2>1
  <2> QED
    BY <2>1, <2>2 DEF LimitInv
<1>8. CASE Publish("worker")
  <2>1. /\ pc = "publish" /\ UNCHANGED <<current_cache_size, update_lock>>
        /\ job' = [job EXCEPT !["worker"] = IdleJob]
    BY <1>8 DEF Publish
  <2>2. Len(order') = Len(order) + 1
    BY <1>0, <1>8, StorePublish, WorkerAlone
  <2>3. job'["main"] = IdleJob /\ job'["worker"].pc = "idle"
    BY <1>0, <2>1 DEF LocalTypeOK, LimitInv, Threads, IdleJob
  <2>4. Len(order) + 1 <= current_cache_size
    BY <2>1 DEF LimitInv
  <2> QED
    BY <1>0, <2>1, <2>2, <2>3, <2>4 DEF LimitInv
<1> QED
  BY <1>2, <1>3, <1>4, <1>5, <1>6, <1>7, <1>8 DEF ContinuePut
(* The worker takes a put from the queue.                                  *)
LEMMA StartLimit ==
    ASSUME StoreInv, LimitInv, StartNonblocking
    PROVE  /\ StoreInv' /\ LimitInv'
           /\ put_queue # <<>> /\ Head(put_queue) \in Keys /\ put_queue' = Tail(put_queue)
           /\ Capacity # 0 => Putting("worker")' /\ job'["worker"].key = Head(put_queue)
<1>0. /\ LocalTypeOK /\ OrderInv /\ "worker" \in Threads /\ Len(order) \in Nat
      /\ order \in Seq(Keys) /\ current_cache_size \in Int /\ Capacity \in Nat
      /\ put_queue \in Seq(Keys)
  BY LocalAssumption DEF StoreInv, LocalTypeOK, Threads
<1>1. /\ job["worker"].pc = "idle" /\ put_queue # <<>> /\ update_lock = "free"
      /\ update_lock' = (IF Capacity = 0 THEN "free" ELSE "worker")
      /\ put_queue' = Tail(put_queue)
      /\ UpdateOnPut("worker", Head(put_queue), Head(put_queue), "evict")
      /\ UNCHANGED <<dict, order, free_pool, mem_pool, closed, nops>>
  BY DEF StartNonblocking
<1>2. PICK k \in Keys : k = Head(put_queue)
  BY <1>0, <1>1
<1>3. put_queue' \in Seq(Keys)
  BY <1>0, <1>1
<1>4. job["worker"] = IdleJob
  BY <1>0, <1>1 DEF LocalTypeOK, Jobs, PutPcs, IdleJob
<1>5. update_lock' \in Threads \cup {"free"} /\ nops' \in Nat
  BY <1>0, <1>1 DEF LocalTypeOK
<1>6. /\ StoreInv' /\ \A u \in Threads \ {"worker"} : job'[u] = job[u]
      /\ IF Capacity = 0
         THEN UNCHANGED <<job, current_cache_size>>
         ELSE /\ current_cache_size' = SizeAfterPut(order, current_cache_size, Capacity)
              /\ job'["worker"] = IF RunsOut(order, current_cache_size, Capacity)
                                  THEN Job("raised", k, k, <<>>)
                                  ELSE Job("evict", k, k, Victims(order, current_cache_size, Capacity))
  BY <1>0, <1>1, <1>2, <1>3, <1>4, <1>5, StartStore, WorkerAlone
<1>7. job'["main"] = IdleJob
  BY <1>6 DEF Threads, LimitInv
<1>8. CASE Capacity = 0
  <2>1. UNCHANGED <<job, current_cache_size, update_lock, order>>
    BY <1>1, <1>6, <1>8
  <2> QED
    BY <1>1, <1>2, <1>6, <1>8, <2>1 DEF LimitInv
<1>9. CASE Capacity # 0
  <2>1. /\ Len(order) <= current_cache_size /\ current_cache_size <= Capacity
        /\ 0 <= current_cache_size /\ (current_cache_size # 0 => Len(order) # 0)
    BY <1>1 DEF LimitInv
  <2>2. ~RunsOut(order, current_cache_size, Capacity)
    BY <1>0, <1>9, <2>1 DEF RunsOut, Excess
  <2>3. PICK v : v = Victims(order, current_cache_size, Capacity)
    OBVIOUS
  <2>4. /\ v \in Seq(Keys) /\ Len(v) <= 1 /\ \A i \in DOMAIN v : v[i] \in Range(order)
        /\ SizeAfterPut(order, current_cache_size, Capacity) = current_cache_size + 1 - Len(v)
        /\ SizeAfterPut(order, current_cache_size, Capacity) <= Capacity
    BY <1>0, <1>9, <2>1, <2>2, <2>3, PutSizes, SMTT(30)
  <2>5. job'["worker"] = Job("evict", k, k, v) /\ current_cache_size' = current_cache_size + 1 - Len(v)
        /\ current_cache_size' <= Capacity
    BY <1>6, <1>9, <2>2, <2>3, <2>4
  <2>6. job'["worker"].pc = "evict" /\ job'["worker"].evict = v /\ job'["worker"].key = k
    BY <2>5 DEF Job
  <2>7. Len(v) \in Nat /\ 0 <= current_cache_size' /\ Len(order) + 1 <= current_cache_size' + Len(v)
    BY <1>0, <2>1, <2>4, <2>5
  <2>8. LimitInv'
    BY <1>1, <1>7, <1>9, <2>4, <2>5, <2>6, <2>7 DEF LimitInv
  <2> QED
    BY <1>1, <1>2, <1>6, <2>6, <2>8 DEF Putting, PutPcs
<1> QED
  BY <1>8, <1>9

(* The steps that leave the store and its counts alone.                    *)
LEMMA QuietLimit ==
    ASSUME LimitInv, UNCHANGED <<current_cache_size, update_lock>>, Len(order') = Len(order),
           Range(order') = Range(order),
           UNCHANGED job \/ (job["worker"].pc = "idle" /\ job' = [job EXCEPT !["worker"].pc = "stopped"]),
           job \in [Threads -> Jobs]
    PROVE  LimitInv'
<1>1. CASE UNCHANGED job
  BY <1>1 DEF LimitInv
<1>2. CASE job["worker"].pc = "idle" /\ job' = [job EXCEPT !["worker"].pc = "stopped"]
  <2>1. job["worker"] \in [pc : {"idle", "stopped"}]
    BY <1>2 DEF Jobs, PutPcs, Threads
  <2>2. job'["worker"].pc = "stopped" /\ job'["main"] = job["main"]
    BY <1>2, <2>1 DEF Threads
  <2> QED
    BY <1>2, <2>2 DEF LimitInv
<1> QED
  BY <1>1, <1>2

(* The invariant holds at the start.                                       *)
LEMMA InitStore == LocalInit => StoreInv /\ LimitInv
<1> SUFFICES ASSUME LocalInit PROVE StoreInv /\ LimitInv
  OBVIOUS
<1>1. DOMAIN dict = {} /\ order = <<>> /\ free_pool = PoolChunks
      /\ job = [t \in Threads |-> [pc |-> "idle"]]
  BY DEF LocalInit, IdleJob
<1>2. LocalTypeOK
  <2>1. dict \in [DOMAIN dict -> PoolChunks] /\ DOMAIN dict \subseteq Keys
    BY <1>1 DEF LocalInit
  <2>2. mem_pool \in [PoolChunks -> Keys \cup {Blank, Torn}]
    BY DEF LocalInit
  <2>3. job \in [Threads -> Jobs]
    BY <1>1 DEF Jobs
  <2>4. closed \in BOOLEAN
    BY DEF LocalInit
  <2> QED
    BY <2>1, <2>2, <2>3, <2>4 DEF LocalInit, LocalTypeOK
<1>3. Range(order) = {} /\ Distinct(order) /\ Len(order) = 0
  BY <1>1 DEF Range, Distinct
<1>4. OrderInv /\ EntriesInv /\ WholeInv
  BY <1>1, <1>3 DEF OrderInv, EntriesInv, WholeInv
<1>5. FillsInv
  BY <1>1 DEF FillsInv, Putting, PutPcs, Fills, Cleared
<1>6. LimitInv
  BY <1>1, <1>3, LocalAssumption DEF LimitInv, LocalInit, IdleJob, Threads
<1> QED
  BY <1>2, <1>4, <1>5, <1>6 DEF StoreInv

(* Every step of the backend keeps it.                                     *)
LEMMA NextStore ==
    ASSUME StoreInv, LimitInv, [LocalNext]_localVars
    PROVE  StoreInv' /\ LimitInv'
<1> USE DEF storeVars
<1>0. LocalTypeOK /\ job \in [Threads -> Jobs] /\ nops \in Nat /\ put_queue \in Seq(Keys)
      /\ closed \in BOOLEAN
  BY DEF StoreInv, LocalTypeOK
<1>1. CASE StartNonblocking
  BY <1>1, StartLimit
<1>2. CASE ContinuePut("worker")
  BY <1>2, ContinueStore, ContinueLimit, WorkerAlone DEF Threads
<1>3. CASE StopWorker
  BY <1>0, <1>3, QuietStore, QuietLimit DEF StopWorker
<1>4. ASSUME NEW k \in Keys, EnqueuePut(k)
      PROVE  StoreInv' /\ LimitInv'
  <2>1. put_queue' \in Seq(Keys) /\ nops' \in Nat
    BY <1>0, <1>4 DEF EnqueuePut
  <2> QED
    BY <1>0, <1>4, <2>1, QuietStore, QuietLimit DEF EnqueuePut
<1>5. ASSUME NEW k \in Keys, Get(k)
      PROVE  StoreInv' /\ LimitInv'
  <2>1. nops' \in Nat
    BY <1>0, <1>5 DEF Get
  <2>2. StoreInv' /\ Len(order') = Len(order) /\ Range(order') = Range(order)
    BY <1>5, <2>1, TouchStore DEF Get
  <2> QED
    BY <1>0, <1>5, <2>2, QuietLimit DEF Get
<1>6. CASE Close
  BY <1>0, <1>6, QuietStore, QuietLimit DEF Close
<1>7. CASE Terminated \/ UNCHANGED localVars
  BY <1>0, <1>7, QuietStore, QuietLimit DEF Terminated, localVars
<1> QED
  BY <1>1, <1>2, <1>3, <1>4, <1>5, <1>6, <1>7 DEF LocalNext, LocalWorker

(* The inductive invariant of a backend whose callers queue their puts.    *)
THEOREM LocalInvariance == LocalSpec => [](StoreInv /\ LimitInv)
BY InitStore, NextStore, PTL DEF LocalSpec
(* No put raises: the evictor always finds a victim, the victim is still   *)
(* cached when it is removed, and the pool always has a chunk left.        *)
THEOREM QueuedPutsNeverRaise == LocalSpec => []NoPutRaises
<1>1. StoreInv /\ LimitInv => NoPutRaises
  BY DEF LimitInv, NoPutRaises, Threads, IdleJob
<1> QED
  BY <1>1, LocalInvariance, PTL

(* What is cached or being written stays within the configured size.       *)
THEOREM LimitHolds == LocalSpec => []WithinLimit
<1>1. ASSUME StoreInv, LimitInv
      PROVE  WithinLimit
  <2>1. SUFFICES ASSUME update_lock = "free"
                 PROVE  /\ Cardinality(DOMAIN dict) + Cardinality(Filling) <= current_cache_size
                        /\ current_cache_size <= Capacity
    BY DEF WithinLimit
  <2>2. order \in Seq(Keys) /\ Distinct(order) /\ Range(order) = DOMAIN dict
        /\ current_cache_size \in Int
    BY <1>1 DEF StoreInv, LocalTypeOK, OrderInv
  <2>3. Cardinality(DOMAIN dict) = Len(order) /\ Len(order) \in Nat
    BY <2>2, LenIsCardinality
  <2>4. current_cache_size <= Capacity
    BY <1>1 DEF LimitInv
  <2>5. CASE Fills("worker")
    <3>1. Filling = {"worker"}
      BY <1>1, <2>5 DEF Filling, Fills, Threads, LimitInv, IdleJob
    <3>2. Cardinality(Filling) = 1
      BY <3>1, FS_Singleton
    <3>3. Len(order) + 1 <= current_cache_size
      BY <1>1, <2>5 DEF LimitInv, Fills
    <3> QED
      BY <2>2, <2>3, <2>4, <3>2, <3>3
  <2>6. CASE ~Fills("worker")
    <3>1. Filling = {}
      BY <1>1, <2>6 DEF Filling, Fills, Threads, LimitInv, IdleJob
    <3>2. Cardinality(Filling) = 0
      BY <3>1, FS_EmptySet
    <3>3. job["worker"].pc \in {"idle", "stopped"}
      BY <1>1, <2>1, <2>6 DEF LimitInv, Fills, StoreInv, LocalTypeOK, Jobs, PutPcs, Threads
    <3>4. Len(order) <= current_cache_size
      BY <1>1, <3>3 DEF LimitInv
    <3> QED
      BY <2>2, <2>3, <2>4, <3>2, <3>4
  <2> QED
    BY <2>5, <2>6
<1> QED
  BY <1>1, LocalInvariance, PTL

(* Each pool chunk has exactly one owner.                                  *)
LEMMA OneOwner ==
    ASSUME StoreInv, NEW t \in Threads, Alone(t)
    PROVE  PoolConserved
<1> DEFINE D == Range(dict)
           F == {job[u].slot : u \in Filling}
<1>1. dict \in [DOMAIN dict -> PoolChunks] /\ order \in Seq(Keys) /\ Distinct(order)
      /\ Range(order) = DOMAIN dict /\ free_pool \subseteq PoolChunks
  BY DEF StoreInv, LocalTypeOK, OrderInv
<1>2. Filling \subseteq {t} /\ \A u \in Threads : u \in Filling <=> Fills(u)
  BY DEF Filling, Fills, Alone, Putting, PutPcs
<1>3. free_pool \cup D \cup F = PoolChunks
  <2>1. D \subseteq PoolChunks
    BY <1>1 DEF Range
  <2>2. F \subseteq PoolChunks
    BY <1>2 DEF StoreInv, FillsInv, Filling
  <2>3. ASSUME NEW s \in PoolChunks PROVE s \in free_pool \cup D \cup F
    BY <1>2 DEF StoreInv, WholeInv, Range
  <2> QED
    BY <1>1, <2>1, <2>2, <2>3
<1>4. free_pool \cap D = {} /\ (free_pool \cup D) \cap F = {}
  <2>1. \A k \in DOMAIN dict : dict[k] \notin free_pool
    BY DEF StoreInv, EntriesInv
  <2>2. \A u \in Filling : job[u].slot \notin free_pool /\ \A k \in DOMAIN dict : dict[k] # job[u].slot
    BY <1>2 DEF StoreInv, FillsInv, Filling
  <2> QED
    BY <2>1, <2>2 DEF Range
<1>5. IsFiniteSet(PoolChunks) /\ IsFiniteSet(DOMAIN dict)
  <2>1. IsFiniteSet(PoolChunks)
    BY FS_Interval, LocalAssumption DEF PoolChunks
  <2>2. IsFiniteSet(DOMAIN dict)
    BY <1>1, LenIsCardinality
  <2> QED
    BY <2>1, <2>2
<1>6. IsFiniteSet(free_pool) /\ IsFiniteSet(D) /\ Cardinality(D) = Cardinality(DOMAIN dict)
  <2>1. dict \in Surjection(DOMAIN dict, D) /\ dict \in Injection(DOMAIN dict, D)
    BY <1>1 DEF Surjection, Injection, IsInjective, Range, StoreInv, EntriesInv
  <2> QED
    BY <1>1, <1>5, <2>1, FS_Surjection, FS_Subset
<1>7. IsFiniteSet(F) /\ Cardinality(F) = Cardinality(Filling)
  <2>1. CASE Filling = {}
    BY <2>1, FS_EmptySet
  <2>2. CASE Filling = {t}
    <3>1. F = {job[t].slot}
      BY <2>2
    <3> QED
      BY <2>2, <3>1, FS_Singleton
  <2> QED
    BY <1>2, <2>1, <2>2
<1> HIDE DEF D, F
<1>8. IsFiniteSet(free_pool \cup D)
      /\ Cardinality(free_pool \cup D) = Cardinality(free_pool) + Cardinality(D)
  BY <1>4, <1>6, DisjointUnion
<1>9. Cardinality(free_pool \cup D \cup F) = Cardinality(free_pool \cup D) + Cardinality(F)
  BY <1>4, <1>7, <1>8, DisjointUnion
<1> QED
  BY <1>3, <1>6, <1>7, <1>8, <1>9 DEF PoolConserved, D, F

(* No pool chunk is lost or given to two owners.                           *)
THEOREM PoolIsConserved == LocalSpec => []PoolConserved
<1>1. StoreInv /\ LimitInv => PoolConserved
  BY OneOwner, WorkerAlone DEF Threads
<1> QED
  BY <1>1, LocalInvariance, PTL
(***************************************************************************)
(* The backend implements AbstractCache.                                   *)
(***************************************************************************)
(* What the abstract cache holds and writes.                               *)
Held == [k \in DOMAIN dict |-> mem_pool[dict[k]]]
Written == [t \in Threads |-> IF Putting(t) THEN {job[t].key} ELSE {}]

(* What is held is the data of its keys, so it is known by the keys.       *)
LEMMA HeldKeys ==
    ASSUME StoreInv, StoreInv'
    PROVE  Held = [k \in DOMAIN dict |-> k] /\ Held' = [k \in DOMAIN dict' |-> k]
BY DEF StoreInv, EntriesInv, Held

(* The initial states.                                                     *)
LEMMA RefineInit == LocalInit => Abstract!Init
<1> SUFFICES ASSUME LocalInit PROVE Abstract!Init
  OBVIOUS
<1>1. \A t \in Threads : ~Putting(t)
  BY DEF LocalInit, IdleJob, Putting, PutPcs
<1> QED
  BY <1>1 DEF LocalInit, Abstract!Init

(* A step that the abstract cache does not see.                            *)
LEMMA RefineStutter ==
    ASSUME Held' = Held, Written' = Written, put_queue' = put_queue
    PROVE  [Abstract!Next]_(Abstract!cache)
BY DEF Held, Written, Abstract!cache

(* A step that forgets some of the keys.                                   *)
LEMMA RefineForget ==
    ASSUME StoreInv, StoreInv', Written' = Written, put_queue' = put_queue,
           DOMAIN dict' \subseteq DOMAIN dict
    PROVE  [Abstract!Next]_(Abstract!cache)
<1>1. Held' = [k \in DOMAIN dict' |-> Held[k]] /\ DOMAIN Held = DOMAIN dict
  BY HeldKeys
<1>2. \E K \in SUBSET DOMAIN Held : Held' = [k \in K |-> Held[k]]
  BY <1>1
<1>3. Abstract!Forget
  BY <1>2 DEF Abstract!Forget, Abstract!Keep, Held, Written
<1> QED
  BY <1>3 DEF Abstract!Next

(* A put that goes on writes what it wrote.                                *)
LEMMA WrittenMove ==
    ASSUME NEW t \in Threads, Putting(t), NEW pc \in PutPcs, NEW v, NEW s, MovedTo(t, pc, v, s)
    PROVE  Written' = Written
<1>1. \A u \in Threads : (Putting(u)' <=> Putting(u)) /\ job'[u].key = job[u].key
  BY DEF MovedTo, Putting
<1> QED
  BY <1>1 DEF Written

(* Every step of the worker's put.                                         *)
LEMMA RefineContinue ==
    ASSUME StoreInv, StoreInv', LimitInv, ContinuePut("worker")
    PROVE  [Abstract!Next]_(Abstract!cache)
<1>0. LocalTypeOK /\ OrderInv /\ "worker" \in Threads /\ Alone("worker")
  BY WorkerAlone DEF StoreInv, Threads
<1>1. Putting("worker") /\ UNCHANGED put_queue
  BY DEF ContinuePut, RemoveVictim, VictimsRemoved, RemoveOld, Allocate, BeginCopy, EndCopy,
         Publish, Putting, PutPcs
<1>2. CASE Publish("worker")
  <2>1. PICK k : k = job["worker"].key
    OBVIOUS
  <2>2. k \notin DOMAIN dict /\ DOMAIN dict' = DOMAIN dict \cup {k}
        /\ \A u \in Threads : ~Putting(u)'
    BY <1>0, <1>2, <2>1, StorePublish
  <2>3. Held' = Assoc(Held, k, k)
    BY <2>2, HeldKeys DEF Assoc
  <2>4. Written["worker"] = {k}
    BY <1>0, <1>1, <2>1 DEF Written
  <2>5. Written' = [Written EXCEPT !["worker"] = {}]
    BY <1>0, <2>2 DEF Written, Alone
  <2>6. Abstract!Finish("worker")
    BY <1>1, <2>3, <2>4, <2>5 DEF Abstract!Finish, Held, Written, Assoc, Abstract!Assoc
  <2> QED
    BY <1>0, <2>6 DEF Abstract!Next
<1>3. CASE ~Publish("worker")
  <2>1. Written' = Written
    <3>1. \E pc, v, s : pc \in PutPcs /\ MovedTo("worker", pc, v, s)
      BY <1>0, <1>3, PutSteps DEF ContinuePut, PutPcs
    <3> QED
      BY <1>0, <1>1, <3>1, WrittenMove
  <2>2. DOMAIN dict' \subseteq DOMAIN dict
    <3>1. ASSUME NEW k \in DOMAIN dict, Remove(k) PROVE DOMAIN dict' \subseteq DOMAIN dict
      BY <1>0, <3>1, RemoveEffect
    <3>2. UNCHANGED dict \/ \E k \in DOMAIN dict : Remove(k)
      BY <1>3 DEF ContinuePut, RemoveVictim, VictimsRemoved, RemoveOld, Allocate, BeginCopy,
                  EndCopy, storeVars
    <3> QED
      BY <3>1, <3>2
  <2> QED
    BY <1>1, <2>1, <2>2, RefineForget
<1> QED
  BY <1>2, <1>3

(* Every step is a step of AbstractCache or changes nothing of it.         *)
LEMMA RefineNext ==
    ASSUME Capacity # 0, StoreInv, StoreInv', LimitInv, [LocalNext]_localVars
    PROVE  [Abstract!Next]_(Abstract!cache)
<1>0. LocalTypeOK /\ "worker" \in Threads /\ job \in [Threads -> Jobs]
  BY DEF StoreInv, LocalTypeOK, Threads
<1>1. CASE StartNonblocking
  <2>1. /\ put_queue # <<>> /\ put_queue' = Tail(put_queue)
        /\ Putting("worker")' /\ job'["worker"].key = Head(put_queue)
    BY <1>1, StartLimit
  <2>2. UNCHANGED dict /\ ~Putting("worker") /\ job'["main"] = job["main"]
    BY <1>0, <1>1 DEF StartNonblocking, UpdateOnPut, Putting, PutPcs, Threads
  <2>3. Written["worker"] = {} /\ Written' = [Written EXCEPT !["worker"] = {Head(put_queue)}]
    BY <1>0, <2>1, <2>2 DEF Written, Putting, Threads
  <2>4. Held' = [k \in DOMAIN Held |-> Held[k]]
    BY <2>2, HeldKeys
  <2>5. \E K \in SUBSET DOMAIN Held : Held' = [k \in K |-> Held[k]]
    BY <2>4
  <2>6. Abstract!BeginQueued("worker")
    BY <2>1, <2>3, <2>5 DEF Abstract!BeginQueued, Abstract!BeginWith, Abstract!Keep, Held, Written
  <2> QED
    BY <1>0, <2>6 DEF Abstract!Next
<1>2. CASE ContinuePut("worker")
  BY <1>2, RefineContinue
<1>3. CASE StopWorker
  <2>1. Held' = Held /\ put_queue' = put_queue
    BY <1>3 DEF StopWorker, Held, storeVars
  <2>2. \A t \in Threads : ~(job'[t] # job[t] /\ (Putting(t) \/ Putting(t)'))
    <3>1. job["worker"] \in [pc : {"idle", "stopped"}]
      BY <1>0, <1>3 DEF StopWorker, Jobs, PutPcs
    <3> QED
      BY <1>0, <1>3, <3>1 DEF StopWorker, Putting, PutPcs, Threads
  <2>3. Written' = Written
    BY <2>2 DEF Written, Putting
  <2> QED
    BY <2>1, <2>3, RefineStutter
<1>4. ASSUME NEW k \in Keys, EnqueuePut(k)
      PROVE  [Abstract!Next]_(Abstract!cache)
  <2>1. Held' = Held /\ Written' = Written /\ put_queue' = Append(put_queue, k)
    BY <1>4 DEF EnqueuePut, Held, Written, Putting, storeVars
  <2>2. Abstract!Accept(k)
    BY <2>1 DEF Abstract!Accept, Held, Written
  <2> QED
    BY <2>2 DEF Abstract!Next
<1>5. CASE (\E k \in Keys : Get(k)) \/ Close \/ Terminated \/ UNCHANGED localVars
  <2>1. Held' = Held /\ Written' = Written /\ put_queue' = put_queue
    BY <1>5 DEF Get, Close, Terminated, localVars, storeVars, Held, Written, Putting
  <2> QED
    BY <2>1, RefineStutter
<1> QED
  BY <1>1, <1>2, <1>3, <1>4, <1>5 DEF LocalNext, LocalWorker

(* The backend implements the cache its callers rely on, as soon as a      *)
(* chunk fits it.  (Otherwise every put ends where it begins, and the      *)
(* abstract cache has no put that is over at once.)                        *)
THEOREM LocalRefinesCache ==
    ASSUME Capacity # 0
    PROVE  LocalSpec => ImplementsCache
<1>1. StoreInv /\ StoreInv' /\ LimitInv /\ [LocalNext]_localVars => [Abstract!Next]_(Abstract!cache)
  BY RefineNext
<1> QED
  BY LocalInvariance, RefineInit, <1>1, PTL DEF LocalSpec, ImplementsCache, Abstract!Spec

(***************************************************************************)
(* The victims are the least recently used chunks: the dictionary stays    *)
(* sorted by the last uses, whatever the worker does in between.           *)
(***************************************************************************)
AgeInv ==
    /\ clock \in Nat
    /\ lastUse \in [Keys -> 0 .. clock]
    /\ Aged(order, lastUse)

(* A key that is used now goes to the end of what was sorted before.       *)
LEMMA UseAged ==
    ASSUME AgeInv, NEW q \in Seq(Keys), Aged(q, lastUse), NEW k \in Keys, k \notin Range(q),
           order' = Append(q, k), Use(k)
    PROVE  AgeInv'
<1>1. lastUse' = [lastUse EXCEPT ![k] = clock + 1] /\ clock' = clock + 1 /\ clock \in Nat
      /\ lastUse \in [Keys -> Nat] /\ \A x \in Keys : lastUse[x] <= clock
  BY DEF Use, AgeInv
<1>2. clock' \in Nat /\ lastUse' \in [Keys -> 0 .. clock'] /\ lastUse'[k] = clock + 1
      /\ \A x \in Keys : x # k => lastUse'[x] = lastUse[x]
  BY <1>1
<1>3. Aged(q, lastUse')
  <2>1. \A i \in DOMAIN q : q[i] \in Keys /\ q[i] # k
    BY DEF Range
  <2> QED
    BY <1>2, <2>1 DEF Aged
<1>4. \A x \in Range(q) : lastUse'[x] < clock + 1
  <2>1. \A x \in Range(q) : x \in Keys /\ x # k
    BY DEF Range
  <2> QED
    BY <1>1, <1>2, <2>1
<1>5. Aged(Append(q, k), lastUse')
  BY <1>2, <1>3, <1>4, AppendedAged
<1> QED
  BY <1>2, <1>5 DEF AgeInv

(* The steps of the worker.                                                *)
LEMMA WorkerAged ==
    ASSUME StoreInv, LimitInv, AgeInv, LocalWorker,
           IF StoresNew THEN Use(job["worker"].key) ELSE UNCHANGED history
    PROVE  AgeInv'
<1>0. /\ LocalTypeOK /\ OrderInv /\ "worker" \in Threads /\ Alone("worker")
      /\ order \in Seq(Keys) /\ Distinct(order) /\ Range(order) = DOMAIN dict
  BY WorkerAlone DEF StoreInv, LocalTypeOK, OrderInv, Threads
<1>1. ASSUME ~StoresNew, UNCHANGED order
      PROVE  AgeInv'
  BY <1>1 DEF AgeInv, history
<1>2. ASSUME ~StoresNew, NEW k \in DOMAIN dict, Remove(k)
      PROVE  AgeInv'
  <2>1. Aged(Popped(order, k), lastUse) /\ order' = Popped(order, k)
    BY <1>0, <1>2, PoppedAged DEF AgeInv, Remove
  <2> QED
    BY <1>2, <2>1 DEF AgeInv, history
<1>3. CASE StartNonblocking \/ StopWorker
  <2>1. ~StoresNew /\ UNCHANGED order
    BY <1>3 DEF StartNonblocking, StopWorker, StoresNew, storeVars
  <2> QED
    BY <1>1, <2>1
<1>4. CASE RemoveVictim("worker")
  <2>1. job["worker"].pc = "evict" /\ ~StoresNew
    BY <1>4 DEF RemoveVictim, StoresNew
  <2>2. PICK k : k = Head(job["worker"].evict)
    OBVIOUS
  <2>3. (k \in DOMAIN dict /\ Remove(k)) \/ UNCHANGED order
    BY <1>4, <2>2 DEF RemoveVictim
  <2> QED
    BY <1>1, <1>2, <2>1, <2>3
<1>5. CASE RemoveOld("worker")
  <2>1. job["worker"].pc = "old" /\ ~StoresNew
    BY <1>5 DEF RemoveOld, StoresNew
  <2>2. PICK k : k = job["worker"].key
    OBVIOUS
  <2>3. (k \in DOMAIN dict /\ Remove(k)) \/ UNCHANGED order
    BY <1>5, <2>2 DEF RemoveOld
  <2> QED
    BY <1>1, <1>2, <2>1, <2>3
<1>6. CASE VictimsRemoved("worker") \/ Allocate("worker") \/ BeginCopy("worker") \/ EndCopy("worker")
  <2>1. ~StoresNew /\ UNCHANGED order
    BY <1>6 DEF VictimsRemoved, Allocate, BeginCopy, EndCopy, StoresNew, storeVars
  <2> QED
    BY <1>1, <2>1
<1>7. CASE Publish("worker")
  <2>1. PICK k : k = job["worker"].key
    OBVIOUS
  <2>2. k \in Keys /\ k \notin Range(order)
    BY <1>0, <1>7, <2>1, StorePublish
  <2>3. order' = Append(order, k)
    BY <1>7, <2>1, <2>2 DEF Publish, Inserted, Range
  <2>4. Use(k)
    <3>1. job'["worker"] = IdleJob
      BY <1>0, <1>7 DEF Publish, LocalTypeOK
    <3>2. StoresNew
      BY <1>7, <3>1 DEF Publish, StoresNew, IdleJob
    <3> QED
      BY <2>1, <3>2
  <2>5. Aged(order, lastUse)
    BY DEF AgeInv
  <2> QED
    BY <1>0, <2>2, <2>3, <2>4, <2>5, UseAged
<1> QED
  BY <1>3, <1>4, <1>5, <1>6, <1>7 DEF LocalWorker, ContinuePut

(* A read of a cached chunk.                                               *)
LEMMA ReadAged ==
    ASSUME StoreInv, AgeInv, NEW k \in Keys, Get(k),
           IF k \in DOMAIN dict THEN Use(k) ELSE UNCHANGED history
    PROVE  AgeInv'
<1>1. CASE k \notin DOMAIN dict
  <2>1. UNCHANGED <<order, history>>
    BY <1>1 DEF Get, Touch
  <2> QED
    BY <2>1 DEF AgeInv, history
<1>2. CASE k \in DOMAIN dict
  <2>1. /\ order \in Seq(Keys) /\ Distinct(order) /\ k \in Range(order)
        /\ order' = MovedToEnd(order, k) /\ Use(k) /\ Aged(order, lastUse)
    BY <1>2 DEF StoreInv, LocalTypeOK, OrderInv, Get, Touch, AgeInv
  <2>2. PICK q : q = Popped(order, k)
    OBVIOUS
  <2>3. q \in Seq(Keys) /\ Range(q) = Range(order) \ {k}
    BY <2>1, <2>2, PoppedPresent
  <2>4. Aged(q, lastUse)
    BY <2>1, <2>2, PoppedAged
  <2>5. order' = Append(q, k) /\ k \notin Range(q)
    BY <2>1, <2>2, <2>3 DEF MovedToEnd
  <2> QED
    BY <2>1, <2>3, <2>4, <2>5, UseAged
<1> QED
  BY <1>1, <1>2

(* Initially, and with every step.                                         *)
LEMMA InitAged == UsedInit => AgeInv
BY DEF UsedInit, LocalInit, AgeInv, Aged
LEMMA NextAged ==
    ASSUME StoreInv, LimitInv, AgeInv, [UsedNext]_usedVars
    PROVE  AgeInv' /\ [LocalNext]_localVars
<1>1. CASE \E k \in Keys : Get(k) /\ IF k \in DOMAIN dict THEN Use(k) ELSE UNCHANGED history
  BY <1>1, ReadAged DEF LocalNext
<1>2. CASE LocalWorker /\ IF StoresNew THEN Use(job["worker"].key) ELSE UNCHANGED history
  BY <1>2, WorkerAged DEF LocalNext
<1>3. CASE (Close \/ Terminated \/ \E k \in Keys : EnqueuePut(k)) /\ UNCHANGED history
  <2>1. UNCHANGED <<order, history>>
    BY <1>3 DEF Close, Terminated, EnqueuePut, localVars, storeVars
  <2>2. AgeInv'
    BY <2>1 DEF AgeInv, history
  <2> QED
    BY <1>3, <2>2 DEF LocalNext
<1>4. CASE UNCHANGED usedVars
  BY <1>4 DEF usedVars, localVars, storeVars, history, AgeInv
<1> QED
  BY <1>1, <1>2, <1>3, <1>4 DEF UsedNext

(* A put that starts takes the oldest.                                     *)
LEMMA OldestGoes ==
    ASSUME StoreInv, LimitInv, AgeInv, StartNonblocking, job'["worker"].pc \in {"evict", "old"}
    PROVE  \A v \in Range(job'["worker"].evict), k \in DOMAIN dict \ Range(job'["worker"].evict) :
               lastUse[v] < lastUse[k]
<1> DEFINE e == Victims(order, current_cache_size, Capacity)
<1>1. /\ job["worker"].pc = "idle" /\ order \in Seq(Keys) /\ Len(order) \in Nat
      /\ Range(order) = DOMAIN dict /\ current_cache_size \in Int /\ Capacity \in Nat
      /\ 0 <= current_cache_size /\ current_cache_size <= Capacity /\ DOMAIN order = 1 .. Len(order)
      /\ Aged(order, lastUse) /\ job \in [Threads -> Jobs] /\ "worker" \in Threads
  BY LocalAssumption DEF StartNonblocking, StoreInv, LocalTypeOK, OrderInv, LimitInv, AgeInv, Threads
<1>2. Capacity # 0
  BY <1>1 DEF StartNonblocking, UpdateOnPut
<1>3. job'["worker"].evict = e /\ ~RunsOut(order, current_cache_size, Capacity)
  <2>1. PICK h : h = Head(put_queue)
    OBVIOUS
  <2>2. job'["worker"] = IF RunsOut(order, current_cache_size, Capacity)
                         THEN Job("raised", h, h, <<>>) ELSE Job("evict", h, h, e)
    BY <1>1, <1>2, <2>1 DEF StartNonblocking, UpdateOnPut
  <2> QED
    BY <2>2 DEF Job
<1>4. CASE current_cache_size = Capacity
  <2>1. e = SubSeq(order, 1, 1) /\ Len(order) >= 1
    BY <1>1, <1>3, <1>4 DEF Victims, Excess, RunsOut
  <2>2. Range(e) = {order[1]}
    <3>1. Len(e) = 1 /\ e[1] = order[1] /\ DOMAIN e = 1 .. 1
      BY <1>1, <2>1
    <3> HIDE DEF e
    <3> QED
      BY <3>1 DEF Range
  <2>3. SUFFICES ASSUME NEW k \in Range(order), k # order[1]
                 PROVE  lastUse[order[1]] < lastUse[k]
    BY <1>1, <1>3, <2>2
  <2>4. PICK j \in 1 .. Len(order) : order[j] = k
    BY <1>1 DEF Range
  <2>5. j > 1 /\ 1 \in DOMAIN order
    BY <1>1, <2>1, <2>3, <2>4
  <2> QED
    BY <1>1, <2>4, <2>5 DEF Aged
<1>5. CASE current_cache_size < Capacity
  <2>1. Excess(current_cache_size, Capacity) \in Int /\ Excess(current_cache_size, Capacity) <= 0
    BY <1>1, <1>5 DEF Excess
  <2>2. e = <<>>
    BY <1>1, <2>1 DEF Victims
  <2>3. Range(e) = {}
    BY <2>2 DEF Range
  <2> QED
    BY <1>3, <2>3
<1> QED
  BY <1>1, <1>4, <1>5

(* "Update cache recency when a cache is used": a put evicts the chunks    *)
(* that were stored or read least recently, for every capacity, whatever   *)
(* was read while earlier puts were removing, copying and publishing.      *)
THEOREM LeastRecentGoesFirst == UsedSpec => EvictsLeastRecent
<1> DEFINE Oldest ==
        \A t \in Threads :
          (job[t].pc = "idle" /\ job'[t].pc \in {"evict", "old"}) =>
              \A v \in Range(job'[t].evict), k \in DOMAIN dict \ Range(job'[t].evict) :
                  lastUse[v] < lastUse[k]
<1>1. UsedInit => StoreInv /\ LimitInv /\ AgeInv
  BY InitStore, InitAged DEF UsedInit
<1>2. StoreInv /\ LimitInv /\ AgeInv /\ [UsedNext]_usedVars => (StoreInv /\ LimitInv /\ AgeInv)'
  BY NextStore, NextAged
<1>3. ASSUME StoreInv, LimitInv, AgeInv, UsedNext
      PROVE  Oldest
  <2>1. SUFFICES ASSUME NEW t \in Threads, job[t].pc = "idle", job'[t].pc \in {"evict", "old"}
                 PROVE  \A v \in Range(job'[t].evict), k \in DOMAIN dict \ Range(job'[t].evict) :
                            lastUse[v] < lastUse[k]
    OBVIOUS
  <2>2. job # job'
    BY <2>1
  <2>3. t = "worker"
    <3>1. StoreInv' /\ LimitInv'
      BY <1>3, NextStore, NextAged
    <3> QED
      BY <2>1, <3>1 DEF LimitInv, Threads, IdleJob
  <2>4. StartNonblocking \/ ContinuePut("worker") \/ StopWorker
    BY <1>3, <2>2 DEF UsedNext, LocalWorker, Get, Close, Terminated, EnqueuePut, localVars
  <2>5. ~ContinuePut("worker")
    BY <2>1, <2>3 DEF ContinuePut, RemoveVictim, VictimsRemoved, RemoveOld, Allocate, BeginCopy,
       EndCopy, Publish
  <2>6. ~StopWorker
    <3>1. job \in [Threads -> Jobs] /\ job["worker"] \in [pc : {"idle", "stopped"}]
      BY <1>3, <2>1, <2>3 DEF StoreInv, LocalTypeOK, Jobs, PutPcs
    <3>2. StopWorker => job'["worker"].pc = "stopped"
      BY <2>3, <3>1 DEF StopWorker
    <3> QED
      BY <2>1, <2>3, <3>2
  <2> QED
    BY <1>3, <2>1, <2>3, <2>4, <2>5, <2>6, OldestGoes
<1>4. StoreInv /\ LimitInv /\ AgeInv /\ [UsedNext]_usedVars => [Oldest]_usedVars
  BY <1>3
<1> QED
  BY <1>1, <1>2, <1>4, PTL DEF UsedSpec, EvictsLeastRecent
=============================================================================
