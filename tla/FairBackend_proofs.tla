------------------------ MODULE FairBackend_proofs ------------------------
(***************************************************************************)
(* Proofs about FairBackend, for every value of its constants: types and   *)
(* the owners of pool chunks; the lock, the evictor's decisions, its byte  *)
(* count and its tables; the memory of the pool; and the backend as an     *)
(* implementation of AbstractCache.                                        *)
(***************************************************************************)
EXTENDS FairBackend, FiniteSetTheorems, WellFoundedInduction, TLAPS

(***************************************************************************)
(* The helpers on Python dictionaries and on the evictor's tables keep     *)
(* their types.                                                            *)
(***************************************************************************)
(* Deleting a key of a dictionary.                                         *)
LEMMA WithoutType ==
    ASSUME NEW f, NEW D, NEW R, NEW k, PartialMap(f, D, R)
    PROVE  PartialMap(Without(f, k), D, R)
BY DEF PartialMap, Without, Restrict

(* Assigning to a key of a dictionary.                                     *)
LEMMA AssocType ==
    ASSUME NEW f, NEW D, NEW R, NEW k \in D, NEW v \in R, PartialMap(f, D, R)
    PROVE  PartialMap(Assoc(f, k, v), D, R)
BY DEF PartialMap, Assoc

(* The share of a chunk is a natural number.                               *)
LEMMA ShareType ==
    ASSUME NEW n \in Nat \ {0}
    PROVE  ShareOf(n) \in Nat
<1>1. SizePerChunk \in Nat
  BY EvictorAssumption
<1> QED
  BY <1>1 DEF ShareOf

(* The sharers of an entry are finitely many, and there is one.            *)
LEMMA SharersType ==
    ASSUME NEW e \in Entries
    PROVE  /\ DOMAIN e.access \subseteq Clients
           /\ IsFiniteSet(DOMAIN e.access)
           /\ Cardinality(DOMAIN e.access) \in Nat \ {0}
<1>1. PICK C \in (SUBSET Clients) \ {{}} : e.access \in [C -> 0 .. MaxTime]
  BY DEF Entries, AccessMaps
<1>2. DOMAIN e.access = C
  BY <1>1
<1>3. IsFiniteSet(C)
  BY <1>1, FS_Subset, EvictorAssumption
<1>4. Cardinality(C) \in Nat /\ Cardinality(C) # 0
  BY <1>1, <1>3, FS_CardinalityType, FS_EmptySet
<1> QED
  BY <1>1, <1>2, <1>3, <1>4

(* Taking the bytes of an entry back leaves natural sizes.                 *)
LEMMA TakeSharesType ==
    ASSUME NEW sizes, NEW e \in Entries, PartialMap(sizes, Clients, Nat)
    PROVE  PartialMap(TakeShares(sizes, e), Clients, Nat)
<1>1. ShareOf(Cardinality(DOMAIN e.access)) \in Nat
  BY SharersType, ShareType
<1> DEFINE sh == ShareOf(Cardinality(DOMAIN e.access))
<1>2. \A c \in DOMAIN sizes : sizes[c] \in Nat
  BY DEF PartialMap
<1>3. \A c \in DOMAIN sizes : NonNeg(sizes[c] - sh) \in Nat
  BY <1>1, <1>2 DEF NonNeg
<1> HIDE DEF sh
<1>4. TakeShares(sizes, e) = [c \in DOMAIN sizes |->
          IF c \in DOMAIN e.access THEN NonNeg(sizes[c] - sh) ELSE sizes[c]]
  BY DEF TakeShares, sh
<1> QED
  BY <1>2, <1>3, <1>4 DEF PartialMap

(* So does sharing an entry with one more client.                          *)
LEMMA GiveSharesType ==
    ASSUME NEW sizes, NEW e \in Entries, NEW c \in Clients, PartialMap(sizes, Clients, Nat)
    PROVE  PartialMap(GiveShares(sizes, e, c), Clients, Nat)
<1> DEFINE old == DOMAIN e.access
           n == Cardinality(old)
<1>1. old \subseteq Clients /\ n \in Nat \ {0} /\ IsFiniteSet(old)
  BY SharersType
<1>2. ShareOf(n) \in Nat /\ ShareOf(n + 1) \in Nat
  BY <1>1, ShareType
<1>3. \A d \in DOMAIN sizes : sizes[d] \in Nat
  BY DEF PartialMap
<1>4. Lookup(sizes, c, 0) \in Nat /\ \A d : Lookup(sizes, d, ShareOf(n)) \in Nat
  BY <1>2, <1>3 DEF Lookup
<1> DEFINE grown == [d \in DOMAIN sizes \cup old \cup {c} |->
                 IF d = c THEN Lookup(sizes, c, 0) + ShareOf(n + 1)
                 ELSE IF d \in old
                      THEN NonNeg(Lookup(sizes, d, ShareOf(n)) - ShareOf(n) + ShareOf(n + 1))
                      ELSE sizes[d]]
<1>5. PartialMap(grown, Clients, Nat)
  <2>1. DOMAIN grown \subseteq Clients
    BY <1>1 DEF PartialMap
  <2>2. \A d : NonNeg(Lookup(sizes, d, ShareOf(n)) - ShareOf(n) + ShareOf(n + 1)) \in Nat
    <3> HIDE DEF n
    <3> QED
      BY <1>2, <1>4 DEF NonNeg
  <2>3. ASSUME NEW d \in DOMAIN sizes \cup old \cup {c} PROVE grown[d] \in Nat
    BY <2>2, <1>2, <1>3, <1>4
  <2> QED
    BY <2>1, <2>3 DEF PartialMap
<1>6. PartialMap(Assoc(sizes, c, Lookup(sizes, c, 0) + SizePerChunk), Clients, Nat)
  <2>1. Lookup(sizes, c, 0) + SizePerChunk \in Nat
    BY <1>4, EvictorAssumption
  <2> QED
    BY <2>1, AssocType
<1> HIDE DEF grown
<1>7. GiveShares(sizes, e, c) \in
        {grown, Assoc(sizes, c, Lookup(sizes, c, 0) + SizePerChunk), sizes}
  BY DEF GiveShares, grown
<1> QED
  BY <1>5, <1>6, <1>7

(* Popping keeps the heaps' type.                                          *)
LEMMA PopInvalidType ==
    ASSUME NEW heaps \in [Lambdas -> Heaps], NEW valid
    PROVE  PopInvalid(heaps, valid) \in [Lambdas -> Heaps]
<1>1. ASSUME NEW l \in Lambdas
      PROVE  {p \in heaps[l] : \E q \in valid[l] : HeapLeq(q, p)} \in Heaps
  <2>1. heaps[l] \in Heaps
    OBVIOUS
  <2> QED
    BY <2>1 DEF Heaps
<1> QED
  BY <1>1 DEF PopInvalid

(* A victim is a cached key that was not chosen before.                    *)
LEMMA MinKeysCached ==
    ASSUME NEW heaps, NEW d, NEW x, NEW c
    PROVE  /\ MinKeys(ValidGlobal(heaps, d, x)) \subseteq DOMAIN d \ x
           /\ MinKeys(ValidClient(heaps, c, d, x)) \subseteq DOMAIN d \ x
<1>1. ASSUME NEW k \in MinKeys(ValidGlobal(heaps, d, x)) PROVE k \in DOMAIN d \ x
  <2>1. PICK l \in Lambdas : \E p \in ValidGlobal(heaps, d, x)[l] : k = p[2]
    BY DEF MinKeys
  <2> QED
    BY <2>1 DEF ValidGlobal
<1>2. ASSUME NEW k \in MinKeys(ValidClient(heaps, c, d, x)) PROVE k \in DOMAIN d \ x
  <2>1. PICK l \in Lambdas : \E p \in ValidClient(heaps, c, d, x)[l] : k = p[2]
    BY DEF MinKeys
  <2> QED
    BY <2>1 DEF ValidClient
<1> QED
  BY <1>1, <1>2

(* The entries the code makes are entries.                                 *)
LEMMA TouchedType ==
    ASSUME NEW e \in Entries, NEW c \in Clients, now \in 0 .. MaxTime
    PROVE  Touched(e, c) \in Entries
<1>1. PICK C \in (SUBSET Clients) \ {{}} : e.access \in [C -> 0 .. MaxTime]
  BY DEF Entries, AccessMaps
<1>2. Assoc(e.access, c, now) \in [C \cup {c} -> 0 .. MaxTime]
  BY <1>1 DEF Assoc
<1>3. C \cup {c} \in (SUBSET Clients) \ {{}}
  BY <1>1
<1>4. Assoc(e.access, c, now) \in AccessMaps
  BY <1>2, <1>3 DEF AccessMaps
<1> QED
  BY <1>4 DEF Touched, Entries

(* ... also the one that register_new_cache records.                       *)
LEMMA NewEntryType ==
    ASSUME NEW t \in Threads, job[t] \in PutJobs, job[t].slot \in Slots,
           now \in 0 .. MaxTime
    PROVE  NewEntry(t) \in Entries
<1>1. job[t].client \in Clients /\ job[t].lambda \in Lambdas
  BY DEF PutJobs
<1>2. [c \in {job[t].client} |-> now] \in AccessMaps
  <2>1. {job[t].client} \in (SUBSET Clients) \ {{}}
    BY <1>1
  <2>2. [c \in {job[t].client} |-> now] \in [{job[t].client} -> 0 .. MaxTime]
    OBVIOUS
  <2> QED
    BY <2>1, <2>2 DEF AccessMaps
<1> QED
  BY <1>1, <1>2 DEF NewEntry, Entries

(* Pushing the score of an entry keeps the heaps' type.                    *)
LEMMA PushType ==
    ASSUME NEW heaps \in [Lambdas -> Heaps], NEW l \in Lambdas,
           NEW e \in Entries, NEW key \in Keys
    PROVE  [heaps EXCEPT ![l] = @ \cup {<<Score(e), key>>}] \in [Lambdas -> Heaps]
<1>1. <<Score(e), key>> \in {Score(x) : x \in Entries} \X Keys
  OBVIOUS
<1>2. heaps[l] \cup {<<Score(e), key>>} \in Heaps
  BY <1>1 DEF Heaps
<1> QED
  BY <1>2

(* A pool chunk is allocated exactly while a put fills it.                 *)
SlotType == \A t \in Threads : HoldsSlot(t) => job[t].slot \in Slots

(* The state of a thread tells which kind of call it executes.             *)
LEMMA JobByPc ==
    ASSUME TypeOK, NEW t \in Threads
    PROVE  /\ job[t].pc \in PutPcs => job[t] \in PutJobs
           /\ job[t].pc = "update" => job[t] \in UpdateJobs
<1>1. job[t] \in {IdleJob, StoppedJob} \cup PutJobs \cup UpdateJobs
  BY DEF TypeOK
<1> QED
  BY <1>1 DEF IdleJob, StoppedJob, PutJobs, UpdateJobs, PutPcs

(* remove(key) keeps the types of what it writes.                          *)
LEMMA RemoveType ==
    ASSUME TypeOK, NEW key \in Keys, Remove(key)
    PROVE  /\ PartialMap(dict', Keys, Entries)
           /\ free_pool' \subseteq Slots
           /\ PartialMap(client_cache_sizes', Clients, Nat)
           /\ PartialMap(key_to_clients', Keys, SUBSET Clients)
<1>1. CASE key \in DOMAIN dict
  <2>1. dict[key] \in Entries
    BY <1>1 DEF TypeOK, PartialMap
  <2>2. dict[key].slot \in Slots
    BY <2>1 DEF Entries
  <2>3. PartialMap(Without(dict, key), Keys, Entries)
    BY WithoutType DEF TypeOK
  <2>4. PartialMap(TakeShares(client_cache_sizes, dict[key]), Clients, Nat)
    BY <2>1, TakeSharesType DEF TypeOK
  <2>5. PartialMap(Without(key_to_clients, key), Keys, SUBSET Clients)
    BY WithoutType DEF TypeOK
  <2> QED
    BY <1>1, <2>2, <2>3, <2>4, <2>5 DEF Remove, Freed, TypeOK
<1>2. CASE key \notin DOMAIN dict
  BY <1>2 DEF Remove, TypeOK
<1> QED
  BY <1>1, <1>2

(* Starting a put keeps the types.                                         *)
LEMMA StartPutType ==
    ASSUME TypeOK, NEW t \in Threads, NEW item \in PutItems, StartPut(t, item),
           put_queue' \in Seq(PutItems), nputs' \in 0 .. MaxPuts
    PROVE  TypeOK'
<1>1. item.key \in Keys /\ item.client \in Clients /\ item.lambda \in Lambdas
      /\ item.retrieved \in Prefixes
  BY DEF PutItems
<1>2. OldSize(item.key) \in {0, SizePerChunk} /\ SizePerChunk \in Nat
  BY EvictorAssumption DEF OldSize
<1>3. current_cache_size' \in Int
  BY <1>2 DEF StartPut, TypeOK
<1>4. StartedJob(item, OldSize(item.key)) \in PutJobs
  BY <1>1, <1>2 DEF StartedJob, PutJobs, PutPcs
<1>5. job' \in [Threads -> {IdleJob, StoppedJob} \cup PutJobs \cup UpdateJobs]
  BY <1>4 DEF StartPut, TypeOK
<1>6. Remove(item.key)
  BY DEF StartPut
<1>7. /\ PartialMap(dict', Keys, Entries)
      /\ free_pool' \subseteq Slots
      /\ PartialMap(client_cache_sizes', Clients, Nat)
      /\ PartialMap(key_to_clients', Keys, SUBSET Clients)
  BY <1>1, <1>6, RemoveType
<1>8. UNCHANGED <<mem_pool, global_heaps, client_heaps, now, closed, nupdates>> /\ update_lock' = t
  BY DEF StartPut
<1> QED
  BY <1>3, <1>5, <1>7, <1>8 DEF TypeOK, PartialMap

(* Choosing a victim keeps the types.                                      *)
LEMMA ChooseVictimType ==
    ASSUME TypeOK, NEW t \in Threads, job[t].pc \in PutPcs,
           NEW key \in DOMAIN dict, ChooseVictim(t, key)
    PROVE  /\ job' \in [Threads -> {IdleJob, StoppedJob} \cup PutJobs \cup UpdateJobs]
           /\ current_cache_size' \in Int
           /\ PartialMap(client_cache_sizes', Clients, Nat)
           /\ PartialMap(key_to_clients', Keys, SUBSET Clients)
<1>1. key \in Keys /\ dict[key] \in Entries
  BY DEF TypeOK, PartialMap
<1>2. job[t] \in PutJobs
  BY JobByPc
<1>3. [job[t] EXCEPT !.evict = Append(@, key)] \in PutJobs
  <2>1. Append(job[t].evict, key) \in Seq(Keys)
    BY <1>1, <1>2 DEF PutJobs
  <2> QED
    BY <1>2, <2>1 DEF PutJobs
<1>4. job' \in [Threads -> {IdleJob, StoppedJob} \cup PutJobs \cup UpdateJobs]
  <2>1. job' = [job EXCEPT ![t] = [job[t] EXCEPT !.evict = Append(@, key)]]
    BY DEF ChooseVictim
  <2> QED
    BY <1>3, <2>1 DEF TypeOK
<1>5. current_cache_size' \in Int
  BY EvictorAssumption DEF ChooseVictim, TypeOK
<1>6. PartialMap(client_cache_sizes', Clients, Nat)
  BY <1>1, TakeSharesType DEF ChooseVictim, TypeOK
<1>7. PartialMap(key_to_clients', Keys, SUBSET Clients)
  BY WithoutType DEF ChooseVictim, TypeOK
<1> QED
  BY <1>4, <1>5, <1>6, <1>7

(* Moving a put to another control state keeps the type of the jobs.       *)
LEMMA PcType ==
    ASSUME TypeOK, NEW t \in Threads, job[t].pc \in PutPcs, NEW q \in PutPcs
    PROVE  [job EXCEPT ![t].pc = q]
              \in [Threads -> {IdleJob, StoppedJob} \cup PutJobs \cup UpdateJobs]
<1>1. job[t] \in PutJobs
  BY JobByPc
<1>2. [job[t] EXCEPT !.pc = q] \in PutJobs
  BY <1>1 DEF PutJobs
<1> QED
  BY <1>2 DEF TypeOK

(* Every step of a put keeps the types.                                    *)
LEMMA ContinuePutType ==
    ASSUME TypeOK, SlotType, NEW t \in Threads, ContinuePut(t)
    PROVE  TypeOK'
<1> USE DEF cacheVars, evictorTables, envVars
<1>1. CASE EvictBelowThreshold(t)
  <2>1. PICK key \in MinKeys(GlobalCandidates(t)) : ChooseVictim(t, key)
    BY <1>1 DEF EvictBelowThreshold
  <2>2. key \in DOMAIN dict
    BY <2>1, MinKeysCached DEF GlobalCandidates
  <2>3. job[t].pc \in PutPcs
    BY <1>1 DEF EvictBelowThreshold, PutPcs
  <2>4. global_heaps' \in [Lambdas -> Heaps]
    BY <1>1, PopInvalidType DEF EvictBelowThreshold, TypeOK
  <2> QED
    BY <1>1, <2>1, <2>2, <2>3, <2>4, ChooseVictimType DEF EvictBelowThreshold, TypeOK, PartialMap
<1>2. CASE LeaveThreshold(t)
  <2>1. job[t].pc \in PutPcs /\ "maxclient" \in PutPcs
    BY <1>2 DEF LeaveThreshold, PutPcs
  <2>2. job' \in [Threads -> {IdleJob, StoppedJob} \cup PutJobs \cup UpdateJobs]
    BY <1>2, <2>1, PcType DEF LeaveThreshold
  <2>3. global_heaps' \in [Lambdas -> Heaps]
    BY <1>2, PopInvalidType DEF LeaveThreshold, TypeOK
  <2> QED
    BY <1>2, <2>2, <2>3 DEF LeaveThreshold, TypeOK, PartialMap
<1>3. CASE EvictFromMaxClient(t)
  <2>1. PICK c \in MaxClients(client_cache_sizes) :
           /\ client_heaps' = [client_heaps EXCEPT ![c] = PopInvalid(@, ClientCandidates(t, c))]
           /\ \E key \in MinKeys(ClientCandidates(t, c)) : ChooseVictim(t, key)
    BY <1>3 DEF EvictFromMaxClient
  <2>2. PICK key \in MinKeys(ClientCandidates(t, c)) : ChooseVictim(t, key)
    BY <2>1
  <2>3. key \in DOMAIN dict
    BY <2>2, MinKeysCached DEF ClientCandidates
  <2>4. job[t].pc \in PutPcs
    BY <1>3 DEF EvictFromMaxClient, PutPcs
  <2>5. client_heaps' \in [Clients -> [Lambdas -> Heaps]]
    BY <2>1, PopInvalidType DEF TypeOK, MaxClients, PartialMap
  <2> QED
    BY <1>3, <2>2, <2>3, <2>4, <2>5, ChooseVictimType DEF EvictFromMaxClient, TypeOK, PartialMap
<1>4. CASE DropMaxClient(t)
  <2>1. PICK c \in MaxClients(client_cache_sizes) :
           /\ client_heaps' = [client_heaps EXCEPT ![c] = PopInvalid(@, ClientCandidates(t, c))]
           /\ client_cache_sizes' = Without(client_cache_sizes, c)
    BY <1>4 DEF DropMaxClient
  <2>2. client_heaps' \in [Clients -> [Lambdas -> Heaps]]
    BY <2>1, PopInvalidType DEF TypeOK, MaxClients, PartialMap
  <2>3. PartialMap(client_cache_sizes', Clients, Nat)
    BY <2>1, WithoutType DEF TypeOK
  <2> QED
    BY <1>4, <2>2, <2>3 DEF DropMaxClient, TypeOK, PartialMap
<1>5. CASE RefusePut(t)
  <2>1. job[t].pc \in PutPcs /\ "illegal" \in PutPcs
    BY <1>5 DEF RefusePut, PutPcs
  <2>2. job' \in [Threads -> {IdleJob, StoppedJob} \cup PutJobs \cup UpdateJobs]
    BY <1>5, <2>1, PcType DEF RefusePut
  <2> QED
    BY <1>5, <2>2 DEF RefusePut, TypeOK, PartialMap
<1>6. CASE AcceptPut(t)
  <2>1. job[t].pc \in PutPcs /\ "remove" \in PutPcs
    BY <1>6 DEF AcceptPut, PutPcs
  <2>2. job' \in [Threads -> {IdleJob, StoppedJob} \cup PutJobs \cup UpdateJobs]
    BY <1>6, <2>1, PcType DEF AcceptPut
  <2>3. ChunkSize[job[t].key] \in Int
    BY <2>1, JobByPc, BackendAssumption, EvictorAssumption DEF PutJobs
  <2>4. current_cache_size' \in Int
    BY <1>6, <2>3 DEF AcceptPut, TypeOK
  <2> QED
    BY <1>6, <2>2, <2>4 DEF AcceptPut, TypeOK, PartialMap
<1>7. CASE AbandonPut(t)
  <2>1. job[t] \in PutJobs
    BY <1>7, JobByPc DEF AbandonPut, PutPcs
  <2>2. job[t].old \in Int
    BY <2>1, EvictorAssumption DEF PutJobs
  <2>3. current_cache_size' \in Int
    BY <1>7, <2>2 DEF AbandonPut, TypeOK
  <2>4. job' \in [Threads -> {IdleJob, StoppedJob} \cup PutJobs \cup UpdateJobs]
    BY <1>7 DEF AbandonPut, TypeOK
  <2> QED
    BY <1>7, <2>3, <2>4 DEF AbandonPut, TypeOK, PartialMap
<1>8. CASE RemoveVictim(t)
  <2>1. job[t] \in PutJobs /\ job[t].evict # <<>>
    BY <1>8, JobByPc DEF RemoveVictim, PutPcs
  <2>2. job[t].evict \in Seq(Keys)
    BY <2>1 DEF PutJobs
  <2>3. Head(job[t].evict) \in Keys /\ Tail(job[t].evict) \in Seq(Keys)
    BY <2>1, <2>2
  <2>4. [job[t] EXCEPT !.evict = Tail(@)] \in PutJobs
    BY <2>1, <2>3 DEF PutJobs
  <2>5. job' = [job EXCEPT ![t] = [job[t] EXCEPT !.evict = Tail(@)]]
    BY <1>8 DEF RemoveVictim
  <2>6. job' \in [Threads -> {IdleJob, StoppedJob} \cup PutJobs \cup UpdateJobs]
    BY <2>4, <2>5 DEF TypeOK
  <2>7. Remove(Head(job[t].evict))
    BY <1>8 DEF RemoveVictim
  <2>8. /\ PartialMap(dict', Keys, Entries)
        /\ free_pool' \subseteq Slots
        /\ PartialMap(client_cache_sizes', Clients, Nat)
        /\ PartialMap(key_to_clients', Keys, SUBSET Clients)
    BY <2>3, <2>7, RemoveType
  <2> QED
    BY <1>8, <2>6, <2>8 DEF RemoveVictim, TypeOK, PartialMap
<1>9. CASE Allocate(t)
  <2>1. job[t].pc \in PutPcs /\ "dead" \in PutPcs
    BY <1>9 DEF Allocate, PutPcs
  <2>2. CASE free_pool = {}
    <3>1. job' \in [Threads -> {IdleJob, StoppedJob} \cup PutJobs \cup UpdateJobs]
      <4>1. job' = [job EXCEPT ![t].pc = "dead"]
        BY <1>9, <2>2 DEF Allocate
      <4> QED
        BY <4>1, <2>1, PcType
    <3> QED
      BY <1>9, <2>2, <3>1 DEF Allocate, TypeOK, PartialMap
  <2>3. CASE free_pool # {}
    <3> DEFINE s == CHOOSE s \in free_pool : TRUE
    <3>1. s \in free_pool
      BY <2>3
    <3> HIDE DEF s
    <3>2. job' = [job EXCEPT ![t].pc = "copy", ![t].slot = s] /\ free_pool' = Taken(free_pool, s)
          /\ update_lock' = "free"
      BY <1>9, <2>3 DEF Allocate, s
    <3>3. job[t] \in PutJobs /\ s \in Slots
      BY <2>1, <3>1, JobByPc DEF TypeOK
    <3>4. [job[t] EXCEPT !.pc = "copy", !.slot = s] \in PutJobs
      BY <3>3 DEF PutJobs, PutPcs
    <3>5. job' \in [Threads -> {IdleJob, StoppedJob} \cup PutJobs \cup UpdateJobs]
      BY <3>2, <3>4 DEF TypeOK
    <3> QED
      BY <1>9, <3>2, <3>5 DEF Allocate, TypeOK, PartialMap, Taken
  <2> QED
    BY <2>2, <2>3
<1>10. CASE BeginCopy(t)
  <2>1. job[t].pc \in PutPcs /\ "copying" \in PutPcs
    BY <1>10 DEF BeginCopy, PutPcs
  <2>2. job' \in [Threads -> {IdleJob, StoppedJob} \cup PutJobs \cup UpdateJobs]
    BY <1>10, <2>1, PcType DEF BeginCopy
  <2>3. mem_pool' \in [Slots -> Keys \cup {Blank, Torn}]
    BY <1>10 DEF BeginCopy, TypeOK
  <2> QED
    BY <1>10, <2>2, <2>3 DEF BeginCopy, TypeOK, PartialMap
<1>11. CASE EndCopy(t)
  <2>1. job[t].pc \in PutPcs /\ "register" \in PutPcs
    BY <1>11 DEF EndCopy, PutPcs
  <2>2. job' \in [Threads -> {IdleJob, StoppedJob} \cup PutJobs \cup UpdateJobs]
    BY <1>11, <2>1, PcType DEF EndCopy
  <2>3. job[t].key \in Keys
    BY <2>1, JobByPc DEF PutJobs
  <2>4. mem_pool' \in [Slots -> Keys \cup {Blank, Torn}]
    BY <1>11, <2>3 DEF EndCopy, TypeOK
  <2> QED
    BY <1>11, <2>2, <2>4 DEF EndCopy, TypeOK, PartialMap
<1>12. CASE Register(t)
  <2> DEFINE key == job[t].key
             c == job[t].client
             l == job[t].lambda
             pair == <<Score(NewEntry(t)), key>>
  <2>1. job[t] \in PutJobs /\ job[t].slot \in Slots
    BY <1>12, JobByPc DEF Register, PutPcs, SlotType, HoldsSlot, Putting
  <2>2. key \in Keys /\ c \in Clients /\ l \in Lambdas
    BY <2>1 DEF PutJobs
  <2>3. NewEntry(t) \in Entries
    BY <2>1, NewEntryType DEF TypeOK
  <2>4. PartialMap(dict', Keys, Entries)
    BY <1>12, <2>2, <2>3, AssocType DEF Register, TypeOK
  <2>5. PartialMap(key_to_clients', Keys, SUBSET Clients)
    <3>1. Lookup(key_to_clients, key, {}) \cup {c} \in SUBSET Clients
      BY <2>2 DEF Lookup, TypeOK, PartialMap
    <3>2. PartialMap(Assoc(key_to_clients, key, Lookup(key_to_clients, key, {}) \cup {c}),
                     Keys, SUBSET Clients)
      BY <2>2, <3>1, AssocType DEF TypeOK
    <3> QED
      BY <1>12, <3>2 DEF Register, AddClient
  <2>6. global_heaps' \in [Lambdas -> Heaps]
    <3>1. global_heaps' = [global_heaps EXCEPT ![l] = @ \cup {pair}]
      BY <1>12 DEF Register, PushGlobal
    <3> QED
      BY <3>1, <2>2, <2>3, PushType DEF TypeOK
  <2>7. client_heaps' \in [Clients -> [Lambdas -> Heaps]]
    <3>1. [client_heaps[c] EXCEPT ![l] = @ \cup {pair}] \in [Lambdas -> Heaps]
      BY <2>2, <2>3, PushType DEF TypeOK
    <3>2. client_heaps' = [client_heaps EXCEPT ![c] = [client_heaps[c] EXCEPT ![l] = @ \cup {pair}]]
      BY <1>12 DEF Register, PushClient
    <3> QED
      BY <3>1, <3>2 DEF TypeOK
  <2>8. PartialMap(client_cache_sizes', Clients, Nat)
    <3>1. Lookup(client_cache_sizes, c, 0) \in Nat
      BY DEF Lookup, TypeOK, PartialMap
    <3>2. Lookup(client_cache_sizes, c, 0) + SizePerChunk \in Nat
      BY <3>1, EvictorAssumption
    <3> QED
      BY <1>12, <2>2, <3>2, AssocType DEF Register, TypeOK
  <2>9. job' \in [Threads -> {IdleJob, StoppedJob} \cup PutJobs \cup UpdateJobs]
    BY <1>12 DEF Register, TypeOK
  <2>10. UNCHANGED <<free_pool, mem_pool, current_cache_size, update_lock, put_queue, envVars>>
    BY <1>12 DEF Register
  <2> QED
    BY <2>4, <2>5, <2>6, <2>7, <2>8, <2>9, <2>10 DEF TypeOK, PartialMap
<1> QED
  BY <1>1, <1>2, <1>3, <1>4, <1>5, <1>6, <1>7, <1>8, <1>9, <1>10, <1>11, <1>12 DEF ContinuePut

(* An access recorded by update_after_get keeps the types.                 *)
LEMMA UpdateNextType ==
    ASSUME TypeOK, UpdateNext
    PROVE  TypeOK'
<1> DEFINE keys == job["main"].keys
           key == keys[Len(keys)]
           c == job["main"].client
<1>1. "main" \in Threads
  BY DEF Threads
<1>2. job["main"] \in UpdateJobs /\ keys # <<>>
  BY <1>1, JobByPc DEF UpdateNext
<1>3. keys \in Seq(Keys) /\ c \in Clients
  BY <1>2 DEF UpdateJobs
<1>4. SubSeq(keys, 1, Len(keys) - 1) \in Seq(Keys)
  BY <1>2, <1>3
<1>5. [job["main"] EXCEPT !.keys = SubSeq(@, 1, Len(@) - 1)] \in UpdateJobs
  BY <1>2, <1>4 DEF UpdateJobs
<1>6. job' = [job EXCEPT !["main"] = [job["main"] EXCEPT !.keys = SubSeq(@, 1, Len(@) - 1)]]
  BY DEF UpdateNext
<1>7. job' \in [Threads -> {IdleJob, StoppedJob} \cup PutJobs \cup UpdateJobs]
  BY <1>1, <1>5, <1>6 DEF TypeOK
<1>8. UNCHANGED <<free_pool, mem_pool, current_cache_size, update_lock, put_queue, envVars>>
  BY DEF UpdateNext
<1>9. CASE key \in DOMAIN dict
  <2> DEFINE entry == Touched(dict[key], c)
             l == entry.lambda
             pair == <<Score(entry), key>>
  <2>1. UpdateOnGet(key, c)
    BY <1>9 DEF UpdateNext
  <2>2. key \in Keys /\ dict[key] \in Entries
    BY <1>9 DEF TypeOK, PartialMap
  <2>3. entry \in Entries
    BY <1>3, <2>2, TouchedType DEF TypeOK
  <2>4. l \in Lambdas
    BY <2>3 DEF Entries
  <2> HIDE DEF entry, l, key, c, keys
  <2>5. PartialMap(dict', Keys, Entries)
    <3>1. dict' = [dict EXCEPT ![key] = entry]
      BY <2>1 DEF UpdateOnGet, entry
    <3> QED
      BY <3>1, <2>3, <1>9 DEF TypeOK, PartialMap
  <2>6. PartialMap(key_to_clients', Keys, SUBSET Clients)
    <3>1. Lookup(key_to_clients, key, {}) \cup {c} \in SUBSET Clients
      BY <1>3 DEF Lookup, TypeOK, PartialMap
    <3>2. PartialMap(Assoc(key_to_clients, key, Lookup(key_to_clients, key, {}) \cup {c}),
                     Keys, SUBSET Clients)
      BY <2>2, <3>1, AssocType DEF TypeOK
    <3> QED
      BY <2>1, <3>2 DEF UpdateOnGet, AddClient
  <2>7. global_heaps' \in [Lambdas -> Heaps]
    <3>1. global_heaps' = [global_heaps EXCEPT ![l] = @ \cup {pair}]
      BY <2>1 DEF UpdateOnGet, PushGlobal, entry, l
    <3> QED
      BY <3>1, <2>2, <2>3, <2>4, PushType DEF TypeOK
  <2>8. client_heaps' \in [Clients -> [Lambdas -> Heaps]]
    <3>1. ASSUME NEW d \in Clients
          PROVE  [client_heaps[d] EXCEPT ![l] = @ \cup {pair}] \in [Lambdas -> Heaps]
      BY <2>2, <2>3, <2>4, PushType DEF TypeOK
    <3>2. client_heaps' = [d \in Clients |-> IF d \in DOMAIN entry.access
                                THEN [client_heaps[d] EXCEPT ![l] = @ \cup {pair}]
                                ELSE client_heaps[d]]
      BY <2>1 DEF UpdateOnGet, PushShared, entry, l
    <3> QED
      BY <3>1, <3>2 DEF TypeOK
  <2>9. PartialMap(client_cache_sizes', Clients, Nat)
    BY <2>1, <2>2, <1>3, GiveSharesType DEF UpdateOnGet, TypeOK
  <2> QED
    BY <1>7, <1>8, <2>5, <2>6, <2>7, <2>8, <2>9 DEF TypeOK, PartialMap, envVars
<1>10. CASE key \notin DOMAIN dict
  <2>1. UNCHANGED <<dict, client_cache_sizes, evictorTables>>
    BY <1>10 DEF UpdateNext
  <2> QED
    BY <1>7, <1>8, <2>1 DEF TypeOK, PartialMap, envVars, evictorTables
<1> QED
  BY <1>9, <1>10

(* Every step keeps the types.                                             *)
LEMMA NextType ==
    ASSUME TypeOK, SlotType, [Next]_vars
    PROVE  TypeOK'
<1> USE DEF cacheVars, evictorTables, envVars
<1>0. {"main", "worker"} \subseteq Threads
  BY DEF Threads
<1>1. CASE TakePut
  <2>1. put_queue \in Seq(PutItems) /\ put_queue # <<>>
    BY <1>1 DEF TakePut, TypeOK
  <2>2. Head(put_queue) \in PutItems /\ Tail(put_queue) \in Seq(PutItems)
    BY <2>1
  <2>3. StartPut("worker", Head(put_queue)) /\ put_queue' = Tail(put_queue) /\ nputs' = nputs
    BY <1>1 DEF TakePut
  <2>4. nputs' \in 0 .. MaxPuts
    BY <2>3 DEF TypeOK
  <2> QED
    BY <1>0, <2>2, <2>3, <2>4, StartPutType
<1>2. CASE StopWorker
  BY <1>0, <1>2 DEF StopWorker, TypeOK, PartialMap
<1>3. CASE ContinuePut("worker") \/ ContinuePut("main")
  BY <1>0, <1>3, ContinuePutType
<1>4. ASSUME NEW item \in PutItems, EnqueuePut(item) PROVE TypeOK'
  <2>1. put_queue' \in Seq(PutItems)
    BY <1>4 DEF EnqueuePut, TypeOK
  <2>2. nputs' \in 0 .. MaxPuts
    BY <1>4, BackendAssumption DEF EnqueuePut, TypeOK
  <2> QED
    BY <1>4, <2>1, <2>2 DEF EnqueuePut, TypeOK, PartialMap
<1>5. ASSUME NEW item \in PutItems, BlockingPut(item) PROVE TypeOK'
  <2>1. nputs' \in 0 .. MaxPuts /\ put_queue' \in Seq(PutItems)
    BY <1>5, BackendAssumption DEF BlockingPut, TypeOK
  <2>2. StartPut("main", item)
    BY <1>5 DEF BlockingPut
  <2> QED
    BY <1>0, <2>1, <2>2, StartPutType
<1>6. ASSUME NEW c \in Clients, NEW ks \in Prefixes, BeginUpdate(c, ks) PROVE TypeOK'
  <2>1. UpdateJob(c, ks) \in UpdateJobs
    BY BackendAssumption DEF UpdateJob, UpdateJobs
  <2>2. job' \in [Threads -> {IdleJob, StoppedJob} \cup PutJobs \cup UpdateJobs]
    BY <1>6, <2>1 DEF BeginUpdate, TypeOK
  <2>3. nupdates' \in 0 .. MaxUpdates /\ update_lock' \in Threads \cup {"free"}
    BY <1>0, <1>6, BackendAssumption DEF BeginUpdate, TypeOK
  <2> QED
    BY <1>6, <2>2, <2>3 DEF BeginUpdate, TypeOK, PartialMap
<1>7. CASE UpdateNext
  BY <1>7, UpdateNextType
<1>8. CASE EndUpdate
  BY <1>8 DEF EndUpdate, TypeOK, PartialMap
<1>9. CASE Close
  BY <1>9 DEF Close, TypeOK, PartialMap
<1>10. CASE Tick
  BY <1>10, BackendAssumption DEF Tick, TypeOK, PartialMap
<1>11. CASE UNCHANGED vars
  BY <1>11 DEF vars, TypeOK, PartialMap
<1> QED
  BY <1>1, <1>2, <1>3, <1>4, <1>5, <1>6, <1>7, <1>8, <1>9, <1>10, <1>11
  DEF Next, Worker, MainLoop, Terminated

-----------------------------------------------------------------------------
(***************************************************************************)
(* Slots.  SlotsExclusive is not inductive: that the chunk a put fills is  *)
(* one of the pool, and that it is completely written when the put is      *)
(* about to publish it, must be carried along.                             *)
(***************************************************************************)
FilledBeforeRegister ==
    \A t \in Threads : job[t].pc = "register" => mem_pool[job[t].slot] = job[t].key

SlotInv == SlotType /\ SlotsExclusive /\ CachedDataIntact /\ FilledBeforeRegister

(* The puts in flight are those of before, with the same chunk and key.    *)
SameFlights ==
    \A t \in Threads :
        HoldsSlot(t)' => /\ HoldsSlot(t)
                         /\ job'[t].slot = job[t].slot
                         /\ job'[t].key = job[t].key
                         /\ (job'[t].pc = "register" => job[t].pc = "register")

(* A step that changes neither cache, pool nor flights keeps SlotInv.      *)
LEMMA SlotFrame ==
    ASSUME SlotInv, SameFlights, UNCHANGED <<dict, free_pool, mem_pool>>
    PROVE  SlotInv'
<1>1. InFlight' \subseteq InFlight
  BY DEF SameFlights, InFlight
<1>2. \A t \in InFlight' : job'[t].slot = job[t].slot
  BY DEF SameFlights, InFlight
<1>3. SlotType'
  BY DEF SlotInv, SlotType, SameFlights
<1>4. SlotsExclusive'
  BY <1>1, <1>2 DEF SlotInv, SlotsExclusive
<1>5. CachedDataIntact'
  BY DEF SlotInv, CachedDataIntact
<1>6. FilledBeforeRegister'
  BY DEF SlotInv, FilledBeforeRegister, SameFlights, HoldsSlot, Putting
<1> QED
  BY <1>3, <1>4, <1>5, <1>6 DEF SlotInv

(* Removing an entry hands its chunk to the free list.                     *)
LEMMA SlotRemove ==
    ASSUME SlotInv, SameFlights, NEW key, Remove(key), UNCHANGED mem_pool
    PROVE  SlotInv'
<1>1. CASE key \notin DOMAIN dict
  BY <1>1, SlotFrame DEF Remove
<1>2. CASE key \in DOMAIN dict
  <2>1. DOMAIN dict' = DOMAIN dict \ {key} /\ \A k \in DOMAIN dict' : dict'[k] = dict[k]
    BY <1>2 DEF Remove, Without, Restrict
  <2>2. free_pool' = free_pool \cup {dict[key].slot}
    BY <1>2 DEF Remove, Freed
  <2>3. InFlight' \subseteq InFlight /\ \A t \in InFlight' : job'[t].slot = job[t].slot
    BY DEF SameFlights, InFlight
  <2>4. SlotType'
    BY DEF SlotInv, SlotType, SameFlights
  <2>5. SlotsExclusive'
    BY <1>2, <2>1, <2>2, <2>3 DEF SlotInv, SlotsExclusive
  <2>6. CachedDataIntact'
    BY <2>1 DEF SlotInv, CachedDataIntact
  <2>7. FilledBeforeRegister'
    BY DEF SlotInv, FilledBeforeRegister, SameFlights, HoldsSlot, Putting
  <2> QED
    BY <2>4, <2>5, <2>6, <2>7 DEF SlotInv
<1> QED
  BY <1>1, <1>2

(* Replacing the job of one thread by one that holds no chunk keeps the    *)
(* flights of the others.                                                  *)
LEMMA FlightEnds ==
    ASSUME TypeOK, NEW t \in Threads, NEW j, job' = [job EXCEPT ![t] = j],
           j.pc \notin {"copy", "copying", "register"}
    PROVE  SameFlights
BY DEF SameFlights, HoldsSlot, Putting, TypeOK

(* Every step of a put keeps SlotInv.                                      *)
LEMMA ContinuePutSlots ==
    ASSUME TypeOK, SlotInv, NEW t \in Threads, ContinuePut(t)
    PROVE  SlotInv'
<1> USE DEF cacheVars
<1>0. job \in [Threads -> {IdleJob, StoppedJob} \cup PutJobs \cup UpdateJobs]
  BY DEF TypeOK
<1>1. CASE EvictBelowThreshold(t) \/ EvictFromMaxClient(t)
  <2>1. PICK key : ChooseVictim(t, key)
    BY <1>1 DEF EvictBelowThreshold, EvictFromMaxClient
  <2>2. job[t].pc \in {"threshold", "maxclient"}
    BY <1>1 DEF EvictBelowThreshold, EvictFromMaxClient
  <2>3. SameFlights
    BY <1>0, <2>1, <2>2, JobByPc DEF ChooseVictim, SameFlights, HoldsSlot, Putting, PutPcs, PutJobs
  <2> QED
    BY <1>1, <2>3, SlotFrame DEF EvictBelowThreshold, EvictFromMaxClient
<1>2. CASE LeaveThreshold(t) \/ RefusePut(t) \/ AcceptPut(t)
  <2>1. job[t].pc \in {"threshold", "maxclient"}
    BY <1>2 DEF LeaveThreshold, RefusePut, AcceptPut
  <2>2. PICK q \in {"maxclient", "illegal", "remove"} : job' = [job EXCEPT ![t].pc = q]
    BY <1>2 DEF LeaveThreshold, RefusePut, AcceptPut
  <2>3. SameFlights
    BY <1>0, <2>1, <2>2, JobByPc DEF SameFlights, HoldsSlot, Putting, PutPcs, PutJobs
  <2> QED
    BY <1>2, <2>3, SlotFrame DEF LeaveThreshold, RefusePut, AcceptPut
<1>3. CASE DropMaxClient(t)
  <2>1. SameFlights
    BY <1>3 DEF DropMaxClient, SameFlights, HoldsSlot, Putting
  <2> QED
    BY <1>3, <2>1, SlotFrame DEF DropMaxClient
<1>4. CASE AbandonPut(t)
  <2>1. SameFlights
    BY <1>4, FlightEnds DEF AbandonPut, IdleJob
  <2> QED
    BY <1>4, <2>1, SlotFrame DEF AbandonPut
<1>5. CASE RemoveVictim(t)
  <2>1. SameFlights
    BY <1>0, <1>5, JobByPc DEF RemoveVictim, SameFlights, HoldsSlot, Putting, PutPcs, PutJobs
  <2> QED
    BY <1>5, <2>1, SlotRemove DEF RemoveVictim
<1>6. CASE Allocate(t)
  <2>1. CASE free_pool = {}
    <3>1. job' = [job EXCEPT ![t].pc = "dead"] /\ job[t].pc = "remove"
          /\ UNCHANGED <<dict, free_pool, mem_pool>>
      BY <1>6, <2>1 DEF Allocate
    <3>2. SameFlights
      BY <1>0, <3>1, JobByPc DEF SameFlights, HoldsSlot, Putting, PutPcs, PutJobs
    <3> QED
      BY <3>1, <3>2, SlotFrame
  <2>2. CASE free_pool # {}
    <3> DEFINE s == CHOOSE s \in free_pool : TRUE
    <3>1. s \in free_pool
      BY <2>2
    <3> HIDE DEF s
    <3>2. job' = [job EXCEPT ![t].pc = "copy", ![t].slot = s] /\ free_pool' = free_pool \ {s}
          /\ job[t].pc = "remove" /\ UNCHANGED <<dict, mem_pool>>
      BY <1>6, <2>2 DEF Allocate, Taken, s
    <3>3. job[t] \in PutJobs /\ s \in Slots
      BY <3>1, <3>2, JobByPc DEF TypeOK, PutPcs
    <3>4. job'[t].pc = "copy" /\ job'[t].slot = s
      BY <1>0, <3>2, <3>3 DEF PutJobs
    <3>5. \A u \in Threads \ {t} : job'[u] = job[u]
      BY <1>0, <3>2
    <3>6. InFlight' = InFlight \cup {t} /\ t \notin InFlight
      BY <3>2, <3>4, <3>5 DEF InFlight, HoldsSlot, Putting
    <3>7. SlotType'
      BY <3>3, <3>4, <3>5 DEF SlotInv, SlotType, HoldsSlot, Putting
    <3>8. SlotsExclusive'
      <4>1. \A u \in InFlight : job'[u].slot = job[u].slot /\ job[u].slot \notin free_pool
        BY <3>5, <3>6 DEF InFlight, SlotInv, SlotsExclusive
      <4>2. \A k \in DOMAIN dict : dict[k].slot \notin free_pool
        BY DEF SlotInv, SlotsExclusive
      <4>3. \A u \in InFlight' : /\ job'[u].slot \notin free_pool'
                                 /\ \A k \in DOMAIN dict : dict[k].slot # job'[u].slot
        <5>1. \A k \in DOMAIN dict : dict[k].slot # s
          BY <3>1, <4>2
        <5>2. s \notin free_pool'
          BY <3>2
        <5>3. \A u \in InFlight, k \in DOMAIN dict : dict[k].slot # job[u].slot
          BY DEF SlotInv, SlotsExclusive
        <5>4. free_pool' \subseteq free_pool
          BY <3>2
        <5>5. ASSUME NEW u \in InFlight'
              PROVE  job'[u].slot \notin free_pool' /\ \A k \in DOMAIN dict : dict[k].slot # job'[u].slot
          <6>1. CASE u = t
            BY <6>1, <3>4, <5>1, <5>2
          <6>2. CASE u \in InFlight
            BY <6>2, <4>1, <5>3, <5>4
          <6> QED
            BY <3>6, <6>1, <6>2
        <5> QED
          BY <5>5
      <4>4. \A u, v \in InFlight' : u # v => job'[u].slot # job'[v].slot
        BY <3>1, <3>4, <3>6, <4>1 DEF SlotInv, SlotsExclusive
      <4> QED
        <5>1. dict' = dict /\ free_pool' \subseteq free_pool
          BY <3>2
        <5>2. \A k, m \in DOMAIN dict : k # m => dict[k].slot # dict[m].slot
          BY DEF SlotInv, SlotsExclusive
        <5> QED
          BY <4>2, <4>3, <4>4, <5>1, <5>2 DEF SlotsExclusive
    <3>9. CachedDataIntact'
      BY <3>2 DEF SlotInv, CachedDataIntact
    <3>10. FilledBeforeRegister'
      BY <3>2, <3>4, <3>5 DEF SlotInv, FilledBeforeRegister
    <3> QED
      BY <3>7, <3>8, <3>9, <3>10 DEF SlotInv
  <2> QED
    BY <2>1, <2>2
<1>7. CASE BeginCopy(t) \/ EndCopy(t)
  <2>1. /\ job[t].pc \in {"copy", "copying"}
        /\ \E q \in {"copying", "register"} : job' = [job EXCEPT ![t].pc = q]
        /\ \E v \in {Torn, job[t].key} : mem_pool' = [mem_pool EXCEPT ![job[t].slot] = v]
        /\ UNCHANGED <<dict, free_pool>>
    BY <1>7 DEF BeginCopy, EndCopy
  <2>2. t \in InFlight /\ job[t] \in PutJobs /\ job[t].slot \in Slots
    BY <2>1, JobByPc DEF InFlight, HoldsSlot, Putting, PutPcs, SlotInv, SlotType
  <2>3. job'[t].slot = job[t].slot /\ job'[t].key = job[t].key
        /\ job'[t].pc \in {"copying", "register"}
    BY <1>0, <2>1, <2>2 DEF PutJobs
  <2>4. \A u \in Threads \ {t} : job'[u] = job[u]
    BY <1>0, <2>1
  <2>5. InFlight' = InFlight
    BY <2>2, <2>3, <2>4 DEF InFlight, HoldsSlot, Putting
  <2>6. \A s \in Slots \ {job[t].slot} : mem_pool'[s] = mem_pool[s]
    BY <2>1 DEF TypeOK
  <2>7. SlotType'
    BY <2>2, <2>3, <2>4 DEF SlotInv, SlotType, HoldsSlot, Putting
  <2>8. SlotsExclusive'
    BY <2>1, <2>3, <2>4, <2>5 DEF SlotInv, SlotsExclusive, InFlight
  <2>9. CachedDataIntact'
    <3>1. ASSUME NEW k \in DOMAIN dict PROVE mem_pool'[dict[k].slot] = k
      <4>1. dict[k].slot \in Slots \ {job[t].slot}
        BY <2>2 DEF SlotInv, SlotsExclusive, TypeOK, PartialMap, Entries
      <4> QED
        BY <4>1, <2>6 DEF SlotInv, CachedDataIntact
    <3> QED
      BY <2>1, <3>1 DEF CachedDataIntact
  <2>10. FilledBeforeRegister'
    <3>1. ASSUME NEW u \in Threads \ {t}, job[u].pc = "register"
          PROVE  mem_pool'[job[u].slot] = job[u].key
      <4>1. u \in InFlight /\ job[u].slot \in Slots
        BY <3>1 DEF InFlight, HoldsSlot, Putting, SlotInv, SlotType
      <4>2. job[u].slot # job[t].slot
        BY <2>2, <4>1 DEF SlotInv, SlotsExclusive
      <4> QED
        BY <3>1, <4>1, <4>2, <2>6 DEF SlotInv, FilledBeforeRegister
    <3>2. job'[t].pc = "register" => mem_pool'[job[t].slot] = job[t].key
      <4>1. CASE EndCopy(t)
        BY <4>1, <2>2 DEF EndCopy, TypeOK
      <4>2. CASE BeginCopy(t)
        <5>1. job'[t].pc = "copying"
          BY <1>0, <2>2, <4>2 DEF BeginCopy, PutJobs
        <5> QED
          BY <5>1
      <4> QED
        BY <1>7, <4>1, <4>2
    <3> QED
      BY <2>3, <2>4, <3>1, <3>2 DEF FilledBeforeRegister
  <2> QED
    BY <2>7, <2>8, <2>9, <2>10 DEF SlotInv
<1>8. CASE Register(t)
  <2> DEFINE key == job[t].key
  <2>1. t \in InFlight /\ job[t] \in PutJobs /\ job[t].pc = "register"
    BY <1>8, JobByPc DEF Register, InFlight, HoldsSlot, Putting, PutPcs
  <2>2. dict' = Assoc(dict, key, NewEntry(t)) /\ job' = [job EXCEPT ![t] = IdleJob]
        /\ UNCHANGED <<free_pool, mem_pool>>
    BY <1>8 DEF Register
  <2>3. /\ DOMAIN dict' = DOMAIN dict \cup {key}
        /\ dict'[key].slot = job[t].slot
        /\ \A k \in DOMAIN dict \ {key} : dict'[k] = dict[k]
    BY <2>2 DEF Assoc, NewEntry
  <2>4. job'[t].pc = "idle" /\ \A u \in Threads \ {t} : job'[u] = job[u]
    BY <1>0, <2>2 DEF IdleJob
  <2>5. InFlight' = InFlight \ {t}
    BY <2>4 DEF InFlight, HoldsSlot, Putting
  <2>6. SlotType'
    BY <2>4 DEF SlotInv, SlotType, HoldsSlot, Putting
  <2>7. SlotsExclusive'
    BY <2>1, <2>2, <2>3, <2>4, <2>5 DEF SlotInv, SlotsExclusive, InFlight
  <2>8. CachedDataIntact'
    <3>1. mem_pool[job[t].slot] = key
      BY <2>1 DEF SlotInv, FilledBeforeRegister
    <3> QED
      BY <2>2, <2>3, <3>1 DEF SlotInv, CachedDataIntact
  <2>9. FilledBeforeRegister'
    BY <2>2, <2>4 DEF SlotInv, FilledBeforeRegister
  <2> QED
    BY <2>6, <2>7, <2>8, <2>9 DEF SlotInv
<1> QED
  BY <1>1, <1>2, <1>3, <1>4, <1>5, <1>6, <1>7, <1>8 DEF ContinuePut

(* Every step keeps SlotInv.                                               *)
LEMMA NextSlots ==
    ASSUME TypeOK, SlotInv, [Next]_vars
    PROVE  SlotInv'
<1> USE DEF cacheVars, evictorTables, envVars
<1>0. {"main", "worker"} \subseteq Threads
  BY DEF Threads
<1>1. ASSUME NEW t \in Threads, NEW item, StartPut(t, item) PROVE SlotInv'
  <2>1. job' = [job EXCEPT ![t] = StartedJob(item, OldSize(item.key))]
    BY <1>1 DEF StartPut
  <2>2. SameFlights
    <3>1. StartedJob(item, OldSize(item.key)).pc \in {"illegal", "threshold"}
      BY DEF StartedJob
    <3> HIDE DEF StartedJob
    <3> QED
      BY <2>1, <3>1, FlightEnds
  <2> QED
    BY <1>1, <2>2, SlotRemove DEF StartPut
<1>2. CASE StopWorker \/ EndUpdate \/ (\E c \in Clients, ks \in Prefixes : BeginUpdate(c, ks))
  <2>1. PICK t \in Threads, j \in {StoppedJob, IdleJob} \cup UpdateJobs : job' = [job EXCEPT ![t] = j]
    <3>1. ASSUME NEW c \in Clients, NEW ks \in Prefixes PROVE UpdateJob(c, ks) \in UpdateJobs
      BY BackendAssumption DEF UpdateJob, UpdateJobs
    <3> QED
      BY <1>0, <1>2, <3>1 DEF StopWorker, EndUpdate, BeginUpdate
  <2>2. j.pc \notin {"copy", "copying", "register"}
    BY <2>1 DEF StoppedJob, IdleJob, UpdateJobs
  <2>3. SameFlights
    BY <2>1, <2>2, FlightEnds
  <2> QED
    BY <1>2, <2>3, SlotFrame DEF StopWorker, EndUpdate, BeginUpdate
<1>3. CASE UNCHANGED <<dict, free_pool, mem_pool, job>>
  <2>1. SameFlights
    BY <1>3 DEF SameFlights, HoldsSlot, Putting
  <2> QED
    BY <1>3, <2>1, SlotFrame
<1>4. CASE UpdateNext
  <2>1. /\ UNCHANGED <<free_pool, mem_pool>>
        /\ job' = [job EXCEPT !["main"].keys = SubSeq(@, 1, Len(@) - 1)]
        /\ job["main"].pc = "update"
    BY <1>4 DEF UpdateNext
  <2>2. DOMAIN dict' = DOMAIN dict /\ \A k \in DOMAIN dict : dict'[k].slot = dict[k].slot
    <3>1. CASE UNCHANGED dict
      BY <3>1
    <3>2. ASSUME NEW key \in DOMAIN dict, NEW c, dict' = [dict EXCEPT ![key] = Touched(dict[key], c)]
          PROVE  DOMAIN dict' = DOMAIN dict /\ \A k \in DOMAIN dict : dict'[k].slot = dict[k].slot
      <4>1. dict[key] \in Entries
        BY DEF TypeOK, PartialMap
      <4>2. Touched(dict[key], c).slot = dict[key].slot
        BY <4>1 DEF Touched, Entries
      <4> QED
        BY <3>2, <4>2 DEF TypeOK, PartialMap
    <3> QED
      BY <1>4, <3>1, <3>2 DEF UpdateNext, UpdateOnGet
  <2>3. job["main"] \in UpdateJobs
    BY <1>0, <2>1, JobByPc
  <2>4. SameFlights
    BY <1>0, <2>1, <2>3 DEF SameFlights, HoldsSlot, Putting, TypeOK, UpdateJobs
  <2>5. InFlight' \subseteq InFlight /\ \A t \in InFlight' : job'[t].slot = job[t].slot
    BY <2>4 DEF SameFlights, InFlight
  <2>6. SlotType' /\ FilledBeforeRegister'
    BY <2>1, <2>4 DEF SlotInv, SlotType, FilledBeforeRegister, SameFlights, HoldsSlot, Putting
  <2>7. SlotsExclusive'
    BY <2>1, <2>2, <2>5 DEF SlotInv, SlotsExclusive
  <2>8. CachedDataIntact'
    BY <2>1, <2>2 DEF SlotInv, CachedDataIntact
  <2> QED
    BY <2>6, <2>7, <2>8 DEF SlotInv
<1>5. CASE ContinuePut("main") \/ ContinuePut("worker")
  BY <1>0, <1>5, ContinuePutSlots
<1>6. CASE TakePut
  BY <1>0, <1>1, <1>6 DEF TakePut
<1>7. ASSUME NEW item \in PutItems, BlockingPut(item) PROVE SlotInv'
  BY <1>0, <1>1, <1>7 DEF BlockingPut
<1>8. ASSUME NEW item \in PutItems, EnqueuePut(item) PROVE SlotInv'
  BY <1>3, <1>8 DEF EnqueuePut
<1>9. CASE Close \/ Tick \/ UNCHANGED vars
  BY <1>3, <1>9 DEF Close, Tick, vars
<1> QED
  BY <1>2, <1>4, <1>5, <1>6, <1>7, <1>8, <1>9 DEF Next, Worker, MainLoop, Terminated

-----------------------------------------------------------------------------
(* The invariant holds initially.                                          *)
LEMMA InitInv == Init => TypeOK /\ SlotInv
<1> SUFFICES ASSUME Init PROVE TypeOK /\ SlotInv
  OBVIOUS
<1>1. job \in [Threads -> {IdleJob}] /\ \A t \in Threads : job[t].pc = "idle"
  BY DEF Init, IdleJob
<1>2. global_heaps \in [Lambdas -> Heaps] /\ client_heaps \in [Clients -> [Lambdas -> Heaps]]
  BY DEF Init, Heaps
<1>3. PartialMap(dict, Keys, Entries) /\ PartialMap(client_cache_sizes, Clients, Nat)
      /\ PartialMap(key_to_clients, Keys, SUBSET Clients)
  BY DEF Init, PartialMap
<1>4. TypeOK
  <2>1. /\ mem_pool \in [Slots -> Keys \cup {Blank, Torn}]
        /\ free_pool \subseteq Slots
        /\ current_cache_size \in Int
        /\ update_lock \in Threads \cup {"free"}
    BY DEF Init
  <2>4. put_queue \in Seq(PutItems)
    BY DEF Init
  <2>5. closed \in BOOLEAN
    BY DEF Init
  <2>2. now \in 0 .. MaxTime /\ nputs \in 0 .. MaxPuts /\ nupdates \in 0 .. MaxUpdates
    BY BackendAssumption DEF Init
  <2>3. job \in [Threads -> {IdleJob, StoppedJob} \cup PutJobs \cup UpdateJobs]
    BY <1>1
  <2> QED
    BY <1>2, <1>3, <2>1, <2>2, <2>3, <2>4, <2>5 DEF TypeOK
<1>5. SlotInv
  BY <1>1 DEF Init, SlotInv, SlotType, SlotsExclusive, CachedDataIntact, FilledBeforeRegister,
              InFlight, HoldsSlot, Putting
<1> QED
  BY <1>4, <1>5

(* Type correctness, and with it that no client's size is ever negative,   *)
(* and the exclusive use of pool chunks and the integrity of cached data,  *)
(* for any callers, blocking or not, and any chunk sizes.                  *)
THEOREM Invariance == Spec => [](TypeOK /\ SlotInv)
<1>1. TypeOK /\ SlotInv /\ [Next]_vars => (TypeOK /\ SlotInv)'
  BY NextType, NextSlots DEF SlotInv
<1> QED
  BY InitInv, <1>1, PTL DEF Spec

(* Every variable keeps its type.                                          *)
THEOREM TypeCorrect == Spec => []TypeOK
BY Invariance, PTL

(* No pool chunk has two owners, however the two threads interleave.       *)
THEOREM SlotsAreExclusive == Spec => []SlotsExclusive
<1>1. TypeOK /\ SlotInv => SlotsExclusive
  BY DEF SlotInv
<1> QED
  BY Invariance, <1>1, PTL

(* A reader of a cached key never sees torn data or the data of another    *)
(* key, although the copy runs outside the lock.                           *)
THEOREM CachedDataIsIntact == Spec => []CachedDataIntact
<1>1. TypeOK /\ SlotInv => CachedDataIntact
  BY DEF SlotInv
<1> QED
  BY Invariance, <1>1, PTL
-----------------------------------------------------------------------------
(***************************************************************************)
(* What the steps of a put do to the jobs of the threads.                  *)
(***************************************************************************)
(* A step of thread t: its put moves from one control state to another,    *)
(* with the given victims and pool chunk; nothing else about it changes.   *)
Moved(t, from, to, victims, s) ==
    /\ job[t] \in PutJobs /\ job[t].pc = from
    /\ job'[t].pc = to /\ job'[t].evict = victims /\ job'[t].slot = s
    /\ job'[t].key = job[t].key /\ job'[t].client = job[t].client
    /\ job'[t].lambda = job[t].lambda /\ job'[t].old = job[t].old
    /\ job'[t].retrieved = job[t].retrieved
    /\ \A u \in Threads \ {t} : job'[u] = job[u]

(* Thread t gets a new job j.                                              *)
Switched(t, j) == job'[t] = j /\ \A u \in Threads \ {t} : job'[u] = job[u]

(* Assigning the control state of a put.                                   *)
LEMMA MovedPc ==
    ASSUME TypeOK, NEW t \in Threads, NEW q, job[t].pc \in PutPcs,
           job' = [job EXCEPT ![t].pc = q]
    PROVE  Moved(t, job[t].pc, q, job[t].evict, job[t].slot)
<1>1. job[t] \in PutJobs
  BY JobByPc
<1>2. job \in [Threads -> {IdleJob, StoppedJob} \cup PutJobs \cup UpdateJobs]
  BY DEF TypeOK
<1> QED
  BY <1>1, <1>2 DEF Moved, PutJobs

(* Assigning its list of victims.                                          *)
LEMMA MovedVictims ==
    ASSUME TypeOK, NEW t \in Threads, NEW v, job[t].pc \in PutPcs,
           job' = [job EXCEPT ![t].evict = v]
    PROVE  Moved(t, job[t].pc, job[t].pc, v, job[t].slot)
<1>1. job[t] \in PutJobs
  BY JobByPc
<1>2. job \in [Threads -> {IdleJob, StoppedJob} \cup PutJobs \cup UpdateJobs]
  BY DEF TypeOK
<1> QED
  BY <1>1, <1>2 DEF Moved, PutJobs

(* Replacing the job of a thread.                                          *)
LEMMA SwitchedJob ==
    ASSUME TypeOK, NEW t \in Threads, NEW j, job' = [job EXCEPT ![t] = j]
    PROVE  Switched(t, j)
BY DEF Switched, TypeOK

(* The victims come from the cache, are not protected and are chosen once. *)
Eligible(t, key) ==
    key \in DOMAIN dict /\ key \notin Range(job[t].evict) /\ key \notin Range(job[t].retrieved)

(* Choosing a victim.                                                      *)
LEMMA VictimStep ==
    ASSUME TypeOK, NEW t \in Threads, NEW key, job[t].pc \in PutPcs, ChooseVictim(t, key)
    PROVE  Moved(t, job[t].pc, job[t].pc, Append(job[t].evict, key), job[t].slot)
<1>1. job' = [job EXCEPT ![t].evict = Append(job[t].evict, key)]
  BY DEF ChooseVictim, TypeOK
<1> QED
  BY <1>1, MovedVictims

(* Both ways to evict choose an eligible victim when there is no room.     *)
LEMMA EvictStep ==
    ASSUME TypeOK, NEW t \in Threads, EvictBelowThreshold(t) \/ EvictFromMaxClient(t)
    PROVE  /\ Over(t) /\ job[t].pc \in {"threshold", "maxclient"}
           /\ \E key : /\ Eligible(t, key) /\ ChooseVictim(t, key)
                       /\ Moved(t, job[t].pc, job[t].pc, Append(job[t].evict, key), job[t].slot)
           /\ UNCHANGED <<dict, free_pool, mem_pool, update_lock, put_queue, envVars>>
<1>1. CASE EvictBelowThreshold(t)
  <2>1. PICK key \in MinKeys(GlobalCandidates(t)) : ~Protected(t, key) /\ ChooseVictim(t, key)
    BY <1>1 DEF EvictBelowThreshold
  <2>2. Eligible(t, key)
    <3>1. key \in DOMAIN dict \ Excluded(t)
      BY MinKeysCached DEF GlobalCandidates
    <3> QED
      BY <2>1, <3>1 DEF Eligible, Protected, Excluded
  <2>3. job[t].pc \in PutPcs
    BY <1>1 DEF EvictBelowThreshold, PutPcs
  <2> QED
    BY <1>1, <2>1, <2>2, <2>3, VictimStep DEF EvictBelowThreshold
<1>2. CASE EvictFromMaxClient(t)
  <2>0. PICK c \in MaxClients(client_cache_sizes) :
            \E key \in MinKeys(ClientCandidates(t, c)) : ~Protected(t, key) /\ ChooseVictim(t, key)
    BY <1>2 DEF EvictFromMaxClient
  <2>1. PICK key \in MinKeys(ClientCandidates(t, c)) : ~Protected(t, key) /\ ChooseVictim(t, key)
    BY <2>0
  <2>2. Eligible(t, key)
    <3>1. key \in DOMAIN dict \ Excluded(t)
      BY MinKeysCached DEF ClientCandidates
    <3> QED
      BY <2>1, <3>1 DEF Eligible, Protected, Excluded
  <2>3. job[t].pc \in PutPcs
    BY <1>2 DEF EvictFromMaxClient, PutPcs
  <2> QED
    BY <1>2, <2>1, <2>2, <2>3, VictimStep DEF EvictFromMaxClient
<1> QED
  BY <1>1, <1>2

(* The other steps of a put, one conjunct each.                            *)
LEMMA PutSteps ==
    ASSUME TypeOK, NEW t \in Threads
    PROVE  /\ LeaveThreshold(t) => Moved(t, "threshold", "maxclient", job[t].evict, job[t].slot)
           /\ RefusePut(t) => Moved(t, "maxclient", "illegal", job[t].evict, job[t].slot)
           /\ AcceptPut(t) => Moved(t, "maxclient", "remove", job[t].evict, job[t].slot)
           /\ RemoveVictim(t) => Moved(t, "remove", "remove", Tail(job[t].evict), job[t].slot)
           /\ Allocate(t) => \/ Moved(t, "remove", "dead", <<>>, job[t].slot)
                                /\ free_pool = {} /\ UNCHANGED <<free_pool, update_lock>>
                             \/ \E s \in free_pool : Moved(t, "remove", "copy", <<>>, s)
                                /\ free_pool' = free_pool \ {s} /\ update_lock' = "free"
           /\ BeginCopy(t) => Moved(t, "copy", "copying", job[t].evict, job[t].slot)
           /\ EndCopy(t) => Moved(t, "copying", "register", job[t].evict, job[t].slot)
           /\ Register(t) => job[t] \in PutJobs /\ Switched(t, IdleJob)
           /\ AbandonPut(t) => job[t] \in PutJobs /\ Switched(t, IdleJob)
<1>1. LeaveThreshold(t) => Moved(t, "threshold", "maxclient", job[t].evict, job[t].slot)
  BY MovedPc DEF LeaveThreshold, PutPcs
<1>2. RefusePut(t) => Moved(t, "maxclient", "illegal", job[t].evict, job[t].slot)
  BY MovedPc DEF RefusePut, PutPcs
<1>3. AcceptPut(t) => Moved(t, "maxclient", "remove", job[t].evict, job[t].slot)
  BY MovedPc DEF AcceptPut, PutPcs
<1>4. RemoveVictim(t) => Moved(t, "remove", "remove", Tail(job[t].evict), job[t].slot)
  <2> SUFFICES ASSUME RemoveVictim(t)
               PROVE  Moved(t, "remove", "remove", Tail(job[t].evict), job[t].slot)
    OBVIOUS
  <2>1. job' = [job EXCEPT ![t].evict = Tail(job[t].evict)]
    BY DEF RemoveVictim, TypeOK
  <2>2. job[t].pc = "remove" /\ job[t].pc \in PutPcs
    BY DEF RemoveVictim, PutPcs
  <2>3. Moved(t, job[t].pc, job[t].pc, Tail(job[t].evict), job[t].slot)
    BY <2>1, <2>2, MovedVictims
  <2> QED
    BY <2>2, <2>3
<1>5. Allocate(t) => \/ Moved(t, "remove", "dead", <<>>, job[t].slot)
                        /\ free_pool = {} /\ UNCHANGED <<free_pool, update_lock>>
                     \/ \E s \in free_pool : Moved(t, "remove", "copy", <<>>, s)
                        /\ free_pool' = free_pool \ {s} /\ update_lock' = "free"
  <2>1. CASE Allocate(t) /\ free_pool = {}
    BY <2>1, MovedPc DEF Allocate, PutPcs
  <2>2. CASE Allocate(t) /\ free_pool # {}
    <3> DEFINE s == CHOOSE s \in free_pool : TRUE
    <3>1. s \in free_pool
      BY <2>2
    <3> HIDE DEF s
    <3>2. job' = [job EXCEPT ![t].pc = "copy", ![t].slot = s] /\ job[t].pc = "remove"
          /\ job[t].evict = <<>> /\ free_pool' = free_pool \ {s} /\ update_lock' = "free"
      BY <2>2 DEF Allocate, Taken, s
    <3>3. job[t] \in PutJobs
      BY <3>2, JobByPc DEF PutPcs
    <3>4. job \in [Threads -> {IdleJob, StoppedJob} \cup PutJobs \cup UpdateJobs]
      BY DEF TypeOK
    <3>5. Moved(t, "remove", "copy", <<>>, s)
      BY <3>2, <3>3, <3>4 DEF Moved, PutJobs
    <3> QED
      BY <3>1, <3>2, <3>5
  <2> QED
    BY <2>1, <2>2
<1>6. BeginCopy(t) => Moved(t, "copy", "copying", job[t].evict, job[t].slot)
  BY MovedPc DEF BeginCopy, PutPcs
<1>7. EndCopy(t) => Moved(t, "copying", "register", job[t].evict, job[t].slot)
  BY MovedPc DEF EndCopy, PutPcs
<1>8. Register(t) => job[t] \in PutJobs /\ Switched(t, IdleJob)
  BY JobByPc, SwitchedJob DEF Register, PutPcs
<1>9. AbandonPut(t) => job[t] \in PutJobs /\ Switched(t, IdleJob)
  BY JobByPc, SwitchedJob DEF AbandonPut, PutPcs
<1> QED
  BY <1>1, <1>2, <1>3, <1>4, <1>5, <1>6, <1>7, <1>8, <1>9

(* A step starts a put, continues one, is one of the steps of              *)
(* update_after_get, stops the worker, or changes none of the cache's      *)
(* state.  Only callers that put without the queue make "main" put.        *)
LEMMA NextCases ==
    ASSUME TypeOK, [Next]_vars
    PROVE  \/ \E t \in Threads, item \in PutItems :
                 StartPut(t, item) /\ job[t].pc = "idle" /\ (t = "main" => TRUE \in Modes)
           \/ \E t \in Threads : ContinuePut(t)
           \/ \E c \in Clients, ks \in Prefixes : BeginUpdate(c, ks)
           \/ UpdateNext
           \/ EndUpdate
           \/ StopWorker
           \/ UNCHANGED <<cacheVars, mem_pool, current_cache_size, evictorTables,
                          update_lock, job>>
<1>0. {"main", "worker"} \subseteq Threads
  BY DEF Threads
<1>1. CASE TakePut
  <2>1. put_queue \in Seq(PutItems) /\ put_queue # <<>>
    BY <1>1 DEF TakePut, TypeOK
  <2>2. Head(put_queue) \in PutItems
    BY <2>1
  <2> QED
    BY <1>0, <1>1, <2>2 DEF TakePut
<1>2. ASSUME NEW item \in PutItems, EnqueuePut(item)
      PROVE  UNCHANGED <<cacheVars, mem_pool, current_cache_size, evictorTables, update_lock, job>>
  BY <1>2 DEF EnqueuePut
<1>3. ASSUME NEW item \in PutItems, BlockingPut(item)
      PROVE  StartPut("main", item) /\ job["main"].pc = "idle" /\ TRUE \in Modes
  BY <1>3 DEF BlockingPut, MainReady
<1>4. CASE Close \/ Tick \/ UNCHANGED vars
  BY <1>4 DEF Close, Tick, vars, cacheVars
<1> QED
  BY <1>0, <1>1, <1>2, <1>3, <1>4 DEF Next, Worker, MainLoop, Terminated

-----------------------------------------------------------------------------
(***************************************************************************)
(* The lock: a thread holds it exactly in these control states.  ("dead"   *)
(* is the allocation that raised; it never gives the lock back.)           *)
(***************************************************************************)
Critical == {"threshold", "maxclient", "illegal", "remove", "dead", "update"}

LockInv == \A t \in Threads : update_lock = t <=> job[t].pc \in Critical

(* A new job that releases or takes the lock.                              *)
LEMMA LockSwitch ==
    ASSUME LockInv, NEW t \in Threads, NEW j, Switched(t, j),
           \/ update_lock \in {t, "free"} /\ update_lock' = "free" /\ j.pc \notin Critical
           \/ update_lock = "free" /\ update_lock' = t /\ j.pc \in Critical
    PROVE  LockInv'
BY DEF LockInv, Switched, Threads

(* A move between two control states on the same side of the lock.         *)
LEMMA LockMove ==
    ASSUME LockInv, NEW t \in Threads, NEW from, NEW to, NEW v, NEW s, Moved(t, from, to, v, s),
           update_lock' = update_lock, from \in Critical <=> to \in Critical
    PROVE  LockInv'
BY DEF LockInv, Moved

(* Every step keeps LockInv.                                               *)
LEMMA NextLock ==
    ASSUME TypeOK, LockInv, [Next]_vars
    PROVE  LockInv'
<1>1. ASSUME NEW t \in Threads, NEW item \in PutItems, StartPut(t, item) PROVE LockInv'
  <2>1. Switched(t, StartedJob(item, OldSize(item.key)))
    BY <1>1, SwitchedJob DEF StartPut
  <2>2. StartedJob(item, OldSize(item.key)).pc \in Critical
    BY DEF StartedJob, Critical
  <2> HIDE DEF StartedJob
  <2> QED
    BY <1>1, <2>1, <2>2, LockSwitch DEF StartPut
<1>2. ASSUME NEW t \in Threads, ContinuePut(t) PROVE LockInv'
  <2>1. CASE EvictBelowThreshold(t) \/ EvictFromMaxClient(t)
    <3>1. PICK key : Moved(t, job[t].pc, job[t].pc, Append(job[t].evict, key), job[t].slot)
      BY <2>1, EvictStep
    <3> QED
      BY <2>1, <3>1, EvictStep, LockMove
  <2>2. CASE LeaveThreshold(t)
    BY <2>2, PutSteps, LockMove DEF LeaveThreshold, Critical
  <2>3. CASE DropMaxClient(t)
    BY <2>3 DEF DropMaxClient, LockInv
  <2>4. CASE RefusePut(t)
    BY <2>4, PutSteps, LockMove DEF RefusePut, Critical
  <2>5. CASE AcceptPut(t)
    BY <2>5, PutSteps, LockMove DEF AcceptPut, Critical
  <2>6. CASE AbandonPut(t)
    <3>1. update_lock = t
      BY <2>6 DEF AbandonPut, LockInv, Critical
    <3>2. IdleJob.pc \notin Critical
      BY DEF IdleJob, Critical
    <3> QED
      BY <2>6, <3>1, <3>2, PutSteps, LockSwitch DEF AbandonPut
  <2>7. CASE RemoveVictim(t)
    BY <2>7, PutSteps, LockMove DEF RemoveVictim, Critical
  <2>8. CASE Allocate(t)
    <3>1. update_lock = t
      BY <2>8 DEF Allocate, LockInv, Critical
    <3>2. CASE Moved(t, "remove", "dead", <<>>, job[t].slot) /\ UNCHANGED update_lock
      BY <3>2, LockMove DEF Critical
    <3>3. ASSUME NEW s, Moved(t, "remove", "copy", <<>>, s), update_lock' = "free"
          PROVE  LockInv'
      BY <3>1, <3>3 DEF Moved, LockInv, Critical, Threads
    <3> QED
      BY <2>8, <3>2, <3>3, PutSteps
  <2>9. CASE BeginCopy(t)
    BY <2>9, PutSteps, LockMove DEF BeginCopy, Critical
  <2>10. CASE EndCopy(t)
    BY <2>10, PutSteps, LockMove DEF EndCopy, Critical
  <2>11. CASE Register(t)
    <3>2. IdleJob.pc \notin Critical
      BY DEF IdleJob, Critical
    <3> QED
      BY <2>11, <3>2, PutSteps, LockSwitch DEF Register
  <2> QED
    BY <1>2, <2>1, <2>2, <2>3, <2>4, <2>5, <2>6, <2>7, <2>8, <2>9, <2>10, <2>11 DEF ContinuePut
<1>3. ASSUME NEW c, NEW ks, BeginUpdate(c, ks) PROVE LockInv'
  <2>1. Switched("main", UpdateJob(c, ks))
    BY <1>3, SwitchedJob DEF BeginUpdate, Threads
  <2>2. UpdateJob(c, ks).pc \in Critical
    BY DEF UpdateJob, Critical
  <2> HIDE DEF UpdateJob
  <2> QED
    BY <1>3, <2>1, <2>2, LockSwitch DEF BeginUpdate, Threads
<1>4. CASE UpdateNext
  <2>1. job["main"] \in UpdateJobs
    BY <1>4, JobByPc DEF UpdateNext, Threads
  <2>2. job'["main"].pc = job["main"].pc /\ job'["worker"] = job["worker"]
    BY <1>4, <2>1 DEF UpdateNext, UpdateJobs, TypeOK, Threads
  <2>3. update_lock' = update_lock
    BY <1>4 DEF UpdateNext
  <2> QED
    BY <2>2, <2>3 DEF LockInv, Threads
<1>5. CASE EndUpdate
  <2>1. Switched("main", IdleJob) /\ update_lock = "main"
    BY <1>5, SwitchedJob DEF EndUpdate, Threads, LockInv, Critical
  <2>2. IdleJob.pc \notin Critical
    BY DEF IdleJob, Critical
  <2> QED
    BY <1>5, <2>1, <2>2, LockSwitch DEF EndUpdate, Threads
<1>6. CASE StopWorker
  <2>1. job["worker"].pc = "idle" /\ job'["worker"].pc = "stopped" /\ job'["main"] = job["main"]
        /\ update_lock' = update_lock
    BY <1>6 DEF StopWorker, TypeOK, Threads, StoppedJob
  <2> QED
    BY <2>1 DEF LockInv, Threads, Critical
<1>7. CASE UNCHANGED <<cacheVars, mem_pool, current_cache_size, evictorTables, update_lock, job>>
  BY <1>7 DEF LockInv
<1> QED
  BY <1>1, <1>2, <1>3, <1>4, <1>5, <1>6, <1>7, NextCases

-----------------------------------------------------------------------------
(***************************************************************************)
(* The evictor's decisions.  A put chooses at most one victim, a cached    *)
(* chunk its caller did not just retrieve: one victim makes room for any   *)
(* chunk, because the cache is never above its limit.                      *)
(***************************************************************************)
VictimInv ==
    \A t \in Threads : job[t].pc \in PutPcs /\ job[t].evict # <<>> =>
        /\ job[t].pc \in {"threshold", "maxclient", "remove"}
        /\ \E k \in DOMAIN dict \ Range(job[t].retrieved) : job[t].evict = <<k>>

(* The byte count stays within the limit, also after the bytes of the old  *)
(* entry are put back, and with a victim chosen there is room for a chunk. *)
BytesInv ==
    /\ current_cache_size <= MaxCacheSize
    /\ \A t \in Threads : job[t].pc \in {"threshold", "maxclient", "illegal"} =>
          current_cache_size + job[t].old <= MaxCacheSize
    /\ \A t \in Threads : job[t].pc \in {"threshold", "maxclient"} /\ job[t].evict # <<>> =>
          current_cache_size + SizePerChunk <= MaxCacheSize

EvictInv == LockInv /\ VictimInv /\ BytesInv

(* Only the holder of the lock has victims.                                *)
LEMMA OthersNoVictims ==
    ASSUME LockInv, VictimInv, NEW t \in Threads, update_lock \in {t, "free"},
           NEW u \in Threads \ {t}, job[u].pc \in PutPcs
    PROVE  job[u].evict = <<>>
BY DEF LockInv, VictimInv, Critical, Threads

(* A put whose caller's list of victims becomes empty, in a critical       *)
(* section or with the lock free, keeps VictimInv whatever it removes.     *)
LEMMA VictimEnd ==
    ASSUME TypeOK, LockInv, VictimInv, NEW t \in Threads,
           \A u \in Threads \ {t} : job'[u] = job[u],
           update_lock \in {t, "free"} \/ DOMAIN dict \subseteq DOMAIN dict',
           job'[t].pc \in PutPcs => job'[t].evict = <<>>
    PROVE  VictimInv'
<1>1. ASSUME NEW u \in Threads \ {t}, job[u].pc \in PutPcs, job[u].evict # <<>>
      PROVE  /\ job[u].pc \in {"threshold", "maxclient", "remove"}
             /\ \E k \in DOMAIN dict' \ Range(job[u].retrieved) : job[u].evict = <<k>>
  <2>1. update_lock \notin {t, "free"}
    BY <1>1, OthersNoVictims
  <2> QED
    BY <1>1, <2>1 DEF VictimInv
<1> QED
  BY <1>1 DEF VictimInv

(* A put that keeps its victims and removes nothing keeps VictimInv.       *)
LEMMA VictimKeep ==
    ASSUME VictimInv, NEW t \in Threads, NEW from \in {"threshold", "maxclient"},
           NEW to \in {"maxclient", "remove"}, Moved(t, from, to, job[t].evict, job[t].slot),
           UNCHANGED dict
    PROVE  VictimInv'
BY DEF VictimInv, Moved, PutPcs

(* Every step of a put keeps VictimInv and BytesInv.                       *)
LEMMA ContinuePutEvict ==
    ASSUME TypeOK, EvictInv, NEW t \in Threads, ContinuePut(t)
    PROVE  VictimInv' /\ BytesInv'
<1> USE DEF cacheVars
<1>0. /\ LockInv /\ VictimInv /\ BytesInv
      /\ current_cache_size \in Int /\ MaxCacheSize \in Nat /\ SizePerChunk \in Nat \ {0}
  BY BackendAssumption, EvictorAssumption DEF EvictInv, TypeOK
<1>a. ASSUME job[t].pc \in PutPcs
      PROVE  /\ job[t] \in PutJobs /\ job[t].key \in Keys /\ job[t].old \in {0, SizePerChunk}
             /\ ChunkSize[job[t].key] \in 1 .. SizePerChunk
  BY <1>a, JobByPc, BackendAssumption DEF PutJobs
<1>b. ASSUME job[t].pc \in Critical, NEW u \in Threads \ {t} PROVE job[u].pc \notin Critical
  BY <1>0, <1>b DEF LockInv
<1>1. CASE EvictBelowThreshold(t) \/ EvictFromMaxClient(t)
  <2>1. PICK key : /\ Eligible(t, key) /\ ChooseVictim(t, key)
                   /\ Moved(t, job[t].pc, job[t].pc, Append(job[t].evict, key), job[t].slot)
    BY <1>1, EvictStep
  <2>2. Over(t) /\ job[t].pc \in {"threshold", "maxclient"} /\ UNCHANGED dict
    BY <1>1, EvictStep
  <2>3. job[t].pc \in PutPcs /\ job[t].pc \in Critical
    BY <2>2 DEF PutPcs, Critical
  <2>4. job[t].evict = <<>>
    <3>1. current_cache_size + SizePerChunk > MaxCacheSize
      BY <1>0, <1>a, <2>2, <2>3 DEF Over
    <3> QED
      BY <1>0, <2>2, <3>1 DEF BytesInv
  <2>5. job'[t].evict = <<key>>
    BY <2>1, <2>4 DEF Moved
  <2>6. VictimInv'
    <3>1. key \in DOMAIN dict' \ Range(job'[t].retrieved)
      BY <2>1, <2>2 DEF Eligible, Moved
    <3>2. ASSUME NEW u \in Threads \ {t}, job[u].pc \in PutPcs PROVE job[u].evict = <<>>
      BY <1>0, <2>3, <3>2, OthersNoVictims DEF LockInv
    <3> QED
      BY <2>1, <2>2, <2>5, <3>1, <3>2 DEF Moved, VictimInv
  <2>7. current_cache_size' = current_cache_size - SizePerChunk
    BY <2>1 DEF ChooseVictim
  <2>8. BytesInv'
    <3>1. \A u \in Threads \ {t} : job'[u].pc \notin Critical
      BY <1>b, <2>1, <2>3 DEF Moved
    <3>2. current_cache_size + job[t].old <= MaxCacheSize
      BY <1>0, <2>2 DEF BytesInv
    <3>3. job'[t].old = job[t].old /\ job[t].old \in Nat
      BY <1>0, <1>a, <2>1, <2>3 DEF Moved
    <3>4. current_cache_size' <= MaxCacheSize /\ current_cache_size' + job'[t].old <= MaxCacheSize
          /\ current_cache_size' + SizePerChunk <= MaxCacheSize
      BY <1>0, <2>7, <3>2, <3>3 DEF BytesInv
    <3> QED
      BY <3>1, <3>4 DEF BytesInv, Critical
  <2> QED
    BY <2>6, <2>8
<1>2. CASE LeaveThreshold(t)
  <2>1. Moved(t, "threshold", "maxclient", job[t].evict, job[t].slot)
        /\ UNCHANGED <<dict, current_cache_size>>
    BY <1>2, PutSteps DEF LeaveThreshold
  <2>2. VictimInv'
    BY <1>0, <2>1, VictimKeep
  <2>3. BytesInv'
    BY <1>0, <2>1 DEF BytesInv, Moved
  <2> QED
    BY <2>2, <2>3
<1>3. CASE DropMaxClient(t)
  BY <1>0, <1>3 DEF DropMaxClient, VictimInv, BytesInv
<1>4. CASE RefusePut(t)
  <2>1. Moved(t, "maxclient", "illegal", job[t].evict, job[t].slot)
        /\ UNCHANGED <<dict, current_cache_size>> /\ Over(t)
    BY <1>4, PutSteps DEF RefusePut
  <2>2. job[t].pc = "maxclient" /\ job[t].pc \in PutPcs /\ job[t].pc \in Critical
    BY <2>1 DEF Moved, PutPcs, Critical
  <2>3. job[t].evict = <<>>
    <3>1. current_cache_size + SizePerChunk > MaxCacheSize
      BY <1>0, <1>a, <2>1, <2>2 DEF Over
    <3> QED
      BY <1>0, <2>2, <3>1 DEF BytesInv
  <2>4. VictimInv'
    BY <1>0, <2>1, <2>3, VictimEnd DEF Moved
  <2>5. BytesInv'
    BY <1>0, <2>1 DEF BytesInv, Moved
  <2> QED
    BY <2>4, <2>5
<1>5. CASE AcceptPut(t)
  <2>1. Moved(t, "maxclient", "remove", job[t].evict, job[t].slot)
        /\ UNCHANGED dict /\ ~Over(t)
        /\ current_cache_size' = current_cache_size + ChunkSize[job[t].key]
    BY <1>5, PutSteps DEF AcceptPut
  <2>2. job[t].pc \in PutPcs /\ job[t].pc \in Critical
    BY <2>1 DEF Moved, PutPcs, Critical
  <2>3. current_cache_size' <= MaxCacheSize
    BY <1>0, <1>a, <2>1, <2>2 DEF Over
  <2>4. VictimInv'
    BY <1>0, <2>1, VictimKeep
  <2>5. \A u \in Threads : job'[u].pc \notin {"threshold", "maxclient", "illegal"}
    BY <1>b, <2>1, <2>2 DEF Moved, Critical
  <2> QED
    BY <2>3, <2>4, <2>5 DEF BytesInv
<1>6. CASE AbandonPut(t)
  <2>1. Switched(t, IdleJob) /\ UNCHANGED dict /\ job[t].pc = "illegal"
        /\ current_cache_size' = current_cache_size + job[t].old
    BY <1>6, PutSteps DEF AbandonPut
  <2>2. current_cache_size' <= MaxCacheSize
    BY <1>0, <2>1 DEF BytesInv
  <2>3. job'[t].pc = "idle" /\ \A u \in Threads \ {t} : job'[u] = job[u]
    BY <2>1 DEF Switched, IdleJob
  <2>4. VictimInv'
    BY <1>0, <2>1, <2>3, VictimEnd DEF PutPcs
  <2>5. \A u \in Threads : job'[u].pc \notin {"threshold", "maxclient", "illegal"}
    BY <1>b, <2>1, <2>3 DEF Critical
  <2> QED
    BY <2>2, <2>4, <2>5 DEF BytesInv
<1>7. CASE RemoveVictim(t)
  <2>1. Moved(t, "remove", "remove", Tail(job[t].evict), job[t].slot)
        /\ job[t].evict # <<>> /\ UNCHANGED current_cache_size
    BY <1>7, PutSteps DEF RemoveVictim
  <2>2. job[t].pc \in PutPcs /\ job[t].pc \in Critical /\ update_lock = t
    BY <1>0, <2>1 DEF Moved, PutPcs, Critical, LockInv
  <2>3. job'[t].evict = <<>>
    <3>1. PICK k \in DOMAIN dict : job[t].evict = <<k>>
      BY <1>0, <2>1, <2>2 DEF VictimInv
    <3>2. Tail(<<k>>) = <<>>
      OBVIOUS
    <3> QED
      BY <2>1, <3>1, <3>2 DEF Moved
  <2>4. VictimInv'
    BY <1>0, <2>1, <2>2, <2>3, VictimEnd DEF Moved
  <2>5. BytesInv'
    BY <1>0, <2>1 DEF BytesInv, Moved
  <2> QED
    BY <2>4, <2>5
<1>8. CASE Allocate(t)
  <2>1. PICK q, s : q \in {"dead", "copy"} /\ Moved(t, "remove", q, <<>>, s)
    BY <1>8, PutSteps
  <2>2. UNCHANGED <<dict, current_cache_size>>
    BY <1>8 DEF Allocate
  <2>3. VictimInv'
    BY <1>0, <2>1, <2>2, VictimEnd DEF Moved
  <2>4. BytesInv'
    BY <1>0, <2>1, <2>2 DEF BytesInv, Moved
  <2> QED
    BY <2>3, <2>4
<1>9. CASE BeginCopy(t) \/ EndCopy(t)
  <2>1. PICK from \in {"copy", "copying"}, to \in {"copying", "register"} :
            Moved(t, from, to, job[t].evict, job[t].slot)
    BY <1>9, PutSteps
  <2>2. UNCHANGED <<dict, current_cache_size>>
    BY <1>9 DEF BeginCopy, EndCopy
  <2>3. job[t].evict = <<>>
    BY <1>0, <2>1 DEF Moved, VictimInv, PutPcs
  <2>4. VictimInv'
    BY <1>0, <2>1, <2>2, <2>3, VictimEnd DEF Moved
  <2>5. BytesInv'
    BY <1>0, <2>1, <2>2 DEF BytesInv, Moved
  <2> QED
    BY <2>4, <2>5
<1>10. CASE Register(t)
  <2>1. Switched(t, IdleJob) /\ UNCHANGED current_cache_size /\ update_lock = "free"
    BY <1>10, PutSteps DEF Register
  <2>2. job'[t].pc = "idle" /\ \A u \in Threads \ {t} : job'[u] = job[u]
    BY <2>1 DEF Switched, IdleJob
  <2>3. VictimInv'
    BY <1>0, <2>1, <2>2, VictimEnd DEF PutPcs
  <2>4. BytesInv'
    BY <1>0, <2>1, <2>2 DEF BytesInv
  <2> QED
    BY <2>3, <2>4
<1> QED
  BY <1>1, <1>2, <1>3, <1>4, <1>5, <1>6, <1>7, <1>8, <1>9, <1>10 DEF ContinuePut

(* An access leaves the set of cached keys alone.                          *)
LEMMA UpdateKeepsKeys ==
    ASSUME TypeOK, UpdateNext
    PROVE  DOMAIN dict' = DOMAIN dict
BY DEF UpdateNext, UpdateOnGet, TypeOK, PartialMap

(* An access leaves the puts alone.                                        *)
LEMMA UpdateKeepsPuts ==
    ASSUME TypeOK, UpdateNext
    PROVE  \A t \in Threads : job'[t].pc = job[t].pc /\ (job[t].pc \in PutPcs => job'[t] = job[t])
<1>1. job["main"] \in UpdateJobs /\ job["main"].pc = "update"
  BY JobByPc DEF UpdateNext, Threads
<1>2. job'["main"].pc = job["main"].pc /\ job'["worker"] = job["worker"]
  BY <1>1 DEF UpdateNext, UpdateJobs, TypeOK, Threads
<1> QED
  BY <1>1, <1>2 DEF Threads, PutPcs

(* Every step keeps EvictInv.                                              *)
LEMMA NextEvict ==
    ASSUME TypeOK, EvictInv, [Next]_vars
    PROVE  EvictInv'
<1>0. /\ LockInv /\ VictimInv /\ BytesInv
      /\ current_cache_size \in Int /\ MaxCacheSize \in Nat /\ SizePerChunk \in Nat \ {0}
  BY BackendAssumption, EvictorAssumption DEF EvictInv, TypeOK
<1> SUFFICES VictimInv' /\ BytesInv'
  BY <1>0, NextLock DEF EvictInv
<1>1. ASSUME NEW t \in Threads, NEW item \in PutItems, StartPut(t, item)
      PROVE  VictimInv' /\ BytesInv'
  <2> DEFINE j == StartedJob(item, OldSize(item.key))
  <2>1. Switched(t, j) /\ update_lock = "free"
        /\ current_cache_size' = current_cache_size - OldSize(item.key)
    BY <1>1, SwitchedJob DEF StartPut
  <2>2. OldSize(item.key) \in {0, SizePerChunk}
    BY DEF OldSize
  <2>3. j.evict = <<>> /\ j.old = OldSize(item.key)
    BY DEF StartedJob
  <2>4. \A u \in Threads : job[u].pc \notin Critical
    BY <1>0, <2>1 DEF LockInv, Threads
  <2> HIDE DEF j
  <2>5. VictimInv'
    BY <1>0, <2>1, <2>3, VictimEnd DEF Switched
  <2>6. BytesInv'
    BY <1>0, <2>1, <2>2, <2>3, <2>4 DEF BytesInv, Switched, Critical
  <2> QED
    BY <2>5, <2>6
<1>2. ASSUME NEW t \in Threads, NEW j, Switched(t, j), j.pc \notin PutPcs,
             UNCHANGED <<dict, current_cache_size>>
      PROVE  VictimInv' /\ BytesInv'
  <2>1. VictimInv'
    BY <1>0, <1>2, VictimEnd DEF Switched
  <2>2. BytesInv'
    BY <1>0, <1>2 DEF BytesInv, Switched, PutPcs
  <2> QED
    BY <2>1, <2>2
<1>3. ASSUME NEW c, NEW ks, BeginUpdate(c, ks) PROVE VictimInv' /\ BytesInv'
  <2>1. Switched("main", UpdateJob(c, ks)) /\ "main" \in Threads
    BY <1>3, SwitchedJob DEF BeginUpdate, Threads
  <2>2. UpdateJob(c, ks).pc \notin PutPcs
    BY DEF UpdateJob, PutPcs
  <2>3. UNCHANGED <<dict, current_cache_size>>
    BY <1>3 DEF BeginUpdate, cacheVars
  <2> QED
    BY <1>2, <2>1, <2>2, <2>3
<1>4. CASE UpdateNext
  <2>1. \A t \in Threads : job'[t].pc = job[t].pc /\ (job[t].pc \in PutPcs => job'[t] = job[t])
    BY <1>4, UpdateKeepsPuts
  <2>2. DOMAIN dict' = DOMAIN dict /\ UNCHANGED current_cache_size
    BY <1>4, UpdateKeepsKeys DEF UpdateNext
  <2> QED
    BY <1>0, <2>1, <2>2 DEF VictimInv, BytesInv, PutPcs
<1>5. CASE EndUpdate
  <2>1. Switched("main", IdleJob) /\ "main" \in Threads /\ IdleJob.pc \notin PutPcs
    BY <1>5, SwitchedJob DEF EndUpdate, Threads, IdleJob, PutPcs
  <2> QED
    BY <1>2, <1>5, <2>1 DEF EndUpdate, cacheVars
<1>6. CASE StopWorker
  <2>1. Switched("worker", StoppedJob) /\ "worker" \in Threads /\ StoppedJob.pc \notin PutPcs
    BY <1>6, SwitchedJob DEF StopWorker, Threads, StoppedJob, PutPcs
  <2> QED
    BY <1>2, <1>6, <2>1 DEF StopWorker, cacheVars
<1>7. CASE UNCHANGED <<cacheVars, mem_pool, current_cache_size, evictorTables, update_lock, job>>
  BY <1>0, <1>7 DEF VictimInv, BytesInv, cacheVars
<1> QED
  BY <1>1, <1>3, <1>4, <1>5, <1>6, <1>7, NextCases, ContinuePutEvict

(* The evictor's invariant holds initially.                                *)
LEMMA InitEvict == Init => EvictInv
<1> SUFFICES ASSUME Init PROVE EvictInv
  OBVIOUS
<1>1. \A t \in Threads : job[t].pc = "idle"
  BY DEF Init, IdleJob
<1>2. LockInv
  BY <1>1 DEF Init, LockInv, Critical, Threads
<1>3. VictimInv
  BY <1>1 DEF VictimInv, PutPcs
<1>4. BytesInv
  BY <1>1, BackendAssumption DEF Init, BytesInv
<1> QED
  BY <1>2, <1>3, <1>4 DEF EvictInv

(* The lock discipline, at most one victim per put, and a byte count       *)
(* within the limit, for any callers and any chunk sizes.                  *)
THEOREM EvictorInvariance == Spec => [](TypeOK /\ SlotInv /\ EvictInv)
<1>1. TypeOK /\ SlotInv /\ EvictInv /\ [Next]_vars => (TypeOK /\ SlotInv /\ EvictInv)'
  BY NextType, NextSlots, NextEvict DEF SlotInv
<1> QED
  BY InitInv, InitEvict, <1>1, PTL DEF Spec

(* Only the removal of a victim takes a chunk out of the cache while a put *)
(* holds the lock.                                                         *)
LEMMA DictOfPut ==
    ASSUME NEW t \in Threads, ContinuePut(t)
    PROVE  UNCHANGED dict \/ RemoveVictim(t) \/ Register(t)
BY DEF ContinuePut, cacheVars, EvictBelowThreshold, LeaveThreshold, EvictFromMaxClient,
       DropMaxClient, RefusePut, AcceptPut, AbandonPut, Allocate, BeginCopy, EndCopy

(* A put evicts none of the chunks its caller just retrieved, although the *)
(* two steps of the eviction, and the removal of the victim, each test or  *)
(* use a different list.                                                   *)
THEOREM RetrievedAreKept == Spec => RetrievedKept
<1>1. ASSUME TypeOK, EvictInv, [Next]_vars, NEW t \in Threads, job[t].pc \in PutPcs,
             update_lock = t, NEW k \in DOMAIN dict, k \in Range(job[t].retrieved)
      PROVE  k \in DOMAIN dict'
  <2>1. update_lock # "free"
    BY <1>1 DEF Threads
  <2>2. ASSUME NEW u \in Threads, ContinuePut(u) PROVE k \in DOMAIN dict'
    <3>1. CASE UNCHANGED dict
      BY <3>1
    <3>2. CASE RemoveVictim(u)
      <4>1. job[u].pc = "remove" /\ job[u].evict # <<>> /\ Remove(Head(job[u].evict))
        BY <3>2 DEF RemoveVictim
      <4>2. u = t
        BY <1>1, <4>1 DEF EvictInv, LockInv, Critical
      <4>3. PICK v \in DOMAIN dict \ Range(job[t].retrieved) : job[t].evict = <<v>>
        BY <1>1, <4>1, <4>2 DEF EvictInv, VictimInv
      <4>4. Head(<<v>>) = v
        OBVIOUS
      <4>5. dict' = Without(dict, v) /\ v # k
        BY <1>1, <4>1, <4>2, <4>3, <4>4 DEF Remove
      <4> QED
        BY <4>5 DEF Without, Restrict
    <3>3. CASE Register(u)
      BY <1>1, <3>3 DEF Register, Assoc
    <3> QED
      BY <2>2, <3>1, <3>2, <3>3, DictOfPut
  <2>3. ASSUME NEW u \in Threads, NEW item, StartPut(u, item) PROVE k \in DOMAIN dict'
    BY <2>1, <2>3 DEF StartPut
  <2>4. CASE UpdateNext
    BY <1>1, <2>4, UpdateKeepsKeys
  <2>5. ASSUME NEW c, NEW ks, BeginUpdate(c, ks) PROVE k \in DOMAIN dict'
    BY <2>5 DEF BeginUpdate, cacheVars
  <2>6. CASE EndUpdate \/ StopWorker
    BY <2>6 DEF EndUpdate, StopWorker, cacheVars
  <2>7. CASE UNCHANGED <<cacheVars, mem_pool, current_cache_size, evictorTables, update_lock, job>>
    BY <2>7 DEF cacheVars
  <2> QED
    BY <1>1, <2>2, <2>3, <2>4, <2>5, <2>6, <2>7, NextCases
<1> DEFINE Kept == \A t \in Threads :
                       Putting(t, PutPcs) =>
                           \A k \in Range(job[t].retrieved) \ {job[t].key} :
                               (update_lock = t /\ k \in DOMAIN dict) => k \in DOMAIN dict'
<1>2. TypeOK /\ EvictInv /\ [Next]_vars => [Kept]_vars
  BY <1>1 DEF Putting
<1> QED
  BY EvictorInvariance, <1>2, PTL DEF Spec, RetrievedKept

-----------------------------------------------------------------------------
(***************************************************************************)
(* The heaps.  Lazy deletion pops the pairs of chosen victims while they   *)
(* are still cached, so inside a critical section the heaps describe the   *)
(* cache without the victims.                                              *)
(***************************************************************************)
Victims(t) == IF job[t].pc \in PutPcs THEN Range(job[t].evict) ELSE {}
Live == {k \in DOMAIN dict : \A t \in Threads : k \notin Victims(t)}

Pair(k) == <<Score(dict[k]), k>>
InHeaps(k) ==
    /\ Pair(k) \in global_heaps[dict[k].lambda]
    /\ \A c \in DOMAIN dict[k].access : Pair(k) \in client_heaps[c][dict[k].lambda]

HeapInv == \A k \in Live : InHeaps(k)

(* What a live entry is.                                                   *)
LEMMA EntryFacts ==
    ASSUME TypeOK, NEW k \in DOMAIN dict
    PROVE  /\ k \in Keys /\ k \in Nat /\ dict[k] \in Entries
           /\ dict[k].lambda \in Lambdas /\ DOMAIN dict[k].access \subseteq Clients
<1>1. k \in Keys /\ dict[k] \in Entries
  BY DEF TypeOK, PartialMap
<1>2. dict[k].lambda \in Lambdas
  BY <1>1 DEF Entries
<1> QED
  BY <1>1, <1>2, SharersType, EvictorAssumption

(* Popping invalid pairs keeps every pair that is valid.                   *)
LEMMA PopKeepsValid ==
    ASSUME NEW heaps, NEW valid, NEW l \in Lambdas, NEW v, NEW k \in Nat,
           <<v, k>> \in valid[l], <<v, k>> \in heaps[l]
    PROVE  <<v, k>> \in PopInvalid(heaps, valid)[l]
<1>1. HeapLeq(<<v, k>>, <<v, k>>)
  BY DEF HeapLeq
<1> QED
  BY <1>1 DEF PopInvalid

(* ... so the tops of the global heaps lose no pair of a live chunk ...    *)
LEMMA PopGlobalKeeps ==
    ASSUME TypeOK, NEW x, NEW k \in DOMAIN dict \ x, Pair(k) \in global_heaps[dict[k].lambda]
    PROVE  Pair(k) \in PopInvalid(global_heaps, ValidGlobal(global_heaps, dict, x))[dict[k].lambda]
<1>1. k \in Nat /\ dict[k].lambda \in Lambdas
  BY EntryFacts
<1>2. Pair(k) \in ValidGlobal(global_heaps, dict, x)[dict[k].lambda]
  BY <1>1 DEF ValidGlobal, Pair
<1> QED
  BY <1>1, <1>2, PopKeepsValid DEF Pair

(* ... and neither do those of a sharer.                                   *)
LEMMA PopClientKeeps ==
    ASSUME TypeOK, NEW x, NEW k \in DOMAIN dict \ x, NEW c \in DOMAIN dict[k].access,
           Pair(k) \in client_heaps[c][dict[k].lambda]
    PROVE  Pair(k) \in PopInvalid(client_heaps[c], ValidClient(client_heaps[c], c, dict, x))[dict[k].lambda]
<1>1. k \in Nat /\ dict[k].lambda \in Lambdas
  BY EntryFacts
<1>2. Pair(k) \in ValidClient(client_heaps[c], c, dict, x)[dict[k].lambda]
  BY <1>1 DEF ValidClient, Pair
<1> QED
  BY <1>1, <1>2, PopKeepsValid DEF Pair

(* Entries and heaps as they were.                                         *)
LEMMA HeapFrame ==
    ASSUME HeapInv, Live' \subseteq Live, \A k \in Live' : dict'[k] = dict[k],
           UNCHANGED <<global_heaps, client_heaps>>
    PROVE  HeapInv'
BY DEF HeapInv, InHeaps, Pair

(* Steps of a put that choose no victim and remove nothing keep the live   *)
(* chunks.                                                                 *)
LEMMA LiveMove ==
    ASSUME NEW t \in Threads, NEW from \in PutPcs, NEW to \in PutPcs, NEW s,
           Moved(t, from, to, job[t].evict, s), UNCHANGED dict
    PROVE  Live' = Live
<1>1. \A u \in Threads : Victims(u)' = Victims(u)
  BY DEF Moved, Victims
<1> QED
  BY <1>1 DEF Live

(* A thread with no victims takes another job, or ends its own.            *)
LEMMA LiveSwitch ==
    ASSUME NEW t \in Threads, NEW j, Switched(t, j), Victims(t) = {}, j.pc \in PutPcs => j.evict = <<>>
    PROVE  \A u \in Threads : Victims(u)' = Victims(u)
<1>1. Range(<<>>) = {}
  BY DEF Range
<1>2. Victims(t)' = {}
  BY <1>1 DEF Switched, Victims
<1>3. \A u \in Threads \ {t} : Victims(u)' = Victims(u)
  BY DEF Switched, Victims
<1> QED
  BY <1>2, <1>3

(* The victims of a put are those of the holder of the lock.               *)
LEMMA NoVictims ==
    ASSUME EvictInv, NEW t \in Threads, job[t].pc \notin {"threshold", "maxclient", "remove"}
    PROVE  Victims(t) = {}
<1>1. Range(<<>>) = {}
  BY DEF Range
<1> QED
  BY <1>1 DEF EvictInv, VictimInv, Victims

(* Removing an entry leaves the others as they are.                        *)
LEMMA RemoveEffect ==
    ASSUME NEW key, Remove(key)
    PROVE  /\ DOMAIN dict' = DOMAIN dict \ {key}
           /\ \A k \in DOMAIN dict \ {key} : dict'[k] = dict[k]
BY DEF Remove, Without, Restrict

(* Pushing a pair keeps the pairs of the others and adds it.               *)
LEMMA PushKeeps ==
    ASSUME NEW heaps \in [Lambdas -> Heaps], NEW l \in Lambdas, NEW pair
    PROVE  /\ pair \in [heaps EXCEPT ![l] = @ \cup {pair}][l]
           /\ \A m \in Lambdas : heaps[m] \subseteq [heaps EXCEPT ![l] = @ \cup {pair}][m]
OBVIOUS

(* The effect of removing the victim of a put.                             *)
LEMMA RemoveVictimEffect ==
    ASSUME TypeOK, EvictInv, NEW t \in Threads, RemoveVictim(t)
    PROVE  \E v \in DOMAIN dict :
              /\ job[t].evict = <<v>> /\ job'[t].evict = <<>> /\ Remove(v) /\ Victims(t) = {v}
              /\ update_lock = t /\ Moved(t, "remove", "remove", <<>>, job[t].slot)
<1>1. Moved(t, "remove", "remove", Tail(job[t].evict), job[t].slot)
      /\ job[t].evict # <<>> /\ Remove(Head(job[t].evict))
  BY PutSteps DEF RemoveVictim
<1>2. job[t].pc \in PutPcs /\ job[t].pc \in Critical
  BY <1>1 DEF Moved, PutPcs, Critical
<1>3. PICK v \in DOMAIN dict : job[t].evict = <<v>>
  BY <1>1, <1>2 DEF EvictInv, VictimInv
<1>4. Head(<<v>>) = v /\ Tail(<<v>>) = <<>> /\ Range(<<v>>) = {v}
  BY DEF Range
<1>5. Moved(t, "remove", "remove", <<>>, job[t].slot)
  BY <1>1, <1>3, <1>4
<1> QED
  BY <1>1, <1>2, <1>3, <1>4, <1>5 DEF Victims, EvictInv, LockInv, Moved

(* The elements of a longer list.                                          *)
LEMMA RangeAppend ==
    ASSUME NEW S, NEW s \in Seq(S), NEW e \in S
    PROVE  Range(Append(s, e)) = Range(s) \cup {e}
<1>1. DOMAIN Append(s, e) = DOMAIN s \cup {Len(s) + 1} /\ Append(s, e)[Len(s) + 1] = e
      /\ \A i \in DOMAIN s : Append(s, e)[i] = s[i]
  OBVIOUS
<1> QED
  BY <1>1 DEF Range

(* Choosing a victim takes it, and only it, out of the live chunks.        *)
LEMMA LiveVictim ==
    ASSUME TypeOK, NEW t \in Threads, job[t].pc \in PutPcs, NEW key,
           Eligible(t, key), UNCHANGED dict,
           Moved(t, job[t].pc, job[t].pc, Append(job[t].evict, key), job[t].slot)
    PROVE  Live' = Live \ {key}
<1>1. job[t].evict \in Seq(Keys) /\ key \in Keys
  BY JobByPc DEF PutJobs, Eligible, TypeOK, PartialMap
<1>2. Range(Append(job[t].evict, key)) = Range(job[t].evict) \cup {key}
  BY <1>1, RangeAppend
<1>3. Victims(t)' = Victims(t) \cup {key}
  BY <1>2 DEF Moved, Victims
<1>4. \A u \in Threads \ {t} : Victims(u)' = Victims(u)
  BY DEF Moved, Victims
<1> QED
  BY <1>3, <1>4 DEF Live

(* The two ways to pop the tops keep every live chunk in the heaps.        *)
LEMMA PopsKeepHeaps ==
    ASSUME TypeOK, HeapInv, NEW t \in Threads, job[t].pc \in PutPcs,
           Live' \subseteq Live, UNCHANGED dict,
           \/ /\ global_heaps' = PopInvalid(global_heaps, GlobalCandidates(t))
              /\ UNCHANGED client_heaps
           \/ /\ \E c \in Clients : client_heaps' =
                     [client_heaps EXCEPT ![c] = PopInvalid(@, ClientCandidates(t, c))]
              /\ UNCHANGED global_heaps
    PROVE  HeapInv'
<1> SUFFICES ASSUME NEW k \in Live' PROVE InHeaps(k)'
  BY DEF HeapInv
<1>1. k \in DOMAIN dict \ Excluded(t) /\ InHeaps(k)
  BY DEF Live, Victims, Excluded, HeapInv
<1>2. dict[k].lambda \in Lambdas /\ DOMAIN dict[k].access \subseteq Clients
  BY <1>1, EntryFacts
<1>3. CASE global_heaps' = PopInvalid(global_heaps, GlobalCandidates(t)) /\ UNCHANGED client_heaps
  <2>1. Pair(k) \in global_heaps'[dict[k].lambda]
    BY <1>1, <1>3, PopGlobalKeeps DEF InHeaps, GlobalCandidates
  <2> QED
    BY <1>1, <1>3, <2>1 DEF InHeaps, Pair
<1>4. ASSUME NEW c \in Clients, UNCHANGED global_heaps,
             client_heaps' = [client_heaps EXCEPT ![c] = PopInvalid(@, ClientCandidates(t, c))]
      PROVE  InHeaps(k)'
  <2>1. ASSUME NEW d \in DOMAIN dict[k].access
        PROVE  Pair(k) \in client_heaps'[d][dict[k].lambda]
    <3>1. CASE d # c
      BY <1>1, <1>2, <1>4, <3>1 DEF InHeaps, TypeOK
    <3>2. CASE d = c
      <4>1. client_heaps'[c] = PopInvalid(client_heaps[c], ClientCandidates(t, c))
        BY <1>4 DEF TypeOK
      <4>2. Pair(k) \in client_heaps[c][dict[k].lambda] /\ c \in DOMAIN dict[k].access
        BY <1>1, <3>2 DEF InHeaps
      <4> QED
        BY <1>1, <3>2, <4>1, <4>2, PopClientKeeps DEF ClientCandidates
    <3> QED
      BY <3>1, <3>2
  <2> QED
    BY <1>1, <1>4, <2>1 DEF InHeaps, Pair
<1> QED
  BY <1>3, <1>4

(* Every step of a put keeps HeapInv.                                      *)
LEMMA ContinuePutHeaps ==
    ASSUME TypeOK, SlotInv, EvictInv, HeapInv, NEW t \in Threads, ContinuePut(t)
    PROVE  HeapInv'
<1> USE DEF cacheVars, evictorTables
<1>1. CASE EvictBelowThreshold(t) \/ EvictFromMaxClient(t)
  <2>1. PICK key : /\ Eligible(t, key)
                   /\ Moved(t, job[t].pc, job[t].pc, Append(job[t].evict, key), job[t].slot)
    BY <1>1, EvictStep
  <2>2. UNCHANGED dict /\ job[t].pc \in PutPcs
    BY <1>1, EvictStep DEF PutPcs
  <2>3. Live' \subseteq Live
    BY <2>1, <2>2, LiveVictim
  <2>4. CASE EvictBelowThreshold(t)
    BY <2>2, <2>3, <2>4, PopsKeepHeaps DEF EvictBelowThreshold
  <2>5. CASE EvictFromMaxClient(t)
    <3>1. \E c \in Clients : client_heaps' =
              [client_heaps EXCEPT ![c] = PopInvalid(@, ClientCandidates(t, c))]
      BY <2>5 DEF EvictFromMaxClient, MaxClients, TypeOK, PartialMap
    <3>2. UNCHANGED global_heaps
      BY <2>5 DEF EvictFromMaxClient
    <3> QED
      BY <2>2, <2>3, <3>1, <3>2, PopsKeepHeaps
  <2> QED
    BY <1>1, <2>4, <2>5
<1>2. CASE LeaveThreshold(t)
  <2>1. Moved(t, "threshold", "maxclient", job[t].evict, job[t].slot) /\ UNCHANGED dict
        /\ job[t].pc \in PutPcs /\ UNCHANGED client_heaps
    BY <1>2, PutSteps DEF LeaveThreshold, PutPcs
  <2>2. Live' = Live
    BY <2>1, LiveMove DEF PutPcs
  <2>3. CASE Over(t)
    BY <1>2, <2>1, <2>2, <2>3, PopsKeepHeaps DEF LeaveThreshold
  <2>4. CASE ~Over(t)
    BY <1>2, <2>1, <2>2, <2>4, HeapFrame DEF LeaveThreshold
  <2> QED
    BY <2>3, <2>4
<1>3. CASE DropMaxClient(t)
  <2>1. \E c \in Clients : client_heaps' =
            [client_heaps EXCEPT ![c] = PopInvalid(@, ClientCandidates(t, c))]
    BY <1>3 DEF DropMaxClient, MaxClients, TypeOK, PartialMap
  <2>2. UNCHANGED <<global_heaps, dict, job>> /\ job[t].pc \in PutPcs
    BY <1>3 DEF DropMaxClient, PutPcs
  <2>3. Live' = Live
    BY <2>2 DEF Live, Victims
  <2> QED
    BY <2>1, <2>2, <2>3, PopsKeepHeaps
<1>4. CASE RefusePut(t) \/ AcceptPut(t) \/ BeginCopy(t) \/ EndCopy(t)
  <2>1. PICK from \in PutPcs, to \in PutPcs : Moved(t, from, to, job[t].evict, job[t].slot)
    BY <1>4, PutSteps DEF PutPcs
  <2>2. UNCHANGED <<dict, global_heaps, client_heaps>>
    BY <1>4 DEF RefusePut, AcceptPut, BeginCopy, EndCopy
  <2>3. Live' = Live
    BY <2>1, <2>2, LiveMove
  <2> QED
    BY <2>2, <2>3, HeapFrame
<1>5. CASE Allocate(t)
  <2>1. PICK to, s : to \in PutPcs /\ Moved(t, "remove", to, <<>>, s)
    BY <1>5, PutSteps DEF PutPcs
  <2>2. UNCHANGED <<dict, global_heaps, client_heaps>> /\ job[t].evict = <<>>
    BY <1>5 DEF Allocate
  <2>3. Live' = Live
    BY <2>1, <2>2, LiveMove DEF PutPcs
  <2> QED
    BY <2>2, <2>3, HeapFrame
<1>6. CASE AbandonPut(t)
  <2>1. Switched(t, IdleJob) /\ UNCHANGED <<dict, global_heaps, client_heaps>>
    BY <1>6, PutSteps DEF AbandonPut
  <2>2. Victims(t) = {} /\ IdleJob.pc \notin PutPcs
    BY <1>6, NoVictims DEF AbandonPut, IdleJob, PutPcs
  <2>3. Live' = Live
    BY <2>1, <2>2, LiveSwitch DEF Live
  <2> QED
    BY <2>1, <2>3, HeapFrame
<1>7. CASE RemoveVictim(t)
  <2>1. PICK v \in DOMAIN dict : /\ job'[t].evict = <<>> /\ Remove(v) /\ Victims(t) = {v}
                                 /\ Moved(t, "remove", "remove", <<>>, job[t].slot)
    BY <1>7, RemoveVictimEffect
  <2>2. DOMAIN dict' = DOMAIN dict \ {v} /\ \A k \in DOMAIN dict \ {v} : dict'[k] = dict[k]
    BY <2>1, RemoveEffect
  <2>3. Live' \subseteq Live
    <3>1. \A u \in Threads \ {t} : Victims(u)' = Victims(u)
      BY <2>1 DEF Moved, Victims
    <3> QED
      BY <2>1, <2>2, <3>1 DEF Live
  <2>4. UNCHANGED <<global_heaps, client_heaps>>
    BY <1>7 DEF RemoveVictim
  <2>5. \A k \in Live' : dict'[k] = dict[k]
    BY <2>2 DEF Live
  <2> QED
    BY <2>3, <2>4, <2>5, HeapFrame
<1>8. CASE Register(t)
  <2>1. Switched(t, IdleJob) /\ job[t] \in PutJobs
    BY <1>8, PutSteps
  <2>2. PICK key, c, l, e, pair :
            /\ key \in Keys /\ c \in Clients /\ l \in Lambdas
            /\ key = job[t].key /\ c = job[t].client /\ l = job[t].lambda
            /\ e = NewEntry(t) /\ pair = <<Score(e), key>>
    BY <2>1 DEF PutJobs
  <2>3. Victims(t) = {} /\ IdleJob.pc \notin PutPcs
    BY <1>8, NoVictims DEF Register, IdleJob, PutPcs
  <2>4. \A u \in Threads : Victims(u)' = Victims(u)
    BY <2>1, <2>3, LiveSwitch
  <2>5. dict' = Assoc(dict, key, e)
        /\ global_heaps' = [global_heaps EXCEPT ![l] = @ \cup {pair}]
    BY <1>8, <2>2 DEF Register, PushGlobal
  <2>6. client_heaps' = [client_heaps EXCEPT ![c] = [client_heaps[c] EXCEPT ![l] = @ \cup {pair}]]
    BY <1>8, <2>2 DEF Register, PushClient
  <2>7. e.lambda = l /\ DOMAIN e.access = {c}
    BY <2>2 DEF NewEntry
  <2>8. /\ DOMAIN dict' = DOMAIN dict \cup {key}
        /\ dict'[key] = e
        /\ \A k \in DOMAIN dict \ {key} : dict'[k] = dict[k]
    BY <2>5 DEF Assoc
  <2>9. pair \in global_heaps'[l] /\ pair \in client_heaps'[c][l]
    BY <2>2, <2>5, <2>6, PushKeeps DEF TypeOK
  <2>10. /\ \A m \in Lambdas : global_heaps[m] \subseteq global_heaps'[m]
         /\ \A d \in Clients, m \in Lambdas : client_heaps[d][m] \subseteq client_heaps'[d][m]
    BY <2>2, <2>5, <2>6, PushKeeps DEF TypeOK
  <2>11. InHeaps(key)'
    <3>1. Pair(key)' = pair
      BY <2>2, <2>8 DEF Pair
    <3> QED
      BY <2>7, <2>8, <2>9, <3>1 DEF InHeaps
  <2>12. ASSUME NEW k \in Live', k # key PROVE InHeaps(k)'
    <3>1. k \in Live /\ dict'[k] = dict[k] /\ k \in DOMAIN dict
      BY <2>4, <2>8, <2>12 DEF Live
    <3>2. dict[k].lambda \in Lambdas /\ DOMAIN dict[k].access \subseteq Clients
      BY <3>1, EntryFacts
    <3>3. InHeaps(k) /\ Pair(k)' = Pair(k)
      BY <3>1 DEF HeapInv, Pair
    <3> QED
      BY <2>10, <3>1, <3>2, <3>3 DEF InHeaps
  <2> QED
    BY <2>11, <2>12 DEF HeapInv
<1> QED
  BY <1>1, <1>2, <1>3, <1>4, <1>5, <1>6, <1>7, <1>8 DEF ContinuePut

(* The steps that give a thread without victims another job.               *)
LEMMA QuietSwitches ==
    ASSUME TypeOK, EvictInv,
           \/ \E c \in Clients, ks \in Prefixes : BeginUpdate(c, ks)
           \/ EndUpdate \/ StopWorker
    PROVE  /\ \A u \in Threads : Victims(u)' = Victims(u)
           /\ \A u \in Threads : job[u].pc \in PutPcs <=> job'[u].pc \in PutPcs
           /\ \A u \in Threads : job[u].pc \in PutPcs => job'[u] = job[u]
           /\ UNCHANGED <<cacheVars, mem_pool, current_cache_size, evictorTables>>
<1>1. PICK t, j : t \in Threads /\ Switched(t, j) /\ j.pc \notin PutPcs /\ job[t].pc \in {"idle", "update"}
  <2>1. ASSUME NEW c, NEW ks, BeginUpdate(c, ks)
        PROVE  Switched("main", UpdateJob(c, ks)) /\ UpdateJob(c, ks).pc \notin PutPcs
               /\ job["main"].pc = "idle"
    <3>1. UpdateJob(c, ks).pc \notin PutPcs
      BY DEF UpdateJob, PutPcs
    <3> QED
      BY <2>1, <3>1, SwitchedJob DEF BeginUpdate, MainReady, Threads
  <2>2. ASSUME EndUpdate
        PROVE  Switched("main", IdleJob) /\ IdleJob.pc \notin PutPcs /\ job["main"].pc = "update"
    BY <2>2, SwitchedJob DEF EndUpdate, Threads, IdleJob, PutPcs
  <2>3. ASSUME StopWorker
        PROVE  Switched("worker", StoppedJob) /\ StoppedJob.pc \notin PutPcs
               /\ job["worker"].pc = "idle"
    BY <2>3, SwitchedJob DEF StopWorker, Threads, StoppedJob, PutPcs
  <2> QED
    BY <2>1, <2>2, <2>3 DEF Threads
<1>2. Victims(t) = {}
  BY <1>1, NoVictims
<1>3. \A u \in Threads : Victims(u)' = Victims(u)
  BY <1>1, <1>2, LiveSwitch
<1>4. job[t].pc \notin PutPcs /\ job'[t].pc \notin PutPcs
  BY <1>1 DEF Switched, PutPcs
<1>5. UNCHANGED <<cacheVars, mem_pool, current_cache_size, evictorTables>>
  BY DEF BeginUpdate, EndUpdate, StopWorker
<1> QED
  BY <1>1, <1>3, <1>4, <1>5 DEF Switched

(* An access changes no thread's victims.                                  *)
LEMMA UpdateVictims ==
    ASSUME TypeOK, UpdateNext
    PROVE  /\ \A u \in Threads : Victims(u)' = Victims(u)
           /\ Live' = Live
<1>1. \A t \in Threads : job'[t].pc = job[t].pc /\ (job[t].pc \in PutPcs => job'[t] = job[t])
  BY UpdateKeepsPuts
<1>2. \A u \in Threads : Victims(u)' = Victims(u)
  BY <1>1 DEF Victims
<1> QED
  BY <1>2, UpdateKeepsKeys DEF Live

(* Starting a put changes no thread's victims and removes its own key.     *)
LEMMA StartEffect ==
    ASSUME TypeOK, EvictInv, NEW t \in Threads, NEW item, StartPut(t, item), job[t].pc = "idle"
    PROVE  /\ \A u \in Threads : Victims(u)' = Victims(u)
           /\ Live' = Live \ {item.key}
           /\ DOMAIN dict' = DOMAIN dict \ {item.key}
           /\ \A k \in DOMAIN dict' : dict'[k] = dict[k]
           /\ job'[t].pc \in {"illegal", "threshold"} /\ job'[t].key = item.key
           /\ job'[t].evict = <<>>
           /\ \A u \in Threads \ {t} : job'[u] = job[u]
<1> DEFINE j == StartedJob(item, OldSize(item.key))
<1>1. Switched(t, j) /\ Remove(item.key)
  BY SwitchedJob DEF StartPut
<1>2. j.evict = <<>> /\ j.pc \in {"illegal", "threshold"} /\ j.key = item.key
  BY DEF StartedJob
<1>3. Victims(t) = {}
  BY NoVictims
<1> HIDE DEF j
<1>4. \A u \in Threads : Victims(u)' = Victims(u)
  BY <1>1, <1>2, <1>3, LiveSwitch
<1>5. DOMAIN dict' = DOMAIN dict \ {item.key} /\ \A k \in DOMAIN dict' : dict'[k] = dict[k]
  BY <1>1, RemoveEffect
<1>6. Live' = Live \ {item.key}
  BY <1>4, <1>5 DEF Live
<1> QED
  BY <1>1, <1>2, <1>4, <1>5, <1>6 DEF Switched

(* Every step keeps HeapInv.                                               *)
LEMMA NextHeaps ==
    ASSUME TypeOK, SlotInv, EvictInv, HeapInv, [Next]_vars
    PROVE  HeapInv'
<1>1. ASSUME NEW t \in Threads, NEW item \in PutItems, StartPut(t, item), job[t].pc = "idle"
      PROVE  HeapInv'
  <2>1. Live' \subseteq Live /\ Live' \subseteq DOMAIN dict' /\ \A k \in DOMAIN dict' : dict'[k] = dict[k]
    BY <1>1, StartEffect DEF Live
  <2> QED
    BY <1>1, <2>1, HeapFrame DEF StartPut
<1>2. CASE UpdateNext
  <2>1. Live' = Live
    BY <1>2, UpdateVictims
  <2>2. PICK key, c : /\ key = job["main"].keys[Len(job["main"].keys)]
                      /\ c = job["main"].client
    OBVIOUS
  <2>3. CASE key \notin DOMAIN dict
    BY <1>2, <2>1, <2>2, <2>3, HeapFrame DEF UpdateNext, evictorTables
  <2>4. CASE key \in DOMAIN dict
    <3>1. UpdateOnGet(key, c)
      BY <1>2, <2>2, <2>4 DEF UpdateNext
    <3>2. c \in Clients
      BY <1>2, <2>2, JobByPc DEF UpdateNext, Threads, UpdateJobs
    <3>3. PICK e, l, pair : e = Touched(dict[key], c) /\ l = e.lambda /\ pair = <<Score(e), key>>
      OBVIOUS
    <3>4. e \in Entries
      BY <2>4, <3>2, <3>3, EntryFacts, TouchedType DEF TypeOK
    <3>5. l \in Lambdas /\ DOMAIN e.access \subseteq Clients
      BY <3>3, <3>4, SharersType DEF Entries
    <3>6. /\ dict' = [dict EXCEPT ![key] = e]
          /\ global_heaps' = [global_heaps EXCEPT ![l] = @ \cup {pair}]
          /\ client_heaps' = [d \in Clients |-> IF d \in DOMAIN e.access
                                   THEN [client_heaps[d] EXCEPT ![l] = @ \cup {pair}]
                                   ELSE client_heaps[d]]
      BY <3>1, <3>3 DEF UpdateOnGet, PushGlobal, PushShared
    <3>7. dict'[key] = e /\ \A k \in DOMAIN dict \ {key} : dict'[k] = dict[k]
      BY <2>4, <3>6 DEF TypeOK, PartialMap
    <3>8. pair \in global_heaps'[l] /\ \A d \in DOMAIN e.access : pair \in client_heaps'[d][l]
      BY <3>5, <3>6, PushKeeps DEF TypeOK
    <3>9. /\ \A m \in Lambdas : global_heaps[m] \subseteq global_heaps'[m]
          /\ \A d \in Clients, m \in Lambdas : client_heaps[d][m] \subseteq client_heaps'[d][m]
      BY <3>5, <3>6, PushKeeps DEF TypeOK
    <3>10. InHeaps(key)'
      <4>1. Pair(key)' = pair
        BY <3>3, <3>7 DEF Pair
      <4> QED
        BY <3>3, <3>7, <3>8, <4>1 DEF InHeaps
    <3>11. ASSUME NEW k \in Live', k # key PROVE InHeaps(k)'
      <4>1. k \in Live /\ dict'[k] = dict[k] /\ k \in DOMAIN dict
        BY <2>1, <3>7, <3>11 DEF Live
      <4>2. dict[k].lambda \in Lambdas /\ DOMAIN dict[k].access \subseteq Clients
        BY <4>1, EntryFacts
      <4>3. InHeaps(k) /\ Pair(k)' = Pair(k)
        BY <4>1 DEF HeapInv, Pair
      <4> QED
        BY <3>9, <4>1, <4>2, <4>3 DEF InHeaps
    <3> QED
      BY <3>10, <3>11 DEF HeapInv
  <2> QED
    BY <2>3, <2>4
<1>3. CASE \/ \E c \in Clients, ks \in Prefixes : BeginUpdate(c, ks)
           \/ EndUpdate \/ StopWorker
  <2>1. \A u \in Threads : Victims(u)' = Victims(u)
    BY <1>3, QuietSwitches
  <2>2. UNCHANGED <<dict, global_heaps, client_heaps>>
    BY <1>3, QuietSwitches DEF cacheVars, evictorTables
  <2>3. Live' = Live
    BY <2>1, <2>2 DEF Live
  <2> QED
    BY <2>2, <2>3, HeapFrame
<1>4. CASE UNCHANGED <<cacheVars, mem_pool, current_cache_size, evictorTables, update_lock, job>>
  <2>1. Live' = Live
    BY <1>4 DEF cacheVars, Live, Victims
  <2> QED
    BY <1>4, <2>1, HeapFrame DEF cacheVars, evictorTables
<1> QED
  BY <1>1, <1>2, <1>3, <1>4, NextCases, ContinuePutHeaps

(* With the lock free every cached chunk is live.                          *)
LEMMA FreeIsLive ==
    ASSUME EvictInv, update_lock = "free"
    PROVE  Live = DOMAIN dict
<1>1. \A t \in Threads : job[t].pc \notin Critical
  BY DEF EvictInv, LockInv, Threads
<1>2. \A t \in Threads : Victims(t) = {}
  BY <1>1, NoVictims DEF Critical
<1> QED
  BY <1>2 DEF Live

(* The heaps' invariant, for any callers and any chunk sizes.              *)
LEMMA HeapInvariance == Spec => [](TypeOK /\ SlotInv /\ EvictInv /\ HeapInv)
<1>1. Init => HeapInv
  BY DEF Init, HeapInv, Live
<1>2. TypeOK /\ SlotInv /\ EvictInv /\ HeapInv /\ [Next]_vars
        => (TypeOK /\ SlotInv /\ EvictInv /\ HeapInv)'
  BY NextType, NextSlots, NextEvict, NextHeaps DEF SlotInv
<1> QED
  BY InitInv, InitEvict, <1>1, <1>2, PTL DEF Spec

(* Outside the critical sections every cached chunk is in the global heap  *)
(* of its lambda and in the heaps of all its sharers with its current      *)
(* value, for queued and blocking puts alike: lazy deletion and duplicate  *)
(* pairs never hide a chunk from an eviction.                              *)
THEOREM HeapsDescribeCache ==
    Spec => [](update_lock = "free" => GlobalHeapComplete /\ ClientHeapComplete)
<1>1. TypeOK /\ SlotInv /\ EvictInv /\ HeapInv
        => (update_lock = "free" => GlobalHeapComplete /\ ClientHeapComplete)
  BY FreeIsLive DEF HeapInv, InHeaps, Pair, GlobalHeapComplete, ClientHeapComplete
<1> QED
  BY HeapInvariance, <1>1, PTL

-----------------------------------------------------------------------------
(***************************************************************************)
(* Callers that only queue their puts, as the serving path does: then one  *)
(* thread puts, and the key of its put is not cached meanwhile.            *)
(***************************************************************************)
QueuedInv ==
    /\ job["main"].pc \notin PutPcs
    /\ job["worker"].pc \in PutPcs => job["worker"].key \notin DOMAIN dict

(* The steps of a put after its start keep its key away from the cache,    *)
(* until it is registered.                                                 *)
LEMMA ContinueQueued ==
    ASSUME TypeOK, EvictInv, QueuedInv, NEW t \in Threads, ContinuePut(t)
    PROVE  QueuedInv'
<1>1. job[t].pc \in PutPcs
  BY DEF ContinuePut, PutPcs, EvictBelowThreshold, LeaveThreshold, EvictFromMaxClient, RefusePut,
         DropMaxClient, AcceptPut, AbandonPut, RemoveVictim, Allocate, BeginCopy, EndCopy, Register
<1>2. t = "worker" /\ job[t].key \notin DOMAIN dict /\ {"main", "worker"} \subseteq Threads
  BY <1>1 DEF QueuedInv, Threads
<1>3. ASSUME NEW from, NEW to, NEW v, NEW s, Moved(t, from, to, v, s), DOMAIN dict' \subseteq DOMAIN dict
      PROVE  QueuedInv'
  BY <1>2, <1>3 DEF QueuedInv, Moved
<1>4. CASE Switched(t, IdleJob)
  BY <1>2, <1>4 DEF QueuedInv, Switched, IdleJob, PutPcs
<1>5. CASE RemoveVictim(t)
  BY <1>3, <1>5, RemoveVictimEffect, RemoveEffect
<1>6. CASE Register(t) \/ AbandonPut(t)
  BY <1>4, <1>6, PutSteps
<1>7. CASE DropMaxClient(t)
  BY <1>7 DEF DropMaxClient, QueuedInv
<1>8. CASE EvictBelowThreshold(t) \/ EvictFromMaxClient(t)
  BY <1>3, <1>8, EvictStep
<1>9. CASE LeaveThreshold(t) \/ RefusePut(t) \/ AcceptPut(t) \/ Allocate(t) \/ BeginCopy(t) \/ EndCopy(t)
  <2>1. \E from, to, v, s : Moved(t, from, to, v, s)
    BY <1>9, PutSteps
  <2>2. UNCHANGED dict
    BY <1>9 DEF LeaveThreshold, RefusePut, AcceptPut, Allocate, BeginCopy, EndCopy, cacheVars
  <2> QED
    BY <1>3, <2>1, <2>2
<1> QED
  BY <1>5, <1>6, <1>7, <1>8, <1>9 DEF ContinuePut

(* Every step keeps QueuedInv.                                             *)
LEMMA NextQueued ==
    ASSUME TRUE \notin Modes, TypeOK, EvictInv, QueuedInv, [Next]_vars
    PROVE  QueuedInv'
<1>0. {"main", "worker"} \subseteq Threads
  BY DEF Threads
<1>1. ASSUME NEW t \in Threads, NEW item, StartPut(t, item), job[t].pc = "idle",
             t = "main" => TRUE \in Modes
      PROVE  QueuedInv'
  <2>1. t = "worker"
    BY <1>1 DEF Threads
  <2> QED
    <3>1. /\ DOMAIN dict' = DOMAIN dict \ {item.key} /\ job'["worker"].key = item.key
          /\ job'["main"] = job["main"]
      BY <1>0, <1>1, <2>1, StartEffect
    <3> QED
      BY <3>1 DEF QueuedInv
<1>2. CASE UpdateNext
  BY <1>0, <1>2, UpdateKeepsPuts, UpdateKeepsKeys DEF QueuedInv
<1>3. CASE \/ \E c \in Clients, ks \in Prefixes : BeginUpdate(c, ks)
           \/ EndUpdate \/ StopWorker
  BY <1>0, <1>3, QuietSwitches DEF QueuedInv, cacheVars
<1>4. CASE UNCHANGED <<cacheVars, mem_pool, current_cache_size, evictorTables, update_lock, job>>
  BY <1>4 DEF cacheVars, QueuedInv
<1> QED
  BY <1>1, <1>2, <1>3, <1>4, NextCases, ContinueQueued

(* The reverse map names the sharers of the live chunks.                   *)
MapInv == key_to_clients = [k \in Live |-> DOMAIN dict[k].access]

(* Deleting a chunk from the reverse map and from the live chunks.         *)
LEMMA MapShrinks ==
    ASSUME MapInv, NEW key, Live' = Live \ {key}, \A k \in Live' : dict'[k] = dict[k],
           key_to_clients' = Without(key_to_clients, key)
    PROVE  MapInv'
BY DEF MapInv, Without, Restrict

(* Adding a client to the sharers of a chunk.                              *)
LEMMA MapGrows ==
    ASSUME MapInv, NEW key, NEW c, Live' = Live \cup {key},
           \A k \in Live \ {key} : dict'[k] = dict[k],
           DOMAIN dict'[key].access = (IF key \in Live THEN DOMAIN dict[key].access ELSE {}) \cup {c},
           key_to_clients' = AddClient(key_to_clients, key, c)
    PROVE  MapInv'
<1>1. key_to_clients' = [x \in Live \cup {key} |-> IF x = key
            THEN Lookup(key_to_clients, key, {}) \cup {c} ELSE key_to_clients[x]]
  BY DEF MapInv, AddClient, Assoc
<1>2. Lookup(key_to_clients, key, {}) = IF key \in Live THEN DOMAIN dict[key].access ELSE {}
  BY DEF MapInv, Lookup
<1>3. \A x \in Live \ {key} : key_to_clients[x] = DOMAIN dict'[x].access
  BY DEF MapInv
<1> QED
  BY <1>1, <1>2, <1>3 DEF MapInv

(* Nothing changes.                                                        *)
LEMMA MapFrame ==
    ASSUME MapInv, Live' = Live, \A k \in Live : dict'[k] = dict[k], UNCHANGED key_to_clients
    PROVE  MapInv'
BY DEF MapInv

(* Every step of a put keeps the reverse map.                              *)
LEMMA ContinueMap ==
    ASSUME TypeOK, EvictInv, QueuedInv, MapInv, NEW t \in Threads, ContinuePut(t)
    PROVE  MapInv'
<1> USE DEF cacheVars, evictorTables
<1>1. CASE EvictBelowThreshold(t) \/ EvictFromMaxClient(t)
  <2>1. PICK key : /\ Eligible(t, key) /\ ChooseVictim(t, key)
                   /\ Moved(t, job[t].pc, job[t].pc, Append(job[t].evict, key), job[t].slot)
    BY <1>1, EvictStep
  <2>2. UNCHANGED dict /\ job[t].pc \in PutPcs
    BY <1>1, EvictStep DEF PutPcs
  <2>3. Live' = Live \ {key}
    BY <2>1, <2>2, LiveVictim
  <2> QED
    BY <2>1, <2>2, <2>3, MapShrinks DEF ChooseVictim
<1>2. CASE LeaveThreshold(t) \/ RefusePut(t) \/ AcceptPut(t) \/ BeginCopy(t) \/ EndCopy(t)
  <2>1. PICK from \in PutPcs, to \in PutPcs : Moved(t, from, to, job[t].evict, job[t].slot)
    BY <1>2, PutSteps DEF PutPcs
  <2>2. UNCHANGED <<dict, key_to_clients>>
    BY <1>2 DEF LeaveThreshold, RefusePut, AcceptPut, BeginCopy, EndCopy
  <2>3. Live' = Live
    BY <2>1, <2>2, LiveMove
  <2> QED
    BY <2>2, <2>3, MapFrame
<1>3. CASE DropMaxClient(t)
  <2>1. UNCHANGED <<dict, key_to_clients, job>>
    BY <1>3 DEF DropMaxClient
  <2>2. Live' = Live
    BY <2>1 DEF Live, Victims
  <2> QED
    BY <2>1, <2>2, MapFrame
<1>4. CASE Allocate(t)
  <2>1. PICK to, s : to \in PutPcs /\ Moved(t, "remove", to, <<>>, s)
    BY <1>4, PutSteps DEF PutPcs
  <2>2. UNCHANGED <<dict, key_to_clients>> /\ job[t].evict = <<>>
    BY <1>4 DEF Allocate
  <2>3. Live' = Live
    BY <2>1, <2>2, LiveMove DEF PutPcs
  <2> QED
    BY <2>2, <2>3, MapFrame
<1>5. CASE AbandonPut(t)
  <2>1. Switched(t, IdleJob) /\ UNCHANGED <<dict, key_to_clients>>
    BY <1>5, PutSteps DEF AbandonPut
  <2>2. Victims(t) = {} /\ IdleJob.pc \notin PutPcs
    BY <1>5, NoVictims DEF AbandonPut, IdleJob, PutPcs
  <2>3. Live' = Live
    BY <2>1, <2>2, LiveSwitch DEF Live
  <2> QED
    BY <2>1, <2>3, MapFrame
<1>6. CASE RemoveVictim(t)
  <2>1. PICK v \in DOMAIN dict : /\ job'[t].evict = <<>> /\ Remove(v) /\ Victims(t) = {v}
                                 /\ Moved(t, "remove", "remove", <<>>, job[t].slot)
    BY <1>6, RemoveVictimEffect
  <2>2. DOMAIN dict' = DOMAIN dict \ {v} /\ \A k \in DOMAIN dict \ {v} : dict'[k] = dict[k]
    BY <2>1, RemoveEffect
  <2>3. Live' = Live \ {v}
    <3>1. \A u \in Threads \ {t} : Victims(u)' = Victims(u)
      BY <2>1 DEF Moved, Victims
    <3>2. Victims(t)' = {}
      BY <2>1 DEF Victims, Range
    <3> QED
      BY <2>1, <2>2, <3>1, <3>2 DEF Live
  <2>4. key_to_clients' = Without(key_to_clients, v)
    BY <2>1 DEF Remove
  <2>5. \A k \in Live' : dict'[k] = dict[k]
    BY <2>2, <2>3 DEF Live
  <2> QED
    BY <2>3, <2>4, <2>5, MapShrinks
<1>7. CASE Register(t)
  <2>1. Switched(t, IdleJob) /\ job[t] \in PutJobs /\ update_lock = "free" /\ job[t].pc = "register"
    BY <1>7, PutSteps DEF Register
  <2>2. PICK key, c, e : key = job[t].key /\ c = job[t].client /\ e = NewEntry(t)
    OBVIOUS
  <2>3. key \notin DOMAIN dict
    BY <2>1, <2>2 DEF QueuedInv, Threads, PutPcs
  <2>4. Victims(t) = {} /\ IdleJob.pc \notin PutPcs
    BY <2>1, NoVictims DEF IdleJob, PutPcs
  <2>5. \A u \in Threads : Victims(u)' = Victims(u)
    BY <2>1, <2>4, LiveSwitch
  <2>6. Live = DOMAIN dict /\ \A u \in Threads : Victims(u) = {}
    <3>1. \A u \in Threads : job[u].pc \notin Critical
      BY <2>1 DEF EvictInv, LockInv, Threads
    <3>2. \A u \in Threads : Victims(u) = {}
      BY <3>1, NoVictims DEF Critical
    <3> QED
      BY <2>1, <3>2, FreeIsLive
  <2>7. dict' = Assoc(dict, key, e) /\ key_to_clients' = AddClient(key_to_clients, key, c)
    BY <1>7, <2>2 DEF Register
  <2>8. /\ DOMAIN dict' = DOMAIN dict \cup {key} /\ dict'[key] = e
        /\ \A k \in DOMAIN dict \ {key} : dict'[k] = dict[k]
    BY <2>7 DEF Assoc
  <2>9. Live' = Live \cup {key}
    BY <2>5, <2>6, <2>8 DEF Live
  <2>10. DOMAIN e.access = {c}
    BY <2>2 DEF NewEntry
  <2> QED
    BY <2>3, <2>6, <2>7, <2>8, <2>9, <2>10, MapGrows
<1> QED
  BY <1>1, <1>2, <1>3, <1>4, <1>5, <1>6, <1>7 DEF ContinuePut

(* Every step keeps the reverse map.                                       *)
LEMMA NextMap ==
    ASSUME TRUE \notin Modes, TypeOK, EvictInv, QueuedInv, MapInv, [Next]_vars
    PROVE  MapInv'
<1>1. ASSUME NEW t \in Threads, NEW item, StartPut(t, item), job[t].pc = "idle"
      PROVE  MapInv'
  <2>1. Live' = Live \ {item.key} /\ \A k \in DOMAIN dict' : dict'[k] = dict[k]
    BY <1>1, StartEffect
  <2>2. \A k \in Live' : dict'[k] = dict[k]
    BY <2>1 DEF Live
  <2>3. CASE item.key \in DOMAIN dict
    <3>1. key_to_clients' = Without(key_to_clients, item.key)
      BY <1>1, <2>3 DEF StartPut, Remove
    <3> QED
      BY <2>1, <2>2, <3>1, MapShrinks
  <2>4. CASE item.key \notin DOMAIN dict
    <3>1. UNCHANGED key_to_clients
      BY <1>1, <2>4 DEF StartPut, Remove
    <3>2. Live' = Live
      BY <2>1, <2>4 DEF Live
    <3> QED
      BY <2>2, <3>1, <3>2, MapFrame
  <2> QED
    BY <2>3, <2>4
<1>2. CASE UpdateNext
  <2>1. Live' = Live
    BY <1>2, UpdateVictims
  <2>2. PICK key, c : /\ key = job["main"].keys[Len(job["main"].keys)]
                      /\ c = job["main"].client
    OBVIOUS
  <2>3. CASE key \notin DOMAIN dict
    BY <1>2, <2>1, <2>2, <2>3, MapFrame DEF UpdateNext, evictorTables
  <2>4. CASE key \in DOMAIN dict
    <3>1. UpdateOnGet(key, c)
      BY <1>2, <2>2, <2>4 DEF UpdateNext
    <3>2. PICK e : e = Touched(dict[key], c)
      OBVIOUS
    <3>3. dict' = [dict EXCEPT ![key] = e] /\ key_to_clients' = AddClient(key_to_clients, key, c)
      BY <3>1, <3>2 DEF UpdateOnGet
    <3>4. dict'[key] = e /\ \A k \in DOMAIN dict \ {key} : dict'[k] = dict[k]
      BY <2>4, <3>3 DEF TypeOK, PartialMap
    <3>5. DOMAIN e.access = DOMAIN dict[key].access \cup {c}
      <4>1. dict[key] \in Entries
        BY <2>4, EntryFacts
      <4> QED
        BY <3>2, <4>1 DEF Touched, Assoc, Entries
    <3>6. Live = DOMAIN dict
      <4>1. \A u \in Threads : job[u].pc \notin {"threshold", "maxclient", "remove"}
        BY <1>2 DEF UpdateNext, EvictInv, LockInv, Threads, Critical
      <4>2. \A u \in Threads : Victims(u) = {}
        BY <4>1, NoVictims
      <4> QED
        BY <4>2 DEF Live
    <3>7. Live' = Live \cup {key}
      BY <2>1, <2>4, <3>6
    <3> QED
      BY <2>4, <3>3, <3>4, <3>5, <3>6, <3>7, MapGrows DEF Live
  <2> QED
    BY <2>3, <2>4
<1>3. CASE \/ \E c \in Clients, ks \in Prefixes : BeginUpdate(c, ks)
           \/ EndUpdate \/ StopWorker
  <2>1. UNCHANGED <<dict, key_to_clients>> /\ \A u \in Threads : Victims(u)' = Victims(u)
    BY <1>3, QuietSwitches DEF cacheVars, evictorTables
  <2>2. Live' = Live
    BY <2>1 DEF Live
  <2> QED
    BY <2>1, <2>2, MapFrame
<1>4. CASE UNCHANGED <<cacheVars, mem_pool, current_cache_size, evictorTables, update_lock, job>>
  <2>1. Live' = Live
    BY <1>4 DEF cacheVars, Live, Victims
  <2> QED
    BY <1>4, <2>1, MapFrame DEF cacheVars, evictorTables
<1> QED
  BY <1>1, <1>2, <1>3, <1>4, NextCases, ContinueMap

(* What the queued callers' theorems rest on.                              *)
LEMMA QueuedInvariance ==
    ASSUME TRUE \notin Modes
    PROVE  Spec => [](TypeOK /\ SlotInv /\ EvictInv /\ HeapInv /\ QueuedInv /\ MapInv)
<1>1. Init => QueuedInv
  <2> SUFFICES ASSUME Init PROVE QueuedInv
    OBVIOUS
  <2>1. job["main"].pc = "idle" /\ job["worker"].pc = "idle"
    BY DEF Init, Threads, IdleJob
  <2> QED
    BY <2>1 DEF QueuedInv, PutPcs
<1>2. Init => MapInv
  BY DEF Init, MapInv, Live
<1>3. TypeOK /\ EvictInv /\ QueuedInv /\ MapInv /\ [Next]_vars => (QueuedInv /\ MapInv)'
  BY NextQueued, NextMap
<1> QED
  BY HeapInvariance, <1>1, <1>2, <1>3, PTL DEF Spec

(* With queued puts the evictor's heaps and its reverse map describe the   *)
(* cache outside the critical sections.  (With blocking puts as well, two  *)
(* puts of one key may overlap; the second registers over the first and    *)
(* the reverse map keeps both clients.)                                    *)
THEOREM TablesDescribe ==
    ASSUME TRUE \notin Modes
    PROVE  Spec => []TablesDescribeCache
<1>1. TypeOK /\ SlotInv /\ EvictInv /\ HeapInv /\ QueuedInv /\ MapInv => TablesDescribeCache
  <2> SUFFICES ASSUME EvictInv, HeapInv, MapInv, update_lock = "free"
               PROVE  GlobalHeapComplete /\ ClientHeapComplete /\ KeyToClientsAgrees
    BY DEF TablesDescribeCache
  <2>1. Live = DOMAIN dict
    BY FreeIsLive
  <2>2. GlobalHeapComplete /\ ClientHeapComplete
    BY <2>1 DEF HeapInv, InHeaps, Pair, GlobalHeapComplete, ClientHeapComplete
  <2>3. KeyToClientsAgrees
    BY <2>1 DEF MapInv, KeyToClientsAgrees
  <2> QED
    BY <2>2, <2>3
<1> QED
  BY QueuedInvariance, <1>1, PTL

(***************************************************************************)
(* No pool chunk is lost.  Each hand-over of a chunk, from an entry to the *)
(* free list, to a put, to the new entry, is a step of its own.            *)
(***************************************************************************)
(* A step that takes a chunk from nobody.                                  *)
LEMMA LeakFrame ==
    ASSUME NoSlotLeak, free_pool \subseteq free_pool',
           \A k \in DOMAIN dict : k \in DOMAIN dict' /\ dict'[k].slot = dict[k].slot,
           \A t \in InFlight : t \in InFlight' /\ job'[t].slot = job[t].slot
    PROVE  NoSlotLeak'
BY DEF NoSlotLeak

(* The removal of an entry.                                                *)
LEMMA LeakRemove ==
    ASSUME NoSlotLeak, NEW key, Remove(key),
           \A t \in InFlight : t \in InFlight' /\ job'[t].slot = job[t].slot
    PROVE  NoSlotLeak'
<1>1. CASE key \notin DOMAIN dict
  BY <1>1, LeakFrame DEF Remove
<1>2. CASE key \in DOMAIN dict
  <2>1. free_pool' = free_pool \cup {dict[key].slot}
    BY <1>2 DEF Remove, Freed
  <2>2. DOMAIN dict' = DOMAIN dict \ {key} /\ \A k \in DOMAIN dict \ {key} : dict'[k] = dict[k]
    BY RemoveEffect
  <2> QED
    BY <2>1, <2>2 DEF NoSlotLeak
<1> QED
  BY <1>1, <1>2

(* A move of a put that keeps its chunk, if it has one.                    *)
LEMMA FlightMove ==
    ASSUME NEW t \in Threads, NEW from, NEW to, NEW v, Moved(t, from, to, v, job[t].slot),
           from \in {"copy", "copying", "register"} => to \in {"copy", "copying", "register"}
    PROVE  \A u \in InFlight : u \in InFlight' /\ job'[u].slot = job[u].slot
BY DEF Moved, InFlight, HoldsSlot, Putting

(* Every step of a put keeps the pool whole.                               *)
LEMMA ContinueLeak ==
    ASSUME TypeOK, EvictInv, QueuedInv, NoSlotLeak, NEW t \in Threads, ContinuePut(t)
    PROVE  NoSlotLeak'
<1> USE DEF cacheVars
<1>1. CASE EvictBelowThreshold(t) \/ EvictFromMaxClient(t)
  <2>1. PICK v : Moved(t, job[t].pc, job[t].pc, v, job[t].slot)
    BY <1>1, EvictStep
  <2>2. UNCHANGED <<dict, free_pool>>
    BY <1>1, EvictStep
  <2>3. \A u \in InFlight : u \in InFlight' /\ job'[u].slot = job[u].slot
    BY <2>1, FlightMove
  <2> QED
    BY <2>2, <2>3, LeakFrame
<1>2. CASE LeaveThreshold(t) \/ RefusePut(t) \/ AcceptPut(t) \/ BeginCopy(t) \/ EndCopy(t)
  <2>1. PICK from, to : /\ Moved(t, from, to, job[t].evict, job[t].slot)
                        /\ from \in {"copy", "copying", "register"}
                               => to \in {"copy", "copying", "register"}
    BY <1>2, PutSteps
  <2>2. UNCHANGED <<dict, free_pool>>
    BY <1>2 DEF LeaveThreshold, RefusePut, AcceptPut, BeginCopy, EndCopy
  <2>3. \A u \in InFlight : u \in InFlight' /\ job'[u].slot = job[u].slot
    BY <2>1, FlightMove
  <2> QED
    BY <2>2, <2>3, LeakFrame
<1>3. CASE DropMaxClient(t)
  BY <1>3, LeakFrame DEF DropMaxClient, InFlight, HoldsSlot, Putting
<1>4. CASE AbandonPut(t)
  <2>1. Switched(t, IdleJob) /\ job[t].pc = "illegal" /\ UNCHANGED <<dict, free_pool>>
    BY <1>4, PutSteps DEF AbandonPut
  <2>2. \A u \in InFlight : u \in InFlight' /\ job'[u].slot = job[u].slot
    BY <2>1 DEF Switched, InFlight, HoldsSlot, Putting
  <2> QED
    BY <2>1, <2>2, LeakFrame
<1>5. CASE RemoveVictim(t)
  <2>1. PICK v : Remove(v) /\ Moved(t, "remove", "remove", <<>>, job[t].slot)
    BY <1>5, RemoveVictimEffect
  <2>2. \A u \in InFlight : u \in InFlight' /\ job'[u].slot = job[u].slot
    BY <2>1, FlightMove
  <2> QED
    BY <2>1, <2>2, LeakRemove
<1>6. CASE Allocate(t)
  <2>1. UNCHANGED dict
    BY <1>6 DEF Allocate
  <2>2. CASE Moved(t, "remove", "dead", <<>>, job[t].slot) /\ UNCHANGED free_pool
    <3>1. \A u \in InFlight : u \in InFlight' /\ job'[u].slot = job[u].slot
      BY <2>2, FlightMove
    <3> QED
      BY <2>1, <2>2, <3>1, LeakFrame
  <2>3. ASSUME NEW s \in free_pool, Moved(t, "remove", "copy", <<>>, s), free_pool' = free_pool \ {s}
        PROVE  NoSlotLeak'
    <3>1. t \in InFlight' /\ job'[t].slot = s
      BY <2>3 DEF Moved, InFlight, HoldsSlot, Putting
    <3>2. \A u \in InFlight : u \in InFlight' /\ job'[u].slot = job[u].slot
      BY <2>3 DEF Moved, InFlight, HoldsSlot, Putting
    <3> QED
      BY <2>1, <2>3, <3>1, <3>2 DEF NoSlotLeak
  <2> QED
    BY <1>6, <2>2, <2>3, PutSteps
<1>7. CASE Register(t)
  <2>1. Switched(t, IdleJob) /\ job[t].pc = "register" /\ UNCHANGED free_pool
    BY <1>7, PutSteps DEF Register
  <2>2. PICK key, s : key = job[t].key /\ s = job[t].slot
    OBVIOUS
  <2>3. key \notin DOMAIN dict
    BY <2>1, <2>2 DEF QueuedInv, Threads, PutPcs
  <2>4. /\ DOMAIN dict' = DOMAIN dict \cup {key} /\ dict'[key].slot = s
        /\ \A k \in DOMAIN dict : dict'[k] = dict[k]
    BY <1>7, <2>2, <2>3 DEF Register, Assoc, NewEntry
  <2>5. \A u \in InFlight : u = t \/ (u \in InFlight' /\ job'[u].slot = job[u].slot)
    BY <2>1 DEF Switched, InFlight, HoldsSlot, Putting
  <2> QED
    BY <2>1, <2>2, <2>4, <2>5 DEF NoSlotLeak
<1> QED
  BY <1>1, <1>2, <1>3, <1>4, <1>5, <1>6, <1>7 DEF ContinuePut

(* Every step keeps the pool whole.                                        *)
LEMMA NextLeak ==
    ASSUME TypeOK, EvictInv, QueuedInv, NoSlotLeak, [Next]_vars
    PROVE  NoSlotLeak'
<1>1. ASSUME NEW t \in Threads, NEW item, StartPut(t, item), job[t].pc = "idle"
      PROVE  NoSlotLeak'
  <2>1. Remove(item.key) /\ \A u \in Threads \ {t} : job'[u] = job[u]
    BY <1>1, StartEffect DEF StartPut
  <2>2. \A u \in InFlight : u \in InFlight' /\ job'[u].slot = job[u].slot
    BY <1>1, <2>1 DEF InFlight, HoldsSlot, Putting
  <2> QED
    BY <2>1, <2>2, LeakRemove
<1>2. CASE UpdateNext
  <2>1. \A t \in Threads : job'[t].pc = job[t].pc /\ (job[t].pc \in PutPcs => job'[t] = job[t])
    BY <1>2, UpdateKeepsPuts
  <2>2. \A u \in InFlight : u \in InFlight' /\ job'[u].slot = job[u].slot
    BY <2>1 DEF InFlight, HoldsSlot, Putting, PutPcs
  <2>3. \A k \in DOMAIN dict : k \in DOMAIN dict' /\ dict'[k].slot = dict[k].slot
    <3>1. ASSUME NEW key \in DOMAIN dict, NEW c, dict' = [dict EXCEPT ![key] = Touched(dict[key], c)],
                 NEW k \in DOMAIN dict
          PROVE  k \in DOMAIN dict' /\ dict'[k].slot = dict[k].slot
      <4>1. dict[key] \in Entries
        BY EntryFacts
      <4>2. Touched(dict[key], c).slot = dict[key].slot
        BY <4>1 DEF Touched, Entries
      <4> QED
        BY <3>1, <4>2 DEF TypeOK, PartialMap
    <3> QED
      BY <1>2, <3>1 DEF UpdateNext, UpdateOnGet
  <2>4. UNCHANGED free_pool
    BY <1>2 DEF UpdateNext
  <2> QED
    BY <2>2, <2>3, <2>4, LeakFrame
<1>3. CASE \/ \E c \in Clients, ks \in Prefixes : BeginUpdate(c, ks)
           \/ EndUpdate \/ StopWorker
  <2>1. UNCHANGED <<dict, free_pool>> /\ \A u \in Threads : job[u].pc \in PutPcs => job'[u] = job[u]
    BY <1>3, QuietSwitches DEF cacheVars
  <2>2. \A u \in InFlight : u \in InFlight' /\ job'[u].slot = job[u].slot
    BY <2>1 DEF InFlight, HoldsSlot, Putting, PutPcs
  <2> QED
    BY <2>1, <2>2, LeakFrame
<1>4. CASE UNCHANGED <<cacheVars, mem_pool, current_cache_size, evictorTables, update_lock, job>>
  BY <1>4, LeakFrame DEF cacheVars, InFlight, HoldsSlot, Putting
<1> QED
  BY <1>1, <1>2, <1>3, <1>4, NextCases, ContinueLeak

(* With queued puts no chunk of the pool is ever lost: each is free, or    *)
(* holds a cached chunk, or is being filled.  (With blocking puts as well  *)
(* a put that registers over another one of its key loses a chunk.)        *)
THEOREM PoolIsWhole ==
    ASSUME TRUE \notin Modes
    PROVE  Spec => []NoSlotLeak
<1>1. Init => NoSlotLeak
  BY DEF Init, NoSlotLeak
<1>2. TypeOK /\ EvictInv /\ QueuedInv /\ NoSlotLeak /\ [Next]_vars => NoSlotLeak'
  BY NextLeak
<1> QED
  BY QueuedInvariance, <1>1, <1>2, PTL DEF Spec

-----------------------------------------------------------------------------
(***************************************************************************)
(* The byte count, when every chunk fills a pool chunk.                    *)
(***************************************************************************)
FullChunksOnly == \A k \in Keys : ChunkSize[k] = SizePerChunk

(* The put that has been accepted and is not registered yet.               *)
Accepted == {"remove", "copy", "copying", "register"}
Reserved == IF job["worker"].pc \in Accepted THEN 1 ELSE 0

(* The total is the memory of the live chunks and of the accepted put; a   *)
(* refused put replaced nothing, so that nothing wrong is put back; and no *)
(* allocation has failed.                                                  *)
ExactInv ==
    /\ current_cache_size = SizePerChunk * (Cardinality(Live) + Reserved)
    /\ job["worker"].pc = "illegal" => job["worker"].old = 0
    /\ job["worker"].pc # "dead"

(* Counting pool chunks.                                                   *)
LEMMA OneMore ==
    ASSUME NEW n \in Int
    PROVE  /\ SizePerChunk * n \in Int
           /\ SizePerChunk * (n + 1) = SizePerChunk * n + SizePerChunk
           /\ SizePerChunk * (n - 1) = SizePerChunk * n - SizePerChunk
<1>1. SizePerChunk \in Int
  BY EvictorAssumption
<1> QED
  BY <1>1

(* The live chunks are finitely many.                                      *)
LEMMA LiveFinite ==
    ASSUME TypeOK
    PROVE  IsFiniteSet(Live) /\ Cardinality(Live) \in Nat
<1>1. Live \in SUBSET Keys
  BY DEF Live, TypeOK, PartialMap
<1> QED
  BY <1>1, FS_Subset, FS_CardinalityType, EvictorAssumption

(* One live chunk less, or one more.                                       *)
LEMMA LiveCount ==
    ASSUME TypeOK, NEW key
    PROVE  /\ key \in Live => Cardinality(Live \ {key}) = Cardinality(Live) - 1
           /\ key \notin Live => /\ Live \ {key} = Live
                                 /\ Cardinality(Live \cup {key}) = Cardinality(Live) + 1
<1>1. PICK L : L = Live
  OBVIOUS
<1>2. IsFiniteSet(L)
  BY <1>1, LiveFinite
<1>3. key \in L => Cardinality(L \ {key}) = Cardinality(L) - 1
  BY <1>2, FS_RemoveElement
<1>4. key \notin L => Cardinality(L \cup {key}) = Cardinality(L) + 1
  BY <1>2, FS_AddElement
<1>5. key \notin L => L \ {key} = L
  OBVIOUS
<1> QED
  BY <1>1, <1>3, <1>4, <1>5

(* As many pool chunks as fit the limit, and one more.                     *)
LEMMA SlotCount ==
    /\ Cardinality(Slots) = (MaxCacheSize \div SizePerChunk) + 1
    /\ MaxCacheSize \div SizePerChunk \in Nat
    /\ \A n \in Nat : SizePerChunk * n <= MaxCacheSize => n <= MaxCacheSize \div SizePerChunk
<1>0. MaxCacheSize \in Nat /\ SizePerChunk \in Nat \ {0}
  BY BackendAssumption, EvictorAssumption
<1> DEFINE d == MaxCacheSize \div SizePerChunk
<1>1. d \in Nat /\ MaxCacheSize < SizePerChunk * (d + 1)
  BY <1>0
<1> HIDE DEF d
<1>2. Cardinality(0 .. d) = d + 1
  BY <1>1, FS_Interval
<1>3. ASSUME NEW n \in Nat, SizePerChunk * n <= MaxCacheSize PROVE n <= d
  <2>1. CASE n >= d + 1
    <3>1. PICK m \in Nat : n = d + 1 + m
      <4>1. n - (d + 1) \in Nat
        BY <1>1, <2>1
      <4> QED
        BY <1>1, <4>1
    <3>2. SizePerChunk * n = SizePerChunk * (d + 1) + SizePerChunk * m
      BY <1>0, <1>1, <3>1
    <3>3. SizePerChunk * m \in Nat /\ SizePerChunk * (d + 1) \in Nat
      BY <1>0, <1>1
    <3> QED
      BY <1>0, <1>1, <1>3, <3>2, <3>3
  <2> QED
    BY <1>1, <2>1
<1> QED
  BY <1>1, <1>2, <1>3 DEF Slots, d

(* With room for the chunk of the accepted put in the total, and no chunk  *)
(* of the pool lost, the free list is not empty.                           *)
LEMMA RoomMeansFree ==
    ASSUME TypeOK, NoSlotLeak, InFlight = {}, IsFiniteSet(DOMAIN dict),
           SizePerChunk * (Cardinality(DOMAIN dict) + 1) <= MaxCacheSize
    PROVE  free_pool # {}
<1> SUFFICES ASSUME free_pool = {} PROVE FALSE
  OBVIOUS
<1> DEFINE f == [k \in DOMAIN dict |-> dict[k].slot]
<1>1. \A k \in DOMAIN dict : dict[k].slot \in Slots
  BY EntryFacts DEF Entries
<1>2. \A s \in Slots : \E k \in DOMAIN dict : dict[k].slot = s
  BY DEF NoSlotLeak
<1>3. f \in Surjection(DOMAIN dict, Slots)
  <2>1. f \in [DOMAIN dict -> Slots] /\ \A s \in Slots : \E k \in DOMAIN dict : f[k] = s
    BY <1>1, <1>2
  <2> QED
    BY <2>1 DEF Surjection
<1>4. Cardinality(Slots) <= Cardinality(DOMAIN dict)
  BY <1>3, FS_Surjection
<1>5. Cardinality(DOMAIN dict) \in Nat
  BY FS_CardinalityType
<1> QED
  BY <1>4, <1>5, SlotCount

(* A step of the worker that changes neither the total nor the count.      *)
LEMMA ExactFrame ==
    ASSUME ExactInv, UNCHANGED current_cache_size, Live' = Live, Reserved' = Reserved,
           job'["worker"].pc \notin {"illegal", "dead"}
    PROVE  ExactInv'
BY DEF ExactInv

(* Every step of a put keeps the total exact.                              *)
LEMMA ContinueExact ==
    ASSUME FullChunksOnly, TypeOK, EvictInv, QueuedInv, NoSlotLeak, ExactInv,
           NEW t \in Threads, ContinuePut(t)
    PROVE  ExactInv'
<1> USE DEF cacheVars
<1>a. job[t].pc \in PutPcs
  BY DEF ContinuePut, PutPcs, EvictBelowThreshold, LeaveThreshold, EvictFromMaxClient, RefusePut,
         DropMaxClient, AcceptPut, AbandonPut, RemoveVictim, Allocate, BeginCopy, EndCopy, Register
<1>b. t = "worker" /\ "main" \in Threads /\ job["main"].pc \notin PutPcs
  BY <1>a DEF QueuedInv, Threads
<1>c. ChunkSize[job[t].key] = SizePerChunk /\ SizePerChunk \in Nat \ {0} /\ MaxCacheSize \in Nat
      /\ job[t].old \in {0, SizePerChunk} /\ current_cache_size \in Int
  <2>1. job[t] \in PutJobs
    BY <1>a, JobByPc
  <2> QED
    BY <2>1, EvictorAssumption, BackendAssumption DEF FullChunksOnly, PutJobs, TypeOK
<1>d. IsFiniteSet(Live) /\ Cardinality(Live) \in Nat
  BY LiveFinite
<1>1. CASE EvictBelowThreshold(t) \/ EvictFromMaxClient(t)
  <2>1. PICK key : /\ Eligible(t, key) /\ ChooseVictim(t, key)
                   /\ Moved(t, job[t].pc, job[t].pc, Append(job[t].evict, key), job[t].slot)
    BY <1>1, EvictStep
  <2>2. UNCHANGED dict /\ job[t].pc \in {"threshold", "maxclient"}
    BY <1>1, EvictStep
  <2>3. Live' = Live \ {key}
    BY <1>a, <2>1, <2>2, LiveVictim
  <2>4. key \in Live
    <3>1. Victims("main") = {}
      BY <1>b DEF Victims
    <3> QED
      BY <1>a, <1>b, <2>1, <3>1 DEF Eligible, Live, Victims, Threads
  <2>5. Cardinality(Live') = Cardinality(Live) - 1
    BY <2>3, <2>4, LiveCount
  <2>6. Reserved = 0 /\ Reserved' = 0 /\ job'["worker"].pc \in {"threshold", "maxclient"}
    BY <1>b, <2>1, <2>2 DEF Reserved, Accepted, Moved
  <2>7. current_cache_size' = current_cache_size - SizePerChunk
    BY <2>1 DEF ChooseVictim
  <2>8. current_cache_size' = SizePerChunk * (Cardinality(Live') + Reserved')
    BY <1>c, <1>d, <2>5, <2>6, <2>7, OneMore DEF ExactInv
  <2> QED
    BY <2>6, <2>8 DEF ExactInv
<1>2. CASE LeaveThreshold(t) \/ BeginCopy(t) \/ EndCopy(t)
  <2>1. PICK from \in PutPcs, to \in PutPcs :
            /\ Moved(t, from, to, job[t].evict, job[t].slot)
            /\ <<from, to>> \in {<<"threshold", "maxclient">>, <<"copy", "copying">>,
                                 <<"copying", "register">>}
    BY <1>2, PutSteps DEF PutPcs
  <2>2. UNCHANGED <<dict, current_cache_size>>
    BY <1>2 DEF LeaveThreshold, BeginCopy, EndCopy
  <2>3. Live' = Live
    BY <2>1, <2>2, LiveMove
  <2>4. Reserved' = Reserved /\ job'["worker"].pc \notin {"illegal", "dead"}
    BY <1>b, <2>1 DEF Moved, Reserved, Accepted
  <2> QED
    BY <2>2, <2>3, <2>4, ExactFrame
<1>3. CASE DropMaxClient(t)
  <2>1. UNCHANGED <<dict, job, current_cache_size>>
    BY <1>3 DEF DropMaxClient
  <2>2. Live' = Live /\ Reserved' = Reserved
    BY <2>1 DEF Live, Victims, Reserved
  <2> QED
    BY <2>1, <2>2 DEF ExactInv
<1>4. CASE RefusePut(t)
  <2>1. Moved(t, "maxclient", "illegal", job[t].evict, job[t].slot) /\ Over(t)
        /\ UNCHANGED <<dict, current_cache_size>>
    BY <1>4, PutSteps DEF RefusePut
  <2>2. Live' = Live
    BY <2>1, LiveMove DEF PutPcs
  <2>3. Reserved' = Reserved /\ job'["worker"].pc = "illegal" /\ job'["worker"].old = job[t].old
    BY <1>b, <2>1 DEF Moved, Reserved, Accepted
  <2>4. job[t].old = 0
    <3>1. current_cache_size + job[t].old <= MaxCacheSize
      BY <2>1 DEF Moved, EvictInv, BytesInv
    <3>2. current_cache_size + SizePerChunk > MaxCacheSize
      BY <1>c, <2>1 DEF Over
    <3> QED
      BY <1>c, <3>1, <3>2
  <2> QED
    BY <2>1, <2>2, <2>3, <2>4 DEF ExactInv
<1>5. CASE AcceptPut(t)
  <2>1. Moved(t, "maxclient", "remove", job[t].evict, job[t].slot) /\ UNCHANGED dict
        /\ current_cache_size' = current_cache_size + SizePerChunk
    BY <1>5, <1>c, PutSteps DEF AcceptPut
  <2>2. Live' = Live
    BY <2>1, LiveMove DEF PutPcs
  <2>3. Reserved = 0 /\ Reserved' = 1 /\ job'["worker"].pc = "remove"
    BY <1>b, <2>1 DEF Moved, Reserved, Accepted
  <2>4. current_cache_size' = SizePerChunk * (Cardinality(Live') + Reserved')
    BY <1>c, <1>d, <2>1, <2>2, <2>3, OneMore DEF ExactInv
  <2> QED
    BY <2>3, <2>4 DEF ExactInv
<1>6. CASE AbandonPut(t)
  <2>1. Switched(t, IdleJob) /\ job[t].pc = "illegal" /\ UNCHANGED dict
        /\ current_cache_size' = current_cache_size + job[t].old
    BY <1>6, PutSteps DEF AbandonPut
  <2>2. UNCHANGED current_cache_size
    BY <1>b, <1>c, <2>1 DEF ExactInv
  <2>3. Victims(t) = {} /\ IdleJob.pc \notin PutPcs
    BY <2>1, NoVictims DEF IdleJob, PutPcs
  <2>4. Live' = Live
    BY <2>1, <2>3, LiveSwitch DEF Live
  <2>5. Reserved' = Reserved /\ job'["worker"].pc = "idle"
    BY <1>b, <2>1 DEF Switched, Reserved, Accepted, IdleJob
  <2> QED
    BY <2>2, <2>4, <2>5, ExactFrame
<1>7. CASE RemoveVictim(t)
  <2>1. PICK v \in DOMAIN dict : /\ job'[t].evict = <<>> /\ Remove(v) /\ Victims(t) = {v}
                                 /\ Moved(t, "remove", "remove", <<>>, job[t].slot)
    BY <1>7, RemoveVictimEffect
  <2>2. DOMAIN dict' = DOMAIN dict \ {v}
    BY <2>1, RemoveEffect
  <2>3. Live' = Live
    <3>1. Victims("main") = {} /\ Victims("main")' = {} /\ Victims(t)' = {}
      BY <1>b, <2>1 DEF Victims, Moved, Range
    <3> QED
      BY <1>b, <2>1, <2>2, <3>1 DEF Live, Threads
  <2>4. Reserved' = Reserved /\ job'["worker"].pc = "remove" /\ UNCHANGED current_cache_size
    BY <1>7, <1>b, <2>1 DEF RemoveVictim, Moved, Reserved, Accepted
  <2> QED
    BY <2>3, <2>4, ExactFrame
<1>8. CASE Allocate(t)
  <2>1. UNCHANGED <<dict, current_cache_size>> /\ job[t].evict = <<>> /\ job[t].pc = "remove"
    BY <1>8 DEF Allocate
  <2>2. free_pool # {}
    <3>1. Reserved = 1 /\ InFlight = {}
      BY <1>b, <2>1 DEF Reserved, Accepted, InFlight, HoldsSlot, Putting, PutPcs, Threads
    <3>2. Live = DOMAIN dict
      <4>1. Victims("main") = {} /\ Victims(t) = {}
        BY <1>b, <2>1 DEF Victims, Range
      <4> QED
        BY <1>b, <4>1 DEF Live, Threads
    <3>3. SizePerChunk * (Cardinality(DOMAIN dict) + 1) <= MaxCacheSize
      BY <3>1, <3>2 DEF ExactInv, EvictInv, BytesInv
    <3> QED
      BY <1>d, <3>1, <3>2, <3>3, RoomMeansFree
  <2>3. PICK s : Moved(t, "remove", "copy", <<>>, s)
    BY <1>8, <2>2, PutSteps
  <2>4. Live' = Live
    BY <2>1, <2>3, LiveMove DEF PutPcs
  <2>5. Reserved' = Reserved /\ job'["worker"].pc = "copy"
    BY <1>b, <2>3 DEF Moved, Reserved, Accepted
  <2> QED
    BY <2>1, <2>4, <2>5, ExactFrame
<1>9. CASE Register(t)
  <2>1. Switched(t, IdleJob) /\ job[t].pc = "register" /\ update_lock = "free"
        /\ UNCHANGED current_cache_size
    BY <1>9, PutSteps DEF Register
  <2>2. PICK key : key = job[t].key
    OBVIOUS
  <2>3. key \notin DOMAIN dict
    BY <1>a, <1>b, <2>2 DEF QueuedInv
  <2>4. DOMAIN dict' = DOMAIN dict \cup {key}
    BY <1>9, <2>2 DEF Register, Assoc
  <2>5. Victims("main") = {} /\ Victims("main")' = {} /\ Victims(t) = {} /\ Victims(t)' = {}
    <3>1. Victims(t) = {} /\ IdleJob.pc \notin PutPcs
      BY <2>1, NoVictims DEF IdleJob, PutPcs
    <3> QED
      BY <1>b, <2>1, <3>1 DEF Switched, Victims
  <2>6. Live' = Live \cup {key} /\ key \notin Live
    BY <1>b, <2>3, <2>4, <2>5 DEF Live, Threads
  <2>7. Cardinality(Live') = Cardinality(Live) + 1
    BY <2>6, LiveCount
  <2>8. Reserved = 1 /\ Reserved' = 0 /\ job'["worker"].pc = "idle"
    BY <1>b, <2>1 DEF Switched, Reserved, Accepted, IdleJob
  <2>9. Cardinality(Live') + Reserved' = Cardinality(Live) + Reserved
    BY <1>d, <2>7, <2>8
  <2> QED
    BY <2>1, <2>8, <2>9 DEF ExactInv
<1> QED
  BY <1>1, <1>2, <1>3, <1>4, <1>5, <1>6, <1>7, <1>8, <1>9 DEF ContinuePut

(* Every step keeps the total exact.                                       *)
LEMMA NextExact ==
    ASSUME FullChunksOnly, TRUE \notin Modes, TypeOK, EvictInv, QueuedInv, NoSlotLeak, ExactInv,
           [Next]_vars
    PROVE  ExactInv'
<1>0. {"main", "worker"} \subseteq Threads
  BY DEF Threads
<1>1. ASSUME NEW t \in Threads, NEW item \in PutItems, StartPut(t, item), job[t].pc = "idle",
             t = "main" => TRUE \in Modes
      PROVE  ExactInv'
  <2> DEFINE j == StartedJob(item, OldSize(item.key))
  <2>1. t = "worker"
    BY <1>1 DEF Threads
  <2>2. PICK key \in Keys : key = item.key
    BY DEF PutItems
  <2>3. /\ Live' = Live \ {key} /\ job'["worker"].pc \in {"illegal", "threshold"}
        /\ current_cache_size' = current_cache_size - OldSize(key)
    BY <1>1, <2>1, <2>2, StartEffect DEF StartPut
  <2>4. Reserved = 0 /\ Reserved' = 0
    BY <1>1, <2>1, <2>3 DEF Reserved, Accepted
  <2>5. Live = DOMAIN dict
    BY <1>1, FreeIsLive DEF StartPut
  <2>6. IsFiniteSet(Live) /\ Cardinality(Live) \in Nat /\ SizePerChunk \in Nat \ {0}
        /\ current_cache_size = SizePerChunk * Cardinality(Live) /\ MaxCacheSize \in Nat
        /\ current_cache_size <= MaxCacheSize
    BY <2>4, LiveFinite, EvictorAssumption, BackendAssumption DEF ExactInv, EvictInv, BytesInv
  <2>7. current_cache_size' = SizePerChunk * Cardinality(Live')
    <3>0. PICK n \in Nat : n = Cardinality(Live)
      BY <2>6
    <3>1. CASE key \in Live
      <4>1. OldSize(key) = SizePerChunk /\ Cardinality(Live') = n - 1
        BY <2>3, <2>5, <3>0, <3>1, LiveCount DEF OldSize
      <4>2. SizePerChunk * (n - 1) = SizePerChunk * n - SizePerChunk
        BY OneMore
      <4> QED
        BY <2>3, <2>6, <3>0, <4>1, <4>2
    <3>2. CASE key \notin Live
      <4>1. OldSize(key) = 0 /\ Live' = Live
        BY <2>3, <2>5, <3>2, LiveCount DEF OldSize
      <4>2. current_cache_size - 0 = current_cache_size
        BY DEF TypeOK
      <4> QED
        BY <2>3, <2>6, <4>1, <4>2
    <3> QED
      BY <3>1, <3>2
  <2>8. job'["worker"].pc = "illegal" => job'["worker"].old = 0
    <3>1. job'["worker"] = j
      BY <1>1, <2>1, SwitchedJob DEF StartPut, Switched
    <3>2. j.old = OldSize(key) /\ (j.pc = "illegal" => ChunkSize[key] > MaxCacheSize)
      BY <2>2 DEF StartedJob
    <3>3. SizePerChunk > MaxCacheSize => OldSize(key) = 0
      <4>1. ASSUME key \in Live PROVE SizePerChunk <= MaxCacheSize
        <5>1. PICK n \in Nat \ {0} : n = Cardinality(Live)
          BY <2>6, <4>1, FS_EmptySet
        <5>2. SizePerChunk * n >= SizePerChunk
          BY <2>6
        <5> QED
          BY <2>6, <5>1, <5>2
      <4> QED
        BY <2>5, <2>6, <4>1 DEF OldSize
    <3> HIDE DEF j
    <3> QED
      BY <3>1, <3>2, <3>3 DEF FullChunksOnly
  <2>9. Cardinality(Live') + Reserved' = Cardinality(Live')
    <3>1. IsFiniteSet(Live \ {key})
      BY <2>6, FS_RemoveElement
    <3>2. Cardinality(Live') \in Nat
      BY <2>3, <3>1, FS_CardinalityType
    <3> QED
      BY <2>4, <3>2
  <2> QED
    BY <2>3, <2>7, <2>8, <2>9 DEF ExactInv
<1>2. CASE UpdateNext
  <2>1. Live' = Live
    BY <1>2, UpdateVictims
  <2>2. job'["worker"] = job["worker"] /\ UNCHANGED current_cache_size
    BY <1>2 DEF UpdateNext, TypeOK, Threads
  <2> QED
    BY <2>1, <2>2 DEF ExactInv, Reserved
<1>3. CASE \/ \E c \in Clients, ks \in Prefixes : BeginUpdate(c, ks)
           \/ EndUpdate \/ StopWorker
  <2>1. UNCHANGED <<dict, current_cache_size>> /\ \A u \in Threads : Victims(u)' = Victims(u)
    BY <1>3, QuietSwitches DEF cacheVars
  <2>2. Live' = Live
    BY <2>1 DEF Live
  <2>3. /\ job["worker"].pc \in PutPcs <=> job'["worker"].pc \in PutPcs
        /\ job["worker"].pc \in PutPcs => job'["worker"] = job["worker"]
    BY <1>0, <1>3, QuietSwitches
  <2>4. Reserved' = Reserved
    BY <2>3 DEF Reserved, Accepted, PutPcs
  <2> QED
    BY <2>1, <2>2, <2>3, <2>4 DEF ExactInv, PutPcs
<1>4. CASE UNCHANGED <<cacheVars, mem_pool, current_cache_size, evictorTables, update_lock, job>>
  <2>1. Live' = Live
    BY <1>4 DEF cacheVars, Live, Victims
  <2> QED
    BY <1>4, <2>1 DEF ExactInv, Reserved
<1> QED
  BY <1>1, <1>2, <1>3, <1>4, NextCases, ContinueExact

(* The invariants of a cache of full chunks with queued puts.              *)
LEMMA ExactInvariance ==
    ASSUME FullChunksOnly, TRUE \notin Modes
    PROVE  Spec => [](TypeOK /\ EvictInv /\ QueuedInv /\ NoSlotLeak /\ ExactInv)
<1>1. Init => ExactInv
  <2> SUFFICES ASSUME Init PROVE ExactInv
    OBVIOUS
  <2>1. job["worker"].pc = "idle" /\ Live = {} /\ current_cache_size = 0
    BY DEF Init, Threads, IdleJob, Live
  <2>2. Reserved = 0 /\ Cardinality(Live) = 0
    BY <2>1, FS_EmptySet DEF Reserved, Accepted
  <2>3. SizePerChunk * (0 + 0) = 0
    BY EvictorAssumption
  <2> QED
    BY <2>1, <2>2, <2>3 DEF ExactInv
<1>2. TypeOK /\ EvictInv /\ QueuedInv /\ NoSlotLeak /\ ExactInv /\ [Next]_vars => ExactInv'
  BY NextExact
<1> QED
  BY QueuedInvariance, PoolIsWhole, <1>1, <1>2, PTL DEF Spec

(* Between puts the evictor's total is exactly the pool memory in use and  *)
(* within the limit: the subtractions for replaced entries and for chosen  *)
(* victims, the addition on acceptance and the one after a refusal agree   *)
(* with what is freed, allocated and registered in other steps.            *)
THEOREM AccountingIsExact ==
    ASSUME FullChunksOnly, TRUE \notin Modes
    PROVE  Spec => []AccountingExact
<1>1. TypeOK /\ EvictInv /\ QueuedInv /\ NoSlotLeak /\ ExactInv => AccountingExact
  <2> SUFFICES ASSUME TypeOK, EvictInv, QueuedInv, ExactInv, update_lock = "free"
               PROVE  /\ current_cache_size = SizePerChunk * (Cardinality(DOMAIN dict) + Cardinality(InFlight))
                      /\ current_cache_size <= MaxCacheSize
    BY DEF AccountingExact
  <2>1. Live = DOMAIN dict
    BY FreeIsLive
  <2>2. job["worker"].pc # "remove"
    BY DEF EvictInv, LockInv, Threads, Critical
  <2>3. InFlight = IF Reserved = 1 THEN {"worker"} ELSE {}
    BY <2>2 DEF InFlight, HoldsSlot, Putting, Reserved, Accepted, QueuedInv, PutPcs, Threads
  <2>4. Cardinality(InFlight) = Reserved
    BY <2>3, FS_Singleton, FS_EmptySet DEF Reserved
  <2> QED
    BY <2>1, <2>4 DEF ExactInv, EvictInv, BytesInv
<1> QED
  BY ExactInvariance, <1>1, PTL

(* The allocation of an accepted put never meets an empty free list: the   *)
(* one pool chunk more than the limit allows is enough, because the        *)
(* victims are freed before the allocation.                                *)
THEOREM PoolIsNeverExhausted ==
    ASSUME FullChunksOnly, TRUE \notin Modes
    PROVE  Spec => []PoolNeverExhausted
<1>1. TypeOK /\ EvictInv /\ QueuedInv /\ NoSlotLeak /\ ExactInv => PoolNeverExhausted
  BY DEF ExactInv, QueuedInv, PoolNeverExhausted, PutPcs, Threads
<1> QED
  BY ExactInvariance, <1>1, PTL

-----------------------------------------------------------------------------
(***************************************************************************)
(* The backend implements AbstractCache: every step begins, finishes or    *)
(* gives up a put, accepts one, forgets chunks, or changes nothing that a  *)
(* caller could see.                                                       *)
(***************************************************************************)
Held == [k \in DOMAIN dict |-> mem_pool[dict[k].slot]]
Writing == [t \in Threads |-> IF Putting(t, PutPcs) THEN {job[t].key} ELSE {}]
KeysOf(q) == [i \in DOMAIN q |-> q[i].key]

(* The keys of the puts in the queue are taken and added as the puts are.  *)
LEMMA KeysOfQueue ==
    ASSUME NEW q \in Seq(PutItems)
    PROVE  /\ \A x \in PutItems : KeysOf(Append(q, x)) = Append(KeysOf(q), x.key)
           /\ q # <<>> => /\ KeysOf(q) # <<>>
                          /\ Head(KeysOf(q)) = Head(q).key
                          /\ KeysOf(Tail(q)) = Tail(KeysOf(q))
<1>0. DOMAIN q = 1 .. Len(q) /\ Len(q) \in Nat /\ \A i \in DOMAIN q : q[i].key \in Keys
  <2>1. DOMAIN q = 1 .. Len(q) /\ Len(q) \in Nat /\ \A i \in DOMAIN q : q[i] \in PutItems
    OBVIOUS
  <2>2. \A x \in PutItems : x.key \in Keys
    BY DEF PutItems
  <2> QED
    BY <2>1, <2>2
<1>1. KeysOf(q) \in Seq(Keys) /\ Len(KeysOf(q)) = Len(q)
  BY <1>0 DEF KeysOf
<1>2. ASSUME NEW x \in PutItems PROVE KeysOf(Append(q, x)) = Append(KeysOf(q), x.key)
  <2>1. x.key \in Keys /\ Append(q, x) \in Seq(PutItems) /\ DOMAIN Append(q, x) = 1 .. Len(q) + 1
    BY <1>0 DEF PutItems
  <2>2. Append(KeysOf(q), x.key) \in Seq(Keys) /\ DOMAIN Append(KeysOf(q), x.key) = 1 .. Len(q) + 1
    BY <1>0, <1>1, <2>1
  <2>3. \A i \in 1 .. Len(q) + 1 : Append(q, x)[i].key = Append(KeysOf(q), x.key)[i]
    BY <1>0, <1>1, <2>1 DEF KeysOf
  <2> QED
    BY <2>1, <2>2, <2>3 DEF KeysOf
<1>3. ASSUME q # <<>>
      PROVE  KeysOf(q) # <<>> /\ Head(KeysOf(q)) = Head(q).key /\ KeysOf(Tail(q)) = Tail(KeysOf(q))
  <2>1. Len(q) >= 1
    BY <1>0, <1>3
  <2>2. KeysOf(q) # <<>> /\ Head(KeysOf(q)) = Head(q).key
    BY <1>0, <1>1, <2>1 DEF KeysOf
  <2>3. Tail(q) \in Seq(PutItems) /\ DOMAIN Tail(q) = 1 .. Len(q) - 1
    BY <1>0, <1>3, <2>1
  <2>4. Tail(KeysOf(q)) \in Seq(Keys) /\ DOMAIN Tail(KeysOf(q)) = 1 .. Len(q) - 1
    BY <1>0, <1>1, <2>1, <2>2
  <2>5. \A i \in 1 .. Len(q) - 1 : Tail(q)[i].key = Tail(KeysOf(q))[i]
    BY <1>0, <1>1, <1>3, <2>1, <2>2 DEF KeysOf
  <2> QED
    BY <2>2, <2>3, <2>4, <2>5 DEF KeysOf
<1> QED
  BY <1>2, <1>3

(* Initially the cache holds nothing, and nothing is put.                  *)
LEMMA RefineInit == Init => Abstract!Init
<1> SUFFICES ASSUME Init PROVE Abstract!Init
  OBVIOUS
<1>1. \A t \in Threads : ~Putting(t, PutPcs)
  BY DEF Init, Putting, PutPcs, IdleJob
<1> QED
  BY <1>1 DEF Init, Abstract!Init

(* A step that changes neither what the cache holds, nor the queue, nor    *)
(* the puts in progress.                                                   *)
LEMMA RefineStutter ==
    ASSUME Held' = Held, KeysOf(put_queue)' = KeysOf(put_queue), Writing' = Writing
    PROVE  [Abstract!Next]_(Abstract!cache)
BY DEF Held, Writing, KeysOf, Abstract!cache

(* Undisturbed data: what the cache holds for a key is the key's own data, *)
(* so it only depends on which keys are cached.                            *)
LEMMA HeldKeys ==
    ASSUME SlotInv, SlotInv'
    PROVE  Held = [k \in DOMAIN dict |-> k] /\ Held' = [k \in DOMAIN dict' |-> k]
BY DEF Held, SlotInv, CachedDataIntact

(* The puts in progress after a move.                                      *)
LEMMA WritingMove ==
    ASSUME NEW t \in Threads, NEW from \in PutPcs, NEW to \in PutPcs, NEW v, NEW s,
           Moved(t, from, to, v, s)
    PROVE  Writing' = Writing
<1>1. \A u \in Threads : /\ Putting(u, PutPcs)' <=> Putting(u, PutPcs)
                         /\ Putting(u, PutPcs) => job'[u].key = job[u].key
  BY DEF Moved, Putting
<1> QED
  BY <1>1 DEF Writing

(* The puts in progress when one ends.                                     *)
LEMMA WritingEnd ==
    ASSUME NEW t \in Threads, Switched(t, IdleJob)
    PROVE  Writing' = [Writing EXCEPT ![t] = {}]
<1>1. ~Putting(t, PutPcs)' /\ \A u \in Threads \ {t} : job'[u] = job[u]
  BY DEF Switched, IdleJob, Putting, PutPcs
<1> QED
  BY <1>1 DEF Writing, Putting

(* Every step of a put is a step of AbstractCache.                         *)
LEMMA RefineContinue ==
    ASSUME TypeOK, SlotInv, SlotInv', EvictInv, NEW t \in Threads, ContinuePut(t)
    PROVE  [Abstract!Next]_(Abstract!cache)
<1> USE DEF cacheVars
<1>0. KeysOf(put_queue)' = KeysOf(put_queue)
  BY DEF ContinuePut, EvictBelowThreshold, LeaveThreshold, EvictFromMaxClient, RefusePut, KeysOf,
         DropMaxClient, AcceptPut, AbandonPut, RemoveVictim, Allocate, BeginCopy, EndCopy, Register
<1>1. ASSUME NEW from \in PutPcs, NEW to \in PutPcs, NEW v, NEW s, Moved(t, from, to, v, s),
             UNCHANGED dict
      PROVE  [Abstract!Next]_(Abstract!cache)
  <2>1. Held' = Held
    BY <1>1, HeldKeys
  <2> QED
    BY <1>0, <1>1, <2>1, WritingMove, RefineStutter
<1>2. CASE EvictBelowThreshold(t) \/ EvictFromMaxClient(t)
  BY <1>1, <1>2, EvictStep DEF PutPcs
<1>3. CASE LeaveThreshold(t) \/ RefusePut(t) \/ AcceptPut(t) \/ Allocate(t) \/ BeginCopy(t) \/ EndCopy(t)
  <2>1. PICK from, to, v, s : from \in PutPcs /\ to \in PutPcs /\ Moved(t, from, to, v, s)
    BY <1>3, PutSteps DEF PutPcs
  <2>2. UNCHANGED dict
    BY <1>3 DEF LeaveThreshold, RefusePut, AcceptPut, Allocate, BeginCopy, EndCopy
  <2> QED
    BY <1>1, <2>1, <2>2
<1>4. CASE DropMaxClient(t)
  <2>1. Writing' = Writing /\ Held' = Held
    BY <1>4 DEF DropMaxClient, Writing, Putting, Held
  <2> QED
    BY <1>0, <2>1, RefineStutter
<1>5. CASE AbandonPut(t)
  <2>1. Writing' = [Writing EXCEPT ![t] = {}]
    BY <1>5, PutSteps, WritingEnd
  <2>2. Held' = Held
    BY <1>5, HeldKeys DEF AbandonPut
  <2>3. Abstract!GiveUp(t)
    BY <1>0, <2>1, <2>2 DEF Abstract!GiveUp, Held, Writing, KeysOf
  <2> QED
    BY <2>3 DEF Abstract!Next
<1>6. CASE RemoveVictim(t)
  <2>1. PICK v \in DOMAIN dict : Remove(v) /\ Moved(t, "remove", "remove", <<>>, job[t].slot)
    BY <1>6, RemoveVictimEffect
  <2>2. Writing' = Writing
    BY <2>1, WritingMove DEF PutPcs
  <2>3. DOMAIN dict' = DOMAIN dict \ {v}
    BY <2>1, RemoveEffect
  <2>4. Held' = [k \in DOMAIN dict \ {v} |-> Held[k]]
    BY <2>3, HeldKeys
  <2>5. \E K \in SUBSET DOMAIN Held : Held' = [k \in K |-> Held[k]]
    BY <2>4 DEF Held
  <2>6. Abstract!Forget
    BY <1>0, <2>2, <2>5 DEF Abstract!Forget, Abstract!Keep, Held, Writing, KeysOf
  <2> QED
    BY <2>6 DEF Abstract!Next
<1>7. CASE Register(t)
  <2>1. Writing' = [Writing EXCEPT ![t] = {}] /\ job[t].pc = "register"
    BY <1>7, PutSteps, WritingEnd DEF Register
  <2>2. PICK key : key = job[t].key
    OBVIOUS
  <2>3. Writing[t] = {key}
    BY <2>1, <2>2 DEF Writing, Putting, PutPcs
  <2>4. DOMAIN dict' = DOMAIN dict \cup {key}
    BY <1>7, <2>2 DEF Register, Assoc
  <2>5. Held' = Assoc(Held, key, key)
    BY <2>4, HeldKeys DEF Assoc
  <2>6. Abstract!Finish(t)
    BY <1>0, <2>1, <2>3, <2>5 DEF Abstract!Finish, Held, Writing, KeysOf, Assoc, Abstract!Assoc
  <2> QED
    BY <2>6 DEF Abstract!Next
<1> QED
  BY <1>2, <1>3, <1>4, <1>5, <1>6, <1>7 DEF ContinuePut

(* Starting a put, from the queue or directly.                             *)
LEMMA RefineStart ==
    ASSUME TypeOK, SlotInv, SlotInv', EvictInv, NEW t \in Threads, NEW item \in PutItems,
           StartPut(t, item), job[t].pc = "idle"
    PROVE  /\ Writing[t] = {} /\ Writing' = [Writing EXCEPT ![t] = {item.key}]
           /\ \E K \in SUBSET DOMAIN Held : Held' = [k \in K |-> Held[k]]
<1>1. /\ DOMAIN dict' = DOMAIN dict \ {item.key} /\ job'[t].key = item.key
      /\ job'[t].pc \in {"illegal", "threshold"} /\ \A u \in Threads \ {t} : job'[u] = job[u]
  BY StartEffect
<1>2. ~Putting(t, PutPcs) /\ Putting(t, PutPcs)'
  BY <1>1 DEF Putting, PutPcs
<1>3. Writing[t] = {} /\ Writing' = [Writing EXCEPT ![t] = {item.key}]
  BY <1>1, <1>2 DEF Writing, Putting
<1>4. Held' = [k \in DOMAIN dict \ {item.key} |-> Held[k]]
  BY <1>1, HeldKeys
<1> QED
  BY <1>3, <1>4 DEF Held

(* Every step is a step of AbstractCache or changes nothing of it.         *)
LEMMA RefineNext ==
    ASSUME TypeOK, SlotInv, SlotInv', EvictInv, [Next]_vars
    PROVE  [Abstract!Next]_(Abstract!cache)
<1> USE DEF cacheVars
<1>0. {"main", "worker"} \subseteq Threads /\ put_queue \in Seq(PutItems)
  BY DEF Threads, TypeOK
<1>1. CASE TakePut
  <2>1. put_queue # <<>> /\ Head(put_queue) \in PutItems /\ put_queue' = Tail(put_queue)
        /\ StartPut("worker", Head(put_queue)) /\ job["worker"].pc = "idle"
    BY <1>0, <1>1 DEF TakePut
  <2>2. /\ Writing["worker"] = {}
        /\ Writing' = [Writing EXCEPT !["worker"] = {Head(put_queue).key}]
        /\ \E K \in SUBSET DOMAIN Held : Held' = [k \in K |-> Held[k]]
    BY <1>0, <2>1, RefineStart
  <2>3. /\ KeysOf(put_queue) # <<>> /\ Head(KeysOf(put_queue)) = Head(put_queue).key
        /\ KeysOf(put_queue)' = Tail(KeysOf(put_queue))
    BY <1>0, <2>1, KeysOfQueue DEF KeysOf
  <2>4. Abstract!BeginQueued("worker")
    BY <2>2, <2>3 DEF Abstract!BeginQueued, Abstract!BeginWith, Abstract!Keep, Held, Writing, KeysOf
  <2> QED
    BY <1>0, <2>4 DEF Abstract!Next
<1>2. ASSUME NEW item \in PutItems, EnqueuePut(item) PROVE Abstract!Next
  <2>1. KeysOf(put_queue)' = Append(KeysOf(put_queue), item.key) /\ item.key \in Keys
    BY <1>0, <1>2, KeysOfQueue DEF EnqueuePut, KeysOf, PutItems
  <2>2. Held' = Held /\ Writing' = Writing
    BY <1>2 DEF EnqueuePut, Held, Writing, Putting
  <2>3. Abstract!Accept(item.key)
    BY <2>1, <2>2 DEF Abstract!Accept, Held, Writing, KeysOf
  <2> QED
    BY <2>1, <2>3 DEF Abstract!Next
<1>3. ASSUME NEW item \in PutItems, BlockingPut(item) PROVE Abstract!Next
  <2>1. StartPut("main", item) /\ job["main"].pc = "idle" /\ UNCHANGED put_queue /\ item.key \in Keys
    BY <1>3 DEF BlockingPut, MainReady, PutItems
  <2>2. /\ Writing["main"] = {} /\ Writing' = [Writing EXCEPT !["main"] = {item.key}]
        /\ \E K \in SUBSET DOMAIN Held : Held' = [k \in K |-> Held[k]]
    BY <1>0, <2>1, RefineStart
  <2>3. Abstract!BeginBlocking("main", item.key)
    BY <2>1, <2>2 DEF Abstract!BeginBlocking, Abstract!BeginWith, Abstract!Keep, Held, Writing
  <2> QED
    BY <1>0, <2>1, <2>3 DEF Abstract!Next
<1>4. CASE \/ \E c \in Clients, ks \in Prefixes : BeginUpdate(c, ks)
           \/ EndUpdate \/ StopWorker
  <2>1. /\ UNCHANGED <<dict, mem_pool>>
        /\ \A u \in Threads : job[u].pc \in PutPcs <=> job'[u].pc \in PutPcs
        /\ \A u \in Threads : job[u].pc \in PutPcs => job'[u] = job[u]
    BY <1>4, QuietSwitches
  <2>2. Held' = Held /\ Writing' = Writing
    BY <2>1 DEF Held, Writing, Putting
  <2>3. KeysOf(put_queue)' = KeysOf(put_queue)
    BY <1>4 DEF BeginUpdate, EndUpdate, StopWorker, KeysOf
  <2> QED
    BY <2>2, <2>3, RefineStutter
<1>5. CASE UpdateNext
  <2>1. Writing' = Writing
    BY <1>5, UpdateKeepsPuts DEF Writing, Putting
  <2>2. Held' = Held
    BY <1>5, UpdateKeepsKeys, HeldKeys
  <2>3. KeysOf(put_queue)' = KeysOf(put_queue)
    BY <1>5 DEF UpdateNext, KeysOf
  <2> QED
    BY <2>1, <2>2, <2>3, RefineStutter
<1>6. CASE Close \/ Tick \/ UNCHANGED vars
  <2>1. Held' = Held /\ Writing' = Writing /\ KeysOf(put_queue)' = KeysOf(put_queue)
    BY <1>6 DEF Close, Tick, vars, Held, Writing, KeysOf, Putting
  <2> QED
    BY <2>1, RefineStutter
<1>7. CASE \E t \in Threads : ContinuePut(t)
  BY <1>7, RefineContinue
<1> QED
  BY <1>0, <1>1, <1>2, <1>3, <1>4, <1>5, <1>6, <1>7 DEF Next, Worker, MainLoop, Terminated

(* The backend implements the cache its callers rely on, for any callers   *)
(* and any chunk sizes: what get returns is always the data of its key, a  *)
(* chunk appears only when a put of it is finished, and queued puts are    *)
(* begun once each, in order.                                              *)
THEOREM RefinesCache == Spec => ImplementsCache
<1>1. TypeOK /\ SlotInv /\ SlotInv' /\ EvictInv /\ [Next]_vars => [Abstract!Next]_(Abstract!cache)
  BY RefineNext
<1> QED
  BY EvictorInvariance, RefineInit, <1>1, PTL DEF Spec, ImplementsCache, Abstract!Spec
-----------------------------------------------------------------------------
(***************************************************************************)
(* Step 1 of an eviction finds every chunk below the threshold, as long as *)
(* all chunks decay at the same rate: the heaps hold a pair for each chunk *)
(* that is not chosen yet, and the least of them has the least value.      *)
(***************************************************************************)
OneRate == \E l : Lambdas = {l}

(* A value is a natural number.                                            *)
LEMMA ScoreType ==
    ASSUME NEW e \in Entries
    PROVE  Score(e) \in Nat
<1>1. PICK C \in (SUBSET Clients) \ {{}} : e.access \in [C -> 0 .. MaxTime]
  BY DEF Entries, AccessMaps
<1>2. DOMAIN e.access = C /\ IsFiniteSet(C) /\ e.lambda \in Nat /\ \A c \in C : e.access[c] \in Nat
  <2>1. e.lambda \in Lambdas /\ DOMAIN e.access = C
    BY <1>1 DEF Entries
  <2>2. IsFiniteSet(C)
    BY <2>1, SharersType
  <2>3. \A c \in C : e.access[c] \in Nat
    BY <1>1
  <2> QED
    BY <2>1, <2>2, <2>3, EvictorAssumption
<1>3. ASSUME NEW c \in C
      PROVE  IsFiniteSet({c} \X (1 .. Weight(e, c)))
  <2>1. e.lambda * e.access[c] \in Nat
    BY <1>2
  <2>2. Weight(e, c) \in Int
    BY <2>1 DEF Weight
  <2>3. IsFiniteSet(1 .. Weight(e, c))
    BY <2>2, FS_Interval
  <2>4. IsFiniteSet({c})
    BY FS_Singleton
  <2> QED
    BY <2>3, <2>4, FS_Product
<1> DEFINE part == [c \in C |-> {c} \X (1 .. Weight(e, c))]
           Parts == {{c} \X (1 .. Weight(e, c)) : c \in C}
<1>4. part \in Surjection(C, Parts)
  BY DEF Surjection
<1>5. IsFiniteSet(Parts)
  BY <1>2, <1>4, FS_Surjection
<1>6. IsFiniteSet(UNION Parts)
  BY <1>3, <1>5, FS_UNION
<1>7. Cardinality(UNION Parts) \in Nat
  BY <1>6, FS_CardinalityType
<1> QED
  BY <1>2, <1>7 DEF Score

(* A set of numbers has a least element.                                   *)
LEMMA LeastOf ==
    ASSUME NEW S, S \subseteq Nat, S # {}
    PROVE  \E x \in S : \A y \in S : x <= y
<1>1. PICK R : R = OpToRel(<, Nat)
  OBVIOUS
<1>2. IsWellFoundedOn(R, Nat)
  BY <1>1, NatLessThanWellFounded
<1>3. PICK x \in S : \A y \in S : ~ (<<y, x>> \in R)
  BY <1>2, WFMin
<1>4. \A y, z \in Nat : y < z => <<y, z>> \in R
  BY <1>1 DEF OpToRel
<1>5. ASSUME NEW y \in S PROVE x <= y
  <2>1. x \in Nat /\ y \in Nat
    OBVIOUS
  <2>2. ~ (y < x)
    BY <1>3, <1>4, <2>1
  <2> QED
    BY <2>1, <2>2
<1> QED
  BY <1>3, <1>5

(* A heap with a pair has a top.                                           *)
LEMMA HeapTop ==
    ASSUME NEW H, H \subseteq Nat \X Nat, H # {}
    PROVE  \E p \in H : \A q \in H : HeapLeq(p, q)
<1> DEFINE V == {p[1] : p \in H}
<1>1. V \subseteq Nat /\ V # {}
  OBVIOUS
<1>2. PICK v \in V : \A w \in V : v <= w
  BY <1>1, LeastOf
<1> DEFINE K == {p[2] : p \in {q \in H : q[1] = v}}
<1>3. K \subseteq Nat /\ K # {}
  OBVIOUS
<1>4. PICK k \in K : \A m \in K : k <= m
  BY <1>3, LeastOf
<1>5. PICK p \in H : p[1] = v /\ p[2] = k
  OBVIOUS
<1>6. ASSUME NEW q \in H PROVE HeapLeq(p, q)
  <2>1. q[1] \in Nat /\ q[2] \in Nat /\ p[1] \in Nat /\ p[2] \in Nat
    OBVIOUS
  <2>2. p[1] <= q[1]
    BY <1>2, <1>5
  <2>3. q[1] = p[1] => p[2] <= q[2]
    <3>1. q[1] = p[1] => q[2] \in K
      BY <1>5
    <3> QED
      BY <1>4, <1>5, <3>1
  <2> QED
    BY <2>1, <2>2, <2>3 DEF HeapLeq
<1> QED
  BY <1>5, <1>6

(* What step 1 looks at has a value that no other candidate undercuts, and *)
(* it looks at something if there is a candidate.                          *)
LEMMA LeastCandidate ==
    ASSUME NEW valid, \A l \in Lambdas : valid[l] \subseteq Nat \X Nat,
           NEW m \in Lambdas, NEW p \in valid[m]
    PROVE  /\ MinKeys(valid) # {}
           /\ \A k \in MinKeys(valid) :
                 \E l \in Lambdas : \E q \in valid[l] : q[2] = k /\ q[1] <= p[1]
<1> DEFINE Tops(l) == {q \in valid[l] : \A r \in valid[l] : HeapLeq(q, r)}
           tops == UNION {Tops(l) : l \in Lambdas}
           values == {q[1] : q \in tops}
           least == {q \in tops : \A r \in tops : q[1] <= r[1]}
<1>1. PICK top \in Tops(m) : HeapLeq(top, p)
  <2>1. PICK q \in valid[m] : \A r \in valid[m] : HeapLeq(q, r)
    BY HeapTop
  <2> QED
    BY <2>1
<1>2. top \in tops /\ top[1] <= p[1]
  <2>1. top \in Nat \X Nat /\ p \in Nat \X Nat
    OBVIOUS
  <2> QED
    BY <1>1, <2>1 DEF HeapLeq
<1>3. tops \subseteq Nat \X Nat
  OBVIOUS
<1>4. values \subseteq Nat /\ values # {}
  BY <1>2, <1>3
<1> HIDE DEF tops
<1>5. PICK v \in values : \A w \in values : v <= w
  BY <1>4, LeastOf
<1>6. PICK q \in tops : q[1] = v
  OBVIOUS
<1>7. q \in least
  BY <1>5, <1>6
<1>8. MinKeys(valid) = {r[2] : r \in least}
  BY DEF MinKeys, tops
<1>9. MinKeys(valid) # {}
  BY <1>7, <1>8
<1>10. ASSUME NEW k \in MinKeys(valid)
       PROVE  \E l \in Lambdas : \E r \in valid[l] : r[2] = k /\ r[1] <= p[1]
  <2>1. PICK r \in least : r[2] = k
    BY <1>8, <1>10
  <2>2. r \in tops /\ r[1] <= top[1]
    BY <1>2, <2>1
  <2>3. r \in Nat \X Nat /\ top \in Nat \X Nat /\ p \in Nat \X Nat
    BY <1>2, <1>3, <2>2
  <2>4. r[1] <= p[1]
    BY <1>2, <2>2, <2>3
  <2>5. PICK l \in Lambdas : r \in valid[l]
    BY <2>2 DEF tops
  <2> QED
    BY <2>1, <2>4, <2>5
<1> QED
  BY <1>9, <1>10

(* At one rate a chunk with a larger value is not below the threshold      *)
(* either.                                                                 *)
LEMMA AboveThreshold ==
    ASSUME NEW d \in Entries, NEW e \in Entries, d.lambda = e.lambda, Score(d) <= Score(e),
           NEW time \in Nat, ~BelowThreshold(d, time)
    PROVE  ~BelowThreshold(e, time)
<1> DEFINE limit == 2^(d.lambda * time)
<1>1. Score(d) \in Nat /\ Score(e) \in Nat /\ ThresholdInverse \in Nat
  BY ScoreType, EvictorAssumption
<1>2. d.lambda * time \in Nat
  <2>1. d.lambda \in Lambdas
    BY DEF Entries
  <2>2. d.lambda \in Nat
    BY <2>1, EvictorAssumption
  <2> QED
    BY <2>2
<1>3. limit \in Int
  BY <1>2
<1>4. \A a, b, c \in Nat : a <= b => a * c <= b * c
  OBVIOUS
<1>5. Score(d) * ThresholdInverse <= Score(e) * ThresholdInverse
  BY <1>1, <1>4
<1>6. Score(d) * ThresholdInverse \in Nat /\ Score(e) * ThresholdInverse \in Nat
  BY <1>1
<1>7. ~(Score(d) * ThresholdInverse < limit)
  BY DEF BelowThreshold
<1> HIDE DEF limit
<1>8. ~(Score(e) * ThresholdInverse < limit)
  BY <1>3, <1>5, <1>6, <1>7
<1> QED
  BY <1>8 DEF BelowThreshold, limit

(* The candidates of step 1 are pairs of numbers.                          *)
LEMMA CandidatesType ==
    ASSUME TypeOK, NEW t \in Threads
    PROVE  /\ \A l \in Lambdas : GlobalCandidates(t)[l] \subseteq Nat \X Nat
           /\ \A l \in Lambdas : \A p \in GlobalCandidates(t)[l] :
                 p[2] \in DOMAIN dict /\ p[1] = Score(dict[p[2]]) /\ dict[p[2]].lambda = l
<1>1. SUFFICES ASSUME NEW l \in Lambdas, NEW p \in GlobalCandidates(t)[l]
               PROVE  /\ p \in Nat \X Nat /\ p[2] \in DOMAIN dict
                      /\ p[1] = Score(dict[p[2]]) /\ dict[p[2]].lambda = l
  OBVIOUS
<1>2. /\ p \in global_heaps[l] /\ p[2] \in DOMAIN dict /\ p[1] = Score(dict[p[2]])
      /\ dict[p[2]].lambda = l
  BY DEF GlobalCandidates, ValidGlobal
<1>3. p \in {Score(e) : e \in Entries} \X Keys
  BY <1>2 DEF TypeOK, Heaps
<1>4. p[1] \in Nat /\ p[2] \in Nat
  BY <1>3, ScoreType, EvictorAssumption
<1> QED
  BY <1>2, <1>3, <1>4

(* Every chunk that is not chosen is a candidate.                          *)
LEMMA EveryCandidate ==
    ASSUME TypeOK, EvictInv, HeapInv, NEW t \in Threads, job[t].pc = "threshold",
           NEW k \in DOMAIN dict \ Excluded(t)
    PROVE  Pair(k) \in GlobalCandidates(t)[dict[k].lambda] /\ dict[k].lambda \in Lambdas
<1>1. \A u \in Threads \ {t} : Victims(u) = {}
  <2>1. update_lock = t
    BY DEF EvictInv, LockInv, Critical
  <2>2. \A u \in Threads \ {t} : job[u].pc \in PutPcs => job[u].evict = <<>>
    BY <2>1, OthersNoVictims DEF EvictInv
  <2>3. Range(<<>>) = {}
    BY DEF Range
  <2> QED
    BY <2>2, <2>3 DEF Victims
<1>2. Victims(t) = Excluded(t)
  BY DEF Victims, Excluded, PutPcs
<1>3. k \in Live
  BY <1>1, <1>2 DEF Live
<1>4. Pair(k) \in global_heaps[dict[k].lambda] /\ dict[k].lambda \in Lambdas
  BY <1>3, EntryFacts DEF HeapInv, InHeaps
<1> QED
  BY <1>4 DEF GlobalCandidates, ValidGlobal, Pair

(* The step that ends step 1.                                              *)
LEMMA LeavesNothingBelow ==
    ASSUME OneRate, TypeOK, EvictInv, HeapInv, NEW t \in Threads, LeaveThreshold(t), Over(t),
           Range(job[t].retrieved) \cap DOMAIN dict = {}, NEW k \in DOMAIN dict \ Excluded(t)
    PROVE  ~BelowThreshold(dict[k], now)
<1>1. /\ job[t].pc = "threshold"
      /\ \/ MinKeys(GlobalCandidates(t)) = {}
         \/ \E key \in MinKeys(GlobalCandidates(t)) : Protected(t, key) \/ ~BelowThreshold(dict[key], now)
  BY DEF LeaveThreshold
<1>2. Pair(k) \in GlobalCandidates(t)[dict[k].lambda] /\ dict[k].lambda \in Lambdas
  BY <1>1, EveryCandidate
<1>3. \A l \in Lambdas : GlobalCandidates(t)[l] \subseteq Nat \X Nat
  BY CandidatesType
<1>4. /\ MinKeys(GlobalCandidates(t)) # {}
      /\ \A key \in MinKeys(GlobalCandidates(t)) :
            \E l \in Lambdas : \E q \in GlobalCandidates(t)[l] : q[2] = key /\ q[1] <= Pair(k)[1]
  BY <1>2, <1>3, LeastCandidate
<1>5. PICK key \in MinKeys(GlobalCandidates(t)) : Protected(t, key) \/ ~BelowThreshold(dict[key], now)
  BY <1>1, <1>4
<1>6. key \in DOMAIN dict
  BY MinKeysCached DEF GlobalCandidates
<1>7. ~BelowThreshold(dict[key], now)
  BY <1>5, <1>6 DEF Protected
<1>8. PICK l \in Lambdas : \E q \in GlobalCandidates(t)[l] : q[2] = key /\ q[1] <= Pair(k)[1]
  BY <1>4
<1>9. PICK q \in GlobalCandidates(t)[l] : q[2] = key /\ q[1] <= Pair(k)[1]
  BY <1>8
<1>10. q[1] = Score(dict[key])
  BY <1>9, CandidatesType
<1>11. Score(dict[key]) <= Score(dict[k])
  BY <1>9, <1>10 DEF Pair
<1>12. dict[key] \in Entries /\ dict[k] \in Entries /\ dict[key].lambda = dict[k].lambda
  BY <1>6, EntryFacts DEF OneRate
<1>13. now \in Nat
  BY DEF TypeOK
<1> QED
  BY <1>7, <1>11, <1>12, <1>13, AboveThreshold

(* Only one step ends step 1.                                              *)
LEMMA OnlyLeave ==
    ASSUME TypeOK, [Next]_vars, NEW t \in Threads, job[t].pc = "threshold",
           job'[t].pc = "maxclient"
    PROVE  LeaveThreshold(t)
<1>1. ASSUME NEW u \in Threads, ContinuePut(u) PROVE LeaveThreshold(t)
  <2>1. CASE EvictBelowThreshold(u) \/ EvictFromMaxClient(u)
    BY <2>1, EvictStep DEF Moved
  <2>2. CASE LeaveThreshold(u)
    BY <2>2, PutSteps DEF Moved
  <2>3. CASE DropMaxClient(u)
    BY <2>3 DEF DropMaxClient
  <2>4. CASE RefusePut(u) \/ AcceptPut(u) \/ AbandonPut(u) \/ RemoveVictim(u)
    <3>1. job[u].pc # "threshold" /\ \A w \in Threads \ {u} : job'[w] = job[w]
      BY <2>4, PutSteps DEF Moved, Switched, RefusePut, AcceptPut, AbandonPut, RemoveVictim
    <3> QED
      BY <3>1
  <2>5. CASE Allocate(u) \/ BeginCopy(u) \/ EndCopy(u) \/ Register(u)
    <3>1. job[u].pc # "threshold" /\ \A w \in Threads \ {u} : job'[w] = job[w]
      BY <2>5, PutSteps DEF Moved, Switched, Allocate, BeginCopy, EndCopy, Register
    <3> QED
      BY <3>1
  <2> QED
    BY <1>1, <2>1, <2>2, <2>3, <2>4, <2>5 DEF ContinuePut
<1>2. ASSUME NEW u \in Threads, NEW item \in PutItems, StartPut(u, item), job[u].pc = "idle"
      PROVE  FALSE
  <2>1. \A w \in Threads \ {u} : job'[w] = job[w]
    BY <1>2, SwitchedJob DEF StartPut, Switched
  <2> QED
    BY <1>2, <2>1
<1>3. ASSUME NEW c, NEW ks, BeginUpdate(c, ks) PROVE FALSE
  <2>1. job["main"].pc = "idle" /\ \A w \in Threads \ {"main"} : job'[w] = job[w]
    BY <1>3, SwitchedJob DEF BeginUpdate, MainReady, Switched, Threads
  <2> QED
    BY <2>1
<1>4. ~UpdateNext
  BY UpdateKeepsPuts
<1>5. ~EndUpdate
  <2>1. EndUpdate => job["main"].pc = "update" /\ \A w \in Threads \ {"main"} : job'[w] = job[w]
    BY SwitchedJob DEF EndUpdate, Switched, Threads
  <2> QED
    BY <2>1
<1>6. ~StopWorker
  <2>1. StopWorker => job["worker"].pc = "idle" /\ \A w \in Threads \ {"worker"} : job'[w] = job[w]
    BY SwitchedJob DEF StopWorker, Switched, Threads
  <2> QED
    BY <2>1
<1> QED
  BY <1>1, <1>2, <1>3, <1>4, <1>5, <1>6, NextCases

(* "No more caches below threshold", for any number of chunks, sharers and *)
(* accesses: outdated pairs, and pairs popped on the way, never make step  *)
(* 1 give up while a chunk that nobody protects is below the threshold.    *)
THEOREM ThresholdIsExhaustive == OneRate => (Spec => ThresholdExhaustive)
<1> DEFINE Exhausted ==
        \A t \in Threads :
          (/\ Putting(t, {"threshold"}) /\ Over(t)
           /\ job'[t].pc = "maxclient"
           /\ Range(job[t].retrieved) \cap DOMAIN dict = {})
          => \A k \in DOMAIN dict \ Excluded(t) : ~BelowThreshold(dict[k], now)
<1> SUFFICES ASSUME OneRate PROVE Spec => ThresholdExhaustive
  OBVIOUS
<1>1. TypeOK /\ SlotInv /\ EvictInv /\ HeapInv /\ [Next]_vars => [Exhausted]_vars
  BY OnlyLeave, LeavesNothingBelow DEF Putting
<1> QED
  BY HeapInvariance, <1>1, PTL DEF Spec, ThresholdExhaustive
=============================================================================
