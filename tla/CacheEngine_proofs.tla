------------------------ MODULE CacheEngine_proofs ------------------------
(***************************************************************************)
(* Proofs about CacheEngine: the engine is a legal caller of the fair      *)
(* backend, whose invariants therefore hold while the engine runs, and     *)
(* what it retrieves is a prefix of the prompt.                            *)
(***************************************************************************)
EXTENDS MCCacheEngine, FairBackend_proofs, SequenceTheorems

RetrievePcs == {"get", "attribute", "update", "charge"}
StorePcs == {"lookup", "contains", "put"}
StepPcs == RetrievePcs \cup StorePcs \cup {"store", "raised"}
Infos == Seq([new : BOOLEAN, old : SUBSET Clients])
Tensors == [data : Keys] \cup [view : Slots]

Steps == [pc : StepPcs, batch : Batches, seq : Nat \ {0}, got : Seq(Tensors), info : Infos,
          retrieved : Seq(Prefixes), status : Seq({"STORE", "NONE"}),
          idx : Nat \ {0}, cached : Nat, todo : Nat]

(* The loops stay within the batch and the prompt.  The keys that were     *)
(* retrieved are known for the sequences before the current one, and for   *)
(* all of them when the stores begin.                                      *)
StepType ==
    \/ step = NoStep
    \/ /\ step \in Steps
       /\ step.seq <= Len(step.batch)
       /\ Len(step.status) = Len(step.batch)
       /\ step.pc \in RetrievePcs =>
             /\ Len(step.retrieved) = step.seq - 1
             /\ Len(step.got) <= Len(Prompt)
             /\ step.idx = 1
       /\ step.pc \notin RetrievePcs => Len(step.retrieved) = Len(step.batch)
       /\ step.pc \in StorePcs => step.cached <= Len(Prompt)
       /\ step.pc \in RetrievePcs \cup {"store"} => step.cached = 0
       /\ step.pc = "put" => step.cached < step.todo /\ step.todo <= Len(Prompt)

(* The two indices of lmcache_store_kv are at the sequence of the loop, or *)
(* at an earlier one whose status is NONE, and then for good.              *)
IndexInv ==
    /\ step.pc \in StorePcs => step.idx = step.seq /\ step.status[step.seq] = "STORE"
    /\ step.pc = "store" =>
          \/ step.idx = step.seq
          \/ step.idx < step.seq /\ step.status[step.idx] = "NONE"

-----------------------------------------------------------------------------
(* The sequence that a loop is at.                                         *)
LEMMA CurrentType ==
    ASSUME StepType, step # NoStep
    PROVE  /\ step \in Steps /\ step.batch \in Seq(Requests)
           /\ step.seq \in DOMAIN step.batch
           /\ Current \in Requests
           /\ Current.client \in Clients /\ Current.lambda \in Lambdas
           /\ Prompt \in Seq(Keys)
           /\ \A n \in 0 .. Len(Prompt) : SubSeq(Prompt, 1, n) \in Prefixes
<1>1. step \in Steps /\ step.seq <= Len(step.batch)
  BY DEF StepType
<1>2. step.batch \in Batches /\ step.seq \in Nat \ {0}
  BY <1>1 DEF Steps
<1>3. step.batch \in Seq(Requests)
  BY <1>2, EngineAssumption
<1>4. step.seq \in DOMAIN step.batch
  BY <1>1, <1>2, <1>3
<1>5. Current \in Requests
  BY <1>3, <1>4 DEF Current
<1>6. Current.client \in Clients /\ Current.lambda \in Lambdas /\ Prompt \in Seq(Keys)
  BY <1>5 DEF Requests, Prompt
<1>7. \A n \in 0 .. Len(Prompt) : SubSeq(Prompt, 1, n) \in Prefixes
  BY <1>2, <1>4, EngineAssumption DEF Prompt, Current
<1> QED
  BY <1>1, <1>3, <1>4, <1>5, <1>6, <1>7

(* The prefix of a sequence, as far as the backend can tell.               *)
LEMMA PrefixOf ==
    ASSUME NEW S, NEW p \in Seq(S), NEW n \in 0 .. Len(p)
    PROVE  /\ SubSeq(p, 1, n) \in Seq(S) /\ Len(SubSeq(p, 1, n)) = n
           /\ \A i \in 1 .. n : SubSeq(p, 1, n)[i] = p[i]
OBVIOUS

-----------------------------------------------------------------------------
(***************************************************************************)
(* Every step of the engine is one of the backend, or does not touch it.   *)
(***************************************************************************)
LEMMA EngineNextIsNext ==
    ASSUME TypeOK, StepType, IndexInv, [EngineNext]_allVars
    PROVE  [Next]_vars
<1>1. CASE UpdateAfterGet
  <2>1. step # NoStep /\ step.pc \in RetrievePcs
    BY <1>1 DEF UpdateAfterGet, NoStep, RetrievePcs
  <2>2. Len(step.got) \in 0 .. Len(Prompt)
    BY <2>1, CurrentType DEF StepType, Steps
  <2>3. GotKeys \in Prefixes /\ Current.client \in Clients
    BY <2>1, <2>2, CurrentType DEF GotKeys
  <2>4. BeginUpdate(Current.client, GotKeys)
    BY <1>1 DEF UpdateAfterGet
  <2> QED
    BY <2>3, <2>4 DEF Next
<1>2. CASE PutChunk
  <2>1. step # NoStep /\ step.pc = "put" /\ step.pc \notin RetrievePcs
    BY <1>2 DEF PutChunk, NoStep, RetrievePcs
  <2>2. step.todo \in 1 .. Len(Prompt)
    BY <2>1, CurrentType DEF StepType, Steps
  <2>3. Prompt[step.todo] \in Keys
    BY <2>1, <2>2, CurrentType
  <2>4. step.retrieved[step.idx] \in Prefixes
    <3>1. step.idx = step.seq
      BY <2>1 DEF IndexInv, StorePcs
    <3> QED
      BY <2>1, <3>1, CurrentType DEF StepType, Steps
  <2>5. PutItem(step.todo) \in PutItems
    BY <2>1, <2>3, <2>4, CurrentType DEF PutItem, PutItems
  <2>6. EnqueuePut(PutItem(step.todo))
    BY <1>2 DEF PutChunk
  <2> QED
    BY <2>5, <2>6 DEF Next
<1>3. CASE MainLoop \/ Close \/ Worker \/ Tick \/ Terminated
  BY <1>3 DEF Next
<1>4. CASE UNCHANGED vars
  BY <1>4
<1> QED
  BY <1>1, <1>2, <1>3, <1>4
  DEF EngineNext, EngineStep, EngineClose, BeginStep, GetChunk, GetAttributionInfo,
      ChargeSequence, SkipSequence, BeginStore, LookupChunk, ContainsChunk, WalkCached, allVars
-----------------------------------------------------------------------------
(***************************************************************************)
(* The steps of the engine keep its invariant.                             *)
(***************************************************************************)
(* Copies of the CPU pool's chunks are the chunks of the prompt.           *)
GotInv ==
    LocalDevice = "cpu" /\ step.pc \in RetrievePcs =>
        \A i \in DOMAIN step.got : i \in DOMAIN Prompt /\ step.got[i] = [data |-> Prompt[i]]

StepInv == StepType /\ GotInv /\ IndexInv

(* The model execution begins.                                             *)
LEMMA BeginKeeps ==
    ASSUME NEW kind \in {"prefill", "decode"}, NEW b \in Batches, BeginStep(kind, b)
    PROVE  StepInv'
<1>1. b \in Seq(Requests) /\ Len(b) >= 1 /\ DOMAIN b = 1 .. Len(b) /\ Len(b) \in Nat
  <2>1. b \in Seq(Requests) /\ b # <<>>
    BY EngineAssumption
  <2> QED
    BY <2>1, EmptySeq
<1>2. b[1] \in Requests /\ b[1].prompt \in Seq(Keys)
  <2>1. b[1] \in Requests
    BY <1>1
  <2> QED
    BY <2>1 DEF Requests
<1>3. <<>> \in Prefixes
  <2>0. 1 \in DOMAIN b /\ 0 \in 0 .. Len(b[1].prompt)
    <3>1. Len(b[1].prompt) \in Nat
      BY <1>2
    <3> QED
      BY <1>1, <3>1
  <2>1. SubSeq(b[1].prompt, 1, 0) \in Prefixes
    BY <2>0, EngineAssumption
  <2>2. SubSeq(b[1].prompt, 1, 0) \in Seq(Keys) /\ Len(SubSeq(b[1].prompt, 1, 0)) = 0
    BY <1>2
  <2> QED
    BY <2>1, <2>2, EmptySeq
<1>4. PICK st : st = [i \in DOMAIN b |-> StoreStatus(kind, b[i])]
  OBVIOUS
<1>5. st \in Seq({"STORE", "NONE"}) /\ Len(st) = Len(b)
  BY <1>1, <1>4 DEF StoreStatus
<1>6. PICK ret : ret = IF kind = "prefill" THEN <<>> ELSE [i \in DOMAIN b |-> <<>>]
  OBVIOUS
<1>7. kind = "prefill" => ret \in Seq(Prefixes) /\ Len(ret) = 0
  BY <1>6
<1>8. kind # "prefill" => ret \in Seq(Prefixes) /\ Len(ret) = Len(b)
  BY <1>1, <1>3, <1>6
<1>9. step' = [pc |-> IF kind = "prefill" THEN "get" ELSE "store",
               batch |-> b, seq |-> 1, got |-> <<>>, info |-> <<>>, retrieved |-> ret,
               status |-> st, idx |-> 1, cached |-> 0, todo |-> 0]
  BY <1>4, <1>6 DEF BeginStep
<1>10. /\ step'.pc = (IF kind = "prefill" THEN "get" ELSE "store") /\ step'.batch = b
       /\ step'.seq = 1 /\ step'.got = <<>> /\ step'.retrieved = ret /\ step'.status = st
       /\ step'.idx = 1 /\ step'.cached = 0
  BY <1>9
<1>11. step' \in Steps
  <2>1. <<>> \in Seq(Tensors) /\ <<>> \in Infos
    BY DEF Infos
  <2> QED
    BY <1>5, <1>7, <1>8, <1>9, <2>1 DEF Steps, StepPcs, RetrievePcs
<1>12. Prompt' = b[1].prompt
  BY <1>10 DEF Prompt, Current
<1>13. Len(step'.got) = 0 /\ GotKeys' = <<>>
  BY <1>2, <1>10, <1>12 DEF GotKeys
<1>14. StepType'
  BY <1>1, <1>2, <1>5, <1>7, <1>8, <1>10, <1>11, <1>12, <1>13 DEF StepType, RetrievePcs, StorePcs
<1> QED
  BY <1>10, <1>13, <1>14 DEF StepInv, GotInv, IndexInv, RetrievePcs, StorePcs

(* Within an iteration over the batch the prompt stays the same.           *)
LEMMA SamePrompt ==
    ASSUME step'.batch = step.batch, step'.seq = step.seq
    PROVE  Current' = Current /\ Prompt' = Prompt
BY DEF Current, Prompt

(* One chunk is retrieved, or the retrieval ends.                          *)
LEMMA GetKeeps ==
    ASSUME TypeOK, SlotInv, StepInv, GetChunk
    PROVE  StepInv'
<1>1. step # NoStep /\ step.pc = "get"
  BY DEF GetChunk, NoStep
<1>2. step \in Steps /\ Prompt \in Seq(Keys) /\ step.got \in Seq(Tensors)
  BY <1>1, CurrentType DEF StepInv, Steps
<1>3. /\ Len(step.got) <= Len(Prompt)
      /\ LocalDevice = "cpu" =>
            \A i \in DOMAIN step.got : i \in DOMAIN Prompt /\ step.got[i] = [data |-> Prompt[i]]
  BY <1>1 DEF StepInv, GotInv, StepType, RetrievePcs
<1>4. CASE Len(step.got) + 1 \in DOMAIN Prompt /\ Prompt[Len(step.got) + 1] \in DOMAIN dict
  <2>1. PICK key, x : key = Prompt[Len(step.got) + 1] /\ x = OnDevice(dict[key].slot)
    OBVIOUS
  <2>2. step' = [step EXCEPT !.got = Append(@, x)]
    BY <1>4, <2>1 DEF GetChunk
  <2>3. x \in Tensors /\ (LocalDevice = "cpu" => x = [data |-> key])
    <3>1. key \in Keys /\ key \in DOMAIN dict
      BY <1>2, <1>4, <2>1
    <3>2. dict[key].slot \in Slots
      BY <3>1 DEF TypeOK, PartialMap, Entries
    <3>3. mem_pool[dict[key].slot] = key
      BY <3>1 DEF SlotInv, CachedDataIntact
    <3> QED
      BY <2>1, <3>1, <3>2, <3>3 DEF OnDevice, Tensors
  <2>4. /\ Append(step.got, x) \in Seq(Tensors) /\ Len(Append(step.got, x)) = Len(step.got) + 1
        /\ \A i \in DOMAIN step.got : Append(step.got, x)[i] = step.got[i]
        /\ Append(step.got, x)[Len(step.got) + 1] = x
        /\ DOMAIN Append(step.got, x) = DOMAIN step.got \cup {Len(step.got) + 1}
    BY <1>2, <2>3
  <2>5. Len(step.got) + 1 <= Len(Prompt)
    BY <1>2, <1>4
  <2>6. /\ step' \in Steps /\ step'.got = Append(step.got, x) /\ step'.pc = "get"
        /\ step'.batch = step.batch /\ step'.seq = step.seq /\ step'.status = step.status
        /\ step'.retrieved = step.retrieved /\ step'.idx = step.idx /\ step'.cached = step.cached
    BY <1>1, <1>2, <2>2, <2>4 DEF Steps
  <2>7. Prompt' = Prompt
    BY <2>6, SamePrompt
  <2>8. StepType'
    BY <1>1, <2>4, <2>5, <2>6, <2>7 DEF StepInv, StepType, RetrievePcs, StorePcs
  <2>9. GotInv'
    <3> SUFFICES ASSUME LocalDevice = "cpu", NEW i \in DOMAIN step'.got
                 PROVE  i \in DOMAIN Prompt' /\ step'.got[i] = [data |-> Prompt'[i]]
      BY DEF GotInv
    <3> QED
      BY <1>3, <1>4, <2>1, <2>3, <2>4, <2>6, <2>7
  <2> QED
    BY <2>6, <2>8, <2>9 DEF StepInv, IndexInv, StorePcs
<1>5. CASE ~ (Len(step.got) + 1 \in DOMAIN Prompt /\ Prompt[Len(step.got) + 1] \in DOMAIN dict)
  <2>1. step' = [step EXCEPT !.pc = "attribute"]
    BY <1>5 DEF GetChunk
  <2>2. /\ step' \in Steps /\ step'.got = step.got /\ step'.pc = "attribute"
        /\ step'.batch = step.batch /\ step'.seq = step.seq /\ step'.status = step.status
        /\ step'.retrieved = step.retrieved /\ step'.idx = step.idx /\ step'.cached = step.cached
    BY <1>1, <1>2, <2>1 DEF Steps, StepPcs, RetrievePcs
  <2>3. Prompt' = Prompt
    BY <2>2, SamePrompt
  <2>4. StepType'
    BY <1>1, <2>2, <2>3 DEF StepInv, StepType, RetrievePcs, StorePcs
  <2> QED
    BY <1>1, <1>3, <2>2, <2>3, <2>4 DEF StepInv, GotInv, IndexInv, RetrievePcs, StorePcs
<1> QED
  BY <1>4, <1>5

(* The attribution, and the call of update_after_get.                      *)
LEMMA AttributeKeeps ==
    ASSUME TypeOK, StepInv, GetAttributionInfo \/ UpdateAfterGet
    PROVE  StepInv'
<1>1. step # NoStep /\ step.pc \in RetrievePcs
  BY DEF GetAttributionInfo, UpdateAfterGet, NoStep, RetrievePcs
<1>2. step \in Steps /\ Prompt \in Seq(Keys) /\ Len(step.got) \in 0 .. Len(Prompt)
  BY <1>1, CurrentType DEF StepInv, StepType, Steps
<1>3. /\ step' \in Steps /\ step'.got = step.got /\ step'.pc \in RetrievePcs
      /\ step'.batch = step.batch /\ step'.seq = step.seq /\ step'.status = step.status
      /\ step'.retrieved = step.retrieved /\ step'.idx = step.idx /\ step'.cached = step.cached
  <2>1. CASE GetAttributionInfo
    <3>1. PICK f : f = [i \in DOMAIN GotKeys |-> Attribution(GotKeys[i], Current.client)]
      OBVIOUS
    <3>2. step' = [step EXCEPT !.pc = "update", !.info = f]
      BY <2>1, <3>1 DEF GetAttributionInfo
    <3>3. GotKeys \in Seq(Keys) /\ DOMAIN GotKeys = 1 .. Len(step.got) /\ Len(step.got) \in Nat
      BY <1>2, PrefixOf DEF GotKeys
    <3>4. ASSUME NEW i \in DOMAIN GotKeys
          PROVE  Attribution(GotKeys[i], Current.client) \in [new : BOOLEAN, old : SUBSET Clients]
      <4>1. CASE GotKeys[i] \in DOMAIN dict
        <5>1. dict[GotKeys[i]].access \in AccessMaps
          BY <4>1 DEF TypeOK, PartialMap, Entries
        <5>2. DOMAIN dict[GotKeys[i]].access \subseteq Clients
          BY <5>1 DEF AccessMaps
        <5>3. PICK d : d = DOMAIN dict[GotKeys[i]].access
          OBVIOUS
        <5>4. Attribution(GotKeys[i], Current.client) = [new |-> Current.client \notin d, old |-> d]
          BY <4>1, <5>3 DEF Attribution
        <5>5. (Current.client \notin d) \in BOOLEAN /\ d \in SUBSET Clients
          BY <5>2, <5>3
        <5> QED
          BY <5>4, <5>5
      <4>2. CASE GotKeys[i] \notin DOMAIN dict
        BY <4>2 DEF Attribution
      <4> QED
        BY <4>1, <4>2
    <3>5. f \in Infos
      BY <3>1, <3>3, <3>4 DEF Infos
    <3> QED
      BY <1>2, <3>2, <3>5 DEF Steps, StepPcs, RetrievePcs
  <2>2. CASE UpdateAfterGet
    BY <1>2, <2>2 DEF UpdateAfterGet, Steps, StepPcs, RetrievePcs
  <2> QED
    BY <2>1, <2>2
<1>4. Prompt' = Prompt
  BY <1>3, SamePrompt
<1>5. StepType'
  BY <1>1, <1>3, <1>4 DEF StepInv, StepType, RetrievePcs, StorePcs
<1> QED
  BY <1>1, <1>2, <1>3, <1>4, <1>5 DEF StepInv, GotInv, IndexInv, RetrievePcs, StorePcs
(* The end of the retrieval of one sequence.                               *)
LEMMA ChargeKeeps ==
    ASSUME StepInv, ChargeSequence
    PROVE  StepInv'
<1>1. step # NoStep /\ step.pc = "charge" /\ step.pc \in RetrievePcs
  BY DEF ChargeSequence, NoStep, RetrievePcs
<1>2. /\ step \in Steps /\ Prompt \in Seq(Keys) /\ Len(step.got) \in 0 .. Len(Prompt)
      /\ step.retrieved \in Seq(Prefixes) /\ Len(step.retrieved) = step.seq - 1
      /\ step.seq \in Nat \ {0} /\ step.seq <= Len(step.batch) /\ step.idx = 1
      /\ Len(step.batch) \in Nat /\ step.cached = 0 /\ Len(step.status) = Len(step.batch)
  BY <1>1, CurrentType DEF StepInv, StepType, Steps
<1>3. GotKeys \in Prefixes
  BY <1>1, <1>2, CurrentType DEF StepInv, GotKeys
<1>4. PICK ret : ret = Append(step.retrieved, GotKeys)
  OBVIOUS
<1>5. ret \in Seq(Prefixes) /\ Len(ret) = step.seq
  BY <1>2, <1>3, <1>4
<1>6. PICK e : e = <<>>
  OBVIOUS
<1>7. e \in Seq(Tensors) /\ e \in Infos /\ Len(e) = 0 /\ DOMAIN e = {}
  BY <1>6 DEF Infos
<1>8. PICK q, n :
          /\ step' = [step EXCEPT !.retrieved = ret, !.got = e, !.info = e, !.pc = q, !.seq = n]
          /\ q = IF step.seq = Len(step.batch) THEN "store" ELSE "get"
          /\ n = IF step.seq = Len(step.batch) THEN 1 ELSE step.seq + 1
  BY <1>2, <1>4, <1>6 DEF ChargeSequence, Steps
<1>12. q \in StepPcs /\ n \in Nat \ {0}
  BY <1>2, <1>8 DEF StepPcs, RetrievePcs
<1>9. /\ step' \in Steps /\ step'.batch = step.batch /\ step'.status = step.status
      /\ step'.retrieved = ret /\ step'.got = e /\ step'.idx = 1 /\ step'.cached = 0
      /\ step'.pc = q /\ step'.seq = n
  BY <1>2, <1>5, <1>7, <1>8, <1>12 DEF Steps
<1>10. CASE step.seq = Len(step.batch)
  <2>1. step'.pc = "store" /\ step'.seq = 1
    BY <1>8, <1>9, <1>10
  <2>2. StepType'
    BY <1>2, <1>5, <1>9, <1>10, <2>1 DEF StepType, RetrievePcs, StorePcs
  <2> QED
    BY <1>9, <2>1, <2>2 DEF StepInv, GotInv, IndexInv, RetrievePcs, StorePcs
<1>11. CASE step.seq # Len(step.batch)
  <2>1. step'.pc = "get" /\ step'.seq = step.seq + 1
    BY <1>8, <1>9, <1>11
  <2>2. Prompt' = step.batch[step.seq + 1].prompt
    BY <1>9, <2>1 DEF Prompt, Current
  <2>3. Prompt' \in Seq(Keys)
    <3>1. step.batch \in Seq(Requests)
      BY <1>1, CurrentType DEF StepInv
    <3>2. step.batch[step.seq + 1] \in Requests
      BY <1>2, <1>11, <3>1
    <3> QED
      BY <2>2, <3>2 DEF Requests
  <2>5. StepType'
    BY <1>2, <1>5, <1>7, <1>9, <1>11, <2>1, <2>3 DEF StepType, RetrievePcs, StorePcs
  <2> QED
    BY <1>7, <1>9, <2>1, <2>5 DEF StepInv, GotInv, IndexInv, RetrievePcs, StorePcs
<1> QED
  BY <1>10, <1>11

(* The loop of lmcache_store_kv goes on to the next sequence.              *)
LEMMA AdvanceKeeps ==
    ASSUME StepInv, step # NoStep, step.pc \in StorePcs \cup {"store"}, NEW all \in BOOLEAN,
           all => step.idx = step.seq,
           ~all => step.status[step.idx] = "NONE" /\ step.idx <= step.seq,
           step' = Advance(step, all)
    PROVE  StepInv'
<1>1. /\ step \in Steps /\ step.seq \in Nat \ {0} /\ step.seq <= Len(step.batch)
      /\ Len(step.batch) \in Nat /\ step.pc \notin RetrievePcs /\ step.idx \in Nat \ {0}
      /\ Len(step.retrieved) = Len(step.batch) /\ Len(step.status) = Len(step.batch)
  BY CurrentType DEF StepInv, StepType, Steps, RetrievePcs, StorePcs
<1>2. CASE step.seq = Len(step.batch)
  <2>1. step' = NoStep /\ step'.pc = "idle"
    BY <1>2 DEF Advance, NoStep
  <2> QED
    BY <2>1 DEF StepInv, StepType, GotInv, IndexInv, RetrievePcs, StorePcs
<1>3. CASE step.seq # Len(step.batch)
  <2>0. PICK n : n = IF all THEN step.idx + 1 ELSE step.idx
    OBVIOUS
  <2>5. n \in Nat \ {0}
    BY <1>1, <2>0
  <2>1. step' = [step EXCEPT !.pc = "store", !.seq = step.seq + 1, !.idx = n,
                             !.cached = 0, !.todo = 0]
    BY <1>1, <1>3, <2>0 DEF Advance, Steps
  <2>6. "store" \in StepPcs /\ step.seq + 1 \in Nat \ {0} /\ 0 \in Nat
    BY <1>1 DEF StepPcs
  <2>2. /\ step' \in Steps /\ step'.pc = "store" /\ step'.batch = step.batch
        /\ step'.seq = step.seq + 1 /\ step'.status = step.status
        /\ step'.retrieved = step.retrieved /\ step'.cached = 0
        /\ step'.idx = n
    <3>1. step' \in Steps
      BY <1>1, <2>1, <2>5, <2>6, ZenonT(40) DEF Steps
    <3>2. /\ step'.pc = "store" /\ step'.seq = step.seq + 1 /\ step'.cached = 0 /\ step'.idx = n
      BY <1>1, <2>1 DEF Steps
    <3>3. step'.batch = step.batch /\ step'.status = step.status /\ step'.retrieved = step.retrieved
      BY <2>1
    <3> QED
      BY <3>1, <3>2, <3>3
  <2>3. StepType'
    BY <1>1, <1>3, <2>2 DEF StepType, RetrievePcs, StorePcs
  <2>4. IndexInv'
    BY <1>1, <2>0, <2>2 DEF IndexInv, StorePcs
  <2> QED
    BY <2>2, <2>3, <2>4 DEF StepInv, GotInv, RetrievePcs
<1> QED
  BY <1>2, <1>3

(* lmcache_store_kv: a sequence is skipped, or its store begins.           *)
LEMMA BeginStoreKeeps ==
    ASSUME StepInv, SkipSequence \/ BeginStore
    PROVE  StepInv'
<1>0. step.pc = "store"
  BY DEF SkipSequence, BeginStore
<1>1. step # NoStep /\ step.pc = "store"
  BY <1>0 DEF NoStep
<1>2. /\ step \in Steps /\ Prompt \in Seq(Keys) /\ Len(step.retrieved) = Len(step.batch)
      /\ Len(step.status) = Len(step.batch) /\ step.seq <= Len(step.batch)
      /\ step.seq \in Nat /\ step.idx \in Nat /\ step.cached \in Nat
  BY <1>1, CurrentType DEF StepInv, StepType, Steps, RetrievePcs
<1>3. step.idx <= step.seq
  BY <1>1, <1>2 DEF StepInv, IndexInv
<1>4. CASE SkipSequence
  <2>1. step.status[step.idx] = "NONE" /\ step' = Advance(step, FALSE)
    BY <1>4 DEF SkipSequence
  <2> QED
    BY <1>1, <1>3, <2>1, AdvanceKeeps
<1>5. CASE BeginStore
  <2>1. step.status[step.idx] = "STORE" /\ step' = [step EXCEPT !.pc = "lookup"]
    BY <1>5 DEF BeginStore
  <2>2. step.idx = step.seq
    BY <1>1, <2>1 DEF StepInv, IndexInv
  <2>3. /\ step' \in Steps /\ step'.pc = "lookup" /\ step'.batch = step.batch
        /\ step'.seq = step.seq /\ step'.status = step.status
        /\ step'.retrieved = step.retrieved /\ step'.idx = step.idx /\ step'.cached = step.cached
    BY <1>2, <2>1 DEF Steps, StepPcs, StorePcs
  <2>4. Prompt' = Prompt
    BY <2>3, SamePrompt
  <2>5. step.cached <= Len(Prompt)
    BY <1>1, <1>2 DEF StepInv, StepType
  <2>6. StepType'
    BY <1>1, <1>2, <2>3, <2>4, <2>5 DEF StepInv, StepType, RetrievePcs, StorePcs
  <2> QED
    BY <2>1, <2>2, <2>3, <2>6 DEF StepInv, GotInv, IndexInv, RetrievePcs, StorePcs
<1> QED
  BY <1>4, <1>5
(* lookup and _make_chunks_skip_existing walk over the prompt.             *)
LEMMA WalkKeeps ==
    ASSUME StepInv, LookupChunk \/ ContainsChunk
    PROVE  StepInv'
<1>1. PICK next \in {"contains", "put"} :
          /\ step.pc \in {"lookup", "contains"}
          /\ step' = IF NextCached
                     THEN [step EXCEPT !.cached = @ + 1]
                     ELSE IF step.cached = Len(Prompt)
                     THEN Advance(step, TRUE)
                     ELSE [step EXCEPT !.pc = next, !.todo = Len(Prompt)]
  <2>1. CASE LookupChunk
    BY <2>1 DEF LookupChunk, WalkCached
  <2>2. CASE ContainsChunk
    BY <2>2 DEF ContainsChunk, WalkCached
  <2> QED
    BY <2>1, <2>2
<1>2. step # NoStep /\ step.pc \in StorePcs /\ step.pc \notin RetrievePcs
  BY <1>1 DEF NoStep, StorePcs, RetrievePcs
<1>3. /\ step \in Steps /\ Prompt \in Seq(Keys) /\ Len(step.retrieved) = Len(step.batch)
      /\ Len(step.status) = Len(step.batch) /\ step.seq <= Len(step.batch)
      /\ step.cached \in Nat /\ step.cached <= Len(Prompt) /\ Len(Prompt) \in Nat
  BY <1>2, CurrentType DEF StepInv, StepType, Steps
<1>4. step.idx = step.seq /\ step.status[step.seq] = "STORE"
  BY <1>2 DEF StepInv, IndexInv
<1>5. CASE NextCached
  <2>1. step.cached + 1 <= Len(Prompt)
    BY <1>3, <1>5 DEF NextCached
  <2>2. /\ step' \in Steps /\ step'.pc = step.pc /\ step'.batch = step.batch
        /\ step'.seq = step.seq /\ step'.status = step.status /\ step'.cached = step.cached + 1
        /\ step'.retrieved = step.retrieved /\ step'.idx = step.idx
    <3>1. PICK n \in Nat : n = step.cached + 1
      BY <1>3
    <3>2. step' = [step EXCEPT !.cached = n]
      BY <1>1, <1>3, <1>5, <3>1 DEF Steps
    <3> QED
      BY <1>3, <3>1, <3>2 DEF Steps
  <2>3. Prompt' = Prompt
    BY <2>2, SamePrompt
  <2>4. StepType'
    BY <1>1, <1>3, <2>1, <2>2, <2>3 DEF StepType, RetrievePcs, StorePcs
  <2> QED
    BY <1>1, <1>4, <2>2, <2>4 DEF StepInv, GotInv, IndexInv, RetrievePcs, StorePcs
<1>6. CASE ~NextCached /\ step.cached = Len(Prompt)
  <2>1. step' = Advance(step, TRUE)
    BY <1>1, <1>6
  <2> QED
    BY <1>2, <1>4, <2>1, AdvanceKeeps
<1>7. CASE ~NextCached /\ step.cached # Len(Prompt)
  <2>1. step' = [step EXCEPT !.pc = next, !.todo = Len(Prompt)]
    BY <1>1, <1>7
  <2>2. next \in StepPcs
    BY DEF StepPcs, StorePcs
  <2>3. /\ step' \in Steps /\ step'.pc = next /\ step'.batch = step.batch
        /\ step'.seq = step.seq /\ step'.status = step.status /\ step'.cached = step.cached
        /\ step'.retrieved = step.retrieved /\ step'.idx = step.idx /\ step'.todo = Len(Prompt)
    BY <1>3, <2>1, <2>2 DEF Steps
  <2>4. Prompt' = Prompt
    BY <2>3, SamePrompt
  <2>5. StepType'
    BY <1>3, <1>7, <2>3, <2>4 DEF StepType, RetrievePcs, StorePcs
  <2> QED
    BY <1>4, <2>3, <2>5 DEF StepInv, GotInv, IndexInv, RetrievePcs, StorePcs
<1> QED
  BY <1>5, <1>6, <1>7

(* One chunk is queued.                                                    *)
LEMMA PutKeeps ==
    ASSUME StepInv, PutChunk
    PROVE  StepInv'
<1>1. step # NoStep /\ step.pc = "put" /\ step.pc \in StorePcs /\ step.pc \notin RetrievePcs
  BY DEF PutChunk, NoStep, StorePcs, RetrievePcs
<1>2. /\ step \in Steps /\ Prompt \in Seq(Keys) /\ Len(step.retrieved) = Len(step.batch)
      /\ Len(step.status) = Len(step.batch) /\ step.seq <= Len(step.batch)
      /\ step.cached \in Nat /\ step.todo \in Nat /\ Len(Prompt) \in Nat
      /\ step.cached < step.todo /\ step.todo <= Len(Prompt)
  BY <1>1, CurrentType DEF StepInv, StepType, Steps
<1>3. step.idx = step.seq /\ step.status[step.seq] = "STORE"
  BY <1>1 DEF StepInv, IndexInv
<1>4. CASE RankZero
  <2>1. step' = [step EXCEPT !.pc = "raised"]
    BY <1>4 DEF PutChunk
  <2>2. /\ step' \in Steps /\ step'.pc = "raised" /\ step'.batch = step.batch
        /\ step'.seq = step.seq /\ step'.status = step.status
        /\ step'.retrieved = step.retrieved
    BY <1>2, <2>1 DEF Steps, StepPcs
  <2>3. StepType'
    BY <1>2, <2>2 DEF StepType, RetrievePcs, StorePcs
  <2> QED
    BY <2>2, <2>3 DEF StepInv, GotInv, IndexInv, RetrievePcs, StorePcs
<1>5. CASE ~RankZero /\ LastToPut
  <2>1. step' = Advance(step, TRUE)
    BY <1>5 DEF PutChunk
  <2> QED
    BY <1>1, <1>3, <2>1, AdvanceKeeps
<1>6. CASE ~RankZero /\ ~LastToPut
  <2>1. step' = [step EXCEPT !.todo = step.todo - 1]
    BY <1>2, <1>6 DEF PutChunk, Steps
  <2>2. step.cached < step.todo - 1 /\ step.todo - 1 \in Nat
    BY <1>2, <1>6 DEF LastToPut
  <2>3. /\ step' \in Steps /\ step'.pc = "put" /\ step'.batch = step.batch
        /\ step'.seq = step.seq /\ step'.status = step.status /\ step'.cached = step.cached
        /\ step'.retrieved = step.retrieved /\ step'.idx = step.idx
        /\ step'.todo = step.todo - 1
    BY <1>1, <1>2, <2>1, <2>2 DEF Steps
  <2>4. Prompt' = Prompt
    BY <2>3, SamePrompt
  <2>5. StepType'
    BY <1>2, <2>2, <2>3, <2>4 DEF StepType, RetrievePcs, StorePcs
  <2> QED
    BY <1>3, <2>3, <2>5 DEF StepInv, GotInv, IndexInv, RetrievePcs, StorePcs
<1> QED
  BY <1>4, <1>5, <1>6

(* A step of the backend alone.                                            *)
LEMMA QuietKeeps ==
    ASSUME StepInv, UNCHANGED step
    PROVE  StepInv'
BY DEF StepInv, StepType, Prompt, Current, GotInv, GotKeys, IndexInv

(* Every step keeps the invariant.                                         *)
LEMMA EngineNextKeeps ==
    ASSUME TypeOK, SlotInv, StepInv, [EngineNext]_allVars
    PROVE  StepInv'
<1>1. ASSUME NEW b \in PrefillBatches, BeginStep("prefill", b) PROVE StepInv'
  BY <1>1, BeginKeeps DEF Batches
<1>2. ASSUME NEW b \in DecodeBatches, BeginStep("decode", b) PROVE StepInv'
  BY <1>2, BeginKeeps DEF Batches
<1>3. CASE GetChunk
  BY <1>3, GetKeeps
<1>4. CASE GetAttributionInfo \/ UpdateAfterGet
  BY <1>4, AttributeKeeps
<1>5. CASE ChargeSequence
  BY <1>5, ChargeKeeps
<1>6. CASE SkipSequence \/ BeginStore
  BY <1>6, BeginStoreKeeps
<1>7. CASE LookupChunk \/ ContainsChunk
  BY <1>7, WalkKeeps
<1>8. CASE PutChunk
  BY <1>8, PutKeeps
<1>9. CASE UNCHANGED step
  BY <1>9, QuietKeeps
<1> QED
  BY <1>1, <1>2, <1>3, <1>4, <1>5, <1>6, <1>7, <1>8, <1>9
  DEF EngineNext, EngineStep, EngineClose, engineVars, allVars

-----------------------------------------------------------------------------
(* The invariant of the engine and of the backend that it calls.           *)
EngineSafe == TypeOK /\ SlotInv /\ StepInv

(* It holds at first ...                                                   *)
LEMMA InitSafe == EngineInit => EngineSafe
<1> SUFFICES ASSUME EngineInit PROVE EngineSafe
  OBVIOUS
<1>1. Init /\ step = NoStep /\ step.pc = "idle"
  BY DEF EngineInit, NoStep
<1> QED
  BY <1>1, InitInv DEF EngineSafe, StepInv, StepType, GotInv, IndexInv, RetrievePcs, StorePcs

(* ... and every step keeps it.                                            *)
LEMMA NextSafe == EngineSafe /\ [EngineNext]_allVars => EngineSafe'
<1> SUFFICES ASSUME TypeOK, SlotInv, StepInv, [EngineNext]_allVars PROVE EngineSafe'
  BY DEF EngineSafe
<1>1. [Next]_vars
  BY EngineNextIsNext DEF StepInv
<1> QED
  BY <1>1, NextType, NextSlots, EngineNextKeeps DEF SlotInv, EngineSafe

(* So it is an invariant.                                                  *)
LEMMA EngineInvariance == EngineSpec => []EngineSafe
BY InitSafe, NextSafe, PTL DEF EngineSpec

(* The engine uses the backend as the backend expects it: every execution  *)
(* of the engine, seen at the backend, is one of the backend's callers and *)
(* its worker.  So what is proved of the backend holds under the engine.   *)
THEOREM EngineCallsBackend == EngineSpec => Init /\ [][Next]_vars
<1>1. EngineInit => Init
  BY DEF EngineInit
<1>2. EngineSafe /\ [EngineNext]_allVars => [Next]_vars
  BY EngineNextIsNext DEF EngineSafe, StepInv
<1> QED
  BY <1>1, <1>2, EngineInvariance, PTL DEF EngineSpec

(* With the pool on the CPU, retrieve collects the data of a prefix of the *)
(* prompt, in order, for any prompts, pool and number of clients, although *)
(* the worker evicts and replaces chunks between the iterations.           *)
THEOREM RetrievalsArePrefixes ==
    ASSUME LocalDevice = "cpu"
    PROVE  EngineSpec => []RetrievesPrefix
<1>1. EngineSafe => RetrievesPrefix
  <2> SUFFICES ASSUME StepInv, step.pc \in RetrievePcs, NEW i \in DOMAIN step.got
               PROVE  i \in DOMAIN Prompt /\ Seen(step.got[i]) = Prompt[i]
    BY DEF EngineSafe, RetrievesPrefix, RetrievePcs
  <2>1. i \in DOMAIN Prompt /\ step.got[i] = [data |-> Prompt[i]]
    BY DEF StepInv, GotInv
  <2> QED
    BY <2>1 DEF Seen
<1> QED
  BY <1>1, EngineInvariance, PTL

(* lmcache_store_kv stores a sequence only under its own status and with   *)
(* its own retrieved keys.                                                 *)
THEOREM StoresAreOwn == EngineSpec => StoresItsOwn
<1>1. EngineSafe /\ [EngineNext]_allVars
      => [(step.pc = "store" /\ step'.pc = "lookup") =>
             step.status[step.seq] = "STORE" /\ step.idx = step.seq]_allVars
  <2> SUFFICES ASSUME StepInv, [EngineNext]_allVars, step.pc = "store", step'.pc = "lookup"
               PROVE  step.status[step.seq] = "STORE" /\ step.idx = step.seq
    BY DEF EngineSafe
  <2>1. step # NoStep
    BY DEF NoStep
  <2>2. ~ SkipSequence
    <3> SUFFICES ASSUME step' = Advance(step, FALSE) PROVE FALSE
      BY DEF SkipSequence
    <3>1. step \in Steps
      BY <2>1 DEF StepInv, StepType
    <3> QED
      BY <3>1 DEF Advance, NoStep, Steps
  <2>3. BeginStore
    BY <2>1, <2>2
    DEF EngineNext, EngineStep, EngineClose, BeginStep, GetChunk, GetAttributionInfo,
        UpdateAfterGet, ChargeSequence, LookupChunk, ContainsChunk, WalkCached, PutChunk,
        engineVars, allVars
  <2> QED
    BY <2>3 DEF BeginStore, StepInv, IndexInv
<1> QED
  BY <1>1, EngineInvariance, PTL DEF EngineSpec, StoresItsOwn
-----------------------------------------------------------------------------
(***************************************************************************)
(* Charges.                                                                *)
(***************************************************************************)
LongChunks == \A k \in Keys : 2 * ChunkSize[k] > SizePerChunk

(* The attribution has one record for each chunk that was retrieved.       *)
InfoInv == step.pc \in {"update", "charge"} => Len(step.info) = Len(step.got)

ChargeRecords == [hit : Nat, miss : Nat]

(* A prompt has finitely many tokens.                                      *)
LEMMA TokensFinite ==
    ASSUME NEW p \in Seq(Keys)
    PROVE  /\ IsFiniteSet((DOMAIN p) \X (1 .. SizePerChunk))
           /\ IsFiniteSet(Tokens(p)) /\ TokensOf(p) \in Nat
<1>1. DOMAIN p = 1 .. Len(p) /\ Len(p) \in Int /\ SizePerChunk \in Int
  BY EvictorAssumption
<1>2. IsFiniteSet(DOMAIN p) /\ IsFiniteSet(1 .. SizePerChunk)
  BY <1>1, FS_Interval
<1>3. IsFiniteSet((DOMAIN p) \X (1 .. SizePerChunk))
  BY <1>2, FS_Product
<1>4. Tokens(p) \in SUBSET ((DOMAIN p) \X (1 .. SizePerChunk))
  BY DEF Tokens
<1>5. IsFiniteSet(Tokens(p))
  BY <1>3, <1>4, FS_Subset
<1> QED
  BY <1>3, <1>5, FS_CardinalityType DEF TokensOf

(* A newcomer pays at most half a chunk.                                   *)
LEMMA PartIsHalf ==
    ASSUME NEW a \in [new : BOOLEAN, old : SUBSET Clients]
    PROVE  Part(a) \in Nat /\ 2 * Part(a) <= SizePerChunk
<1>1. SizePerChunk \in Nat
  BY EvictorAssumption
<1>2. CASE Joined(a)
  <2>1. IsFiniteSet(a.old) /\ a.old # {}
    BY <1>2, EvictorAssumption, FS_Subset DEF Joined
  <2>2. Cardinality(a.old) \in Nat /\ Cardinality(a.old) # 0
    BY <2>1, FS_CardinalityType, FS_EmptySet
  <2>3. PICK m \in Nat : m = Cardinality(a.old) + 1
    BY <2>2
  <2>4. m >= 2
    BY <2>2, <2>3
  <2>5. PICK q \in Nat : q = SizePerChunk \div m
    BY <1>1, <2>4
  <2>6. m * q <= SizePerChunk
    BY <1>1, <2>4, <2>5
  <2>7. 2 * q <= m * q
    BY <2>4
  <2>8. m * q \in Nat
    OBVIOUS
  <2> QED
    BY <1>1, <1>2, <2>3, <2>5, <2>6, <2>7, <2>8 DEF Part
<1>3. CASE ~ Joined(a)
  BY <1>1, <1>3 DEF Part
<1> QED
  BY <1>2, <1>3

(* What is paid for the retrieved chunks is fewer tokens than they have,   *)
(* and they have no more tokens than the prompt.                           *)
LEMMA ChargeIsLengths ==
    ASSUME LongChunks, NEW p \in Seq(Keys), p # <<>>, NEW n \in 0 .. Len(p),
           NEW g, g = SubSeq(p, 1, n), NEW info \in Infos, Len(info) = n
    PROVE  ChargeOf(g, p, info) \in ChargeRecords
<1>0. SizePerChunk \in Nat /\ \A k \in Keys : ChunkSize[k] \in 1 .. SizePerChunk
  BY EvictorAssumption, BackendAssumption
<1>1. g \in Seq(Keys) /\ Len(g) = n /\ DOMAIN g = 1 .. n /\ \A i \in 1 .. n : g[i] = p[i]
  BY PrefixOf
<1>2. DOMAIN info = 1 .. n /\ \A i \in 1 .. n : info[i] \in [new : BOOLEAN, old : SUBSET Clients]
  <2>1. PICK S : S = [new : BOOLEAN, old : SUBSET Clients] /\ info \in Seq(S)
    BY DEF Infos
  <2>2. DOMAIN info = 1 .. n /\ \A i \in 1 .. n : info[i] \in S
    BY <2>1, LenProperties
  <2> QED
    BY <2>1, <2>2
<1>3. DOMAIN p = 1 .. Len(p) /\ 1 .. n \subseteq 1 .. Len(p)
  OBVIOUS
<1>4. /\ IsFiniteSet(Tokens(g)) /\ TokensOf(g) \in Nat
      /\ IsFiniteSet(Tokens(p)) /\ TokensOf(p) \in Nat
  BY <1>1, TokensFinite
<1>5. Tokens(g) \in SUBSET Tokens(p)
  BY <1>1, <1>3 DEF Tokens
<1>6. TokensOf(g) <= TokensOf(p)
  BY <1>4, <1>5, FS_Subset DEF TokensOf
<1>7. PICK R : R = {t \in (DOMAIN info) \X (1 .. SizePerChunk) : t[2] <= Part(info[t[1]])}
  OBVIOUS
<1>8. \A i \in 1 .. n : /\ Part(info[i]) \in Nat /\ ChunkSize[g[i]] \in 1 .. SizePerChunk
                        /\ Part(info[i]) < ChunkSize[g[i]]
  <2> SUFFICES ASSUME NEW i \in 1 .. n
               PROVE  /\ Part(info[i]) \in Nat /\ ChunkSize[g[i]] \in 1 .. SizePerChunk
                      /\ Part(info[i]) < ChunkSize[g[i]]
    OBVIOUS
  <2>1. Part(info[i]) \in Nat /\ 2 * Part(info[i]) <= SizePerChunk
    BY <1>2, PartIsHalf
  <2>2. g[i] \in Keys
    BY <1>1
  <2>3. ChunkSize[g[i]] \in 1 .. SizePerChunk /\ 2 * ChunkSize[g[i]] > SizePerChunk
    BY <1>0, <2>2 DEF LongChunks
  <2> QED
    BY <1>0, <2>1, <2>3
<1>9. R \in SUBSET Tokens(g)
  BY <1>0, <1>1, <1>2, <1>7, <1>8 DEF Tokens
<1>10. IsFiniteSet(R) /\ Cardinality(R) \in Nat /\ Cardinality(R) <= TokensOf(g)
  BY <1>4, <1>9, FS_Subset, FS_CardinalityType DEF TokensOf
<1>11. n > 0 => Cardinality(R) < TokensOf(g)
  <2> SUFFICES ASSUME n > 0 PROVE R # Tokens(g)
    BY <1>4, <1>9, <1>10, FS_Subset DEF TokensOf
  <2>1. 1 \in 1 .. n
    OBVIOUS
  <2>2. PICK c \in 1 .. SizePerChunk : c = ChunkSize[g[1]]
    BY <1>8, <2>1
  <2>6. Part(info[1]) \in Nat /\ Part(info[1]) < ChunkSize[g[1]]
    BY <1>8, <2>1
  <2>7. c \in Nat
    BY <1>0
  <2>3. Part(info[1]) < c /\ Part(info[1]) \in Nat /\ c \in Nat
    BY <2>2, <2>6, <2>7
  <2>4. <<1, c>> \in Tokens(g)
    BY <1>1, <2>1, <2>2, <2>3 DEF Tokens
  <2>5. <<1, c>> \notin R
    BY <1>7, <2>3
  <2> QED
    BY <2>4, <2>5
<1>12. g = p => n > 0
  <2>1. Len(p) > 0
    BY EmptySeq
  <2> QED
    BY <1>1, <2>1
<1>13. PICK d \in Nat : d = (IF g = p THEN 1 ELSE 0) /\ d <= 1 /\ (d = 1 => g = p)
  OBVIOUS
<1>14. TokensOf(g) - d - Cardinality(R) \in Nat
  BY <1>4, <1>10, <1>11, <1>12, <1>13
<1>15. PICK hit \in Nat : hit = TokensOf(g) - d - Cardinality(R)
  BY <1>14
<1>16. TokensOf(p) - hit \in Nat
  BY <1>4, <1>6, <1>10, <1>13, <1>15
<1>17. ChargeOf(g, p, info) = [hit |-> hit, miss |-> TokensOf(p) - hit]
  BY <1>7, <1>13, <1>15 DEF ChargeOf, Computed, HitReduction
<1> QED
  BY <1>16, <1>17 DEF ChargeRecords
(* get_attribution_info answers for every retrieved key.                   *)
LEMMA InfoKeeps ==
    ASSUME StepInv, InfoInv, [EngineNext]_allVars
    PROVE  InfoInv'
<1>0. step # NoStep => step \in Steps
  BY DEF StepInv, StepType
<1>1. CASE GetAttributionInfo
  <2>1. step # NoStep /\ step.pc \in RetrievePcs
    BY <1>1 DEF GetAttributionInfo, NoStep, RetrievePcs
  <2>2. /\ step \in Steps /\ Prompt \in Seq(Keys) /\ Len(step.got) \in 0 .. Len(Prompt)
    BY <2>1, CurrentType DEF StepInv, StepType, Steps
  <2>3. DOMAIN GotKeys = 1 .. Len(step.got) /\ Len(step.got) \in Nat
    BY <2>2, PrefixOf DEF GotKeys
  <2>4. PICK f : f = [i \in DOMAIN GotKeys |-> Attribution(GotKeys[i], Current.client)]
    OBVIOUS
  <2>5. step' = [step EXCEPT !.pc = "update", !.info = f]
    BY <1>1, <2>4 DEF GetAttributionInfo
  <2>6. step'.got = step.got /\ step'.info = f
    BY <2>2, <2>5 DEF Steps
  <2>7. Len(f) = Len(step.got)
    BY <2>3, <2>4
  <2> QED
    BY <2>6, <2>7 DEF InfoInv
<1>2. CASE UpdateAfterGet
  <2>1. step # NoStep
    BY <1>2 DEF UpdateAfterGet, NoStep
  <2>2. step.pc = "update" /\ step'.got = step.got /\ step'.info = step.info
    BY <1>0, <1>2, <2>1 DEF UpdateAfterGet, Steps
  <2> QED
    BY <2>2 DEF InfoInv
<1>3. CASE UNCHANGED step
  BY <1>3 DEF InfoInv
<1>4. CASE \E k, b : BeginStep(k, b)
  BY <1>4 DEF BeginStep, InfoInv
<1>5. CASE GetChunk
  <2>1. step # NoStep /\ step.pc = "get"
    BY <1>5 DEF GetChunk, NoStep
  <2>2. step'.pc \in {"get", "attribute"}
    BY <1>0, <1>5, <2>1 DEF GetChunk, Steps
  <2> QED
    BY <2>2 DEF InfoInv
<1>6. CASE ChargeSequence
  <2>1. step # NoStep
    BY <1>6 DEF ChargeSequence, NoStep
  <2>2. step'.pc \in {"get", "store"}
    BY <1>0, <1>6, <2>1 DEF ChargeSequence, Steps
  <2> QED
    BY <2>2 DEF InfoInv
<1>7. CASE SkipSequence \/ BeginStore \/ LookupChunk \/ ContainsChunk \/ PutChunk
  <2>0. step.pc \in StorePcs \cup {"store"}
    BY <1>7
    DEF SkipSequence, BeginStore, LookupChunk, ContainsChunk, WalkCached, PutChunk, StorePcs
  <2>1. step # NoStep /\ step.pc \in StorePcs \cup {"store"}
    BY <2>0 DEF NoStep, StorePcs
  <2>2. \A all \in BOOLEAN : Advance(step, all).pc \in {"idle", "store"}
    BY <1>0, <2>1 DEF Advance, Steps, NoStep
  <2>3. step'.pc \in {"idle", "store", "lookup", "contains", "put", "raised"}
    <3>1. CASE step' \in {Advance(step, TRUE), Advance(step, FALSE)}
      BY <2>2, <3>1
    <3>2. CASE BeginStore
      BY <1>0, <2>1, <3>2 DEF BeginStore, Steps
    <3>3. ASSUME NEW p \in StorePcs, NEW q \in StorePcs, WalkCached(p, q),
                 step' # Advance(step, TRUE)
          PROVE  step'.pc \in StorePcs
      BY <1>0, <2>1, <3>3 DEF WalkCached, Steps, StorePcs
    <3>4. CASE PutChunk
      BY <1>0, <2>1, <2>2, <3>4 DEF PutChunk, Steps
    <3> QED
      BY <1>7, <3>1, <3>2, <3>3, <3>4 DEF SkipSequence, LookupChunk, ContainsChunk, StorePcs
  <2> QED
    BY <2>3 DEF InfoInv
<1> QED
  BY <1>1, <1>2, <1>3, <1>4, <1>5, <1>6, <1>7
  DEF EngineNext, EngineStep, EngineClose, engineVars, allVars

(* Every step charges lengths.                                             *)
LEMMA ChargesKeep ==
    ASSUME LongChunks, StepInv, InfoInv, charges \in Seq(ChargeRecords), [EngineNext]_allVars
    PROVE  charges' \in Seq(ChargeRecords)
<1>1. CASE ChargeSequence
  <2>1. step # NoStep /\ step.pc = "charge" /\ step.pc \in RetrievePcs
    BY <1>1 DEF ChargeSequence, NoStep, RetrievePcs
  <2>2. /\ step \in Steps /\ Prompt \in Seq(Keys) /\ Len(step.got) \in 0 .. Len(Prompt)
        /\ step.batch \in Batches /\ step.seq \in DOMAIN step.batch /\ step.info \in Infos
    BY <2>1, CurrentType DEF StepInv, StepType, Steps
  <2>3. Prompt # <<>>
    BY <2>2, EngineAssumption DEF Prompt, Current
  <2>4. Len(step.info) = Len(step.got)
    BY <2>1 DEF InfoInv
  <2>5. ChargeOf(GotKeys, Prompt, step.info) \in ChargeRecords
    BY <2>2, <2>3, <2>4, ChargeIsLengths DEF GotKeys
  <2> QED
    BY <1>1, <2>5 DEF ChargeSequence
<1>2. CASE \E k, b : BeginStep(k, b)
  BY <1>2 DEF BeginStep
<1>3. CASE UNCHANGED charges
  BY <1>3
<1> QED
  BY <1>1, <1>2, <1>3
  DEF EngineNext, EngineStep, EngineClose, engineVars, allVars, GetChunk, GetAttributionInfo,
      UpdateAfterGet, SkipSequence, BeginStore, LookupChunk, ContainsChunk, WalkCached, PutChunk

(* What each sequence is charged is a number of hits and a number of       *)
(* misses, for any prompts, sharers and interleavings with the worker, as  *)
(* long as every chunk is more than half full: a newcomer pays for at most *)
(* half of a full chunk.                                                   *)
THEOREM ChargesArePossible == LongChunks => (EngineSpec => []ChargesAreLengths)
<1> SUFFICES ASSUME LongChunks PROVE EngineSpec => []ChargesAreLengths
  OBVIOUS
<1> DEFINE Charged == InfoInv /\ charges \in Seq(ChargeRecords)
<1>1. EngineInit => Charged
  BY DEF EngineInit, NoStep, InfoInv
<1>2. EngineSafe /\ Charged /\ [EngineNext]_allVars => Charged'
  BY InfoKeeps, ChargesKeep DEF EngineSafe
<1>3. Charged => ChargesAreLengths
  <2> SUFFICES ASSUME charges \in Seq(ChargeRecords) PROVE ChargesAreLengths
    OBVIOUS
  <2>1. \A i \in DOMAIN charges : charges[i] \in ChargeRecords
    OBVIOUS
  <2> QED
    BY <2>1 DEF ChargesAreLengths, ChargeRecords
<1> HIDE DEF Charged
<1> QED
  BY <1>1, <1>2, <1>3, EngineInvariance, PTL DEF EngineSpec
-----------------------------------------------------------------------------
(***************************************************************************)
(* Properties with a history.  The engine queues its puts, so its backend  *)
(* has QueuedInv whatever Modes is.                                        *)
(***************************************************************************)
Reads ==
    \/ \E k \in {"prefill", "decode"}, b \in Batches : BeginStep(k, b)
    \/ GetChunk \/ GetAttributionInfo \/ ChargeSequence \/ SkipSequence \/ BeginStore
    \/ LookupChunk \/ ContainsChunk

HistorySafe == EngineSafe /\ EvictInv /\ QueuedInv

(* A step of the engine or of its worker.                                  *)
LEMMA EngineCases ==
    ASSUME QueuedInv, [EngineNext]_allVars
    PROVE  \/ /\ TakePut \/ ContinuePut("worker") \/ UpdateNext \/ EndUpdate \/ StopWorker
              /\ UNCHANGED engineVars
           \/ UpdateAfterGet
           \/ PutChunk
           \/ Reads
           \/ UNCHANGED <<dict, put_queue, job, step>>
<1>1. ~ ContinuePut("main")
  BY DEF QueuedInv, ContinuePut, PutPcs, EvictBelowThreshold, LeaveThreshold, EvictFromMaxClient,
         RefusePut, DropMaxClient, AcceptPut, AbandonPut, RemoveVictim, Allocate, BeginCopy,
         EndCopy, Register
<1>2. CASE EngineClose \/ ((Tick \/ Terminated) /\ UNCHANGED engineVars) \/ UNCHANGED allVars
  BY <1>2 DEF EngineClose, Close, Tick, Terminated, engineVars, allVars, vars, cacheVars
<1>3. CASE \/ \E b \in PrefillBatches : BeginStep("prefill", b)
           \/ \E b \in DecodeBatches : BeginStep("decode", b)
  BY <1>3 DEF Reads, Batches
<1>4. CASE EngineStep
  BY <1>1, <1>4 DEF EngineStep, MainLoop, Reads
<1>5. CASE Worker /\ UNCHANGED engineVars
  BY <1>5 DEF Worker
<1> QED
  BY <1>2, <1>3, <1>4, <1>5 DEF EngineNext

(* The reads leave the backend alone, and run when no update does.         *)
LEMMA ReadsAreQuiet ==
    ASSUME Reads
    PROVE  UNCHANGED vars /\ MainReady /\ step.pc # "update"
<1>1. CASE \E k \in {"prefill", "decode"}, b \in Batches : BeginStep(k, b)
  BY <1>1 DEF BeginStep, NoStep
<1>2. CASE GetChunk \/ GetAttributionInfo \/ ChargeSequence
  BY <1>2 DEF GetChunk, GetAttributionInfo, ChargeSequence
<1>3. CASE SkipSequence \/ BeginStore \/ LookupChunk \/ ContainsChunk
  BY <1>3 DEF SkipSequence, BeginStore, LookupChunk, ContainsChunk, WalkCached
<1> QED
  BY <1>1, <1>2, <1>3 DEF Reads

(* Every step of the engine keeps QueuedInv.                               *)
LEMMA EngineQueued ==
    ASSUME TypeOK, EvictInv, StepInv, QueuedInv, [EngineNext]_allVars
    PROVE  QueuedInv'
<1>0. {"main", "worker"} \subseteq Threads
  BY DEF Threads
<1>1. CASE TakePut
  <2>1. StartPut("worker", Head(put_queue)) /\ job["worker"].pc = "idle"
    BY <1>1 DEF TakePut
  <2>2. /\ DOMAIN dict' = DOMAIN dict \ {Head(put_queue).key}
        /\ job'["worker"].key = Head(put_queue).key /\ job'["main"] = job["main"]
    BY <1>0, <2>1, StartEffect DEF Threads
  <2> QED
    BY <2>2 DEF QueuedInv
<1>2. CASE ContinuePut("worker")
  BY <1>0, <1>2, ContinueQueued
<1>3. CASE UpdateNext
  BY <1>0, <1>3, UpdateKeepsPuts, UpdateKeepsKeys DEF QueuedInv
<1>4. CASE EndUpdate \/ StopWorker
  BY <1>0, <1>4, QuietSwitches DEF QueuedInv, cacheVars
<1>5. CASE UpdateAfterGet
  <2>1. step # NoStep /\ step.pc \in RetrievePcs
    BY <1>5 DEF UpdateAfterGet, NoStep, RetrievePcs
  <2>2. Len(step.got) \in 0 .. Len(Prompt)
    BY <2>1, CurrentType DEF StepInv, StepType, Steps
  <2>3. GotKeys \in Prefixes /\ Current.client \in Clients
    BY <2>1, <2>2, CurrentType DEF StepInv, GotKeys
  <2>4. \E c \in Clients, ks \in Prefixes : BeginUpdate(c, ks)
    BY <1>5, <2>3 DEF UpdateAfterGet
  <2> QED
    BY <1>0, <2>4, QuietSwitches DEF QueuedInv, cacheVars
<1>6. CASE UNCHANGED <<dict, job>>
  BY <1>6 DEF QueuedInv
<1>7. CASE PutChunk
  BY <1>6, <1>7 DEF PutChunk, EnqueuePut, cacheVars
<1>8. CASE Reads
  BY <1>6, <1>8, ReadsAreQuiet DEF vars
<1> QED
  BY <1>1, <1>2, <1>3, <1>4, <1>5, <1>6, <1>7, <1>8, EngineCases

(* The engine with its histories is the engine.                            *)
LEMMA HistoryInvariance == MCSpec => []HistorySafe
<1>1. MCInit => HistorySafe
  <2> SUFFICES ASSUME EngineInit PROVE HistorySafe
    BY DEF MCInit
  <2>1. Init
    BY DEF EngineInit
  <2>2. job["main"].pc = "idle" /\ job["worker"].pc = "idle"
    BY <2>1 DEF Init, Threads, IdleJob
  <2>3. EvictInv
    BY <2>1, InitEvict
  <2> QED
    BY <2>2, <2>3, InitSafe DEF HistorySafe, QueuedInv, PutPcs
<1>2. HistorySafe /\ [MCNext]_mcVars => HistorySafe'
  <2> SUFFICES ASSUME HistorySafe, [EngineNext]_allVars PROVE HistorySafe'
    BY DEF MCNext, mcVars
  <2>1. [Next]_vars
    BY EngineNextIsNext DEF HistorySafe, EngineSafe, StepInv
  <2>2. EvictInv'
    BY <2>1, NextEvict DEF HistorySafe, EngineSafe
  <2>3. QueuedInv'
    BY EngineQueued DEF HistorySafe, EngineSafe
  <2> QED
    BY <2>2, <2>3, NextSafe DEF HistorySafe
<1> QED
  BY <1>1, <1>2, PTL DEF MCSpec
-----------------------------------------------------------------------------
(***************************************************************************)
(* Attribution.  A client that was charged as a newcomer to a chunk is one *)
(* of its sharers, or the update that makes it one is still to come.       *)
(***************************************************************************)
Awaited(k, c) ==
    \/ step.pc = "update" /\ Current.client = c /\ k \in Range(GotKeys)
    \/ job["main"].pc = "update" /\ job["main"].client = c /\ k \in Range(job["main"].keys)

AttributedInv ==
    \A k, c : (<<k, c>> \in attributed /\ k \in DOMAIN dict)
                 => c \in DOMAIN dict[k].access \/ Awaited(k, c)

(* The list of an update without its last key.                             *)
LEMMA AllButLast ==
    ASSUME NEW S, NEW s \in Seq(S), s # <<>>, NEW x \in Range(s), x # s[Len(s)]
    PROVE  x \in Range(SubSeq(s, 1, Len(s) - 1))
<1>1. PICK i \in DOMAIN s : s[i] = x
  BY DEF Range
<1>2. i \in 1 .. Len(s) - 1 /\ Len(s) - 1 \in 0 .. Len(s)
  BY <1>1
<1>3. /\ DOMAIN SubSeq(s, 1, Len(s) - 1) = 1 .. Len(s) - 1
      /\ SubSeq(s, 1, Len(s) - 1)[i] = s[i]
  BY <1>2, PrefixOf
<1> QED
  BY <1>1, <1>2, <1>3 DEF Range

(* An entry that stays cached loses no sharer.                             *)
LEMMA SharersStay ==
    ASSUME TypeOK, EvictInv, QueuedInv, [EngineNext]_allVars, NEW k \in DOMAIN dict, k \in DOMAIN dict'
    PROVE  DOMAIN dict[k].access \subseteq DOMAIN dict'[k].access
<1>0. "worker" \in Threads /\ "main" \in Threads
  BY DEF Threads
<1>1. CASE dict'[k] = dict[k]
  BY <1>1
<1>2. CASE TakePut
  <2>1. StartPut("worker", Head(put_queue)) /\ job["worker"].pc = "idle"
    BY <1>2 DEF TakePut
  <2>2. \A x \in DOMAIN dict' : dict'[x] = dict[x]
    BY <1>0, <2>1, StartEffect
  <2> QED
    BY <1>1, <2>2
<1>3. CASE ContinuePut("worker")
  <2>1. CASE UNCHANGED dict
    BY <1>1, <2>1
  <2>2. CASE RemoveVictim("worker")
    <3>1. PICK v \in DOMAIN dict : Remove(v)
      BY <1>0, <2>2, RemoveVictimEffect
    <3>2. dict'[k] = dict[k]
      BY <3>1, RemoveEffect
    <3> QED
      BY <1>1, <3>2
  <2>3. CASE Register("worker")
    <3>1. job["worker"].key \notin DOMAIN dict
      BY <2>3 DEF Register, QueuedInv, PutPcs
    <3>2. dict'[k] = dict[k]
      BY <2>3, <3>1 DEF Register, Assoc
    <3> QED
      BY <1>1, <3>2
  <2> QED
    BY <1>0, <1>3, <2>1, <2>2, <2>3, DictOfPut
<1>4. CASE UpdateNext
  <2>1. PICK key, c : key = job["main"].keys[Len(job["main"].keys)] /\ c = job["main"].client
    OBVIOUS
  <2>2. CASE key \notin DOMAIN dict \/ key # k
    BY <1>1, <1>4, <2>1, <2>2 DEF UpdateNext, UpdateOnGet, TypeOK, PartialMap
  <2>3. CASE key \in DOMAIN dict /\ key = k
    <3>1. dict' = [dict EXCEPT ![k] = Touched(dict[k], c)]
      BY <1>4, <2>1, <2>3 DEF UpdateNext, UpdateOnGet
    <3>2. dict'[k] = Touched(dict[k], c)
      BY <3>1
    <3>3. dict[k] \in Entries
      BY EntryFacts
    <3> QED
      BY <3>2, <3>3 DEF Touched, Assoc, Entries
  <2> QED
    BY <2>2, <2>3
<1>5. CASE EndUpdate \/ StopWorker \/ UpdateAfterGet \/ PutChunk
  BY <1>1, <1>5 DEF EndUpdate, StopWorker, UpdateAfterGet, BeginUpdate, PutChunk, EnqueuePut, cacheVars
<1>6. CASE Reads
  BY <1>1, <1>6, ReadsAreQuiet DEF vars
<1>7. CASE UNCHANGED dict
  BY <1>1, <1>7
<1> QED
  BY <1>2, <1>3, <1>4, <1>5, <1>6, <1>7, EngineCases

(* The update makes the client a sharer of every chunk on its list that is *)
(* still cached.                                                           *)
LEMMA AwaitedArrives ==
    ASSUME TypeOK, EvictInv, QueuedInv, StepInv, [EngineNext]_allVars,
           NEW k \in DOMAIN dict, k \in DOMAIN dict', NEW c, Awaited(k, c)
    PROVE  Awaited(k, c)' \/ c \in DOMAIN dict'[k].access
<1>0. "worker" \in Threads /\ "main" \in Threads /\ "worker" # "main"
  BY DEF Threads
<1>1. CASE UNCHANGED step /\ job'["main"] = job["main"]
  BY <1>1 DEF Awaited, Current, GotKeys, Prompt
<1>2. CASE TakePut /\ UNCHANGED engineVars
  <2>1. StartPut("worker", Head(put_queue)) /\ job["worker"].pc = "idle"
    BY <1>2 DEF TakePut
  <2>2. job'["main"] = job["main"]
    BY <1>0, <2>1, StartEffect
  <2> QED
    BY <1>1, <1>2, <2>2 DEF engineVars
<1>3. CASE ContinuePut("worker") /\ UNCHANGED engineVars
  <2>1. job'["main"] = job["main"]
    BY <1>0, <1>3
    DEF TypeOK, ContinuePut, EvictBelowThreshold, LeaveThreshold, EvictFromMaxClient, ChooseVictim,
        RefusePut, DropMaxClient, AcceptPut, AbandonPut, RemoveVictim, Allocate, BeginCopy,
        EndCopy, Register
  <2> QED
    BY <1>1, <1>3, <2>1 DEF engineVars
<1>4. CASE UpdateNext /\ UNCHANGED engineVars
  <2>1. job["main"] \in UpdateJobs /\ job["main"].pc = "update"
    BY <1>0, <1>4, JobByPc DEF UpdateNext
  <2>2. PICK ks : ks = job["main"].keys
    OBVIOUS
  <2>3. ks \in Seq(Keys) /\ ks # <<>>
    BY <1>4, <2>1, <2>2 DEF UpdateNext, UpdateJobs
  <2>4. /\ job'["main"].pc = "update" /\ job'["main"].client = job["main"].client
        /\ job'["main"].keys = SubSeq(ks, 1, Len(ks) - 1)
    BY <1>0, <1>4, <2>1, <2>2 DEF UpdateNext, UpdateJobs, TypeOK
  <2>5. CASE step.pc = "update" /\ Current.client = c /\ k \in Range(GotKeys)
    BY <1>4, <2>5 DEF Awaited, Current, GotKeys, Prompt, engineVars
  <2>6. CASE job["main"].client = c /\ k \in Range(ks)
    <3>1. CASE k # ks[Len(ks)]
      BY <2>3, <2>4, <2>6, <3>1, AllButLast DEF Awaited
    <3>2. CASE k = ks[Len(ks)]
      <4>1. dict' = [dict EXCEPT ![k] = Touched(dict[k], c)]
        BY <1>4, <2>2, <2>6, <3>2 DEF UpdateNext, UpdateOnGet
      <4>2. dict'[k] = Touched(dict[k], c) /\ dict[k] \in Entries
        BY <4>1, EntryFacts
      <4> QED
        BY <4>2 DEF Touched, Assoc, Entries
    <3> QED
      BY <3>1, <3>2
  <2> QED
    BY <2>2, <2>5, <2>6 DEF Awaited
<1>5. CASE EndUpdate /\ UNCHANGED engineVars
  <2>1. Range(<<>>) = {}
    BY DEF Range
  <2>2. step.pc = "update" /\ Current.client = c /\ k \in Range(GotKeys)
    BY <1>5, <2>1 DEF Awaited, EndUpdate
  <2> QED
    BY <1>5, <2>2 DEF Awaited, Current, GotKeys, Prompt, engineVars
<1>6. CASE StopWorker /\ UNCHANGED engineVars
  BY <1>0, <1>1, <1>6 DEF StopWorker, engineVars, TypeOK
<1>7. CASE UpdateAfterGet
  <2>1. job["main"].pc = "idle" /\ step.pc = "update"
    BY <1>7 DEF UpdateAfterGet, BeginUpdate, MainReady
  <2>2. Current.client = c /\ k \in Range(GotKeys)
    BY <2>1 DEF Awaited
  <2>3. job'["main"] = UpdateJob(Current.client, GotKeys)
    BY <1>0, <1>7 DEF UpdateAfterGet, BeginUpdate, TypeOK
  <2> QED
    BY <2>2, <2>3 DEF Awaited, UpdateJob
<1>8. CASE MainReady /\ step.pc # "update"
  BY <1>8 DEF Awaited, MainReady
<1>9. CASE PutChunk
  BY <1>8, <1>9 DEF PutChunk, EnqueuePut
<1>10. CASE Reads
  BY <1>8, <1>10, ReadsAreQuiet
<1> QED
  BY <1>1, <1>2, <1>3, <1>4, <1>5, <1>6, <1>7, <1>9, <1>10, EngineCases

(* What an attribution step does.                                          *)
LEMMA AttributeEffect ==
    ASSUME StepInv, QueuedInv, [EngineNext]_allVars, Attributes
    PROVE  /\ GetAttributionInfo /\ UNCHANGED vars /\ MainReady
           /\ Current' = Current /\ GotKeys' = GotKeys /\ step'.pc = "update"
           /\ step'.info = [i \in DOMAIN GotKeys |-> Attribution(GotKeys[i], Current.client)]
<1>1. step # NoStep /\ step.pc = "attribute" /\ step'.pc = "update"
  BY DEF Attributes, NoStep
<1>2. step \in Steps
  BY <1>1 DEF StepInv, StepType
<1>3. GetAttributionInfo
  <2>1. Reads
    <3>1. ~ UNCHANGED step
      BY <1>1
    <3> QED
      BY <1>1, <3>1, EngineCases DEF UpdateAfterGet, PutChunk, engineVars
  <2> QED
    BY <1>1, <2>1
    DEF Reads, BeginStep, GetChunk, ChargeSequence, SkipSequence, BeginStore, LookupChunk,
        ContainsChunk, WalkCached, NoStep
<1>4. PICK f : f = [i \in DOMAIN GotKeys |-> Attribution(GotKeys[i], Current.client)]
  OBVIOUS
<1>5. step' = [step EXCEPT !.pc = "update", !.info = f]
  BY <1>3, <1>4 DEF GetAttributionInfo
<1>6. step'.batch = step.batch /\ step'.seq = step.seq /\ step'.got = step.got /\ step'.info = f
  BY <1>2, <1>5 DEF Steps
<1>7. Current' = Current /\ GotKeys' = GotKeys
  BY <1>6, SamePrompt DEF GotKeys
<1> QED
  BY <1>1, <1>3, <1>4, <1>6, <1>7 DEF GetAttributionInfo

(* Every step keeps AttributedInv.                                         *)
LEMMA AttributedKeeps ==
    ASSUME HistorySafe, AttributedInv, MCNext
    PROVE  AttributedInv'
<1>0. TypeOK /\ EvictInv /\ QueuedInv /\ StepInv /\ [EngineNext]_allVars
  BY DEF HistorySafe, EngineSafe, MCNext
<1> SUFFICES ASSUME NEW k, NEW c, <<k, c>> \in attributed', k \in DOMAIN dict'
             PROVE  c \in DOMAIN dict'[k].access \/ Awaited(k, c)'
  BY DEF AttributedInv
<1>1. CASE <<k, c>> \in attributed /\ k \notin Registered
  <2>1. k \in DOMAIN dict
    BY <1>1 DEF Registered
  <2>2. c \in DOMAIN dict[k].access \/ Awaited(k, c)
    BY <1>1, <2>1 DEF AttributedInv
  <2>3. CASE c \in DOMAIN dict[k].access
    BY <1>0, <2>1, <2>3, SharersStay
  <2>4. CASE Awaited(k, c)
    BY <1>0, <2>1, <2>4, AwaitedArrives
  <2> QED
    BY <2>2, <2>3, <2>4
<1>2. CASE Attributes /\ <<k, c>> \in Newcomers
  <2>1. /\ step'.pc = "update" /\ Current' = Current /\ GotKeys' = GotKeys
        /\ DOMAIN step'.info = DOMAIN GotKeys
    BY <1>0, <1>2, AttributeEffect
  <2>2. PICK i \in DOMAIN GotKeys : k = GotKeys[i] /\ c = Current.client
    BY <1>2, <2>1 DEF Newcomers
  <2>3. k \in Range(GotKeys)
    BY <2>2 DEF Range
  <2> QED
    BY <2>1, <2>2, <2>3 DEF Awaited
<1> QED
  BY <1>1, <1>2 DEF MCNext

(* A client pays the newcomer's part of a chunk once for as long as the    *)
(* chunk stays cached, for any number of clients, prompts and pool chunks: *)
(* the update runs in another critical section than the attribution, and   *)
(* the worker may evict and replace the chunk in between, but no later     *)
(* attribution overtakes the update.                                       *)
THEOREM NewcomersPayOnce == MCSpec => AttributedOnce
<1>1. MCInit => AttributedInv
  BY DEF MCInit, AttributedInv
<1>2. HistorySafe /\ AttributedInv /\ [MCNext]_mcVars => AttributedInv'
  <2>1. HistorySafe /\ AttributedInv /\ MCNext => AttributedInv'
    BY AttributedKeeps
  <2>2. AttributedInv /\ UNCHANGED mcVars => AttributedInv'
    BY DEF AttributedInv, Awaited, Current, GotKeys, Prompt, mcVars, allVars, vars, engineVars
  <2> QED
    BY <2>1, <2>2
<1>3. HistorySafe /\ AttributedInv /\ [MCNext]_mcVars
        => [Attributes => Newcomers \cap attributed = {}]_mcVars
  <2> SUFFICES ASSUME HistorySafe, AttributedInv, MCNext, Attributes,
                      NEW a \in Newcomers, a \in attributed
               PROVE  FALSE
    OBVIOUS
  <2>1. TypeOK /\ QueuedInv /\ StepInv /\ [EngineNext]_allVars
    BY DEF HistorySafe, EngineSafe, MCNext
  <2>2. /\ MainReady /\ step.pc = "attribute"
        /\ step'.info = [i \in DOMAIN GotKeys |-> Attribution(GotKeys[i], Current.client)]
    BY <2>1, AttributeEffect DEF Attributes
  <2>3. PICK i \in DOMAIN GotKeys : /\ a = <<GotKeys[i], Current.client>>
                                    /\ Joined(Attribution(GotKeys[i], Current.client))
    BY <2>2 DEF Newcomers
  <2>4. GotKeys[i] \in DOMAIN dict /\ Current.client \notin DOMAIN dict[GotKeys[i]].access
    BY <2>3 DEF Joined, Attribution
  <2>5. ~ Awaited(GotKeys[i], Current.client)
    BY <2>2 DEF Awaited, MainReady
  <2> QED
    BY <2>3, <2>4, <2>5 DEF AttributedInv
<1> QED
  BY <1>1, <1>2, <1>3, HistoryInvariance, PTL DEF MCSpec, AttributedOnce
-----------------------------------------------------------------------------
(***************************************************************************)
(* Stores.  The chunks that lookup has passed and the chunks that were put *)
(* are cached, on their way, or were evicted or refused since.             *)
(***************************************************************************)
Kept(k) == k \in DOMAIN dict \/ Pending(k) \/ k \in evicted

StoreInv ==
    step.pc \in StorePcs =>
        \A i \in DOMAIN Prompt :
            (i <= step.cached \/ (step.pc = "put" /\ i > step.todo)) => Kept(Prompt[i])

(* A put in the queue stays there, or the worker takes it.                 *)
LEMMA QueuedStays ==
    ASSUME TypeOK, EvictInv, QueuedInv, StepInv, [EngineNext]_allVars,
           NEW i \in DOMAIN put_queue, NEW k, put_queue[i].key = k
    PROVE  Pending(k)'
<1>0. "worker" \in Threads /\ put_queue \in Seq(PutItems)
  BY DEF Threads, TypeOK
<1>1. CASE UNCHANGED put_queue
  BY <1>1 DEF Pending
<1>2. CASE TakePut
  <2>1. put_queue' = Tail(put_queue) /\ put_queue # <<>>
        /\ StartPut("worker", Head(put_queue)) /\ job["worker"].pc = "idle"
    BY <1>2 DEF TakePut
  <2>2. CASE i = 1
    <3>0. Head(put_queue).key = k
      BY <1>0, <2>2
    <3>1. job'["worker"].pc \in PutPcs /\ job'["worker"].key = k
      BY <1>0, <2>1, <3>0, StartEffect DEF PutPcs
    <3> QED
      BY <1>0, <3>1 DEF Pending, Putting
  <2>3. CASE i # 1
    <3>1. i - 1 \in DOMAIN put_queue' /\ put_queue'[i - 1] = put_queue[i]
      BY <1>0, <2>1, <2>3
    <3> QED
      BY <3>1 DEF Pending
  <2> QED
    BY <2>2, <2>3
<1>3. CASE PutChunk
  <2>1. put_queue' = Append(put_queue, PutItem(step.todo))
    BY <1>3 DEF PutChunk, EnqueuePut
  <2>2. i \in DOMAIN put_queue' /\ put_queue'[i] = put_queue[i]
    BY <1>0, <2>1
  <2> QED
    BY <2>2 DEF Pending
<1>4. CASE ContinuePut("worker") \/ UpdateNext \/ EndUpdate \/ StopWorker \/ UpdateAfterGet
  BY <1>1, <1>4
  DEF ContinuePut, EvictBelowThreshold, LeaveThreshold, EvictFromMaxClient, RefusePut, DropMaxClient,
      AcceptPut, AbandonPut, RemoveVictim, Allocate, BeginCopy, EndCopy, Register, UpdateNext,
      EndUpdate, StopWorker, UpdateAfterGet, BeginUpdate
<1>5. CASE Reads
  BY <1>1, <1>5, ReadsAreQuiet DEF vars
<1> QED
  BY <1>1, <1>2, <1>3, <1>4, <1>5, EngineCases

(* A put in progress goes on, or ends with the chunk cached or refused.    *)
LEMMA PutStays ==
    ASSUME TypeOK, EvictInv, QueuedInv, StepInv, [EngineNext]_allVars,
           NEW t \in Threads, job[t].pc \in PutPcs
    PROVE  \/ job'[t].pc \in PutPcs /\ job'[t].key = job[t].key
           \/ job[t].key \in DOMAIN dict'
           \/ job[t].pc = "illegal"
<1>0. t = "worker" /\ "worker" \in Threads /\ "main" # "worker"
  BY DEF QueuedInv, Threads
<1>1. CASE job'[t] = job[t]
  BY <1>1
<1>2. CASE TakePut \/ StopWorker
  BY <1>0, <1>2 DEF TakePut, StopWorker, PutPcs
<1>3. CASE ContinuePut("worker")
  <2>1. CASE Register(t)
    BY <2>1 DEF Register, Assoc
  <2>2. CASE AbandonPut(t)
    BY <2>2 DEF AbandonPut
  <2>3. CASE DropMaxClient(t)
    BY <1>1, <2>3 DEF DropMaxClient
  <2>4. ASSUME NEW from, NEW to \in PutPcs, NEW v, NEW s, Moved(t, from, to, v, s)
        PROVE  job'[t].pc \in PutPcs /\ job'[t].key = job[t].key
    BY <2>4 DEF Moved
  <2>5. CASE EvictBelowThreshold(t) \/ EvictFromMaxClient(t)
    BY <2>4, <2>5, EvictStep
  <2>6. CASE \/ LeaveThreshold(t) \/ RefusePut(t) \/ AcceptPut(t) \/ RemoveVictim(t)
             \/ Allocate(t) \/ BeginCopy(t) \/ EndCopy(t)
    <3>1. \E from, v, s : \E to \in PutPcs : Moved(t, from, to, v, s)
      BY <2>6, PutSteps DEF PutPcs
    <3> QED
      BY <2>4, <3>1
  <2> QED
    BY <1>0, <1>3, <2>1, <2>2, <2>3, <2>5, <2>6 DEF ContinuePut
<1>4. CASE UpdateNext
  BY <1>4, UpdateKeepsPuts
<1>5. CASE EndUpdate \/ UpdateAfterGet
  BY <1>0, <1>1, <1>5 DEF EndUpdate, UpdateAfterGet, BeginUpdate, TypeOK
<1>6. CASE PutChunk \/ UNCHANGED job
  BY <1>1, <1>6 DEF PutChunk, EnqueuePut
<1>7. CASE Reads
  BY <1>1, <1>7, ReadsAreQuiet DEF vars
<1> QED
  BY <1>2, <1>3, <1>4, <1>5, <1>6, <1>7, EngineCases

(* No step of a store loses a chunk without a record of it.                *)
LEMMA KeptStays ==
    ASSUME HistorySafe, MCNext, step.pc # "store", NEW k, Kept(k)
    PROVE  Kept(k)'
<1>0. TypeOK /\ EvictInv /\ QueuedInv /\ StepInv /\ [EngineNext]_allVars
      /\ evicted' = evicted \cup Lost
  BY DEF HistorySafe, EngineSafe, MCNext
<1>1. CASE k \in DOMAIN dict
  <2>1. CASE k \in BeingPut
    BY <2>1 DEF BeingPut, Kept, Pending, Putting
  <2>2. CASE k \notin BeingPut
    BY <1>0, <1>1, <2>2 DEF Lost, Kept
  <2> QED
    BY <2>1, <2>2
<1>2. CASE k \in evicted
  BY <1>0, <1>2 DEF Kept
<1>3. ASSUME NEW i \in DOMAIN put_queue, put_queue[i].key = k
      PROVE  Kept(k)'
  <2>1. Pending(k)'
    BY <1>0, <1>3, QueuedStays
  <2> QED
    BY <2>1 DEF Kept
<1>4. ASSUME NEW t \in Threads, job[t].pc \in PutPcs, job[t].key = k
      PROVE  Kept(k)'
  <2>1. CASE job'[t].pc \in PutPcs /\ job'[t].key = k
    BY <2>1 DEF Kept, Pending, Putting
  <2>2. CASE k \in DOMAIN dict'
    BY <2>2 DEF Kept
  <2>3. CASE job[t].pc = "illegal"
    BY <1>0, <1>4, <2>3 DEF Refused, Putting, Lost, Kept
  <2> QED
    BY <1>0, <1>4, <2>1, <2>2, <2>3, PutStays
<1> QED
  BY <1>1, <1>2, <1>3, <1>4 DEF Kept, Pending, Putting

(* The steps of a store: each chunk that lookup passes is cached, each     *)
(* chunk that batched_put passes is queued.                                *)
LEMMA StoreSteps ==
    ASSUME HistorySafe, StoreInv, MCNext, step.pc \in StorePcs
    PROVE  \/ /\ step'.pc \in StorePcs /\ Prompt' = Prompt
              /\ \A i \in DOMAIN Prompt : \A k :
                    (/\ k = Prompt[i]
                     /\ i <= step'.cached \/ (step'.pc = "put" /\ i > step'.todo)) => Kept(k)'
           \/ /\ step'.pc \in {"idle", "store"}
              /\ \A i \in DOMAIN Prompt : \A k : k = Prompt[i] => Kept(k)'
           \/ step'.pc = "raised"
<1>0. StepInv /\ QueuedInv /\ TypeOK /\ [EngineNext]_allVars /\ step # NoStep /\ step.pc # "store"
  BY DEF HistorySafe, EngineSafe, MCNext, NoStep, StorePcs
<1>1. /\ step \in Steps /\ Prompt \in Seq(Keys) /\ step.cached \in Nat /\ step.todo \in Nat
      /\ step.cached <= Len(Prompt) /\ Len(Prompt) \in Nat /\ DOMAIN Prompt = 1 .. Len(Prompt)
      /\ step.pc = "put" => step.cached < step.todo /\ step.todo <= Len(Prompt)
  BY <1>0, CurrentType DEF StepInv, StepType, Steps
<1>2. \A i \in DOMAIN Prompt : \A k :
          (/\ k = Prompt[i]
           /\ i <= step.cached \/ (step.pc = "put" /\ i > step.todo)) => Kept(k)'
  <2> SUFFICES ASSUME NEW i \in DOMAIN Prompt, NEW k, k = Prompt[i],
                      i <= step.cached \/ (step.pc = "put" /\ i > step.todo)
               PROVE  Kept(k)'
    OBVIOUS
  <2>1. Kept(k)
    BY DEF StoreInv
  <2> QED
    BY <1>0, <2>1, KeptStays
<1>3. Advance(step, TRUE).pc \in {"idle", "store"}
  BY <1>0, <1>1 DEF Advance, Steps, NoStep
<1>4. CASE UNCHANGED step
  <2>1. Prompt' = Prompt
    BY <1>4, SamePrompt
  <2> QED
    BY <1>2, <1>4, <2>1
<1>5. ASSUME NEW p \in {"lookup", "contains"}, NEW q \in {"contains", "put"}, WalkCached(p, q)
      PROVE  \/ /\ step'.pc \in StorePcs /\ Prompt' = Prompt
                /\ \A i \in DOMAIN Prompt : \A k :
                      (/\ k = Prompt[i]
                       /\ i <= step'.cached \/ (step'.pc = "put" /\ i > step'.todo)) => Kept(k)'
             \/ /\ step'.pc \in {"idle", "store"}
                /\ \A i \in DOMAIN Prompt : \A k : k = Prompt[i] => Kept(k)'
  <2>0. step.pc = p /\ UNCHANGED dict
    BY <1>5 DEF WalkCached, vars
  <2>1. CASE NextCached
    <3>1. step' = [step EXCEPT !.cached = step.cached + 1]
      BY <1>1, <1>5, <2>1 DEF WalkCached, Steps
    <3>2. /\ step'.pc = p /\ step'.cached = step.cached + 1
          /\ step'.batch = step.batch /\ step'.seq = step.seq
      BY <1>1, <2>0, <3>1 DEF Steps
    <3>3. Prompt' = Prompt
      BY <3>2, SamePrompt
    <3>4. Prompt[step.cached + 1] \in DOMAIN dict'
      BY <2>0, <2>1 DEF NextCached
    <3>5. \A i \in DOMAIN Prompt : i <= step.cached + 1 => i <= step.cached \/ i = step.cached + 1
      BY <1>1
    <3>6. \A i \in DOMAIN Prompt : \A k : k = Prompt[i] /\ i <= step'.cached => Kept(k)'
      BY <1>2, <3>2, <3>4, <3>5 DEF Kept
    <3> QED
      BY <3>2, <3>3, <3>6 DEF StorePcs
  <2>2. CASE ~NextCached /\ step.cached = Len(Prompt)
    <3>1. step' = Advance(step, TRUE)
      BY <1>5, <2>2 DEF WalkCached
    <3>2. \A i \in DOMAIN Prompt : i <= step.cached
      BY <1>1, <2>2
    <3> QED
      BY <1>2, <1>3, <3>1, <3>2
  <2>3. CASE ~NextCached /\ step.cached # Len(Prompt)
    <3>1. step' = [step EXCEPT !.pc = q, !.todo = Len(Prompt)]
      BY <1>5, <2>3 DEF WalkCached
    <3>2. /\ step'.pc = q /\ step'.cached = step.cached /\ step'.todo = Len(Prompt)
          /\ step'.batch = step.batch /\ step'.seq = step.seq
      BY <1>1, <3>1 DEF Steps
    <3>3. Prompt' = Prompt
      BY <3>2, SamePrompt
    <3>4. \A i \in DOMAIN Prompt : ~ (i > step'.todo)
      BY <1>1, <3>2
    <3> QED
      BY <1>2, <3>2, <3>3, <3>4 DEF StorePcs
  <2> QED
    BY <2>1, <2>2, <2>3
<1>6. CASE PutChunk /\ ~RankZero
  <2>1. step.pc = "put" /\ put_queue' = Append(put_queue, PutItem(step.todo))
    BY <1>6 DEF PutChunk, EnqueuePut
  <2>2. \A k : k = Prompt[step.todo] => Kept(k)'
    <3> SUFFICES ASSUME NEW k, k = Prompt[step.todo] PROVE Kept(k)'
      OBVIOUS
    <3>0. PICK it : it = PutItem(step.todo)
      OBVIOUS
    <3>1. it = PutItem(step.todo) /\ it.key = k
      BY <3>0 DEF PutItem
    <3>2. put_queue \in Seq(PutItems)
      BY <1>0 DEF TypeOK
    <3>3. Len(put_queue) + 1 \in DOMAIN put_queue' /\ put_queue'[Len(put_queue) + 1] = it
      BY <2>1, <3>1, <3>2
    <3> QED
      BY <3>1, <3>3 DEF Kept, Pending
  <2>3. \A i \in DOMAIN Prompt : \A k :
            (k = Prompt[i] /\ (i <= step.cached \/ i >= step.todo)) => Kept(k)'
    <3>1. \A i \in DOMAIN Prompt : i >= step.todo => i = step.todo \/ i > step.todo
      BY <1>1
    <3> QED
      BY <1>2, <2>1, <2>2, <3>1
  <2>4. CASE LastToPut
    <3>1. step' = Advance(step, TRUE)
      BY <1>6, <2>4 DEF PutChunk
    <3>2. \A i \in DOMAIN Prompt : i <= step.cached \/ i >= step.todo
      BY <1>1, <2>4 DEF LastToPut
    <3> QED
      BY <1>3, <2>3, <3>1, <3>2
  <2>5. CASE ~LastToPut
    <3>1. step' = [step EXCEPT !.todo = step.todo - 1]
      BY <1>1, <1>6, <2>5 DEF PutChunk, Steps
    <3>2. /\ step'.pc = "put" /\ step'.cached = step.cached /\ step'.todo = step.todo - 1
          /\ step'.batch = step.batch /\ step'.seq = step.seq
      BY <1>1, <2>1, <3>1 DEF Steps
    <3>3. Prompt' = Prompt
      BY <3>2, SamePrompt
    <3>4. \A i \in DOMAIN Prompt : i > step'.todo => i >= step.todo
      BY <1>1, <3>2
    <3> QED
      BY <2>3, <3>2, <3>3, <3>4 DEF StorePcs
  <2> QED
    BY <2>4, <2>5
<1>7. CASE PutChunk /\ RankZero
  BY <1>1, <1>7 DEF PutChunk, Steps
<1>8. CASE Reads
  <2>1. LookupChunk \/ ContainsChunk
    BY <1>0, <1>8
    DEF Reads, BeginStep, GetChunk, GetAttributionInfo, ChargeSequence, SkipSequence, BeginStore,
        StorePcs
  <2> QED
    BY <1>5, <2>1 DEF LookupChunk, ContainsChunk
<1>9. ~ UpdateAfterGet
  BY DEF UpdateAfterGet, StorePcs
<1> QED
  BY <1>0, <1>4, <1>6, <1>7, <1>8, <1>9, EngineCases DEF engineVars

(* The prompt that a loop is at.                                           *)
LEMMA PromptType == StepType /\ step # NoStep => Prompt \in Seq(Keys)
BY CurrentType

(* A store begins with nothing to account for.                             *)
LEMMA StoreBegins ==
    ASSUME HistorySafe, MCNext, step.pc \notin StorePcs, step'.pc \in StorePcs
    PROVE  step'.cached = 0 /\ step'.pc # "put" /\ Prompt' \in Seq(Keys)
<1>0. StepInv /\ QueuedInv /\ [EngineNext]_allVars
  BY DEF HistorySafe, EngineSafe, MCNext
<1>1. StepInv' /\ StepType'
  <2>1. TypeOK /\ SlotInv
    BY DEF HistorySafe, EngineSafe
  <2>2. StepInv'
    BY <1>0, <2>1, EngineNextKeeps
  <2> QED
    BY <2>2 DEF StepInv
<1>2. step'.pc # "idle" /\ step' # NoStep
  BY DEF StorePcs, NoStep
<1>3. Prompt' \in Seq(Keys)
  <2>1. (StepType /\ step # NoStep => Prompt \in Seq(Keys))'
    BY PromptType, PTL
  <2> QED
    BY <1>1, <1>2, <2>1 DEF NoStep
<1>4. BeginStore
  <2>1. step' # step
    OBVIOUS
  <2>2. Reads
    <3>1. ~ UpdateAfterGet
      <4> SUFFICES ASSUME UpdateAfterGet PROVE FALSE
        OBVIOUS
      <4>1. step # NoStep /\ step' = [step EXCEPT !.pc = "charge"]
        BY DEF UpdateAfterGet, NoStep
      <4>2. step \in Steps
        BY <1>0, <4>1 DEF StepInv, StepType
      <4> QED
        BY <4>1, <4>2 DEF Steps, StorePcs
    <3>2. ~ PutChunk
      BY DEF PutChunk, StorePcs
    <3> QED
      BY <1>0, <2>1, <3>1, <3>2, EngineCases DEF engineVars
  <2>3. ~ \E k \in {"prefill", "decode"}, b \in Batches : BeginStep(k, b)
    BY DEF BeginStep, StorePcs
  <2>8. step.pc # "idle"
    BY <2>2, <2>3
    DEF Reads, GetChunk, GetAttributionInfo, ChargeSequence, SkipSequence, BeginStore, LookupChunk,
        ContainsChunk, WalkCached
  <2>4. step # NoStep /\ step \in Steps
    BY <1>0, <2>8 DEF StepInv, StepType, NoStep
  <2>5. ~ GetChunk /\ ~ GetAttributionInfo /\ ~ ChargeSequence
    <3>1. ~ GetChunk
      BY <2>4 DEF GetChunk, Steps, StorePcs
    <3>2. ~ GetAttributionInfo
      BY <2>4 DEF GetAttributionInfo, Steps, StorePcs
    <3>3. ~ ChargeSequence
      BY <2>4 DEF ChargeSequence, Steps, StorePcs
    <3> QED
      BY <3>1, <3>2, <3>3
  <2>6. ~ SkipSequence
    <3>1. Advance(step, FALSE).pc \in {"idle", "store"}
      BY <2>4 DEF Advance, Steps, NoStep
    <3> QED
      BY <3>1 DEF SkipSequence, StorePcs
  <2>7. ~ LookupChunk /\ ~ ContainsChunk
    BY DEF LookupChunk, ContainsChunk, WalkCached, StorePcs
  <2> QED
    BY <2>2, <2>3, <2>5, <2>6, <2>7 DEF Reads
<1>5. step # NoStep /\ step.pc = "store"
  BY <1>4 DEF BeginStore, NoStep
<1>6. step \in Steps /\ step.cached = 0
  BY <1>0, <1>5 DEF StepInv, StepType
<1> QED
  BY <1>3, <1>4, <1>6 DEF BeginStore, Steps

(* Every step keeps StoreInv.                                              *)
LEMMA StoreKeeps ==
    ASSUME HistorySafe, StoreInv, MCNext
    PROVE  StoreInv'
<1> SUFFICES ASSUME step'.pc \in StorePcs, NEW i \in DOMAIN Prompt', NEW k, k = Prompt'[i],
                    i <= step'.cached \/ (step'.pc = "put" /\ i > step'.todo)
             PROVE  Kept(k)'
  <2>1. StoreInv' <=> (step'.pc \in StorePcs =>
            \A i \in DOMAIN Prompt' :
                (i <= step'.cached \/ (step'.pc = "put" /\ i > step'.todo)) => Kept(Prompt[i])')
    BY DEF StoreInv
  <2> QED
    BY <2>1 DEF Kept, Pending
<1>1. CASE step.pc \in StorePcs
  BY <1>1, StoreSteps DEF StorePcs
<1>2. CASE step.pc \notin StorePcs
  <2>1. step'.cached = 0 /\ step'.pc # "put" /\ i \in Nat \ {0}
    BY <1>2, StoreBegins
  <2> QED
    BY <2>1
<1> QED
  BY <1>1, <1>2

(* When store ends for a sequence, each chunk of its prompt is cached,     *)
(* queued or being copied, or was evicted or refused meanwhile, for any    *)
(* prompts and any interleaving with the worker: between lookup and        *)
(* batched_put, which each walk over a cache that changes, no chunk falls  *)
(* through.                                                                *)
THEOREM StoresAreWhole == MCSpec => StoreLeavesNoHole
<1>1. MCInit => StoreInv
  BY DEF MCInit, EngineInit, NoStep, StoreInv, StorePcs
<1>2. HistorySafe /\ StoreInv /\ [MCNext]_mcVars => StoreInv'
  <2>1. HistorySafe /\ StoreInv /\ MCNext => StoreInv'
    BY StoreKeeps
  <2>2. StoreInv /\ UNCHANGED mcVars => StoreInv'
    BY DEF StoreInv, Kept, Pending, Putting, Current, Prompt, mcVars, allVars, vars, engineVars
  <2> QED
    BY <2>1, <2>2
<1>3. HistorySafe /\ StoreInv /\ [MCNext]_mcVars
        => [(step.pc \in {"lookup", "contains", "put"} /\ step'.pc \in {"idle", "store"}) =>
               \A k \in Range(Prompt) : k \in DOMAIN dict' \/ Pending(k)' \/ k \in evicted']_mcVars
  <2> SUFFICES ASSUME HistorySafe, StoreInv, MCNext, step.pc \in StorePcs,
                      step'.pc \in {"idle", "store"}, NEW k \in Range(Prompt)
               PROVE  k \in DOMAIN dict' \/ Pending(k)' \/ k \in evicted'
    BY DEF StorePcs
  <2>1. PICK i \in DOMAIN Prompt : k = Prompt[i]
    BY DEF Range
  <2>2. Kept(k)'
    BY <2>1, StoreSteps DEF StorePcs
  <2> QED
    BY <2>2 DEF Kept
<1> QED
  BY <1>1, <1>2, <1>3, HistoryInvariance, PTL DEF MCSpec, StoreLeavesNoHole
=============================================================================
