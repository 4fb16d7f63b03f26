----------------------- MODULE FairScheduler_proofs -----------------------
(***************************************************************************)
(* Proofs about FairScheduler: the queues, the budget and the blocks.      *)
(***************************************************************************)
EXTENDS MCFairScheduler, FiniteSetTheorems, SequenceTheorems, WellFoundedInduction, TLAPS

(* What the lists of a scheduling step hold in each phase of it.           *)
PhaseInv ==
    /\ phase = "idle" => batch = NoBatch
    /\ phase = "prefills" =>
          /\ batch.decodes = <<>> /\ batch.preempted = <<>> /\ batch.swapped_out = <<>>
          /\ swapped = <<>>
    /\ phase = "running" => batch.prefills = <<>>
    /\ phase = "swapped" =>
          /\ batch.prefills = <<>> /\ batch.preempted = <<>> /\ batch.swapped_out = <<>>
          /\ running = <<>>
    /\ phase = "commit" => (batch.prefills = <<>> => running = <<>>)
    /\ phase = "execute" =>
          /\ batch.preempted = <<>> /\ batch.swapped_out = <<>>
          /\ Range(batch.prefills) \cup Range(batch.decodes) \subseteq Range(running)
    /\ batch.prefills # <<>> =>
          /\ Len(batch.prefills) = 1
          /\ batch.decodes = <<>> /\ batch.preempted = <<>> /\ batch.swapped_out = <<>>
          /\ phase \in {"prefills", "commit", "execute"}

(* The groups that the step schedules, until they are among the running.   *)
Scheduled == IF phase = "execute" THEN <<>> ELSE batch.prefills \o batch.decodes

(* No more groups run, or are about to, than max_num_seqs.                 *)
SeatInv == Len(running) + Len(Scheduled) <= MaxNumSeqs

(* The blocks for n tokens.                                                *)
BlocksFor(n) == (n + BlockSize - 1) \div BlockSize

(* A group that runs or is swapped out has the blocks for its tokens, or   *)
(* for all but the last one; one that is scheduled has them all.  Others   *)
(* have none, except for those that failed while they were swapped out.    *)
TableInv ==
    \A r \in Requests :
        /\ length[r] >= PromptLen[r]
        /\ status[r] \in {"RUNNING", "SWAPPED"} =>
              block_table[r] \in {BlocksFor(length[r]), BlocksFor(length[r] - 1)}
        /\ r \in Range(batch.prefills) \cup Range(batch.decodes) => block_table[r] = NBlocks(r)
        /\ status[r] \in {"NEW", "WAITING"} => block_table[r] = 0
        /\ status[r] = "FINISHED" => block_table[r] = 0 \/ PreemptionMode = "swap"
        /\ status[r] = "SWAPPED" => PreemptionMode = "swap"

WithStatus(S) == {r \in Requests : status[r] \in S}

(* The blocks on the GPU are those of the groups that run.  On the CPU the *)
(* groups that failed while swapped out keep theirs.                       *)
BlockInv ==
    /\ free_gpu + Cardinality(BlocksOf(WithStatus({"RUNNING"}))) = NumGpuBlocks
    /\ free_cpu + Cardinality(BlocksOf(WithStatus({"SWAPPED", "FINISHED"}))) = NumCpuBlocks

(* A client keeps its queue from its first request on.                     *)
KnownInv ==
    \A r \in Requests : status[r] # "NEW" => ClientOf[r] \in DOMAIN client_waiting_queues

SchedInv == TypeOK /\ PhaseInv /\ KnownInv /\ OnePlace /\ SeatInv /\ TableInv /\ BlockInv
-----------------------------------------------------------------------------
(***************************************************************************)
(* Counting.  Times(r, s) is additive, so each step that moves a request   *)
(* between queues comes down to a sum.                                     *)
(***************************************************************************)
Positions(r, s) == {i \in DOMAIN s : s[i] = r}

(* The positions of an element are finitely many.                          *)
LEMMA TimesType ==
    ASSUME NEW s \in Seq(Requests), NEW r
    PROVE  /\ IsFiniteSet(Positions(r, s)) /\ Times(r, s) = Cardinality(Positions(r, s))
           /\ Times(r, s) \in Nat
           /\ (Times(r, s) = 0) <=> (r \notin Range(s))
<1>1. DOMAIN s = 1 .. Len(s) /\ Len(s) \in Nat
  OBVIOUS
<1>2. IsFiniteSet(1 .. Len(s))
  BY <1>1, FS_Interval
<1>3. Positions(r, s) \in SUBSET (1 .. Len(s))
  BY <1>1 DEF Positions
<1>4. IsFiniteSet(Positions(r, s))
  BY <1>2, <1>3, FS_Subset
<1>5. Times(r, s) = Cardinality(Positions(r, s))
  BY DEF Times, Positions
<1>6. Cardinality(Positions(r, s)) \in Nat
  BY <1>4, FS_CardinalityType
<1>7. (Cardinality(Positions(r, s)) = 0) <=> (Positions(r, s) = {})
  BY <1>4, FS_EmptySet
<1>8. (Positions(r, s) = {}) <=> (r \notin Range(s))
  BY DEF Positions, Range
<1>9. (Times(r, s) = 0) <=> (r \notin Range(s))
  BY <1>5, <1>7, <1>8
<1> QED
  BY <1>4, <1>5, <1>6, <1>9

(* Equally many positions, if they correspond.                             *)
LEMMA SameTimes ==
    ASSUME NEW s \in Seq(Requests), NEW t \in Seq(Requests), NEW r,
           NEW f \in [Positions(r, s) -> Positions(r, t)],
           \A i, j \in Positions(r, s) : f[i] = f[j] => i = j,
           \A k \in Positions(r, t) : \E i \in Positions(r, s) : f[i] = k
    PROVE  Times(r, t) = Times(r, s)
<1>1. f \in Bijection(Positions(r, s), Positions(r, t))
  BY DEF Bijection, Injection, IsInjective, Surjection
<1>2. ExistsBijection(Positions(r, s), Positions(r, t))
  BY <1>1 DEF ExistsBijection
<1> QED
  BY <1>2, TimesType, FS_Bijection

(* Concatenation.                                                          *)
LEMMA TimesCat ==
    ASSUME NEW s \in Seq(Requests), NEW t \in Seq(Requests), NEW r
    PROVE  Times(r, s \o t) = Times(r, s) + Times(r, t)
<1>1. /\ s \o t \in Seq(Requests) /\ Len(s \o t) = Len(s) + Len(t)
      /\ DOMAIN s = 1 .. Len(s) /\ DOMAIN t = 1 .. Len(t) /\ Len(s) \in Nat /\ Len(t) \in Nat
  OBVIOUS
<1>2. DOMAIN (s \o t) = 1 .. Len(s) + Len(t)
  BY <1>1
<1>3. /\ \A i \in 1 .. Len(s) : (s \o t)[i] = s[i]
      /\ \A i \in 1 .. Len(t) : (s \o t)[Len(s) + i] = t[i]
  BY <1>1
<1>4. PICK B : B = {i \in Len(s) + 1 .. Len(s) + Len(t) : (s \o t)[i] = r}
  OBVIOUS
<1>5. \A i : i \in Positions(r, s \o t) <=> i \in Positions(r, s) \/ i \in B
  BY <1>1, <1>2, <1>3, <1>4 DEF Positions
<1>6. Positions(r, s \o t) = Positions(r, s) \cup B
  BY <1>5
<1>7. Positions(r, s) \cap B = {}
  BY <1>1, <1>4 DEF Positions
<1>8. PICK f : f = [i \in Positions(r, t) |-> Len(s) + i]
  OBVIOUS
<1>9. f \in Bijection(Positions(r, t), B)
  <2>1. f \in [Positions(r, t) -> B]
    <3>1. ASSUME NEW i \in Positions(r, t) PROVE Len(s) + i \in B
      <4>1. i \in 1 .. Len(t) /\ t[i] = r
        BY <1>1 DEF Positions
      <4>2. Len(s) + i \in Len(s) + 1 .. Len(s) + Len(t)
        BY <1>1, <4>1
      <4> QED
        BY <1>3, <1>4, <4>1, <4>2
    <3> QED
      BY <1>8, <3>1
  <2>2. \A i, j \in Positions(r, t) : f[i] = f[j] => i = j
    BY <1>1, <1>8 DEF Positions
  <2>3. ASSUME NEW k \in B PROVE \E i \in Positions(r, t) : f[i] = k
    <3>1. k - Len(s) \in 1 .. Len(t) /\ Len(s) + (k - Len(s)) = k
      BY <1>1, <1>4
    <3>2. k - Len(s) \in Positions(r, t)
      BY <1>1, <1>3, <1>4, <3>1 DEF Positions
    <3> QED
      BY <1>8, <3>1, <3>2
  <2> QED
    BY <2>1, <2>2, <2>3 DEF Bijection, Injection, IsInjective, Surjection
<1>10. IsFiniteSet(B) /\ Cardinality(B) = Times(r, t)
  BY <1>9, TimesType, FS_Bijection DEF ExistsBijection
<1>11. Cardinality(Positions(r, s) \cup B) = Times(r, s) + Times(r, t) - Cardinality({})
  BY <1>7, <1>10, TimesType, FS_Union
<1>12. Cardinality({}) = 0
  BY FS_EmptySet
<1>13. Times(r, s \o t) = Cardinality(Positions(r, s \o t))
  BY <1>1, TimesType
<1> QED
  BY <1>6, <1>11, <1>12, <1>13, TimesType

(* A single element.                                                       *)
LEMMA TimesOne ==
    ASSUME NEW x \in Requests, NEW r
    PROVE  <<x>> \in Seq(Requests) /\ Times(r, <<x>>) = IF x = r THEN 1 ELSE 0
<1>1. <<x>> \in Seq(Requests)
  OBVIOUS
<1>2. Positions(r, <<x>>) = IF x = r THEN {1} ELSE {}
  BY DEF Positions
<1>3. Cardinality({1}) = 1 /\ Cardinality({}) = 0
  BY FS_Singleton, FS_EmptySet
<1> QED
  BY <1>1, <1>2, <1>3, TimesType

(* The empty sequence.                                                     *)
LEMMA TimesEmpty ==
    ASSUME NEW r
    PROVE  Times(r, <<>>) = 0
<1>1. <<>> \in Seq(Requests) /\ Range(<<>>) = {}
  BY DEF Range
<1> QED
  BY <1>1, TimesType

(* Adding an element at the end ...                                         *)
LEMMA TimesAppend ==
    ASSUME NEW s \in Seq(Requests), NEW x \in Requests, NEW r
    PROVE  /\ Append(s, x) \in Seq(Requests) /\ Len(Append(s, x)) = Len(s) + 1
           /\ Times(r, Append(s, x)) = Times(r, s) + (IF x = r THEN 1 ELSE 0)
<1>1. Append(s, x) = s \o <<x>>
  OBVIOUS
<1>2. <<x>> \in Seq(Requests) /\ Times(r, <<x>>) = IF x = r THEN 1 ELSE 0
  BY TimesOne
<1>3. Times(r, Append(s, x)) = Times(r, s) + Times(r, <<x>>)
  BY <1>1, <1>2, TimesCat
<1>4. Append(s, x) \in Seq(Requests) /\ Len(Append(s, x)) = Len(s) + 1
  OBVIOUS
<1> QED
  BY <1>2, <1>3, <1>4

(* ... taking the first one away ...                                       *)
LEMMA TimesTail ==
    ASSUME NEW s \in Seq(Requests), s # <<>>, NEW r
    PROVE  /\ Head(s) \in Requests /\ Tail(s) \in Seq(Requests) /\ Len(Tail(s)) = Len(s) - 1
           /\ Times(r, s) = Times(r, Tail(s)) + (IF Head(s) = r THEN 1 ELSE 0)
<1>1. Head(s) \in Requests /\ Tail(s) \in Seq(Requests) /\ Len(Tail(s)) = Len(s) - 1
  OBVIOUS
<1>2. <<Head(s)>> \in Seq(Requests) /\ s = <<Head(s)>> \o Tail(s)
  BY <1>1, HeadTailProperties
<1>3. Times(r, s) = Times(r, <<Head(s)>>) + Times(r, Tail(s))
  BY <1>1, <1>2, TimesCat
<1>4. Times(r, <<Head(s)>>) = IF Head(s) = r THEN 1 ELSE 0
  BY <1>1, TimesOne
<1>5. Times(r, Tail(s)) \in Nat
  BY <1>1, TimesType
<1> QED
  BY <1>1, <1>3, <1>4, <1>5

(* ... and taking the last one away.                                       *)
LEMMA TimesFront ==
    ASSUME NEW s \in Seq(Requests), s # <<>>, NEW r
    PROVE  /\ Last(s) \in Requests /\ Front(s) \in Seq(Requests) /\ Len(Front(s)) = Len(s) - 1
           /\ Last(s) \in Range(s)
           /\ Times(r, s) = Times(r, Front(s)) + (IF Last(s) = r THEN 1 ELSE 0)
<1>1. Len(s) \in Nat \ {0}
  BY EmptySeq
<1>2. Last(s) = s[Len(s)] /\ s[Len(s)] \in Requests /\ Len(s) \in DOMAIN s
  BY <1>1 DEF Last
<1>3. Front(s) \in Seq(Requests) /\ Len(Front(s)) = Len(s) - 1
  <2>5. Len(s) - 1 \in Nat /\ Len(s) - 1 <= Len(s)
    BY <1>1
  <2>0. PICK n \in Nat : n = Len(s) - 1 /\ n <= Len(s)
    BY <2>5
  <2>2. \A i \in 1 .. n : i \in 1 .. Len(s)
    BY <1>1, <2>0
  <2>3. SubSeq(s, 1, n) = [i \in 1 .. n |-> s[i]]
    BY <1>1, <2>0
  <2>4. SubSeq(s, 1, n) \in Seq(Requests) /\ Len(SubSeq(s, 1, n)) = n
    BY <2>0, <2>2, <2>3
  <2>1. SubSeq(s, 1, Len(s) - 1) \in Seq(Requests) /\ Len(SubSeq(s, 1, Len(s) - 1)) = Len(s) - 1
    BY <2>0, <2>4
  <2> QED
    BY <2>1 DEF Front
<1>4. s = Append(Front(s), Last(s))
  <2>1. \A i \in 1 .. Len(s) - 1 : Front(s)[i] = s[i]
    BY <1>1 DEF Front
  <2>2. Append(Front(s), Last(s)) \in Seq(Requests) /\ Len(Append(Front(s), Last(s))) = Len(s)
    BY <1>1, <1>2, <1>3
  <2>3. \A i \in 1 .. Len(s) : Append(Front(s), Last(s))[i] = s[i]
    BY <1>1, <1>2, <1>3, <2>1
  <2> QED
    BY <2>2, <2>3, SeqEqual
<1>5. Last(s) \in Range(s)
  BY <1>2 DEF Range
<1>6. Times(r, Append(Front(s), Last(s))) = Times(r, Front(s)) + (IF Last(s) = r THEN 1 ELSE 0)
  BY <1>2, <1>3, TimesAppend
<1> QED
  BY <1>2, <1>3, <1>4, <1>5, <1>6

(***************************************************************************)
(* Kept.  Counting the positions of I up to i numbers the elements of I,   *)
(* so the n-th element that Kept asks for exists.                          *)
(***************************************************************************)
Rank(I, i) == Cardinality({j \in I : j <= i})

(* Rank is a numbering.                                                    *)
LEMMA RankNumbers ==
    ASSUME NEW m \in Nat, NEW I, I \subseteq 1 .. m
    PROVE  /\ IsFiniteSet(I) /\ Cardinality(I) \in Nat /\ Cardinality(I) <= m
           /\ \A i \in I : Rank(I, i) \in 1 .. Cardinality(I)
           /\ \A i, j \in I : Rank(I, i) = Rank(I, j) => i = j
           /\ \A n \in 1 .. Cardinality(I) : \E i \in I : Rank(I, i) = n
<1>1. IsFiniteSet(1 .. m) /\ Cardinality(1 .. m) = m
  BY FS_Interval
<1>2. IsFiniteSet(I) /\ Cardinality(I) <= m
  BY <1>1, FS_Subset
<1>3. Cardinality(I) \in Nat
  BY <1>2, FS_CardinalityType
<1>4. \A i \in I : i \in Int
  OBVIOUS
<1>5. ASSUME NEW i \in I
      PROVE  /\ IsFiniteSet({j \in I : j <= i}) /\ Rank(I, i) <= Cardinality(I)
             /\ Rank(I, i) \in Nat /\ Rank(I, i) # 0
  <2>1. {j \in I : j <= i} \in SUBSET I
    OBVIOUS
  <2>2. IsFiniteSet({j \in I : j <= i}) /\ Rank(I, i) <= Cardinality(I)
    BY <1>2, <2>1, FS_Subset DEF Rank
  <2>3. Rank(I, i) \in Nat
    BY <2>2, FS_CardinalityType DEF Rank
  <2>4. {j \in I : j <= i} # {}
    BY <1>4
  <2>5. Rank(I, i) # 0
    BY <2>2, <2>4, FS_EmptySet DEF Rank
  <2> QED
    BY <2>2, <2>3, <2>5
<1>6. \A i \in I : Rank(I, i) \in 1 .. Cardinality(I)
  <2>1. \A i \in I : Rank(I, i) \in Nat /\ Rank(I, i) # 0 /\ Rank(I, i) <= Cardinality(I)
    BY <1>5
  <2> QED
    BY <1>3, <2>1
<1>7. ASSUME NEW i \in I, NEW j \in I, i < j PROVE Rank(I, i) # Rank(I, j)
  <2>1. {k \in I : k <= i} \in SUBSET {k \in I : k <= j}
    <3>1. \A k \in I : k <= i => k <= j
      BY <1>4, <1>7
    <3> QED
      BY <3>1
  <2>2. {k \in I : k <= i} # {k \in I : k <= j}
    BY <1>4, <1>7
  <2> QED
    BY <1>5, <2>1, <2>2, FS_Subset DEF Rank
<1>8. \A i, j \in I : Rank(I, i) = Rank(I, j) => i = j
  BY <1>4, <1>7
<1>9. PICK f : f = [i \in I |-> Rank(I, i)]
  OBVIOUS
<1>10. f \in Injection(I, 1 .. Cardinality(I))
  BY <1>6, <1>8, <1>9 DEF Injection, IsInjective
<1>11. IsFiniteSet(1 .. Cardinality(I)) /\ Cardinality(1 .. Cardinality(I)) = Cardinality(I)
  BY <1>3, FS_Interval
<1>12. f \in Surjection(I, 1 .. Cardinality(I))
  BY <1>10, <1>11, FS_Injection
<1>13. \A n \in 1 .. Cardinality(I) : \E i \in I : Rank(I, i) = n
  BY <1>9, <1>12 DEF Surjection
<1> QED
  BY <1>2, <1>3, <1>6, <1>8, <1>13

(* What Kept returns: a sequence of elements of S, each as often as in s.  *)
LEMMA KeptTimes ==
    ASSUME NEW s \in Seq(Requests), NEW S, NEW r
    PROVE  /\ Kept(s, S) \in Seq(Requests) /\ Len(Kept(s, S)) \in Nat
           /\ Len(Kept(s, S)) <= Len(s)
           /\ Len(Kept(s, S)) = Cardinality({i \in DOMAIN s : s[i] \in S})
           /\ Times(r, Kept(s, S)) = IF r \in S THEN Times(r, s) ELSE 0
<1>1. DOMAIN s = 1 .. Len(s) /\ Len(s) \in Nat
  OBVIOUS
<1>2. PICK I : I = {i \in DOMAIN s : s[i] \in S}
  OBVIOUS
<1>3. I \subseteq 1 .. Len(s)
  BY <1>1, <1>2
<1>4. /\ IsFiniteSet(I) /\ Cardinality(I) \in Nat /\ Cardinality(I) <= Len(s)
      /\ \A i \in I : Rank(I, i) \in 1 .. Cardinality(I)
      /\ \A i, j \in I : Rank(I, i) = Rank(I, j) => i = j
      /\ \A n \in 1 .. Cardinality(I) : \E i \in I : Rank(I, i) = n
  BY <1>1, <1>3, RankNumbers
<1>5. PICK nth : nth = [n \in 1 .. Cardinality(I) |-> CHOOSE i \in I : Rank(I, i) = n]
  OBVIOUS
<1>6. \A n \in 1 .. Cardinality(I) : nth[n] \in I /\ Rank(I, nth[n]) = n
  BY <1>4, <1>5
<1>7. Kept(s, S) = [n \in 1 .. Cardinality(I) |-> s[nth[n]]]
  BY <1>2, <1>5 DEF Kept, Rank
<1>8. \A n \in 1 .. Cardinality(I) : s[nth[n]] \in Requests /\ s[nth[n]] \in S
  BY <1>2, <1>6
<1>9. Kept(s, S) \in Seq(Requests) /\ Len(Kept(s, S)) = Cardinality(I)
  BY <1>4, <1>7, <1>8
<1>10. CASE r \in S
  <2>1. PICK f : f = [i \in Positions(r, s) |-> Rank(I, i)]
    OBVIOUS
  <2>2. ASSUME NEW i \in Positions(r, s)
        PROVE  i \in I /\ Rank(I, i) \in Positions(r, Kept(s, S))
    <3>1. i \in I /\ s[i] = r
      BY <1>2, <1>10 DEF Positions
    <3>2. Rank(I, i) \in 1 .. Cardinality(I) /\ nth[Rank(I, i)] = i
      BY <1>4, <1>6, <3>1
    <3> QED
      BY <1>7, <3>1, <3>2 DEF Positions
  <2>3. f \in [Positions(r, s) -> Positions(r, Kept(s, S))]
    BY <2>1, <2>2
  <2>4. \A i, j \in Positions(r, s) : f[i] = f[j] => i = j
    BY <1>4, <2>1, <2>2
  <2>5. ASSUME NEW n \in Positions(r, Kept(s, S))
        PROVE  \E i \in Positions(r, s) : f[i] = n
    <3>1. n \in 1 .. Cardinality(I) /\ s[nth[n]] = r
      BY <1>7 DEF Positions
    <3>2. nth[n] \in Positions(r, s) /\ Rank(I, nth[n]) = n
      BY <1>2, <1>6, <3>1 DEF Positions
    <3> QED
      BY <2>1, <3>2
  <2>6. Times(r, Kept(s, S)) = Times(r, s)
    BY <1>9, <2>3, <2>4, <2>5, SameTimes
  <2> QED
    BY <1>2, <1>4, <1>9, <1>10, <2>6
<1>11. CASE r \notin S
  <2>1. r \notin Range(Kept(s, S))
    BY <1>7, <1>8, <1>11 DEF Range
  <2>2. Times(r, Kept(s, S)) = 0
    BY <1>9, <2>1, TimesType
  <2> QED
    BY <1>2, <1>4, <1>9, <1>11, <2>2
<1> QED
  BY <1>10, <1>11

(* Reversing a sequence keeps its elements.                                *)
LEMMA TimesReverse ==
    ASSUME NEW s \in Seq(Requests), NEW r
    PROVE  /\ Reverse(s) \in Seq(Requests) /\ Len(Reverse(s)) = Len(s)
           /\ Times(r, Reverse(s)) = Times(r, s)
<1>1. DOMAIN s = 1 .. Len(s) /\ Len(s) \in Nat
  OBVIOUS
<1>2. \A i \in 1 .. Len(s) : (Len(s) - i) + 1 \in 1 .. Len(s)
  BY <1>1
<1>3. Reverse(s) = [i \in 1 .. Len(s) |-> s[(Len(s) - i) + 1]]
  BY DEF Reverse
<1>4. Reverse(s) \in Seq(Requests) /\ Len(Reverse(s)) = Len(s)
  BY <1>1, <1>2, <1>3
<1>5. PICK f : f = [i \in Positions(r, s) |-> (Len(s) - i) + 1]
  OBVIOUS
<1>6. ASSUME NEW i \in Positions(r, s) PROVE (Len(s) - i) + 1 \in Positions(r, Reverse(s))
  <2>1. i \in 1 .. Len(s) /\ s[i] = r
    BY <1>1 DEF Positions
  <2>2. (Len(s) - ((Len(s) - i) + 1)) + 1 = i
    BY <1>1, <2>1
  <2> QED
    BY <1>2, <1>3, <2>1, <2>2 DEF Positions
<1>7. f \in [Positions(r, s) -> Positions(r, Reverse(s))]
  BY <1>5, <1>6
<1>8. \A i, j \in Positions(r, s) : f[i] = f[j] => i = j
  BY <1>1, <1>5 DEF Positions
<1>9. ASSUME NEW k \in Positions(r, Reverse(s)) PROVE \E i \in Positions(r, s) : f[i] = k
  <2>1. k \in 1 .. Len(s) /\ s[(Len(s) - k) + 1] = r
    BY <1>3 DEF Positions
  <2>2. (Len(s) - ((Len(s) - k) + 1)) + 1 = k
    BY <1>1, <2>1
  <2>3. (Len(s) - k) + 1 \in Positions(r, s)
    BY <1>1, <1>2, <2>1 DEF Positions
  <2> QED
    BY <1>5, <2>2, <2>3
<1>10. Times(r, Reverse(s)) = Times(r, s)
  BY <1>4, <1>7, <1>8, <1>9, SameTimes
<1> QED
  BY <1>4, <1>10
-----------------------------------------------------------------------------
(***************************************************************************)
(* Arithmetic.                                                             *)
(***************************************************************************)
(* max(0, n).                                                              *)
LEMMA NonNegativeIs ==
    ASSUME NEW n \in Int
    PROVE  NonNegative(n) \in Nat /\ NonNegative(n) = IF n < 0 THEN 0 ELSE n
<1>1. PICK m \in Nat : m = IF n < 0 THEN 0 ELSE n
  OBVIOUS
<1>2. m \in {0, n} /\ \A y \in {0, n} : m >= y
  BY <1>1
<1>3. \A x \in {0, n} : (\A y \in {0, n} : x >= y) => x = m
  BY <1>1
<1>4. Max({0, n}) = m
  BY <1>2, <1>3 DEF Max
<1> QED
  BY <1>1, <1>4 DEF NonNegative

(* A set of numbers has a least element.                                   *)
LEMMA LeastNat ==
    ASSUME NEW S, S \subseteq Nat, S # {}
    PROVE  Min(S) \in S /\ \A y \in S : Min(S) <= y
<1>1. PICK R : R = OpToRel(<, Nat)
  OBVIOUS
<1>2. IsWellFoundedOn(R, Nat)
  BY <1>1, NatLessThanWellFounded
<1>3. PICK x \in S : \A y \in S : ~ (<<y, x>> \in R)
  BY <1>2, WFMin
<1>4. \A y, z \in Nat : y < z => <<y, z>> \in R
  BY <1>1 DEF OpToRel
<1>5. ASSUME NEW y \in S PROVE x <= y
  <2>1. x \in Nat /\ y \in Nat
    OBVIOUS
  <2>2. ~ (y < x)
    BY <1>3, <1>4, <2>1
  <2> QED
    BY <2>1, <2>2
<1> QED
  BY <1>3, <1>5 DEF Min

(* Dividing by a common factor.                                            *)
LEMMA CancelFactor ==
    ASSUME NEW B \in Nat \ {0}, NEW x \in Int, NEW y \in Int, B * x < B * (y + 1)
    PROVE  x <= y
<1> SUFFICES ASSUME x >= y + 1 PROVE FALSE
  OBVIOUS
<1>1. x - (y + 1) \in Nat
  OBVIOUS
<1>2. B * (x - (y + 1)) \in Nat
  BY <1>1
<1>3. B * x = B * (y + 1) + B * (x - (y + 1))
  OBVIOUS
<1> QED
  BY <1>2, <1>3

(* One more token needs no more than one more block.                       *)
LEMMA OneMoreBlock ==
    ASSUME NEW n \in Nat
    PROVE  /\ BlocksFor(n) \in Nat
           /\ BlocksFor(n + 1) \in {BlocksFor(n), BlocksFor(n) + 1}
<1>1. BlockSize \in Nat \ {0}
  BY SchedulerAssumption
<1>2. PICK B \in Nat \ {0} : B = BlockSize
  BY <1>1
<1>3. PICK k \in Nat : k = n + B - 1
  <2>1. n + B - 1 \in Nat
    OBVIOUS
  <2> QED
    BY <2>1
<1>4. BlocksFor(n) = k \div B /\ BlocksFor(n + 1) = (k + 1) \div B
  BY <1>2, <1>3 DEF BlocksFor
<1>5. PICK x \in Int : x = k \div B
  OBVIOUS
<1>6. PICK y \in Int : y = (k + 1) \div B
  OBVIOUS
<1>7. B * x <= k /\ k < B * x + B
  BY <1>5
<1>8. B * y <= k + 1 /\ k + 1 < B * y + B
  BY <1>6
<1>9. B * x + B = B * (x + 1) /\ B * y + B = B * (y + 1) /\ B * (x + 1) + B = B * (x + 2)
  OBVIOUS
<1>10. x <= y
  <2>1. B * x < B * (y + 1)
    BY <1>7, <1>8, <1>9
  <2> QED
    BY <2>1, CancelFactor
<1>11. y <= x + 1
  <2>1. B * y < B * ((x + 1) + 1)
    BY <1>7, <1>8, <1>9
  <2> QED
    BY <2>1, CancelFactor
<1>12. 0 <= x
  <2>1. B * 0 < B * (x + 1)
    BY <1>7, <1>9
  <2> QED
    BY <2>1, CancelFactor
<1> QED
  BY <1>4, <1>5, <1>6, <1>10, <1>11, <1>12
-----------------------------------------------------------------------------
(***************************************************************************)
(* The blocks that a set of groups holds, for the block tables bt.         *)
(***************************************************************************)
BlocksIn(bt, G) == UNION {{r} \X (1 .. bt[r]) : r \in G}
Held(bt, G) == Cardinality(BlocksIn(bt, G))

(* One group.                                                              *)
LEMMA HeldOne ==
    ASSUME NEW bt \in [Requests -> Nat], NEW r \in Requests
    PROVE  IsFiniteSet(BlocksIn(bt, {r})) /\ Held(bt, {r}) = bt[r]
<1>1. BlocksIn(bt, {r}) = {r} \X (1 .. bt[r])
  BY DEF BlocksIn
<1>2. bt[r] \in Nat
  OBVIOUS
<1>3. IsFiniteSet({r}) /\ Cardinality({r}) = 1
  BY FS_Singleton
<1>4. IsFiniteSet(1 .. bt[r]) /\ Cardinality(1 .. bt[r]) = bt[r]
  BY <1>2, FS_Interval
<1>5. /\ IsFiniteSet({r} \X (1 .. bt[r]))
      /\ Cardinality({r} \X (1 .. bt[r])) = Cardinality({r}) * Cardinality(1 .. bt[r])
  BY <1>3, <1>4, FS_Product
<1>6. 1 * bt[r] = bt[r]
  BY <1>2
<1> QED
  BY <1>1, <1>3, <1>4, <1>5, <1>6 DEF Held

(* There are finitely many, because there are finitely many requests.      *)
LEMMA HeldType ==
    ASSUME NEW bt \in [Requests -> Nat], NEW G, G \subseteq Requests
    PROVE  IsFiniteSet(BlocksIn(bt, G)) /\ Held(bt, G) \in Nat
<1>1. IsFiniteSet(G)
  BY QueueAssumption, FS_Subset
<1>2. PICK T : T = {{r} \X (1 .. bt[r]) : r \in G}
  OBVIOUS
<1>3. PICK f : f = [r \in G |-> {r} \X (1 .. bt[r])]
  OBVIOUS
<1>4. f \in Surjection(G, T)
  BY <1>2, <1>3 DEF Surjection
<1>5. IsFiniteSet(T)
  BY <1>1, <1>4, FS_Surjection
<1>6. ASSUME NEW r \in G PROVE IsFiniteSet({r} \X (1 .. bt[r]))
  <2>1. BlocksIn(bt, {r}) = {r} \X (1 .. bt[r])
    BY DEF BlocksIn
  <2> QED
    BY <2>1, HeldOne
<1>7. \A t \in T : IsFiniteSet(t)
  BY <1>2, <1>6
<1>8. IsFiniteSet(UNION T)
  BY <1>5, <1>7, FS_UNION
<1>9. IsFiniteSet(BlocksIn(bt, G))
  BY <1>2, <1>8 DEF BlocksIn
<1> QED
  BY <1>9, FS_CardinalityType DEF Held

(* Only the tables of the groups matter.                                   *)
LEMMA HeldSame ==
    ASSUME NEW bt, NEW bu, NEW G, \A r \in G : bu[r] = bt[r]
    PROVE  BlocksIn(bu, G) = BlocksIn(bt, G) /\ Held(bu, G) = Held(bt, G)
<1>1. {{r} \X (1 .. bu[r]) : r \in G} = {{r} \X (1 .. bt[r]) : r \in G}
  OBVIOUS
<1> QED
  BY <1>1 DEF BlocksIn, Held

(* Different groups hold different blocks.                                 *)
LEMMA HeldSplit ==
    ASSUME NEW bt \in [Requests -> Nat], NEW G, NEW D, G \subseteq Requests, D \subseteq Requests,
           G \cap D = {}
    PROVE  Held(bt, G \cup D) = Held(bt, G) + Held(bt, D)
<1>1. \A x : x \in BlocksIn(bt, G \cup D) <=> x \in BlocksIn(bt, G) \/ x \in BlocksIn(bt, D)
  BY DEF BlocksIn
<1>2. BlocksIn(bt, G \cup D) = BlocksIn(bt, G) \cup BlocksIn(bt, D)
  BY <1>1
<1>3. ASSUME NEW x \in BlocksIn(bt, G), x \in BlocksIn(bt, D) PROVE FALSE
  <2>1. PICK r \in G : x \in {r} \X (1 .. bt[r])
    BY DEF BlocksIn
  <2>2. PICK q \in D : x \in {q} \X (1 .. bt[q])
    BY <1>3 DEF BlocksIn
  <2>3. x[1] = r /\ x[1] = q
    BY <2>1, <2>2
  <2> QED
    BY <2>3
<1>4. BlocksIn(bt, G) \cap BlocksIn(bt, D) = {}
  BY <1>3
<1>5. IsFiniteSet(BlocksIn(bt, G)) /\ IsFiniteSet(BlocksIn(bt, D))
      /\ Held(bt, G) \in Nat /\ Held(bt, D) \in Nat
  BY HeldType
<1>6. Cardinality(BlocksIn(bt, G) \cup BlocksIn(bt, D))
        = Cardinality(BlocksIn(bt, G)) + Cardinality(BlocksIn(bt, D)) - Cardinality({})
  BY <1>4, <1>5, FS_Union
<1>7. Cardinality({}) = 0
  BY FS_EmptySet
<1>8. Held(bt, G \cup D) = Cardinality(BlocksIn(bt, G) \cup BlocksIn(bt, D))
  BY <1>2 DEF Held
<1>9. Held(bt, G \cup D) = Held(bt, G) + Held(bt, D) - 0
  BY <1>6, <1>7, <1>8 DEF Held
<1> QED
  BY <1>5, <1>9

(* One group x changes its table, and leaves or joins the set.             *)
LEMMA HeldMove ==
    ASSUME NEW bt \in [Requests -> Nat], NEW bu \in [Requests -> Nat], NEW x \in Requests,
           NEW G, NEW D, G \subseteq Requests, D \subseteq Requests, G \ {x} = D \ {x},
           \A r \in Requests \ {x} : bu[r] = bt[r]
    PROVE  Held(bu, D) - (IF x \in D THEN bu[x] ELSE 0) = Held(bt, G) - (IF x \in G THEN bt[x] ELSE 0)
<1>1. ASSUME NEW cu \in [Requests -> Nat], NEW E, E \subseteq Requests
      PROVE  Held(cu, E) = Held(cu, E \ {x}) + (IF x \in E THEN cu[x] ELSE 0)
  <2>3. E \ {x} \subseteq Requests /\ {x} \subseteq Requests /\ (E \ {x}) \cap {x} = {}
    BY <1>1
  <2>0. Held(cu, E \ {x}) \in Nat
    BY <2>3, HeldType
  <2>1. CASE x \in E
    <3>1. E = (E \ {x}) \cup {x}
      BY <2>1
    <3>2. Held(cu, (E \ {x}) \cup {x}) = Held(cu, E \ {x}) + Held(cu, {x})
      BY <2>3, HeldSplit
    <3> QED
      BY <2>1, <3>1, <3>2, HeldOne
  <2>2. CASE x \notin E
    <3>1. E = E \ {x}
      BY <2>2
    <3> QED
      BY <2>0, <2>2, <3>1
  <2> QED
    BY <2>1, <2>2
<1>2. Held(bu, D \ {x}) = Held(bt, D \ {x})
  BY HeldSame
<1>3. Held(bt, G \ {x}) \in Nat /\ bt[x] \in Nat /\ bu[x] \in Nat
  BY HeldType
<1>4. Held(bu, D) = Held(bu, D \ {x}) + (IF x \in D THEN bu[x] ELSE 0)
  BY <1>1
<1>5. Held(bt, G) = Held(bt, G \ {x}) + (IF x \in G THEN bt[x] ELSE 0)
  BY <1>1
<1>6. Held(bu, D \ {x}) = Held(bt, G \ {x})
  BY <1>2
<1> QED
  BY <1>3, <1>4, <1>5, <1>6
-----------------------------------------------------------------------------
(***************************************************************************)
(* OnePlace as a sum over the queues, as a function of their contents.     *)
(***************************************************************************)
InQueue(q, r) == IF ClientOf[r] \in DOMAIN q THEN Times(r, q[ClientOf[r]]) ELSE 0

Counts(q, ru, sc, sw, pre, out, st) ==
    \A r \in Requests :
        /\ InQueue(q, r) + Times(r, pre) = IF st[r] = "WAITING" THEN 1 ELSE 0
        /\ Times(r, ru) + Times(r, sc) = IF st[r] = "RUNNING" THEN 1 ELSE 0
        /\ Times(r, sw) + Times(r, out) = IF st[r] = "SWAPPED" THEN 1 ELSE 0
        /\ \A c \in DOMAIN q \ {ClientOf[r]} : Times(r, q[c]) = 0

Queues(q) == \A c \in DOMAIN q : q[c] \in Seq(Requests)

(* The sums say what OnePlace says.                                        *)
LEMMA CountsArePlaces ==
    ASSUME NEW q, Queues(q), NEW ru \in Seq(Requests), NEW sc \in Seq(Requests),
           NEW sw \in Seq(Requests), NEW pre \in Seq(Requests), NEW out \in Seq(Requests), NEW st
    PROVE  Counts(q, ru, sc, sw, pre, out, st) <=>
           \A r \in Requests :
             /\ Once(r, Lookup(q, ClientOf[r], <<>>) \o pre, st[r] = "WAITING")
             /\ Once(r, ru \o sc, st[r] = "RUNNING")
             /\ Once(r, sw \o out, st[r] = "SWAPPED")
             /\ \A c \in DOMAIN q \ {ClientOf[r]} : ~ Contains(q[c], r)
<1>1. ASSUME NEW r \in Requests
      PROVE  /\ Times(r, Lookup(q, ClientOf[r], <<>>) \o pre) = InQueue(q, r) + Times(r, pre)
             /\ Times(r, ru \o sc) = Times(r, ru) + Times(r, sc)
             /\ Times(r, sw \o out) = Times(r, sw) + Times(r, out)
             /\ \A c \in DOMAIN q : (Times(r, q[c]) = 0) <=> ~ Contains(q[c], r)
  <2>1. /\ Times(r, ru \o sc) = Times(r, ru) + Times(r, sc)
        /\ Times(r, sw \o out) = Times(r, sw) + Times(r, out)
    BY TimesCat
  <2>2. <<>> \in Seq(Requests)
    BY EmptySeq
  <2>3. Lookup(q, ClientOf[r], <<>>) \in Seq(Requests)
    BY <2>2 DEF Lookup, Queues
  <2>4. Times(r, Lookup(q, ClientOf[r], <<>>)) = InQueue(q, r)
    BY TimesEmpty DEF Lookup, InQueue
  <2>5. Times(r, Lookup(q, ClientOf[r], <<>>) \o pre) = InQueue(q, r) + Times(r, pre)
    BY <2>3, <2>4, TimesCat
  <2>6. ASSUME NEW c \in DOMAIN q PROVE (Times(r, q[c]) = 0) <=> ~ Contains(q[c], r)
    <3>1. q[c] \in Seq(Requests)
      BY DEF Queues
    <3>2. Contains(q[c], r) <=> r \in Range(q[c])
      BY <3>1 DEF Contains, Range
    <3> QED
      BY <3>1, <3>2, TimesType
  <2> QED
    BY <2>1, <2>5, <2>6
<1> QED
  BY <1>1 DEF Counts, Once

(* The queues of a state, and of the next one.                             *)
LEMMA PlacesNow ==
    ASSUME TypeOK
    PROVE  OnePlace <=> Counts(client_waiting_queues, running, Scheduled, swapped,
                               batch.preempted, batch.swapped_out, status)
<1>1. Queues(client_waiting_queues) /\ running \in Seq(Requests) /\ swapped \in Seq(Requests)
  BY DEF TypeOK, Queues
<1>2. /\ batch.preempted \in Seq(Requests) /\ batch.swapped_out \in Seq(Requests)
      /\ batch.prefills \in Seq(Requests) /\ batch.decodes \in Seq(Requests)
  BY DEF TypeOK
<1>3. Scheduled \in Seq(Requests)
  BY <1>2, EmptySeq DEF Scheduled
<1>4. Counts(client_waiting_queues, running, Scheduled, swapped,
             batch.preempted, batch.swapped_out, status)
      <=> \A r \in Requests :
             /\ Once(r, Lookup(client_waiting_queues, ClientOf[r], <<>>) \o batch.preempted,
                     status[r] = "WAITING")
             /\ Once(r, running \o Scheduled, status[r] = "RUNNING")
             /\ Once(r, swapped \o batch.swapped_out, status[r] = "SWAPPED")
             /\ \A c \in DOMAIN client_waiting_queues \ {ClientOf[r]} :
                   ~ Contains(client_waiting_queues[c], r)
  BY <1>1, <1>2, <1>3, CountsArePlaces
<1> QED
  BY <1>4 DEF OnePlace, Scheduled

(* The same of the next state.                                             *)
LEMMA PlacesNext ==
    ASSUME TypeOK'
    PROVE  OnePlace' <=> Counts(client_waiting_queues', running', Scheduled', swapped',
                                batch'.preempted, batch'.swapped_out, status')
<1>1. Queues(client_waiting_queues') /\ running' \in Seq(Requests) /\ swapped' \in Seq(Requests)
  BY DEF TypeOK, Queues
<1>2. /\ batch'.preempted \in Seq(Requests) /\ batch'.swapped_out \in Seq(Requests)
      /\ batch'.prefills \in Seq(Requests) /\ batch'.decodes \in Seq(Requests)
  BY DEF TypeOK
<1>3. Scheduled' \in Seq(Requests)
  BY <1>2, EmptySeq DEF Scheduled
<1>4. Counts(client_waiting_queues', running', Scheduled', swapped',
             batch'.preempted, batch'.swapped_out, status')
      <=> \A r \in Requests :
             /\ Once(r, Lookup(client_waiting_queues', ClientOf[r], <<>>) \o batch'.preempted,
                     status'[r] = "WAITING")
             /\ Once(r, running' \o Scheduled', status'[r] = "RUNNING")
             /\ Once(r, swapped' \o batch'.swapped_out, status'[r] = "SWAPPED")
             /\ \A c \in DOMAIN client_waiting_queues' \ {ClientOf[r]} :
                   ~ Contains(client_waiting_queues'[c], r)
  BY <1>1, <1>2, <1>3, CountsArePlaces
<1> QED
  BY <1>4 DEF OnePlace, Scheduled
-----------------------------------------------------------------------------
(***************************************************************************)
(* Facts about a state of the scheduler.                                   *)
(***************************************************************************)
(* The lists of a step are queues of requests.                             *)
LEMMA ListType ==
    ASSUME TypeOK
    PROVE  /\ batch.preempted \in Seq(Requests) /\ batch.swapped_out \in Seq(Requests)
           /\ batch.prefills \in Seq(Requests) /\ batch.decodes \in Seq(Requests)
           /\ Scheduled \in Seq(Requests)
           /\ DOMAIN batch = {"prefills", "decodes", "preempted", "swapped_out"}
<1>1. /\ batch.preempted \in Seq(Requests) /\ batch.swapped_out \in Seq(Requests)
      /\ batch.prefills \in Seq(Requests) /\ batch.decodes \in Seq(Requests)
      /\ DOMAIN batch = {"prefills", "decodes", "preempted", "swapped_out"}
  BY DEF TypeOK
<1> QED
  BY <1>1, EmptySeq DEF Scheduled

(* Where a request is, its status says so, and it is nowhere else.         *)
LEMMA WhereIs ==
    ASSUME TypeOK, OnePlace, PhaseInv
    PROVE  /\ \A x \in Range(running) :
                 status[x] = "RUNNING" /\ Times(x, running) = 1 /\ Times(x, Scheduled) = 0
           /\ \A x \in Range(swapped) :
                 status[x] = "SWAPPED" /\ Times(x, swapped) = 1 /\ Times(x, batch.swapped_out) = 0
           /\ \A c \in DOMAIN client_waiting_queues : \A x \in Range(client_waiting_queues[c]) :
                 /\ ClientOf[x] = c /\ status[x] = "WAITING"
                 /\ Times(x, client_waiting_queues[c]) = 1 /\ Times(x, batch.preempted) = 0
           /\ \A x \in Range(batch.prefills) \cup Range(batch.decodes) : status[x] = "RUNNING"
<1>1. Counts(client_waiting_queues, running, Scheduled, swapped,
             batch.preempted, batch.swapped_out, status)
  BY PlacesNow
<1>2. /\ batch.preempted \in Seq(Requests) /\ batch.swapped_out \in Seq(Requests)
      /\ Scheduled \in Seq(Requests) /\ running \in Seq(Requests) /\ swapped \in Seq(Requests)
      /\ batch.prefills \in Seq(Requests) /\ batch.decodes \in Seq(Requests)
  BY ListType DEF TypeOK
<1>3. ASSUME NEW s \in Seq(Requests), NEW x \in Range(s)
      PROVE  x \in Requests /\ Times(x, s) \in Nat /\ Times(x, s) >= 1
  <2>1. x \in Requests
    BY DEF Range
  <2> QED
    BY <2>1, TimesType
<1>4. ASSUME NEW s \in Seq(Requests), NEW x PROVE Times(x, s) \in Nat
  BY TimesType
<1>5. ASSUME NEW x \in Range(running)
      PROVE  status[x] = "RUNNING" /\ Times(x, running) = 1 /\ Times(x, Scheduled) = 0
  <2>1. Times(x, running) + Times(x, Scheduled) = IF status[x] = "RUNNING" THEN 1 ELSE 0
    BY <1>1, <1>2, <1>3 DEF Counts
  <2> QED
    BY <1>2, <1>3, <1>4, <2>1
<1>6. ASSUME NEW x \in Range(swapped)
      PROVE  status[x] = "SWAPPED" /\ Times(x, swapped) = 1 /\ Times(x, batch.swapped_out) = 0
  <2>1. Times(x, swapped) + Times(x, batch.swapped_out) = IF status[x] = "SWAPPED" THEN 1 ELSE 0
    BY <1>1, <1>2, <1>3 DEF Counts
  <2> QED
    BY <1>2, <1>3, <1>4, <2>1
<1>7. ASSUME NEW c \in DOMAIN client_waiting_queues, NEW x \in Range(client_waiting_queues[c])
      PROVE  /\ ClientOf[x] = c /\ status[x] = "WAITING"
             /\ Times(x, client_waiting_queues[c]) = 1 /\ Times(x, batch.preempted) = 0
  <2>1. client_waiting_queues[c] \in Seq(Requests)
    BY DEF TypeOK
  <2>2. x \in Requests /\ Times(x, client_waiting_queues[c]) \in Nat
        /\ Times(x, client_waiting_queues[c]) >= 1
    BY <1>3, <2>1
  <2>3. ClientOf[x] = c
    BY <1>1, <2>2 DEF Counts
  <2>4. InQueue(client_waiting_queues, x) + Times(x, batch.preempted)
          = IF status[x] = "WAITING" THEN 1 ELSE 0
    BY <1>1, <2>2 DEF Counts
  <2>5. InQueue(client_waiting_queues, x) = Times(x, client_waiting_queues[c])
    BY <2>3 DEF InQueue
  <2>6. Times(x, batch.preempted) \in Nat
    BY <1>2, <1>4
  <2> QED
    BY <2>2, <2>3, <2>4, <2>5, <2>6
<1>8. ASSUME NEW x \in Range(batch.prefills) \cup Range(batch.decodes)
      PROVE  status[x] = "RUNNING"
  <2>1. CASE phase = "execute"
    BY <1>5, <2>1 DEF PhaseInv
  <2>2. CASE phase # "execute"
    <3>1. x \in Requests
      BY <1>2 DEF Range
    <3>2. Scheduled = batch.prefills \o batch.decodes
      BY <2>2 DEF Scheduled
    <3>3. Times(x, Scheduled) = Times(x, batch.prefills) + Times(x, batch.decodes)
      BY <1>2, <3>2, TimesCat
    <3>4. /\ Times(x, batch.prefills) \in Nat /\ Times(x, batch.decodes) \in Nat
          /\ Times(x, batch.prefills) >= 1 \/ Times(x, batch.decodes) >= 1
      <4>1. Times(x, batch.prefills) \in Nat /\ Times(x, batch.decodes) \in Nat
        BY <1>2, <1>4
      <4>2. x \in Range(batch.prefills) => Times(x, batch.prefills) >= 1
        BY <1>2, <1>3
      <4>3. x \in Range(batch.decodes) => Times(x, batch.decodes) >= 1
        BY <1>2, <1>3
      <4> QED
        BY <4>1, <4>2, <4>3
    <3>5. Times(x, running) + Times(x, Scheduled) = IF status[x] = "RUNNING" THEN 1 ELSE 0
      BY <1>1, <3>1 DEF Counts
    <3>6. Times(x, running) \in Nat
      BY <1>2, <1>4
    <3>7. Times(x, Scheduled) \in Nat /\ Times(x, Scheduled) >= 1
      BY <3>3, <3>4
    <3>8. Times(x, running) + Times(x, Scheduled) # 0
      BY <3>6, <3>7
    <3> QED
      BY <3>5, <3>8
  <2> QED
    BY <2>1, <2>2
<1> QED
  BY <1>5, <1>6, <1>7, <1>8

(* The block that append_slots may have to add.                            *)
LEMMA MissingIs ==
    ASSUME TypeOK, TableInv, NEW x \in Requests, status[x] \in {"RUNNING", "SWAPPED"}
    PROVE  /\ NBlocks(x) \in Nat /\ MissingBlocks(x) \in {0, 1}
           /\ block_table[x] + MissingBlocks(x) = NBlocks(x)
<1>1. length[x] \in Nat /\ length[x] >= PromptLen[x] /\ PromptLen[x] \in Nat \ {0}
  BY SchedulerAssumption DEF TypeOK, TableInv
<1>2. PICK n \in Nat : length[x] = n + 1
  <2>1. length[x] - 1 \in Nat /\ length[x] = (length[x] - 1) + 1
    BY <1>1
  <2> QED
    BY <2>1
<1>3. NBlocks(x) = BlocksFor(n + 1)
  BY <1>2 DEF NBlocks, BlocksFor
<1>4. length[x] - 1 = n
  BY <1>2
<1>5. block_table[x] \in {BlocksFor(n + 1), BlocksFor(n)} /\ block_table[x] \in Nat
  BY <1>2, <1>4 DEF TableInv, TypeOK
<1>6. BlocksFor(n) \in Nat /\ BlocksFor(n + 1) \in {BlocksFor(n), BlocksFor(n) + 1}
  BY OneMoreBlock
<1>7. NBlocks(x) - block_table[x] \in {0, 1} /\ NBlocks(x) \in Nat
  BY <1>3, <1>5, <1>6
<1>8. MissingBlocks(x) = NBlocks(x) - block_table[x]
  BY <1>5, <1>7, NonNegativeIs DEF MissingBlocks
<1> QED
  BY <1>5, <1>7, <1>8
(* The larger of two numbers.                                              *)
LEMMA MaxOfTwo ==
    ASSUME NEW m \in Nat, NEW n \in Nat
    PROVE  Max({m, n}) \in Nat /\ Max({m, n}) = IF m < n THEN n ELSE m
<1>1. PICK k \in Nat : k = IF m < n THEN n ELSE m
  OBVIOUS
<1>2. k \in {m, n} /\ \A y \in {m, n} : k >= y
  BY <1>1
<1>3. \A x \in {m, n} : (\A y \in {m, n} : x >= y) => x = k
  BY <1>1
<1>4. Max({m, n}) = k
  BY <1>2, <1>3 DEF Max
<1> QED
  BY <1>1, <1>4

(* Groups with empty tables hold nothing.                                  *)
LEMMA HeldNone ==
    ASSUME NEW bt, NEW G, \A r \in G : bt[r] = 0
    PROVE  Held(bt, G) = 0
<1>1. \A r \in G : {r} \X (1 .. bt[r]) = {}
  OBVIOUS
<1>2. BlocksIn(bt, G) = {}
  BY <1>1 DEF BlocksIn
<1>3. Cardinality({}) = 0
  BY FS_EmptySet
<1> QED
  BY <1>2, <1>3 DEF Held

(* The groups with a status in S.                                          *)
Having(st, S) == {r \in Requests : st[r] \in S}

(* BlockInv as a function of the tables, now and in the next state.        *)
LEMMA BlocksNow ==
    BlockInv <=>
        /\ free_gpu + Held(block_table, Having(status, {"RUNNING"})) = NumGpuBlocks
        /\ free_cpu + Held(block_table, Having(status, {"SWAPPED", "FINISHED"})) = NumCpuBlocks
BY DEF BlockInv, BlocksOf, WithStatus, Having, Held, BlocksIn

(* The same of the next state.                                             *)
LEMMA BlocksNext ==
    BlockInv' <=>
        /\ free_gpu' + Held(block_table', Having(status', {"RUNNING"})) = NumGpuBlocks
        /\ free_cpu' + Held(block_table', Having(status', {"SWAPPED", "FINISHED"})) = NumCpuBlocks
BY DEF BlockInv, BlocksOf, WithStatus, Having, Held, BlocksIn

(* A step that changes the status or the table of one group keeps the      *)
(* blocks in balance if it does so for this group.                         *)
LEMMA BlocksMove ==
    ASSUME TypeOK, TypeOK', BlockInv, NEW x \in Requests,
           \A r \in Requests \ {x} : block_table'[r] = block_table[r] /\ status'[r] = status[r],
           free_gpu' + (IF status'[x] = "RUNNING" THEN block_table'[x] ELSE 0)
             = free_gpu + (IF status[x] = "RUNNING" THEN block_table[x] ELSE 0),
           free_cpu' + (IF status'[x] \in {"SWAPPED", "FINISHED"} THEN block_table'[x] ELSE 0)
             = free_cpu + (IF status[x] \in {"SWAPPED", "FINISHED"} THEN block_table[x] ELSE 0)
    PROVE  BlockInv'
<1>1. /\ block_table \in [Requests -> Nat] /\ block_table' \in [Requests -> Nat]
      /\ free_gpu \in Nat /\ free_gpu' \in Nat /\ free_cpu \in Nat /\ free_cpu' \in Nat
  BY DEF TypeOK
<1>2. ASSUME NEW S, NEW f \in Nat, NEW g \in Nat,
             g + (IF status'[x] \in S THEN block_table'[x] ELSE 0)
               = f + (IF status[x] \in S THEN block_table[x] ELSE 0)
      PROVE  g + Held(block_table', Having(status', S)) = f + Held(block_table, Having(status, S))
  <2>1. PICK G : G = Having(status, S)
    OBVIOUS
  <2>2. PICK D : D = Having(status', S)
    OBVIOUS
  <2>3. G \subseteq Requests /\ D \subseteq Requests /\ G \ {x} = D \ {x}
    BY <2>1, <2>2 DEF Having
  <2>4. Held(block_table', D) - (IF x \in D THEN block_table'[x] ELSE 0)
          = Held(block_table, G) - (IF x \in G THEN block_table[x] ELSE 0)
    BY <1>1, <2>3, HeldMove
  <2>5. (x \in D <=> status'[x] \in S) /\ (x \in G <=> status[x] \in S)
    BY <2>1, <2>2 DEF Having
  <2>6. Held(block_table', D) \in Nat /\ Held(block_table, G) \in Nat
    BY <1>1, <2>3, HeldType
  <2>7. PICK n \in Nat : n = IF status'[x] \in S THEN block_table'[x] ELSE 0
    BY <1>1
  <2>8. PICK m \in Nat : m = IF status[x] \in S THEN block_table[x] ELSE 0
    BY <1>1
  <2>9. g + n = f + m
    BY <1>2, <2>7, <2>8
  <2>10. Held(block_table', D) - n = Held(block_table, G) - m
    BY <2>4, <2>5, <2>7, <2>8
  <2> QED
    BY <2>1, <2>2, <2>6, <2>9, <2>10
<1>3. free_gpu' + Held(block_table', Having(status', {"RUNNING"}))
        = free_gpu + Held(block_table, Having(status, {"RUNNING"}))
  BY <1>1, <1>2
<1>4. free_cpu' + Held(block_table', Having(status', {"SWAPPED", "FINISHED"}))
        = free_cpu + Held(block_table, Having(status, {"SWAPPED", "FINISHED"}))
  BY <1>1, <1>2
<1> QED
  BY <1>3, <1>4, BlocksNow, BlocksNext

(* free_seq for one group.                                                 *)
LEMMA FreedOne ==
    ASSUME TypeOK, NEW x \in Requests, Freed({x})
    PROVE  /\ block_table' = [block_table EXCEPT ![x] = 0]
           /\ free_gpu' = free_gpu + (IF status[x] = "SWAPPED" THEN 0 ELSE block_table[x])
           /\ free_cpu' = free_cpu + (IF status[x] = "SWAPPED" THEN block_table[x] ELSE 0)
<1>1. block_table \in [Requests -> Nat] /\ free_gpu \in Nat /\ free_cpu \in Nat
  BY DEF TypeOK
<1>2. block_table' = [block_table EXCEPT ![x] = 0]
  BY <1>1 DEF Freed
<1>3. Held(block_table, {x}) = block_table[x] /\ Held(block_table, {}) = 0
  BY <1>1, HeldOne, HeldNone
<1>4. Cardinality(BlocksOf({x})) = block_table[x] /\ Cardinality(BlocksOf({})) = 0
  BY <1>3 DEF Held, BlocksIn, BlocksOf
<1>5. PICK S : S = {r \in {x} : status[r] = "SWAPPED"}
  OBVIOUS
<1>6. free_gpu' = free_gpu + Cardinality(BlocksOf({x} \ S))
      /\ free_cpu' = free_cpu + Cardinality(BlocksOf(S))
  BY <1>5 DEF Freed
<1>7. CASE status[x] = "SWAPPED"
  <2>1. S = {x} /\ {x} \ S = {}
    BY <1>5, <1>7
  <2> QED
    BY <1>2, <1>4, <1>6, <1>7, <2>1
<1>8. CASE status[x] # "SWAPPED"
  <2>1. S = {} /\ {x} \ S = {x}
    BY <1>5, <1>8
  <2> QED
    BY <1>2, <1>4, <1>6, <1>8, <2>1
<1> QED
  BY <1>7, <1>8
-----------------------------------------------------------------------------
(***************************************************************************)
(* What the operations of the waiting queue do to the place of a request.  *)
(***************************************************************************)
(* append                                                                  *)
LEMMA AppendedPlaces ==
    ASSUME NEW q, Queues(q), NEW x \in Requests
    PROVE  /\ DOMAIN Appended(q, x) = DOMAIN q \cup {ClientOf[x]}
           /\ Queues(Appended(q, x))
           /\ \A r \in Requests :
                InQueue(Appended(q, x), r) = InQueue(q, r) + (IF r = x THEN 1 ELSE 0)
           /\ \A r \in Requests : \A c \in DOMAIN Appended(q, x) \ {ClientOf[r]} :
                \/ c \in DOMAIN q /\ Times(r, Appended(q, x)[c]) = Times(r, q[c])
                \/ c \notin DOMAIN q /\ Times(r, Appended(q, x)[c]) = 0
<1>1. PICK s : s = Lookup(q, ClientOf[x], <<>>)
  OBVIOUS
<1>2. <<>> \in Seq(Requests)
  BY EmptySeq
<1>3. s \in Seq(Requests) /\ \A r : Times(r, s) = IF ClientOf[x] \in DOMAIN q
                                                   THEN Times(r, q[ClientOf[x]]) ELSE 0
  BY <1>1, <1>2, TimesEmpty DEF Lookup, Queues
<1>4. PICK t : t = Append(s, x)
  OBVIOUS
<1>5. t \in Seq(Requests) /\ \A r : Times(r, t) = Times(r, s) + (IF x = r THEN 1 ELSE 0)
  BY <1>3, <1>4, TimesAppend
<1>6. PICK p : p = Appended(q, x)
  OBVIOUS
<1>7. p = [c \in DOMAIN q \cup {ClientOf[x]} |-> IF c = ClientOf[x] THEN t ELSE q[c]]
  BY <1>1, <1>4, <1>6 DEF Appended, Assoc
<1>8. DOMAIN p = DOMAIN q \cup {ClientOf[x]} /\ Queues(p)
  BY <1>5, <1>7 DEF Queues
<1>9. \A r \in Requests : InQueue(p, r) = InQueue(q, r) + (IF r = x THEN 1 ELSE 0)
  <2> TAKE r \in Requests
  <2>1. CASE ClientOf[r] = ClientOf[x]
    <3>1. InQueue(p, r) = Times(r, t) /\ InQueue(q, r) = Times(r, s)
      BY <1>3, <1>7, <2>1 DEF InQueue
    <3> QED
      BY <1>5, <3>1
  <2>2. CASE ClientOf[r] # ClientOf[x]
    <3>1. InQueue(p, r) = InQueue(q, r) /\ r # x
      BY <1>7, <2>2 DEF InQueue
    <3>2. InQueue(q, r) \in Nat
      BY TimesType DEF InQueue, Queues
    <3> QED
      BY <3>1, <3>2
  <2> QED
    BY <2>1, <2>2
<1>10. ASSUME NEW r \in Requests, NEW c \in DOMAIN p \ {ClientOf[r]}
       PROVE  \/ c \in DOMAIN q /\ Times(r, p[c]) = Times(r, q[c])
              \/ c \notin DOMAIN q /\ Times(r, p[c]) = 0
  <2>1. CASE c = ClientOf[x]
    <3>1. p[c] = t /\ x # r
      BY <1>7, <2>1
    <3>2. Times(r, p[c]) = Times(r, s) /\ Times(r, s) \in Nat
      BY <1>3, <1>5, <3>1, TimesType
    <3> QED
      BY <1>3, <2>1, <3>2
  <2>2. CASE c # ClientOf[x]
    BY <1>7, <2>2
  <2> QED
    BY <2>1, <2>2
<1> QED
  BY <1>6, <1>8, <1>9, <1>10

(* popleft                                                                 *)
LEMMA PopPlaces ==
    ASSUME NEW q, Queues(q), NEW c \in DOMAIN q, q[c] # <<>>, ClientOf[Head(q[c])] = c
    PROVE  /\ DOMAIN PopLeft(q, c) = DOMAIN q /\ Queues(PopLeft(q, c))
           /\ Head(q[c]) \in Requests /\ Head(q[c]) \in Range(q[c])
           /\ \A r \in Requests :
                InQueue(q, r) = InQueue(PopLeft(q, c), r) + (IF r = Head(q[c]) THEN 1 ELSE 0)
           /\ \A r \in Requests : InQueue(PopLeft(q, c), r) \in Nat
           /\ \A r \in Requests : \A d \in DOMAIN q \ {ClientOf[r]} :
                Times(r, PopLeft(q, c)[d]) = Times(r, q[d])
<1>1. q[c] \in Seq(Requests)
  BY DEF Queues
<1>2. PICK x : x = Head(q[c])
  OBVIOUS
<1>3. PICK t : t = Tail(q[c])
  OBVIOUS
<1>4. /\ x \in Requests /\ t \in Seq(Requests)
      /\ \A r : Times(r, q[c]) = Times(r, t) + (IF x = r THEN 1 ELSE 0)
  BY <1>1, <1>2, <1>3, TimesTail
<1>5. x \in Range(q[c])
  <2>1. 1 \in DOMAIN q[c] /\ q[c][1] = x
    BY <1>1, <1>2
  <2> QED
    BY <2>1 DEF Range
<1>6. PICK p : p = PopLeft(q, c)
  OBVIOUS
<1>7. DOMAIN p = DOMAIN q /\ p[c] = t /\ \A d \in DOMAIN q \ {c} : p[d] = q[d]
  BY <1>3, <1>6 DEF PopLeft
<1>8. Queues(p)
  BY <1>4, <1>7 DEF Queues
<1>9. \A r \in Requests : InQueue(p, r) \in Nat
  BY <1>8, TimesType DEF InQueue, Queues
<1>10. \A r \in Requests : InQueue(q, r) = InQueue(p, r) + (IF r = x THEN 1 ELSE 0)
  <2> TAKE r \in Requests
  <2>1. CASE ClientOf[r] = c
    <3>1. InQueue(p, r) = Times(r, t) /\ InQueue(q, r) = Times(r, q[c])
      BY <1>7, <2>1 DEF InQueue
    <3> QED
      BY <1>4, <3>1
  <2>2. CASE ClientOf[r] # c
    <3>1. InQueue(p, r) = InQueue(q, r) /\ r # x
      BY <1>2, <1>7, <2>2 DEF InQueue
    <3> QED
      BY <1>9, <3>1
  <2> QED
    BY <2>1, <2>2
<1>11. ASSUME NEW r \in Requests, NEW d \in DOMAIN q \ {ClientOf[r]}
       PROVE  Times(r, p[d]) = Times(r, q[d])
  <2>1. CASE d = c
    <3>1. x # r /\ p[d] = t
      BY <1>2, <1>7, <2>1
    <3>2. Times(r, t) \in Nat
      BY <1>4, TimesType
    <3> QED
      BY <1>4, <2>1, <3>1, <3>2
  <2>2. CASE d # c
    BY <1>7, <2>2
  <2> QED
    BY <2>1, <2>2
<1> QED
  BY <1>2, <1>4, <1>5, <1>6, <1>7, <1>8, <1>9, <1>10, <1>11

(* remove                                                                  *)
LEMMA RemovedPlaces ==
    ASSUME NEW q, Queues(q), NEW x \in Requests
    PROVE  /\ DOMAIN Removed(q, x) = DOMAIN q /\ Queues(Removed(q, x))
           /\ \A r \in Requests : InQueue(Removed(q, x), r) = IF r = x THEN 0 ELSE InQueue(q, r)
           /\ \A r \in Requests : \A c \in DOMAIN q :
                Times(r, q[c]) = 0 => Times(r, Removed(q, x)[c]) = 0
<1>1. PICK p : p = Removed(q, x)
  OBVIOUS
<1>2. DOMAIN p = DOMAIN q /\ \A c \in DOMAIN q : p[c] = Kept(q[c], Requests \ {x})
  BY <1>1 DEF Removed
<1>3. ASSUME NEW c \in DOMAIN q
      PROVE  /\ p[c] \in Seq(Requests)
             /\ \A r \in Requests : Times(r, p[c]) = IF r = x THEN 0 ELSE Times(r, q[c])
  <2>1. q[c] \in Seq(Requests)
    BY DEF Queues
  <2>2. PICK s \in Seq(Requests) : s = q[c]
    BY <2>1
  <2>3. PICK S : S = Requests \ {x}
    OBVIOUS
  <2>4. p[c] = Kept(s, S)
    BY <1>2, <2>2, <2>3
  <2>5. Kept(s, S) \in Seq(Requests)
    BY KeptTimes
  <2>6. \A r \in Requests : Times(r, Kept(s, S)) = IF r \in S THEN Times(r, s) ELSE 0
    BY KeptTimes
  <2> QED
    BY <2>2, <2>3, <2>4, <2>5, <2>6
<1>4. Queues(p)
  BY <1>2, <1>3 DEF Queues
<1>5. \A r \in Requests : InQueue(p, r) = IF r = x THEN 0 ELSE InQueue(q, r)
  BY <1>2, <1>3 DEF InQueue
<1>6. \A r \in Requests : \A c \in DOMAIN q : Times(r, q[c]) = 0 => Times(r, p[c]) = 0
  BY <1>3
<1> QED
  BY <1>1, <1>2, <1>4, <1>5, <1>6

(* extendleft, for requests whose clients have a queue.                    *)
LEMMA ExtendedPlaces ==
    ASSUME NEW q, Queues(q), NEW list \in Seq(Requests),
           \A r \in Requests : Times(r, list) # 0 => ClientOf[r] \in DOMAIN q
    PROVE  /\ DOMAIN ExtendedLeft(q, list) = DOMAIN q /\ Queues(ExtendedLeft(q, list))
           /\ \A r \in Requests : InQueue(ExtendedLeft(q, list), r) = InQueue(q, r) + Times(r, list)
           /\ \A r \in Requests : \A c \in DOMAIN q \ {ClientOf[r]} :
                Times(r, ExtendedLeft(q, list)[c]) = Times(r, q[c])
<1>1. PICK p : p = ExtendedLeft(q, list)
  OBVIOUS
<1>2. /\ DOMAIN p = DOMAIN q
      /\ \A c \in DOMAIN q : p[c] = Reverse(Kept(list, OwnedBy(c))) \o q[c]
  BY <1>1 DEF ExtendedLeft
<1>3. \A r \in Requests : Times(r, list) \in Nat
  BY TimesType
<1>4. ASSUME NEW c \in DOMAIN q
      PROVE  /\ p[c] \in Seq(Requests)
             /\ \A r \in Requests : /\ Times(r, q[c]) \in Nat
                                    /\ Times(r, p[c]) = (IF ClientOf[r] = c THEN Times(r, list) ELSE 0)
                                                        + Times(r, q[c])
  <2>1. q[c] \in Seq(Requests)
    BY DEF Queues
  <2>2. PICK k : k = Kept(list, OwnedBy(c))
    OBVIOUS
  <2>3. k \in Seq(Requests)
    BY <2>2, KeptTimes
  <2>4. PICK v : v = Reverse(k)
    OBVIOUS
  <2>5. v \in Seq(Requests)
    BY <2>3, <2>4, TimesReverse
  <2>8. v \o q[c] \in Seq(Requests)
    BY <2>1, <2>5
  <2>9. p[c] = v \o q[c]
    BY <1>2, <2>2, <2>4
  <2>6. p[c] = v \o q[c] /\ p[c] \in Seq(Requests)
    BY <2>8, <2>9
  <2>7. ASSUME NEW r \in Requests
        PROVE  /\ Times(r, q[c]) \in Nat
               /\ Times(r, p[c]) = (IF ClientOf[r] = c THEN Times(r, list) ELSE 0) + Times(r, q[c])
    <3>1. Times(r, p[c]) = Times(r, v) + Times(r, q[c])
      BY <2>1, <2>5, <2>6, TimesCat
    <3>2. Times(r, v) = Times(r, k)
      BY <2>3, <2>4, TimesReverse
    <3>3. Times(r, k) = IF r \in OwnedBy(c) THEN Times(r, list) ELSE 0
      BY <2>2, KeptTimes
    <3>4. r \in OwnedBy(c) <=> ClientOf[r] = c
      BY DEF OwnedBy
    <3>5. Times(r, q[c]) \in Nat
      BY <2>1, TimesType
    <3> QED
      BY <3>1, <3>2, <3>3, <3>4, <3>5
  <2> QED
    BY <2>6, <2>7
<1>5. Queues(p)
  BY <1>2, <1>4 DEF Queues
<1>6. \A r \in Requests : InQueue(p, r) = InQueue(q, r) + Times(r, list)
  <2> TAKE r \in Requests
  <2>1. CASE ClientOf[r] \in DOMAIN q
    BY <1>2, <1>3, <1>4, <2>1 DEF InQueue
  <2>2. CASE ClientOf[r] \notin DOMAIN q
    <3>1. Times(r, list) = 0
      BY <2>2
    <3> QED
      BY <1>2, <2>2, <3>1 DEF InQueue
  <2> QED
    BY <2>1, <2>2
<1>7. \A r \in Requests : \A c \in DOMAIN q \ {ClientOf[r]} : Times(r, p[c]) = Times(r, q[c])
  BY <1>4
<1> QED
  BY <1>1, <1>2, <1>5, <1>6, <1>7
-----------------------------------------------------------------------------
(***************************************************************************)
(* Each action keeps SchedInv, and lowers nobody on the scoreboard.        *)
(***************************************************************************)
ServedGrows == \A c \in DOMAIN served : c \in DOMAIN served' /\ served[c] <= served'[c]

(* append: the client that joins keeps what it was charged, or is lifted   *)
(* to the least served of the others that wait.                            *)
LEMMA LiftedIs ==
    ASSUME NEW q, NEW sv, NEW c \in DOMAIN q, sv \in [DOMAIN sv -> Nat],
           DOMAIN q = DOMAIN sv \cup {c}
    PROVE  /\ Lifted(q, sv, c) \in [DOMAIN q -> Nat]
           /\ \A d \in DOMAIN sv \ {c} : Lifted(q, sv, c)[d] = sv[d]
           /\ c \in DOMAIN sv => sv[c] <= Lifted(q, sv, c)[c]
           /\ Lifted(q, sv, c)[c] = Lookup(sv, c, 0)
              \/ \A d \in Backlogged(q) \ {c} : Lifted(q, sv, c)[c] <= sv[d]
           /\ Len(q[c]) = 1 /\ Backlogged(q) \ {c} # {} =>
                 \E d \in Backlogged(q) \ {c} : sv[d] <= Lifted(q, sv, c)[c]
<1>1. PICK others : others = Backlogged(q) \ {c}
  OBVIOUS
<1>2. PICK own : own = Lookup(sv, c, 0)
  OBVIOUS
<1>3. own \in Nat /\ (c \in DOMAIN sv => own = sv[c])
  BY <1>2 DEF Lookup
<1>4. PICK S : S = {sv[d] : d \in others}
  OBVIOUS
<1>5. S \subseteq Nat /\ (others # {} => S # {})
  BY <1>1, <1>4 DEF Backlogged
<1>6. ASSUME others # {}
      PROVE  /\ Min(S) \in Nat /\ (\E d \in others : sv[d] = Min(S))
             /\ \A d \in others : Min(S) <= sv[d]
             /\ Max({own, Min(S)}) \in Nat
             /\ Max({own, Min(S)}) = IF own < Min(S) THEN Min(S) ELSE own
  <2>1. Min(S) \in S /\ \A y \in S : Min(S) <= y
    BY <1>5, <1>6, LeastNat
  <2>2. Min(S) \in Nat
    BY <1>5, <2>1
  <2>3. Max({own, Min(S)}) \in Nat /\ Max({own, Min(S)}) = IF own < Min(S) THEN Min(S) ELSE own
    BY <1>3, <2>2, MaxOfTwo
  <2>4. (\E d \in others : sv[d] = Min(S)) /\ \A d \in others : Min(S) <= sv[d]
    BY <1>4, <2>1
  <2> QED
    BY <2>2, <2>3, <2>4
<1>7. PICK v : v = IF Len(q[c]) = 1 /\ others # {} THEN Max({own, Min(S)}) ELSE own
  OBVIOUS
<1>8. v \in Nat /\ own <= v
  <2>1. CASE Len(q[c]) = 1 /\ others # {}
    BY <1>3, <1>6, <1>7, <2>1
  <2>2. CASE ~ (Len(q[c]) = 1 /\ others # {})
    BY <1>3, <1>7, <2>2
  <2> QED
    BY <2>1, <2>2
<1>9. Lifted(q, sv, c) = [d \in DOMAIN sv \cup {c} |-> IF d = c THEN v ELSE sv[d]]
  BY <1>1, <1>2, <1>4, <1>7 DEF Lifted, Assoc
<1>10. v = own \/ \A d \in others : v <= sv[d]
  <2>1. CASE Len(q[c]) = 1 /\ others # {} /\ own < Min(S)
    BY <1>6, <1>7, <2>1
  <2>2. CASE Len(q[c]) = 1 /\ others # {} /\ ~ (own < Min(S))
    BY <1>6, <1>7, <2>2
  <2>3. CASE ~ (Len(q[c]) = 1 /\ others # {})
    BY <1>7, <2>3
  <2> QED
    BY <2>1, <2>2, <2>3
<1>11. ASSUME Len(q[c]) = 1, others # {} PROVE \E d \in others : sv[d] <= v
  <2>1. PICK d \in others : sv[d] = Min(S)
    BY <1>6, <1>11
  <2>2. v = Max({own, Min(S)})
    BY <1>7, <1>11
  <2>3. Min(S) <= v
    BY <1>3, <1>6, <1>11, <2>2
  <2> QED
    BY <2>1, <2>3
<1> QED
  BY <1>1, <1>2, <1>3, <1>8, <1>9, <1>10, <1>11

(* add_seq_group: the group joins the queue of its client and no other.    *)
LEMMA AddKeeps ==
    ASSUME SchedInv, NEW x \in Requests, AddSeqGroup(x)
    PROVE  SchedInv' /\ ServedGrows
<1> USE DEF SchedInv
<1>1. PICK q : q = client_waiting_queues
  OBVIOUS
<1>2. Queues(q) /\ DOMAIN q \subseteq Clients /\ served \in [DOMAIN q -> Nat]
  BY <1>1 DEF TypeOK, Queues
<1>3. PICK p : p = Appended(q, x)
  OBVIOUS
<1>4. /\ DOMAIN p = DOMAIN q \cup {ClientOf[x]} /\ Queues(p)
      /\ \A r \in Requests : InQueue(p, r) = InQueue(q, r) + (IF r = x THEN 1 ELSE 0)
      /\ \A r \in Requests : \A c \in DOMAIN p \ {ClientOf[r]} :
            \/ c \in DOMAIN q /\ Times(r, p[c]) = Times(r, q[c])
            \/ c \notin DOMAIN q /\ Times(r, p[c]) = 0
  BY <1>2, <1>3, AppendedPlaces
<1>5. client_waiting_queues' = p /\ served' = Lifted(p, served, ClientOf[x])
  BY <1>1, <1>3 DEF AddSeqGroup
<1>6. ClientOf[x] \in Clients
  BY QueueAssumption
<1>7. /\ served' \in [DOMAIN p -> Nat]
      /\ \A d \in DOMAIN served \ {ClientOf[x]} : served'[d] = served[d]
      /\ ClientOf[x] \in DOMAIN served => served[ClientOf[x]] <= served'[ClientOf[x]]
  <2>1. ClientOf[x] \in DOMAIN p /\ served \in [DOMAIN served -> Nat]
        /\ DOMAIN p = DOMAIN served \cup {ClientOf[x]}
    BY <1>2, <1>4
  <2> QED
    BY <1>5, <2>1, LiftedIs
<1>8. /\ status[x] = "NEW" /\ status' = [status EXCEPT ![x] = "WAITING"] /\ phase = "idle"
      /\ UNCHANGED <<credits, running, swapped, length, preempted, phase, batch>>
      /\ UNCHANGED <<block_table, free_gpu, free_cpu>>
  BY DEF AddSeqGroup, blockVars
<1>9. TypeOK'
  BY <1>2, <1>4, <1>5, <1>6, <1>7, <1>8 DEF TypeOK, Statuses, Queues
<1>10. PhaseInv' /\ SeatInv'
  BY <1>8 DEF PhaseInv, SeatInv, Scheduled
<1>11. KnownInv'
  BY <1>1, <1>4, <1>5, <1>8 DEF KnownInv, TypeOK
<1>12. TableInv'
  BY <1>8 DEF TableInv, TypeOK, NBlocks
<1>13. BlockInv'
  <2>1. block_table[x] = 0 /\ status'[x] = "WAITING"
        /\ \A r \in Requests \ {x} : block_table'[r] = block_table[r] /\ status'[r] = status[r]
    BY <1>8 DEF TableInv, TypeOK
  <2> QED
    BY <1>8, <1>9, <2>1, BlocksMove
<1>14. OnePlace'
  <2>1. Counts(q, running, Scheduled, swapped, batch.preempted, batch.swapped_out, status)
    BY <1>1, PlacesNow
  <2>2. Scheduled' = Scheduled
    BY <1>8 DEF Scheduled
  <2>3. Counts(p, running, Scheduled, swapped, batch.preempted, batch.swapped_out, status')
    <3> SUFFICES ASSUME NEW r \in Requests
                 PROVE  /\ InQueue(p, r) + Times(r, batch.preempted)
                            = IF status'[r] = "WAITING" THEN 1 ELSE 0
                        /\ Times(r, running) + Times(r, Scheduled)
                            = IF status'[r] = "RUNNING" THEN 1 ELSE 0
                        /\ Times(r, swapped) + Times(r, batch.swapped_out)
                            = IF status'[r] = "SWAPPED" THEN 1 ELSE 0
                        /\ \A c \in DOMAIN p \ {ClientOf[r]} : Times(r, p[c]) = 0
      BY DEF Counts
    <3>1. /\ InQueue(q, r) + Times(r, batch.preempted) = IF status[r] = "WAITING" THEN 1 ELSE 0
          /\ Times(r, running) + Times(r, Scheduled) = IF status[r] = "RUNNING" THEN 1 ELSE 0
          /\ Times(r, swapped) + Times(r, batch.swapped_out)
               = IF status[r] = "SWAPPED" THEN 1 ELSE 0
          /\ \A c \in DOMAIN q \ {ClientOf[r]} : Times(r, q[c]) = 0
      BY <2>1 DEF Counts
    <3>2. /\ batch.preempted \in Seq(Requests) /\ Times(r, batch.preempted) \in Nat
          /\ InQueue(q, r) \in Nat
      <4>1. batch.preempted \in Seq(Requests)
        BY ListType
      <4> QED
        BY <1>2, <4>1, TimesType DEF InQueue, Queues
    <3>3. \A c \in DOMAIN p \ {ClientOf[r]} : Times(r, p[c]) = 0
      BY <1>4, <3>1
    <3>4. CASE r = x
      <4>1. InQueue(p, r) = InQueue(q, r) + 1 /\ status'[r] = "WAITING"
        BY <1>4, <1>8, <3>4 DEF TypeOK
      <4>2. InQueue(q, r) + Times(r, batch.preempted) = 0
        BY <1>8, <3>1, <3>4
      <4>3. InQueue(p, r) + Times(r, batch.preempted) = 1
        BY <3>2, <4>1, <4>2
      <4> QED
        BY <1>8, <3>1, <3>3, <3>4, <4>1, <4>3
    <3>5. CASE r # x
      <4>1. InQueue(p, r) = InQueue(q, r) /\ status'[r] = status[r]
        BY <1>4, <1>8, <3>2, <3>5 DEF TypeOK
      <4> QED
        BY <3>1, <3>3, <4>1
    <3> QED
      BY <3>4, <3>5
  <2> QED
    BY <1>5, <1>8, <1>9, <2>2, <2>3, PlacesNext
<1>15. ServedGrows
  <2>1. ASSUME NEW c \in DOMAIN served PROVE c \in DOMAIN served' /\ served[c] <= served'[c]
    <3>1. c \in DOMAIN served' /\ served[c] \in Nat
      BY <1>2, <1>4, <1>7
    <3> QED
      BY <1>7, <3>1
  <2> QED
    BY <2>1 DEF ServedGrows
<1> QED
  BY <1>9, <1>10, <1>11, <1>12, <1>13, <1>14, <1>15
(* A step that changes the status of one group moves it in the sums.       *)
LEMMA CountsStep ==
    ASSUME NEW q, NEW ru, NEW sc, NEW sw, NEW pre, NEW out, NEW st,
           NEW p, NEW ru2, NEW sc2, NEW sw2, NEW pre2, NEW out2, NEW st2, NEW x,
           Counts(q, ru, sc, sw, pre, out, st),
           \A r \in Requests \ {x} :
               /\ st2[r] = st[r]
               /\ InQueue(p, r) + Times(r, pre2) = InQueue(q, r) + Times(r, pre)
               /\ Times(r, ru2) + Times(r, sc2) = Times(r, ru) + Times(r, sc)
               /\ Times(r, sw2) + Times(r, out2) = Times(r, sw) + Times(r, out),
           \A r \in Requests : \A c \in DOMAIN p \ {ClientOf[r]} : Times(r, p[c]) = 0,
           InQueue(p, x) + Times(x, pre2) = IF st2[x] = "WAITING" THEN 1 ELSE 0,
           Times(x, ru2) + Times(x, sc2) = IF st2[x] = "RUNNING" THEN 1 ELSE 0,
           Times(x, sw2) + Times(x, out2) = IF st2[x] = "SWAPPED" THEN 1 ELSE 0
    PROVE  Counts(p, ru2, sc2, sw2, pre2, out2, st2)
<1> SUFFICES ASSUME NEW r \in Requests
             PROVE  /\ InQueue(p, r) + Times(r, pre2) = IF st2[r] = "WAITING" THEN 1 ELSE 0
                    /\ Times(r, ru2) + Times(r, sc2) = IF st2[r] = "RUNNING" THEN 1 ELSE 0
                    /\ Times(r, sw2) + Times(r, out2) = IF st2[r] = "SWAPPED" THEN 1 ELSE 0
                    /\ \A c \in DOMAIN p \ {ClientOf[r]} : Times(r, p[c]) = 0
  BY DEF Counts
<1>1. /\ InQueue(q, r) + Times(r, pre) = IF st[r] = "WAITING" THEN 1 ELSE 0
      /\ Times(r, ru) + Times(r, sc) = IF st[r] = "RUNNING" THEN 1 ELSE 0
      /\ Times(r, sw) + Times(r, out) = IF st[r] = "SWAPPED" THEN 1 ELSE 0
  BY DEF Counts
<1>2. CASE r = x
  BY <1>2
<1>3. CASE r # x
  BY <1>1, <1>3
<1> QED
  BY <1>2, <1>3

(* No charge, no change.                                                   *)
LEMMA SameServed ==
    ASSUME TypeOK, served' = served
    PROVE  ServedGrows
<1>1. \A c \in DOMAIN served : served[c] \in Nat
  BY DEF TypeOK
<1> QED
  BY <1>1 DEF ServedGrows

(* abort_seq_group: the group leaves every queue and frees its blocks.     *)
LEMMA AbortKeeps ==
    ASSUME SchedInv, NEW x \in Requests, AbortSeqGroup(x)
    PROVE  SchedInv' /\ ServedGrows
<1> USE DEF SchedInv
<1>1. PICK q : q = client_waiting_queues
  OBVIOUS
<1>2. Queues(q) /\ DOMAIN q \subseteq Clients /\ served \in [DOMAIN q -> Nat]
  BY <1>1 DEF TypeOK, Queues
<1>3. PICK p : p = Removed(q, x)
  OBVIOUS
<1>4. /\ DOMAIN p = DOMAIN q /\ Queues(p)
      /\ \A r \in Requests : InQueue(p, r) = IF r = x THEN 0 ELSE InQueue(q, r)
      /\ \A r \in Requests : \A c \in DOMAIN q : Times(r, q[c]) = 0 => Times(r, p[c]) = 0
  BY <1>2, <1>3, RemovedPlaces
<1>5. /\ client_waiting_queues' = p /\ phase = "idle"
      /\ status[x] \in {"WAITING", "RUNNING", "SWAPPED"}
      /\ status' = [status EXCEPT ![x] = "FINISHED"] /\ Freed({x})
      /\ UNCHANGED <<served, credits, length, preempted, phase, batch>>
  BY <1>1, <1>3 DEF AbortSeqGroup
<1>6. /\ block_table' = [block_table EXCEPT ![x] = 0]
      /\ free_gpu' = free_gpu + (IF status[x] = "SWAPPED" THEN 0 ELSE block_table[x])
      /\ free_cpu' = free_cpu + (IF status[x] = "SWAPPED" THEN block_table[x] ELSE 0)
  BY <1>5, FreedOne
<1>7. PICK S : S = Requests \ {x}
  OBVIOUS
<1>8. ASSUME NEW s \in Seq(Requests)
      PROVE  /\ Kept(s, S) \in Seq(Requests) /\ Len(Kept(s, S)) \in Nat
             /\ Len(Kept(s, S)) <= Len(s)
             /\ \A r \in Requests : Times(r, Kept(s, S)) = IF r = x THEN 0 ELSE Times(r, s)
  <2>1. /\ Kept(s, S) \in Seq(Requests) /\ Len(Kept(s, S)) \in Nat /\ Len(Kept(s, S)) <= Len(s)
    BY KeptTimes
  <2>2. \A r \in Requests : Times(r, Kept(s, S)) = IF r \in S THEN Times(r, s) ELSE 0
    BY KeptTimes
  <2> QED
    BY <1>7, <2>1, <2>2
<1>9. running' = Kept(running, S) /\ swapped' = Kept(swapped, S)
  BY <1>7 DEF AbortSeqGroup
<1>10. running \in Seq(Requests) /\ swapped \in Seq(Requests)
  BY DEF TypeOK
<1>11. batch = NoBatch
  BY <1>5 DEF PhaseInv
<1>12. TypeOK'
  <2>1. free_gpu' \in Nat /\ free_cpu' \in Nat /\ block_table' \in [Requests -> Nat]
    BY <1>6 DEF TypeOK
  <2>2. running' \in Seq(Requests) /\ swapped' \in Seq(Requests)
    BY <1>8, <1>9, <1>10
  <2> QED
    BY <1>2, <1>4, <1>5, <2>1, <2>2 DEF TypeOK, Statuses, Queues
<1>13. PhaseInv'
  BY <1>5, <1>11 DEF PhaseInv, NoBatch
<1>14. SeatInv'
  <2>1. Scheduled' = Scheduled /\ Scheduled \in Seq(Requests) /\ Len(Scheduled) \in Nat
    <3>1. Scheduled \in Seq(Requests)
      BY ListType
    <3>2. Scheduled' = Scheduled
      BY <1>5 DEF Scheduled
    <3> QED
      BY <3>1, <3>2
  <2>2. Len(running') \in Nat /\ Len(running') <= Len(running) /\ Len(running) \in Nat
    BY <1>8, <1>9, <1>10
  <2>3. MaxNumSeqs \in Nat
    BY SchedulerAssumption
  <2> QED
    BY <2>1, <2>2, <2>3 DEF SeatInv
<1>15. KnownInv'
  BY <1>1, <1>4, <1>5 DEF KnownInv, TypeOK
<1>16. TableInv'
  <2>1. batch'.prefills = <<>> /\ batch'.decodes = <<>> /\ Range(<<>>) = {}
    BY <1>5, <1>11 DEF NoBatch, Range
  <2> QED
    BY <1>5, <1>6, <2>1 DEF TableInv, TypeOK
<1>17. BlockInv'
  <2>1. block_table'[x] = 0 /\ status'[x] = "FINISHED"
        /\ \A r \in Requests \ {x} : block_table'[r] = block_table[r] /\ status'[r] = status[r]
    BY <1>5, <1>6 DEF TypeOK
  <2>2. block_table[x] \in Nat /\ free_gpu \in Nat /\ free_cpu \in Nat
        /\ (status[x] = "WAITING" => block_table[x] = 0)
    BY DEF TypeOK, TableInv
  <2>3. free_gpu' + (IF status'[x] = "RUNNING" THEN block_table'[x] ELSE 0)
          = free_gpu + (IF status[x] = "RUNNING" THEN block_table[x] ELSE 0)
    BY <1>5, <1>6, <2>1, <2>2
  <2>4. free_cpu' + (IF status'[x] \in {"SWAPPED", "FINISHED"} THEN block_table'[x] ELSE 0)
          = free_cpu + (IF status[x] \in {"SWAPPED", "FINISHED"} THEN block_table[x] ELSE 0)
    BY <1>5, <1>6, <2>1, <2>2
  <2> QED
    BY <1>12, <2>1, <2>3, <2>4, BlocksMove
<1>18. OnePlace'
  <2>1. Counts(q, running, Scheduled, swapped, batch.preempted, batch.swapped_out, status)
    BY <1>1, PlacesNow
  <2>2. Scheduled' = Scheduled
    BY <1>5 DEF Scheduled
  <2>3. Times(x, Scheduled) = 0 /\ Times(x, batch.preempted) = 0 /\ Times(x, batch.swapped_out) = 0
    <3>1. Scheduled = <<>> /\ batch.preempted = <<>> /\ batch.swapped_out = <<>>
      BY <1>5, <1>11 DEF Scheduled, NoBatch
    <3> QED
      BY <3>1, TimesEmpty
  <2>4. \A r \in Requests : /\ Times(r, running') = IF r = x THEN 0 ELSE Times(r, running)
                            /\ Times(r, swapped') = IF r = x THEN 0 ELSE Times(r, swapped)
    BY <1>8, <1>9, <1>10
  <2>5. status'[x] = "FINISHED" /\ \A r \in Requests \ {x} : status'[r] = status[r]
    BY <1>5 DEF TypeOK
  <2>6. \A r \in Requests : \A c \in DOMAIN p \ {ClientOf[r]} : Times(r, p[c]) = 0
    BY <1>4, <2>1 DEF Counts
  <2>7. \A r \in Requests \ {x} :
               /\ status'[r] = status[r]
               /\ InQueue(p, r) + Times(r, batch.preempted) = InQueue(q, r) + Times(r, batch.preempted)
               /\ Times(r, running') + Times(r, Scheduled) = Times(r, running) + Times(r, Scheduled)
               /\ Times(r, swapped') + Times(r, batch.swapped_out)
                    = Times(r, swapped) + Times(r, batch.swapped_out)
    BY <1>4, <2>4, <2>5
  <2>8. /\ InQueue(p, x) + Times(x, batch.preempted) = 0
        /\ Times(x, running') + Times(x, Scheduled) = 0
        /\ Times(x, swapped') + Times(x, batch.swapped_out) = 0
    BY <1>4, <2>3, <2>4
  <2>9. Counts(p, running', Scheduled, swapped', batch.preempted, batch.swapped_out, status')
    BY <2>1, <2>5, <2>6, <2>7, <2>8, CountsStep
  <2> QED
    BY <1>5, <1>12, <2>2, <2>9, PlacesNext
<1> QED
  BY <1>5, <1>12, <1>13, <1>14, <1>15, <1>16, <1>17, <1>18, SameServed
(* The head of the waiting queue, and what popleft leaves.                 *)
LEMMA HeadWaits ==
    ASSUME TypeOK, OnePlace, PhaseInv, NEW c \in HeadClients(client_waiting_queues, served),
           NEW q, q = client_waiting_queues, NEW x, x = Head(q[c]), NEW p, p = PopLeft(q, c)
    PROVE  /\ x \in Requests /\ status[x] = "WAITING" /\ ClientOf[x] = c
           /\ DOMAIN p = DOMAIN q /\ Queues(p) /\ c \in DOMAIN q
           /\ \A r \in Requests \ {x} : InQueue(p, r) = InQueue(q, r)
           /\ InQueue(p, x) = 0 /\ Times(x, batch.preempted) = 0
           /\ \A r \in Requests : \A d \in DOMAIN p \ {ClientOf[r]} : Times(r, p[d]) = 0
           /\ Times(x, running) = 0 /\ Times(x, Scheduled) = 0
           /\ Times(x, swapped) = 0 /\ Times(x, batch.swapped_out) = 0
<1>1. c \in DOMAIN q /\ q[c] # <<>>
  BY DEF HeadClients, Backlogged
<1>2. Queues(q)
  BY DEF TypeOK, Queues
<1>3. x \in Range(q[c])
  <2>1. q[c] \in Seq(Requests)
    BY <1>1, <1>2 DEF Queues
  <2>2. 1 \in DOMAIN q[c] /\ q[c][1] = x
    BY <1>1, <2>1
  <2> QED
    BY <2>2 DEF Range
<1>4. ClientOf[x] = c /\ status[x] = "WAITING" /\ Times(x, q[c]) = 1 /\ Times(x, batch.preempted) = 0
  BY <1>1, <1>3, WhereIs
<1>5. /\ DOMAIN p = DOMAIN q /\ Queues(p) /\ x \in Requests
      /\ \A r \in Requests : InQueue(q, r) = InQueue(p, r) + (IF r = x THEN 1 ELSE 0)
      /\ \A r \in Requests : InQueue(p, r) \in Nat
      /\ \A r \in Requests : \A d \in DOMAIN q \ {ClientOf[r]} : Times(r, p[d]) = Times(r, q[d])
  BY <1>1, <1>2, <1>4, PopPlaces
<1>6. Counts(q, running, Scheduled, swapped, batch.preempted, batch.swapped_out, status)
  BY PlacesNow
<1>7. \A r \in Requests \ {x} : InQueue(p, r) = InQueue(q, r)
  BY <1>5
<1>8. InQueue(p, x) = 0
  <2>1. InQueue(q, x) = 1
    BY <1>1, <1>4 DEF InQueue
  <2>2. InQueue(p, x) + 1 = 1 /\ InQueue(p, x) \in Nat
    BY <1>5, <2>1
  <2> QED
    BY <2>2
<1>9. \A r \in Requests : \A d \in DOMAIN p \ {ClientOf[r]} : Times(r, p[d]) = 0
  BY <1>5, <1>6 DEF Counts
<1>10. /\ running \in Seq(Requests) /\ Scheduled \in Seq(Requests)
       /\ swapped \in Seq(Requests) /\ batch.swapped_out \in Seq(Requests)
  BY ListType DEF TypeOK
<1>11. /\ Times(x, running) \in Nat /\ Times(x, Scheduled) \in Nat
       /\ Times(x, swapped) \in Nat /\ Times(x, batch.swapped_out) \in Nat
  BY <1>10, TimesType
<1>12. Times(x, running) + Times(x, Scheduled) = 0
       /\ Times(x, swapped) + Times(x, batch.swapped_out) = 0
  BY <1>4, <1>5, <1>6 DEF Counts
<1>13. /\ Times(x, running) = 0 /\ Times(x, Scheduled) = 0
       /\ Times(x, swapped) = 0 /\ Times(x, batch.swapped_out) = 0
  BY <1>11, <1>12
<1> QED
  BY <1>1, <1>4, <1>5, <1>7, <1>8, <1>9, <1>13

(* _schedule_prefills ignores a prompt.                                    *)
LEMMA IgnoreKeeps ==
    ASSUME SchedInv, IgnorePrompt
    PROVE  SchedInv' /\ ServedGrows
<1> USE DEF SchedInv
<1>1. PICK q : q = client_waiting_queues
  OBVIOUS
<1>2. PICK c \in HeadClients(client_waiting_queues, served) :
        /\ client_waiting_queues' = PopLeft(client_waiting_queues, c)
        /\ status' = [status EXCEPT ![Head(client_waiting_queues[c])] = "FINISHED"]
  BY DEF IgnorePrompt
<1>3. PICK x : x = Head(q[c])
  OBVIOUS
<1>4. PICK p : p = PopLeft(q, c)
  OBVIOUS
<1>5. /\ x \in Requests /\ status[x] = "WAITING" /\ ClientOf[x] = c
      /\ DOMAIN p = DOMAIN q /\ Queues(p) /\ c \in DOMAIN q
      /\ \A r \in Requests \ {x} : InQueue(p, r) = InQueue(q, r)
      /\ InQueue(p, x) = 0 /\ Times(x, batch.preempted) = 0
      /\ \A r \in Requests : \A d \in DOMAIN p \ {ClientOf[r]} : Times(r, p[d]) = 0
      /\ Times(x, running) = 0 /\ Times(x, Scheduled) = 0
      /\ Times(x, swapped) = 0 /\ Times(x, batch.swapped_out) = 0
  BY <1>1, <1>3, <1>4, HeadWaits
<1>6. /\ client_waiting_queues' = p /\ status' = [status EXCEPT ![x] = "FINISHED"]
      /\ UNCHANGED <<served, credits, running, swapped, length, preempted, phase, batch>>
      /\ UNCHANGED <<block_table, free_gpu, free_cpu>>
  BY <1>1, <1>2, <1>3, <1>4 DEF IgnorePrompt, blockVars
<1>7. status'[x] = "FINISHED" /\ \A r \in Requests \ {x} : status'[r] = status[r]
  BY <1>5, <1>6 DEF TypeOK
<1>8. TypeOK'
  BY <1>1, <1>5, <1>6 DEF TypeOK, Statuses, Queues
<1>9. PhaseInv' /\ SeatInv'
  BY <1>6 DEF PhaseInv, SeatInv, Scheduled
<1>10. KnownInv'
  BY <1>1, <1>5, <1>6, <1>7 DEF KnownInv
<1>11. TableInv'
  BY <1>5, <1>6, <1>7 DEF TableInv, NBlocks
<1>12. BlockInv'
  <2>1. block_table[x] = 0
    BY <1>5 DEF TableInv
  <2> QED
    BY <1>5, <1>6, <1>7, <1>8, <2>1, BlocksMove
<1>13. OnePlace'
  <2>1. Counts(q, running, Scheduled, swapped, batch.preempted, batch.swapped_out, status)
    BY <1>1, PlacesNow
  <2>2. Counts(p, running, Scheduled, swapped, batch.preempted, batch.swapped_out, status')
    BY <1>5, <1>7, <2>1, CountsStep
  <2>3. Scheduled' = Scheduled
    BY <1>6 DEF Scheduled
  <2> QED
    BY <1>6, <1>8, <2>2, <2>3, PlacesNext
<1> QED
  BY <1>6, <1>8, <1>9, <1>10, <1>11, <1>12, <1>13, SameServed

(* _schedule_prefills admits a prompt: it gets its blocks and a seat.      *)
LEMMA AdmitKeeps ==
    ASSUME SchedInv, AdmitPrefill
    PROVE  SchedInv' /\ ServedGrows
<1> USE DEF SchedInv
<1>1. PICK q : q = client_waiting_queues
  OBVIOUS
<1>2. PICK c \in HeadClients(client_waiting_queues, served) :
        LET r == Head(client_waiting_queues[c])
        IN  /\ CanAllocate(r) = "OK"
            /\ client_waiting_queues' = PopLeft(client_waiting_queues, c)
            /\ status' = [status EXCEPT ![r] = "RUNNING"]
            /\ block_table' = [block_table EXCEPT ![r] = NBlocks(r)]
            /\ free_gpu' = free_gpu - NBlocks(r)
            /\ batch' = [batch EXCEPT !.prefills = <<r>>]
  BY DEF AdmitPrefill
<1>3. PICK x : x = Head(q[c])
  OBVIOUS
<1>4. PICK p : p = PopLeft(q, c)
  OBVIOUS
<1>5. /\ x \in Requests /\ status[x] = "WAITING" /\ ClientOf[x] = c
      /\ DOMAIN p = DOMAIN q /\ Queues(p) /\ c \in DOMAIN q
      /\ \A r \in Requests \ {x} : InQueue(p, r) = InQueue(q, r)
      /\ InQueue(p, x) = 0 /\ Times(x, batch.preempted) = 0
      /\ \A r \in Requests : \A d \in DOMAIN p \ {ClientOf[r]} : Times(r, p[d]) = 0
      /\ Times(x, running) = 0 /\ Times(x, Scheduled) = 0
      /\ Times(x, swapped) = 0 /\ Times(x, batch.swapped_out) = 0
  BY <1>1, <1>3, <1>4, HeadWaits
<1>6. /\ client_waiting_queues' = p /\ status' = [status EXCEPT ![x] = "RUNNING"]
      /\ CanAllocate(x) = "OK" /\ phase = "prefills" /\ CanSchedule(Len(running))
      /\ block_table' = [block_table EXCEPT ![x] = NBlocks(x)]
      /\ free_gpu' = free_gpu - NBlocks(x)
      /\ batch.prefills = <<>> /\ batch' = [batch EXCEPT !.prefills = <<x>>]
      /\ UNCHANGED <<served, credits, running, swapped, length, preempted, free_cpu, phase>>
  BY <1>1, <1>2, <1>3, <1>4 DEF AdmitPrefill
<1>7. status'[x] = "RUNNING" /\ \A r \in Requests \ {x} : status'[r] = status[r]
  BY <1>5, <1>6 DEF TypeOK
<1>8. NBlocks(x) \in Nat /\ NBlocks(x) = BlocksFor(length[x])
  <2>1. length[x] \in Nat
    BY <1>5 DEF TypeOK
  <2> QED
    BY <2>1, OneMoreBlock DEF NBlocks, BlocksFor
<1>9. free_gpu \in Nat /\ free_gpu' \in Nat /\ free_gpu' + NBlocks(x) = free_gpu
  <2>1. Watermark \in Nat /\ NumGpuBlocks \in Nat /\ free_gpu \in Nat
    BY SchedulerAssumption DEF TypeOK
  <2>2. free_gpu - NBlocks(x) >= Watermark
    BY <1>6 DEF CanAllocate
  <2> QED
    BY <1>6, <1>8, <2>1, <2>2
<1>10. /\ batch'.prefills = <<x>> /\ batch'.decodes = <<>>
       /\ batch'.preempted = batch.preempted /\ batch'.swapped_out = batch.swapped_out
       /\ batch.decodes = <<>> /\ batch.preempted = <<>> /\ batch.swapped_out = <<>>
       /\ swapped = <<>>
       /\ <<x>> \in Seq(Requests) /\ Len(<<x>>) = 1 /\ Range(<<x>>) = {x} /\ Range(<<>>) = {}
  <2>1. DOMAIN batch = {"prefills", "decodes", "preempted", "swapped_out"}
    BY ListType
  <2>2. batch.decodes = <<>> /\ batch.preempted = <<>> /\ batch.swapped_out = <<>> /\ swapped = <<>>
    BY <1>6 DEF PhaseInv
  <2>3. <<x>> \in Seq(Requests) /\ Len(<<x>>) = 1
    BY <1>5
  <2>4. Range(<<x>>) = {x} /\ Range(<<>>) = {}
    BY DEF Range
  <2> QED
    BY <1>6, <2>1, <2>2, <2>3, <2>4
<1>11. TypeOK'
  <2>1. batch' \in [prefills : Seq(Requests), decodes : Seq(Requests),
                    preempted : Seq(Requests), swapped_out : Seq(Requests)]
    BY <1>6, <1>10 DEF TypeOK
  <2>2. block_table' \in [Requests -> Nat] /\ status' \in [Requests -> Statuses]
    BY <1>6, <1>8 DEF TypeOK, Statuses
  <2> QED
    BY <1>1, <1>5, <1>6, <1>9, <2>1, <2>2 DEF TypeOK, Queues
<1>12. PhaseInv'
  BY <1>6, <1>10 DEF PhaseInv
<1>13. Scheduled = <<>> /\ Scheduled' = <<x>>
  <2>1. Scheduled' = <<x>> \o <<>> /\ Scheduled = <<>> \o <<>>
    BY <1>6, <1>10 DEF Scheduled
  <2> QED
    BY <1>10, <2>1
<1>14. SeatInv'
  <2>1. Len(running) + 1 <= MaxNumSeqs
    BY <1>6 DEF CanSchedule
  <2> QED
    BY <1>6, <1>10, <1>13, <2>1 DEF SeatInv
<1>15. KnownInv'
  BY <1>1, <1>5, <1>6, <1>7 DEF KnownInv
<1>16. TableInv'
  <2> SUFFICES ASSUME NEW r \in Requests
        PROVE  /\ length'[r] >= PromptLen[r]
               /\ status'[r] \in {"RUNNING", "SWAPPED"} =>
                    block_table'[r] \in {BlocksFor(length'[r]), BlocksFor(length'[r] - 1)}
               /\ r \in Range(batch'.prefills) \cup Range(batch'.decodes) => block_table'[r] = NBlocks(r)'
               /\ status'[r] \in {"NEW", "WAITING"} => block_table'[r] = 0
               /\ status'[r] = "FINISHED" => block_table'[r] = 0 \/ PreemptionMode = "swap"
               /\ status'[r] = "SWAPPED" => PreemptionMode = "swap"
    BY DEF TableInv
  <2>1. NBlocks(r)' = NBlocks(r) /\ length'[r] = length[r]
    BY <1>6 DEF NBlocks
  <2>2. CASE r = x
    <3>1. block_table'[x] = NBlocks(x)
      BY <1>5, <1>6 DEF TypeOK
    <3> QED
      BY <1>7, <1>8, <2>1, <2>2, <3>1 DEF TableInv
  <2>3. CASE r # x
    <3>1. block_table'[r] = block_table[r] /\ r \notin Range(batch'.prefills) \cup Range(batch'.decodes)
      BY <1>5, <1>6, <1>10, <2>3 DEF TypeOK
    <3> QED
      BY <1>7, <2>1, <2>3, <3>1 DEF TableInv
  <2> QED
    BY <2>2, <2>3
<1>17. BlockInv'
  <2>1. /\ block_table[x] = 0 /\ block_table'[x] = NBlocks(x)
        /\ \A r \in Requests \ {x} : block_table'[r] = block_table[r]
    BY <1>5, <1>6 DEF TableInv, TypeOK
  <2>2. free_gpu' + (IF status'[x] = "RUNNING" THEN block_table'[x] ELSE 0)
          = free_gpu + (IF status[x] = "RUNNING" THEN block_table[x] ELSE 0)
    BY <1>5, <1>7, <1>9, <2>1
  <2> QED
    BY <1>5, <1>6, <1>7, <1>11, <2>1, <2>2, BlocksMove
<1>18. OnePlace'
  <2>1. Counts(q, running, Scheduled, swapped, batch.preempted, batch.swapped_out, status)
    BY <1>1, PlacesNow
  <2>2. \A r \in Requests : Times(r, <<x>>) = (IF x = r THEN 1 ELSE 0) /\ Times(r, <<>>) = 0
    BY <1>5, TimesOne, TimesEmpty
  <2>3. \A r \in Requests \ {x} :
            Times(r, running) + Times(r, <<x>>) = Times(r, running) + Times(r, Scheduled)
    BY <1>13, <2>2
  <2>4. Times(x, running) + Times(x, <<x>>) = 1
    BY <1>5, <2>2
  <2>5. Counts(p, running, <<x>>, swapped, batch.preempted, batch.swapped_out, status')
    BY <1>5, <1>7, <2>1, <2>3, <2>4, CountsStep
  <2> QED
    BY <1>6, <1>10, <1>11, <1>13, <2>5, PlacesNext
<1> QED
  BY <1>6, <1>11, <1>12, <1>14, <1>15, <1>16, <1>17, <1>18, SameServed
(* A step that only moves on to the next loop.                             *)
LEMMA PhaseKeeps ==
    ASSUME SchedInv, BeginSchedule \/ EndPrefills \/ FailSwapOut \/ EndRunning \/ EndSwapped
    PROVE  SchedInv' /\ ServedGrows
<1> USE DEF SchedInv
<1>1. /\ UNCHANGED <<client_waiting_queues, served, credits, running, swapped, status, length,
                     preempted, batch>>
      /\ UNCHANGED <<block_table, free_gpu, free_cpu>>
      /\ phase # "execute" /\ phase' # "execute" /\ phase' \in Phases
  <2>1. CASE BeginSchedule
    <3>1. batch = NoBatch
      BY <2>1 DEF BeginSchedule, PhaseInv
    <3> QED
      BY <2>1, <3>1 DEF BeginSchedule, queueVars, blockVars, Phases
  <2>2. CASE EndPrefills
    BY <2>2 DEF EndPrefills, queueVars, blockVars, Phases
  <2>3. CASE FailSwapOut
    BY <2>3 DEF FailSwapOut, queueVars, blockVars, Phases
  <2>4. CASE EndRunning
    BY <2>4 DEF EndRunning, queueVars, blockVars, Phases
  <2>5. CASE EndSwapped
    BY <2>5 DEF EndSwapped, queueVars, blockVars, Phases
  <2> QED
    BY <2>1, <2>2, <2>3, <2>4, <2>5
<1>2. PhaseInv'
  <2>1. CASE BeginSchedule
    <3>1. batch = NoBatch
      BY <2>1 DEF BeginSchedule, PhaseInv
    <3> QED
      BY <1>1, <2>1, <3>1 DEF BeginSchedule, PhaseInv, NoBatch
  <2>2. CASE EndPrefills
    BY <1>1, <2>2 DEF EndPrefills, PhaseInv
  <2>3. CASE FailSwapOut
    BY <1>1, <2>3 DEF FailSwapOut, PhaseInv
  <2>4. CASE EndRunning
    BY <1>1, <2>4 DEF EndRunning, PhaseInv
  <2>5. CASE EndSwapped
    BY <1>1, <2>5 DEF EndSwapped, PhaseInv
  <2> QED
    BY <2>1, <2>2, <2>3, <2>4, <2>5
<1>3. TypeOK'
  BY <1>1 DEF TypeOK
<1>4. Scheduled' = Scheduled
  BY <1>1 DEF Scheduled
<1>5. SeatInv' /\ KnownInv'
  BY <1>1, <1>4 DEF SeatInv, KnownInv
<1>6. TableInv'
  BY <1>1 DEF TableInv, NBlocks
<1>7. BlockInv'
  BY <1>1, BlocksNow, BlocksNext
<1>8. OnePlace'
  <2>1. Counts(client_waiting_queues, running, Scheduled, swapped,
               batch.preempted, batch.swapped_out, status)
    BY PlacesNow
  <2> QED
    BY <1>1, <1>3, <1>4, <2>1, PlacesNext
<1> QED
  BY <1>1, <1>2, <1>3, <1>5, <1>6, <1>7, <1>8, SameServed

(* _schedule_running schedules the head of the running queue.              *)
LEMMA DecodeKeeps ==
    ASSUME SchedInv, ScheduleDecode
    PROVE  SchedInv' /\ ServedGrows
<1> USE DEF SchedInv
<1>1. PICK x : x = Head(running)
  OBVIOUS
<1>2. PICK m : m = MissingBlocks(x)
  OBVIOUS
<1>3. /\ phase = "running" /\ running # <<>> /\ free_gpu >= 1
      /\ batch' = [batch EXCEPT !.decodes = Append(batch.decodes, x)]
      /\ free_gpu' = free_gpu - m
      /\ block_table' = [block_table EXCEPT ![x] = block_table[x] + m]
      /\ running' = Tail(running)
      /\ UNCHANGED <<client_waiting_queues, served, credits, swapped, status, length, preempted,
                     free_cpu, phase>>
  BY <1>1, <1>2 DEF ScheduleDecode, CanAppendSlots, queueVars
<1>4. running \in Seq(Requests) /\ Len(running) \in Nat
  BY DEF TypeOK
<1>5. /\ x \in Requests /\ Tail(running) \in Seq(Requests) /\ Len(Tail(running)) = Len(running) - 1
      /\ \A r : Times(r, running) = Times(r, Tail(running)) + (IF x = r THEN 1 ELSE 0)
  BY <1>1, <1>3, <1>4, TimesTail
<1>6. x \in Range(running)
  BY <1>1, <1>3, <1>4 DEF Range
<1>7. status[x] = "RUNNING" /\ Times(x, running) = 1 /\ Times(x, Scheduled) = 0
  BY <1>6, WhereIs
<1>8. NBlocks(x) \in Nat /\ m \in {0, 1} /\ block_table[x] + m = NBlocks(x)
  BY <1>2, <1>5, <1>7, MissingIs
<1>9. PICK d : d = Append(batch.decodes, x)
  OBVIOUS
<1>10. /\ batch.decodes \in Seq(Requests) /\ Len(batch.decodes) \in Nat
       /\ batch.prefills \in Seq(Requests)
       /\ batch.preempted \in Seq(Requests) /\ batch.swapped_out \in Seq(Requests)
       /\ DOMAIN batch = {"prefills", "decodes", "preempted", "swapped_out"}
  BY ListType
<1>11. d \in Seq(Requests) /\ Len(d) = Len(batch.decodes) + 1
       /\ \A r : Times(r, d) = Times(r, batch.decodes) + (IF x = r THEN 1 ELSE 0)
  BY <1>5, <1>9, <1>10, TimesAppend
<1>12. /\ batch'.decodes = d /\ batch'.prefills = batch.prefills /\ batch.prefills = <<>>
       /\ batch'.preempted = batch.preempted /\ batch'.swapped_out = batch.swapped_out
  BY <1>3, <1>9, <1>10 DEF PhaseInv
<1>13. TypeOK'
  <2>1. batch' \in [prefills : Seq(Requests), decodes : Seq(Requests),
                    preempted : Seq(Requests), swapped_out : Seq(Requests)]
    BY <1>3, <1>9, <1>11 DEF TypeOK
  <2>2. block_table[x] + m \in Nat
    BY <1>8
  <2>3. block_table' \in [Requests -> Nat]
    BY <1>3, <2>2 DEF TypeOK
  <2>4. free_gpu' \in Nat
    BY <1>3, <1>8, SMTT(30) DEF TypeOK
  <2> QED
    BY <1>3, <1>5, <2>1, <2>3, <2>4 DEF TypeOK
<1>14. PhaseInv'
  BY <1>3, <1>12 DEF PhaseInv
<1>15. Scheduled = batch.decodes /\ Scheduled' = d
  <2>1. Scheduled = <<>> \o batch.decodes /\ Scheduled' = <<>> \o d
    BY <1>3, <1>12 DEF Scheduled
  <2> QED
    BY <1>10, <1>11, <2>1
<1>16. SeatInv'
  <2>1. Len(running) + Len(batch.decodes) <= MaxNumSeqs /\ MaxNumSeqs \in Nat
    BY <1>15, SchedulerAssumption DEF SeatInv
  <2>2. Len(running') = Len(running) - 1 /\ Len(Scheduled') = Len(batch.decodes) + 1
    BY <1>3, <1>5, <1>11, <1>15
  <2> QED
    BY <1>4, <1>10, <2>1, <2>2 DEF SeatInv
<1>17. KnownInv'
  BY <1>3 DEF KnownInv
<1>18. /\ block_table'[x] = NBlocks(x)
       /\ \A r \in Requests \ {x} : block_table'[r] = block_table[r]
  BY <1>3, <1>5, <1>8 DEF TypeOK
<1>19. TableInv'
  <2>1. \A r \in Requests : r \in Range(d) => r = x \/ r \in Range(batch.decodes)
    <3>1. \A r : (Times(r, d) = 0 <=> r \notin Range(d))
                 /\ (Times(r, batch.decodes) = 0 <=> r \notin Range(batch.decodes))
      BY <1>10, <1>11, TimesType
    <3>2. \A r : Times(r, batch.decodes) \in Nat
      BY <1>10, TimesType
    <3> QED
      BY <1>11, <3>1, <3>2
  <2> SUFFICES ASSUME NEW r \in Requests
        PROVE  /\ length'[r] >= PromptLen[r]
               /\ status'[r] \in {"RUNNING", "SWAPPED"} =>
                    block_table'[r] \in {BlocksFor(length'[r]), BlocksFor(length'[r] - 1)}
               /\ r \in Range(batch'.prefills) \cup Range(batch'.decodes) => block_table'[r] = NBlocks(r)'
               /\ status'[r] \in {"NEW", "WAITING"} => block_table'[r] = 0
               /\ status'[r] = "FINISHED" => block_table'[r] = 0 \/ PreemptionMode = "swap"
               /\ status'[r] = "SWAPPED" => PreemptionMode = "swap"
    BY DEF TableInv
  <2>2. /\ NBlocks(r)' = NBlocks(r) /\ NBlocks(r) = BlocksFor(length[r])
        /\ length' = length /\ status' = status
    BY <1>3 DEF NBlocks, BlocksFor
  <2>3. CASE r = x
    BY <1>7, <1>18, <2>2, <2>3 DEF TableInv
  <2>4. CASE r # x
    BY <1>12, <1>18, <2>1, <2>2, <2>4 DEF TableInv
  <2> QED
    BY <2>3, <2>4
<1>20. BlockInv'
  <2>3. free_gpu \in Nat /\ block_table[x] \in Nat
    BY <1>5 DEF TypeOK
  <2>1. free_gpu' + block_table'[x] = free_gpu + block_table[x]
    BY <1>3, <1>8, <1>18, <2>3
  <2>2. status'[x] = "RUNNING" /\ \A r \in Requests : status'[r] = status[r]
    BY <1>3, <1>7
  <2> QED
    BY <1>3, <1>5, <1>7, <1>13, <1>18, <2>1, <2>2, BlocksMove
<1>21. OnePlace'
  <2>1. Counts(client_waiting_queues, running, Scheduled, swapped,
               batch.preempted, batch.swapped_out, status)
    BY PlacesNow
  <2>2. \A r \in Requests : Times(r, running') + Times(r, d) = Times(r, running) + Times(r, Scheduled)
    <3> TAKE r \in Requests
    <3>1. /\ Times(r, Tail(running)) \in Nat /\ Times(r, batch.decodes) \in Nat
      BY <1>5, <1>10, TimesType
    <3>2. /\ Times(r, running) = Times(r, Tail(running)) + (IF x = r THEN 1 ELSE 0)
          /\ Times(r, d) = Times(r, batch.decodes) + (IF x = r THEN 1 ELSE 0)
      BY <1>5, <1>11
    <3> QED
      BY <1>3, <1>15, <3>1, <3>2
  <2>3. Counts(client_waiting_queues, running', d, swapped,
               batch.preempted, batch.swapped_out, status)
    BY <2>1, <2>2 DEF Counts
  <2> QED
    BY <1>3, <1>12, <1>13, <1>15, <2>3, PlacesNext
<1> QED
  BY <1>3, <1>13, <1>14, <1>16, <1>17, <1>19, <1>20, <1>21, SameServed

(* What is preempted, by recomputation or by swapping: the last group of   *)
(* the running queue, which is not scheduled.                              *)
LEMMA VictimIs ==
    ASSUME SchedInv, phase = "running", running # <<>>, NEW x, x = Last(running)
    PROVE  /\ x \in Requests /\ Front(running) \in Seq(Requests)
           /\ Len(Front(running)) = Len(running) - 1 /\ Len(running) \in Nat
           /\ status[x] = "RUNNING"
           /\ \A r \in Requests \ {x} : Times(r, Front(running)) = Times(r, running)
           /\ Times(x, Front(running)) = 0 /\ Times(x, Scheduled) = 0
           /\ x \notin Range(batch.decodes) /\ batch.prefills = <<>>
           /\ InQueue(client_waiting_queues, x) = 0 /\ Times(x, batch.preempted) = 0
           /\ Times(x, swapped) = 0 /\ Times(x, batch.swapped_out) = 0
<1> USE DEF SchedInv
<1>1. running \in Seq(Requests) /\ Len(running) \in Nat
  BY DEF TypeOK
<1>2. /\ x \in Requests /\ Front(running) \in Seq(Requests)
      /\ Len(Front(running)) = Len(running) - 1 /\ x \in Range(running)
      /\ \A r : Times(r, running) = Times(r, Front(running)) + (IF x = r THEN 1 ELSE 0)
  BY <1>1, TimesFront
<1>3. status[x] = "RUNNING" /\ Times(x, running) = 1 /\ Times(x, Scheduled) = 0
  BY <1>2, WhereIs
<1>4. \A r : Times(r, Front(running)) \in Nat
  BY <1>2, TimesType
<1>5. (\A r \in Requests \ {x} : Times(r, Front(running)) = Times(r, running))
      /\ Times(x, Front(running)) = 0
  <2>1. \A r \in Requests \ {x} : Times(r, Front(running)) = Times(r, running)
    BY <1>2, <1>4
  <2>2. 1 = Times(x, Front(running)) + 1
    BY <1>2, <1>3
  <2> QED
    BY <1>4, <2>1, <2>2
<1>6. /\ batch.decodes \in Seq(Requests) /\ batch.prefills = <<>>
      /\ batch.preempted \in Seq(Requests) /\ batch.swapped_out \in Seq(Requests)
      /\ swapped \in Seq(Requests) /\ Queues(client_waiting_queues)
  BY ListType DEF PhaseInv, TypeOK, Queues
<1>7. x \notin Range(batch.decodes)
  <2>1. Scheduled = <<>> \o batch.decodes
    BY <1>6 DEF Scheduled
  <2>2. Scheduled = batch.decodes
    BY <1>6, <2>1
  <2> QED
    BY <1>3, <1>6, <2>2, TimesType
<1>8. Counts(client_waiting_queues, running, Scheduled, swapped,
             batch.preempted, batch.swapped_out, status)
  BY PlacesNow
<1>9. /\ InQueue(client_waiting_queues, x) + Times(x, batch.preempted) = 0
      /\ Times(x, swapped) + Times(x, batch.swapped_out) = 0
  BY <1>2, <1>3, <1>8 DEF Counts
<1>10. /\ InQueue(client_waiting_queues, x) \in Nat /\ Times(x, batch.preempted) \in Nat
       /\ Times(x, swapped) \in Nat /\ Times(x, batch.swapped_out) \in Nat
  BY <1>6, TimesType DEF InQueue, Queues
<1>11. /\ InQueue(client_waiting_queues, x) = 0 /\ Times(x, batch.preempted) = 0
       /\ Times(x, swapped) = 0 /\ Times(x, batch.swapped_out) = 0
  BY <1>9, <1>10
<1> QED
  BY <1>1, <1>2, <1>3, <1>5, <1>6, <1>7, <1>11
(* Preemption by recomputation: the group is to wait again, without blocks.*)
LEMMA RecomputeKeeps ==
    ASSUME SchedInv, PreemptByRecompute
    PROVE  SchedInv' /\ ServedGrows
<1> USE DEF SchedInv
<1>1. PICK x : x = Last(running)
  OBVIOUS
<1>2. /\ phase = "running" /\ running # <<>> /\ PreemptionMode = "recompute" /\ Freed({x})
      /\ status' = [status EXCEPT ![x] = "WAITING"]
      /\ preempted' = [preempted EXCEPT ![x] = TRUE]
      /\ batch' = [batch EXCEPT !.preempted = Append(batch.preempted, x)]
      /\ running' = Front(running)
      /\ UNCHANGED <<client_waiting_queues, served, credits, swapped, length, phase>>
  BY <1>1 DEF PreemptByRecompute, queueVars
<1>3. /\ x \in Requests /\ Front(running) \in Seq(Requests)
      /\ Len(Front(running)) = Len(running) - 1 /\ Len(running) \in Nat
      /\ status[x] = "RUNNING"
      /\ \A r \in Requests \ {x} : Times(r, Front(running)) = Times(r, running)
      /\ Times(x, Front(running)) = 0 /\ Times(x, Scheduled) = 0
      /\ x \notin Range(batch.decodes) /\ batch.prefills = <<>>
      /\ InQueue(client_waiting_queues, x) = 0 /\ Times(x, batch.preempted) = 0
      /\ Times(x, swapped) = 0 /\ Times(x, batch.swapped_out) = 0
  BY <1>1, <1>2, VictimIs
<1>4. /\ block_table' = [block_table EXCEPT ![x] = 0]
      /\ free_gpu' = free_gpu + block_table[x] /\ free_cpu' = free_cpu + 0
  BY <1>2, <1>3, FreedOne
<1>5. PICK d : d = Append(batch.preempted, x)
  OBVIOUS
<1>6. /\ batch.preempted \in Seq(Requests)
      /\ DOMAIN batch = {"prefills", "decodes", "preempted", "swapped_out"}
  BY ListType
<1>7. /\ d \in Seq(Requests)
      /\ \A r : Times(r, d) = Times(r, batch.preempted) + (IF x = r THEN 1 ELSE 0)
  BY <1>3, <1>5, <1>6, TimesAppend
<1>8. /\ batch'.decodes = batch.decodes /\ batch'.prefills = batch.prefills
      /\ batch'.preempted = d /\ batch'.swapped_out = batch.swapped_out
  BY <1>2, <1>5, <1>6
<1>9. free_gpu \in Nat /\ free_cpu \in Nat /\ block_table[x] \in Nat
  BY <1>3 DEF TypeOK
<1>10. TypeOK'
  <2>1. batch' \in [prefills : Seq(Requests), decodes : Seq(Requests),
                    preempted : Seq(Requests), swapped_out : Seq(Requests)]
    BY <1>2, <1>5, <1>7 DEF TypeOK
  <2>2. block_table' \in [Requests -> Nat] /\ status' \in [Requests -> Statuses]
        /\ preempted' \in [Requests -> BOOLEAN]
    BY <1>2, <1>4 DEF TypeOK, Statuses
  <2>3. free_gpu' \in Nat /\ free_cpu' \in Nat
    BY <1>4, <1>9
  <2> QED
    BY <1>2, <1>3, <2>1, <2>2, <2>3 DEF TypeOK
<1>11. PhaseInv'
  BY <1>2, <1>3, <1>8 DEF PhaseInv
<1>12. Scheduled' = Scheduled /\ Scheduled \in Seq(Requests)
  <2>1. phase' = phase /\ batch'.prefills = batch.prefills /\ batch'.decodes = batch.decodes
    BY <1>2, <1>8
  <2>2. Scheduled' = Scheduled
    BY <2>1 DEF Scheduled
  <2> QED
    BY <2>2, ListType
<1>13. SeatInv'
  <2>1. MaxNumSeqs \in Nat /\ Len(Scheduled) \in Nat
    BY <1>12, SchedulerAssumption
  <2> QED
    BY <1>2, <1>3, <1>12, <2>1 DEF SeatInv
<1>14. /\ status'[x] = "WAITING" /\ block_table'[x] = 0
       /\ \A r \in Requests \ {x} : block_table'[r] = block_table[r] /\ status'[r] = status[r]
  BY <1>2, <1>3, <1>4 DEF TypeOK
<1>15. KnownInv'
  BY <1>2, <1>3, <1>14 DEF KnownInv
<1>16. TableInv'
  <2> SUFFICES ASSUME NEW r \in Requests
        PROVE  /\ length'[r] >= PromptLen[r]
               /\ status'[r] \in {"RUNNING", "SWAPPED"} =>
                    block_table'[r] \in {BlocksFor(length'[r]), BlocksFor(length'[r] - 1)}
               /\ r \in Range(batch'.prefills) \cup Range(batch'.decodes) => block_table'[r] = NBlocks(r)'
               /\ status'[r] \in {"NEW", "WAITING"} => block_table'[r] = 0
               /\ status'[r] = "FINISHED" => block_table'[r] = 0 \/ PreemptionMode = "swap"
               /\ status'[r] = "SWAPPED" => PreemptionMode = "swap"
    BY DEF TableInv
  <2>1. NBlocks(r)' = NBlocks(r) /\ length' = length
    BY <1>2 DEF NBlocks
  <2>2. CASE r = x
    <3>1. r \notin Range(batch'.prefills) \cup Range(batch'.decodes)
      BY <1>3, <1>8, <2>2 DEF Range
    <3> QED
      BY <1>14, <2>1, <2>2, <3>1 DEF TableInv
  <2>3. CASE r # x
    BY <1>8, <1>14, <2>1, <2>3 DEF TableInv
  <2> QED
    BY <2>2, <2>3
<1>17. BlockInv'
  <2>1. free_gpu' + 0 = free_gpu + block_table[x] /\ free_cpu' + 0 = free_cpu + 0
    BY <1>4, <1>9
  <2> QED
    BY <1>3, <1>10, <1>14, <2>1, BlocksMove
<1>18. OnePlace'
  <2>1. Counts(client_waiting_queues, running, Scheduled, swapped,
               batch.preempted, batch.swapped_out, status)
    BY PlacesNow
  <2>2. Times(x, d) = 1 /\ \A r \in Requests \ {x} : Times(r, d) = Times(r, batch.preempted)
    <3>1. \A r : Times(r, batch.preempted) \in Nat
      BY <1>6, TimesType
    <3> QED
      BY <1>3, <1>7, <3>1
  <2>3. InQueue(client_waiting_queues, x) + Times(x, d) = 1
        /\ Times(x, Front(running)) + Times(x, Scheduled) = 0
        /\ Times(x, swapped) + Times(x, batch.swapped_out) = 0
    BY <1>3, <2>2
  <2>4. \A r \in Requests : \A c \in DOMAIN client_waiting_queues \ {ClientOf[r]} :
            Times(r, client_waiting_queues[c]) = 0
    BY <2>1 DEF Counts
  <2>6. \A r \in Requests \ {x} :
            /\ status'[r] = status[r]
            /\ InQueue(client_waiting_queues, r) + Times(r, d)
                 = InQueue(client_waiting_queues, r) + Times(r, batch.preempted)
            /\ Times(r, Front(running)) + Times(r, Scheduled) = Times(r, running) + Times(r, Scheduled)
            /\ Times(r, swapped) + Times(r, batch.swapped_out) = Times(r, swapped) + Times(r, batch.swapped_out)
    BY <1>3, <1>14, <2>2
  <2>5. Counts(client_waiting_queues, Front(running), Scheduled, swapped,
               d, batch.swapped_out, status')
    BY <1>14, <2>1, <2>3, <2>4, <2>6, CountsStep
  <2> QED
    BY <1>2, <1>8, <1>10, <1>12, <2>5, PlacesNext
<1> QED
  BY <1>2, <1>10, <1>11, <1>13, <1>15, <1>16, <1>17, <1>18, SameServed

(* Preemption by swapping: the blocks of the group move to the CPU.        *)
LEMMA SwapOutKeeps ==
    ASSUME SchedInv, PreemptBySwap
    PROVE  SchedInv' /\ ServedGrows
<1> USE DEF SchedInv
<1>1. PICK x : x = Last(running)
  OBVIOUS
<1>2. /\ phase = "running" /\ running # <<>> /\ PreemptionMode = "swap"
      /\ block_table[x] <= free_cpu
      /\ free_cpu' = free_cpu - block_table[x] /\ free_gpu' = free_gpu + block_table[x]
      /\ status' = [status EXCEPT ![x] = "SWAPPED"]
      /\ batch' = [batch EXCEPT !.swapped_out = Append(batch.swapped_out, x)]
      /\ running' = Front(running)
      /\ UNCHANGED <<client_waiting_queues, served, credits, swapped, length, preempted,
                     block_table, phase>>
  BY <1>1 DEF PreemptBySwap, queueVars
<1>3. /\ x \in Requests /\ Front(running) \in Seq(Requests)
      /\ Len(Front(running)) = Len(running) - 1 /\ Len(running) \in Nat
      /\ status[x] = "RUNNING"
      /\ \A r \in Requests \ {x} : Times(r, Front(running)) = Times(r, running)
      /\ Times(x, Front(running)) = 0 /\ Times(x, Scheduled) = 0
      /\ x \notin Range(batch.decodes) /\ batch.prefills = <<>>
      /\ InQueue(client_waiting_queues, x) = 0 /\ Times(x, batch.preempted) = 0
      /\ Times(x, swapped) = 0 /\ Times(x, batch.swapped_out) = 0
  BY <1>1, <1>2, VictimIs
<1>5. PICK d : d = Append(batch.swapped_out, x)
  OBVIOUS
<1>6. /\ batch.swapped_out \in Seq(Requests)
      /\ DOMAIN batch = {"prefills", "decodes", "preempted", "swapped_out"}
  BY ListType
<1>7. /\ d \in Seq(Requests)
      /\ \A r : Times(r, d) = Times(r, batch.swapped_out) + (IF x = r THEN 1 ELSE 0)
  BY <1>3, <1>5, <1>6, TimesAppend
<1>8. /\ batch'.decodes = batch.decodes /\ batch'.prefills = batch.prefills
      /\ batch'.preempted = batch.preempted /\ batch'.swapped_out = d
  BY <1>2, <1>5, <1>6
<1>9. free_gpu \in Nat /\ free_cpu \in Nat /\ block_table[x] \in Nat
  BY <1>3 DEF TypeOK
<1>10. TypeOK'
  <2>1. batch' \in [prefills : Seq(Requests), decodes : Seq(Requests),
                    preempted : Seq(Requests), swapped_out : Seq(Requests)]
    BY <1>2, <1>5, <1>7 DEF TypeOK
  <2>2. status' \in [Requests -> Statuses]
    BY <1>2 DEF TypeOK, Statuses
  <2>3. free_gpu' \in Nat /\ free_cpu' \in Nat
    BY <1>2, <1>9
  <2> QED
    BY <1>2, <1>3, <2>1, <2>2, <2>3 DEF TypeOK
<1>11. PhaseInv'
  BY <1>2, <1>3, <1>8 DEF PhaseInv
<1>12. Scheduled' = Scheduled /\ Scheduled \in Seq(Requests)
  <2>1. phase' = phase /\ batch'.prefills = batch.prefills /\ batch'.decodes = batch.decodes
    BY <1>2, <1>8
  <2>2. Scheduled' = Scheduled
    BY <2>1 DEF Scheduled
  <2> QED
    BY <2>2, ListType
<1>13. SeatInv'
  <2>1. MaxNumSeqs \in Nat /\ Len(Scheduled) \in Nat
    BY <1>12, SchedulerAssumption
  <2> QED
    BY <1>2, <1>3, <1>12, <2>1 DEF SeatInv
<1>14. status'[x] = "SWAPPED" /\ \A r \in Requests \ {x} : status'[r] = status[r]
  BY <1>2, <1>3 DEF TypeOK
<1>15. KnownInv'
  BY <1>2, <1>3, <1>14 DEF KnownInv
<1>16. TableInv'
  <2> SUFFICES ASSUME NEW r \in Requests
        PROVE  /\ length'[r] >= PromptLen[r]
               /\ status'[r] \in {"RUNNING", "SWAPPED"} =>
                    block_table'[r] \in {BlocksFor(length'[r]), BlocksFor(length'[r] - 1)}
               /\ r \in Range(batch'.prefills) \cup Range(batch'.decodes) => block_table'[r] = NBlocks(r)'
               /\ status'[r] \in {"NEW", "WAITING"} => block_table'[r] = 0
               /\ status'[r] = "FINISHED" => block_table'[r] = 0 \/ PreemptionMode = "swap"
               /\ status'[r] = "SWAPPED" => PreemptionMode = "swap"
    BY DEF TableInv
  <2>1. NBlocks(r)' = NBlocks(r) /\ length' = length /\ block_table' = block_table
    BY <1>2 DEF NBlocks
  <2>2. CASE r = x
    BY <1>2, <1>3, <1>8, <1>14, <2>1, <2>2 DEF TableInv
  <2>3. CASE r # x
    BY <1>2, <1>8, <1>14, <2>1, <2>3 DEF TableInv
  <2> QED
    BY <2>2, <2>3
<1>17. BlockInv'
  <2>1. free_gpu' + 0 = free_gpu + block_table[x] /\ free_cpu' + block_table[x] = free_cpu + 0
    BY <1>2, <1>9
  <2>2. block_table' = block_table
    BY <1>2
  <2> QED
    BY <1>3, <1>10, <1>14, <2>1, <2>2, BlocksMove
<1>18. OnePlace'
  <2>1. Counts(client_waiting_queues, running, Scheduled, swapped,
               batch.preempted, batch.swapped_out, status)
    BY PlacesNow
  <2>2. Times(x, d) = 1 /\ \A r \in Requests \ {x} : Times(r, d) = Times(r, batch.swapped_out)
    <3>1. \A r : Times(r, batch.swapped_out) \in Nat
      BY <1>6, TimesType
    <3> QED
      BY <1>3, <1>7, <3>1
  <2>3. InQueue(client_waiting_queues, x) + Times(x, batch.preempted) = 0
        /\ Times(x, Front(running)) + Times(x, Scheduled) = 0
        /\ Times(x, swapped) + Times(x, d) = 1
    BY <1>3, <2>2
  <2>4. \A r \in Requests : \A c \in DOMAIN client_waiting_queues \ {ClientOf[r]} :
            Times(r, client_waiting_queues[c]) = 0
    BY <2>1 DEF Counts
  <2>6. \A r \in Requests \ {x} :
            /\ status'[r] = status[r]
            /\ InQueue(client_waiting_queues, r) + Times(r, batch.preempted)
                 = InQueue(client_waiting_queues, r) + Times(r, batch.preempted)
            /\ Times(r, Front(running)) + Times(r, Scheduled) = Times(r, running) + Times(r, Scheduled)
            /\ Times(r, swapped) + Times(r, d) = Times(r, swapped) + Times(r, batch.swapped_out)
    BY <1>3, <1>14, <2>2
  <2>5. Counts(client_waiting_queues, Front(running), Scheduled, swapped,
               batch.preempted, d, status')
    BY <1>14, <2>1, <2>3, <2>4, <2>6, CountsStep
  <2> QED
    BY <1>2, <1>8, <1>10, <1>12, <2>5, PlacesNext
<1> QED
  BY <1>2, <1>10, <1>11, <1>13, <1>15, <1>16, <1>17, <1>18, SameServed

(* What _schedule_swapped looks at: the head of the swapped groups.        *)
LEMMA SwappedHead ==
    ASSUME SchedInv, phase = "swapped", swapped # <<>>, NEW x, x = Head(swapped)
    PROVE  /\ x \in Requests /\ Tail(swapped) \in Seq(Requests) /\ status[x] = "SWAPPED"
           /\ \A r \in Requests \ {x} : Times(r, Tail(swapped)) = Times(r, swapped)
           /\ Times(x, Tail(swapped)) = 0 /\ Times(x, batch.swapped_out) = 0
           /\ InQueue(client_waiting_queues, x) + Times(x, batch.preempted) = 0
           /\ Times(x, running) = 0 /\ Times(x, Scheduled) = 0
           /\ x \notin Range(batch.decodes) /\ batch.prefills = <<>> /\ running = <<>>
           /\ Scheduled = batch.decodes
<1> USE DEF SchedInv
<1>1. swapped \in Seq(Requests) /\ running \in Seq(Requests)
  BY DEF TypeOK
<1>2. /\ x \in Requests /\ Tail(swapped) \in Seq(Requests)
      /\ \A r : Times(r, swapped) = Times(r, Tail(swapped)) + (IF x = r THEN 1 ELSE 0)
  BY <1>1, TimesTail
<1>3. x \in Range(swapped)
  BY <1>1 DEF Range
<1>4. status[x] = "SWAPPED" /\ Times(x, swapped) = 1 /\ Times(x, batch.swapped_out) = 0
  BY <1>3, WhereIs
<1>5. \A r : Times(r, Tail(swapped)) \in Nat
  BY <1>2, TimesType
<1>6. (\A r \in Requests \ {x} : Times(r, Tail(swapped)) = Times(r, swapped))
      /\ Times(x, Tail(swapped)) = 0
  <2>1. \A r \in Requests \ {x} : Times(r, Tail(swapped)) = Times(r, swapped)
    BY <1>2, <1>5
  <2>2. 1 = Times(x, Tail(swapped)) + 1
    BY <1>2, <1>4
  <2> QED
    BY <1>5, <2>1, <2>2
<1>7. batch.decodes \in Seq(Requests) /\ batch.prefills = <<>> /\ running = <<>>
  BY ListType DEF PhaseInv
<1>8. Scheduled = batch.decodes
  <2>1. Scheduled = <<>> \o batch.decodes
    BY <1>7 DEF Scheduled
  <2> QED
    BY <1>7, <2>1
<1>9. Counts(client_waiting_queues, running, Scheduled, swapped,
             batch.preempted, batch.swapped_out, status)
  BY PlacesNow
<1>10. /\ InQueue(client_waiting_queues, x) + Times(x, batch.preempted) = 0
       /\ Times(x, running) + Times(x, Scheduled) = 0
  BY <1>2, <1>4, <1>9 DEF Counts
<1>11. Times(x, running) \in Nat /\ Times(x, Scheduled) \in Nat
  BY <1>1, <1>7, <1>8, TimesType
<1>12. Times(x, running) = 0 /\ Times(x, Scheduled) = 0
  BY <1>10, <1>11
<1>13. x \notin Range(batch.decodes)
  BY <1>7, <1>8, <1>12, TimesType
<1> QED
  BY <1>2, <1>4, <1>6, <1>7, <1>8, <1>10, <1>12, <1>13

(* _schedule_swapped swaps a group in.                                     *)
LEMMA SwapInKeeps ==
    ASSUME SchedInv, SwapIn
    PROVE  SchedInv' /\ ServedGrows
<1> USE DEF SchedInv
<1>1. PICK x : x = Head(swapped)
  OBVIOUS
<1>2. PICK m : m = MissingBlocks(x)
  OBVIOUS
<1>3. /\ phase = "swapped" /\ swapped # <<>>
      /\ CanSwapIn(x) = "OK" /\ CanSchedule(Len(batch.decodes))
      /\ free_cpu' = free_cpu + block_table[x]
      /\ free_gpu' = free_gpu - block_table[x] - m
      /\ block_table' = [block_table EXCEPT ![x] = block_table[x] + m]
      /\ status' = [status EXCEPT ![x] = "RUNNING"]
      /\ batch' = [batch EXCEPT !.decodes = Append(batch.decodes, x)]
      /\ swapped' = Tail(swapped)
      /\ UNCHANGED <<client_waiting_queues, served, credits, running, length, preempted, phase>>
  BY <1>1, <1>2 DEF SwapIn, queueVars
<1>4. /\ x \in Requests /\ Tail(swapped) \in Seq(Requests) /\ status[x] = "SWAPPED"
      /\ \A r \in Requests \ {x} : Times(r, Tail(swapped)) = Times(r, swapped)
      /\ Times(x, Tail(swapped)) = 0 /\ Times(x, batch.swapped_out) = 0
      /\ InQueue(client_waiting_queues, x) + Times(x, batch.preempted) = 0
      /\ Times(x, running) = 0 /\ Times(x, Scheduled) = 0
      /\ x \notin Range(batch.decodes) /\ batch.prefills = <<>> /\ running = <<>>
      /\ Scheduled = batch.decodes
  BY <1>1, <1>3, SwappedHead
<1>5. NBlocks(x) \in Nat /\ m \in {0, 1} /\ block_table[x] + m = NBlocks(x)
  BY <1>2, <1>4, MissingIs
<1>6. PICK d : d = Append(batch.decodes, x)
  OBVIOUS
<1>7. /\ batch.decodes \in Seq(Requests) /\ Len(batch.decodes) \in Nat
      /\ DOMAIN batch = {"prefills", "decodes", "preempted", "swapped_out"}
  BY ListType
<1>8. /\ d \in Seq(Requests) /\ Len(d) = Len(batch.decodes) + 1
      /\ \A r : Times(r, d) = Times(r, batch.decodes) + (IF x = r THEN 1 ELSE 0)
  BY <1>4, <1>6, <1>7, TimesAppend
<1>9. /\ batch'.decodes = d /\ batch'.prefills = batch.prefills
      /\ batch'.preempted = batch.preempted /\ batch'.swapped_out = batch.swapped_out
  BY <1>3, <1>6, <1>7
<1>10. free_gpu \in Nat /\ free_cpu \in Nat /\ block_table[x] \in Nat
  BY <1>4 DEF TypeOK
<1>11. free_gpu' \in Nat /\ free_cpu' \in Nat
  <2>1. free_gpu - (block_table[x] + 1) >= Watermark
    BY <1>3 DEF CanSwapIn
  <2>2. Watermark \in Nat
    BY SchedulerAssumption
  <2>3. free_gpu - block_table[x] - m \in Nat
    BY <1>5, <1>10, <2>1, <2>2
  <2>4. free_cpu + block_table[x] \in Nat
    BY <1>10
  <2> QED
    BY <1>3, <2>3, <2>4
<1>12. TypeOK'
  <2>1. batch' \in [prefills : Seq(Requests), decodes : Seq(Requests),
                    preempted : Seq(Requests), swapped_out : Seq(Requests)]
    BY <1>3, <1>6, <1>8 DEF TypeOK
  <2>2. status' \in [Requests -> Statuses]
    BY <1>3 DEF TypeOK, Statuses
  <2>3. block_table[x] + m \in Nat
    BY <1>5
  <2>4. block_table' \in [Requests -> Nat]
    BY <1>3, <2>3 DEF TypeOK
  <2> QED
    BY <1>3, <1>4, <1>11, <2>1, <2>2, <2>4 DEF TypeOK
<1>13. PhaseInv'
  BY <1>3, <1>4, <1>9 DEF PhaseInv
<1>14. Scheduled' = d
  <2>1. Scheduled' = <<>> \o d
    BY <1>3, <1>4, <1>9 DEF Scheduled
  <2> QED
    BY <1>8, <2>1
<1>15. SeatInv'
  <2>1. Len(batch.decodes) + 1 <= MaxNumSeqs
    BY <1>3 DEF CanSchedule
  <2>2. running' = <<>> /\ Len(<<>>) = 0 /\ MaxNumSeqs \in Nat
    BY <1>3, <1>4, SchedulerAssumption
  <2> QED
    BY <1>7, <1>8, <1>14, <2>1, <2>2 DEF SeatInv
<1>16. /\ status'[x] = "RUNNING" /\ block_table'[x] = NBlocks(x)
       /\ \A r \in Requests \ {x} : block_table'[r] = block_table[r] /\ status'[r] = status[r]
  BY <1>3, <1>4, <1>5 DEF TypeOK
<1>17. KnownInv'
  BY <1>3, <1>4, <1>16 DEF KnownInv
<1>18. TableInv'
  <2>1. \A r \in Requests : r \in Range(d) => r = x \/ r \in Range(batch.decodes)
    <3>1. \A r : (Times(r, d) = 0 <=> r \notin Range(d))
                 /\ (Times(r, batch.decodes) = 0 <=> r \notin Range(batch.decodes))
      BY <1>7, <1>8, TimesType
    <3>2. \A r : Times(r, batch.decodes) \in Nat
      BY <1>7, TimesType
    <3> QED
      BY <1>8, <3>1, <3>2
  <2> SUFFICES ASSUME NEW r \in Requests
        PROVE  /\ length'[r] >= PromptLen[r]
               /\ status'[r] \in {"RUNNING", "SWAPPED"} =>
                    block_table'[r] \in {BlocksFor(length'[r]), BlocksFor(length'[r] - 1)}
               /\ r \in Range(batch'.prefills) \cup Range(batch'.decodes) => block_table'[r] = NBlocks(r)'
               /\ status'[r] \in {"NEW", "WAITING"} => block_table'[r] = 0
               /\ status'[r] = "FINISHED" => block_table'[r] = 0 \/ PreemptionMode = "swap"
               /\ status'[r] = "SWAPPED" => PreemptionMode = "swap"
    BY DEF TableInv
  <2>2. /\ NBlocks(r)' = NBlocks(r) /\ NBlocks(r) = BlocksFor(length[r]) /\ length' = length
    BY <1>3 DEF NBlocks, BlocksFor
  <2>3. CASE r = x
    BY <1>16, <2>2, <2>3 DEF TableInv
  <2>4. CASE r # x
    BY <1>9, <1>16, <2>1, <2>2, <2>4 DEF TableInv
  <2> QED
    BY <2>3, <2>4
<1>19. BlockInv'
  <2>1. (free_gpu - block_table[x] - m) + (block_table[x] + m) = free_gpu + 0
    BY <1>5, <1>10
  <2>2. free_cpu' + 0 = free_cpu + block_table[x]
    BY <1>3, <1>10
  <2>3. free_gpu' + block_table'[x] = free_gpu + 0
    BY <1>3, <1>5, <1>16, <2>1
  <2> QED
    BY <1>4, <1>12, <1>16, <2>2, <2>3, BlocksMove
<1>20. OnePlace'
  <2>1. Counts(client_waiting_queues, running, Scheduled, swapped,
               batch.preempted, batch.swapped_out, status)
    BY PlacesNow
  <2>2. Times(x, d) = 1 /\ \A r \in Requests \ {x} : Times(r, d) = Times(r, Scheduled)
    <3>1. \A r : Times(r, batch.decodes) \in Nat
      BY <1>7, TimesType
    <3> QED
      BY <1>4, <1>8, <3>1
  <2>3. Times(x, running) + Times(x, d) = 1 /\ Times(x, Tail(swapped)) + Times(x, batch.swapped_out) = 0
    BY <1>4, <2>2
  <2>4. \A r \in Requests : \A c \in DOMAIN client_waiting_queues \ {ClientOf[r]} :
            Times(r, client_waiting_queues[c]) = 0
    BY <2>1 DEF Counts
  <2>5. Counts(client_waiting_queues, running, d, Tail(swapped),
               batch.preempted, batch.swapped_out, status')
    BY <1>4, <1>16, <2>1, <2>2, <2>3, <2>4, CountsStep
  <2> QED
    BY <1>3, <1>9, <1>12, <1>14, <2>5, PlacesNext
<1> QED
  BY <1>3, <1>12, <1>13, <1>15, <1>17, <1>18, <1>19, <1>20, SameServed

(* _schedule_swapped fails a group, whose blocks stay on the CPU.          *)
LEMMA FailKeeps ==
    ASSUME SchedInv, FailSwapped
    PROVE  SchedInv' /\ ServedGrows
<1> USE DEF SchedInv
<1>1. PICK x : x = Head(swapped)
  OBVIOUS
<1>2. /\ phase = "swapped" /\ swapped # <<>>
      /\ status' = [status EXCEPT ![x] = "FINISHED"] /\ swapped' = Tail(swapped)
      /\ UNCHANGED <<client_waiting_queues, served, credits, running, length, preempted, phase, batch>>
      /\ UNCHANGED <<block_table, free_gpu, free_cpu>>
  BY <1>1 DEF FailSwapped, queueVars, blockVars
<1>3. /\ x \in Requests /\ Tail(swapped) \in Seq(Requests) /\ status[x] = "SWAPPED"
      /\ \A r \in Requests \ {x} : Times(r, Tail(swapped)) = Times(r, swapped)
      /\ Times(x, Tail(swapped)) = 0 /\ Times(x, batch.swapped_out) = 0
      /\ InQueue(client_waiting_queues, x) + Times(x, batch.preempted) = 0
      /\ Times(x, running) = 0 /\ Times(x, Scheduled) = 0
      /\ x \notin Range(batch.decodes) /\ batch.prefills = <<>> /\ running = <<>>
      /\ Scheduled = batch.decodes
  BY <1>1, <1>2, SwappedHead
<1>4. status'[x] = "FINISHED" /\ \A r \in Requests \ {x} : status'[r] = status[r]
  BY <1>2, <1>3 DEF TypeOK
<1>5. TypeOK'
  BY <1>2, <1>3 DEF TypeOK, Statuses
<1>6. PhaseInv'
  BY <1>2, <1>3 DEF PhaseInv
<1>7. Scheduled' = Scheduled
  BY <1>2 DEF Scheduled
<1>8. SeatInv' /\ KnownInv'
  BY <1>2, <1>3, <1>4, <1>7 DEF SeatInv, KnownInv
<1>9. TableInv'
  BY <1>2, <1>3, <1>4 DEF TableInv, NBlocks
<1>10. BlockInv'
  BY <1>2, <1>3, <1>4, <1>5, BlocksMove
<1>11. OnePlace'
  <2>1. Counts(client_waiting_queues, running, Scheduled, swapped,
               batch.preempted, batch.swapped_out, status)
    BY PlacesNow
  <2>2. \A r \in Requests : \A c \in DOMAIN client_waiting_queues \ {ClientOf[r]} :
            Times(r, client_waiting_queues[c]) = 0
    BY <2>1 DEF Counts
  <2>3. Times(x, running) + Times(x, Scheduled) = 0
        /\ Times(x, Tail(swapped)) + Times(x, batch.swapped_out) = 0
    BY <1>3
  <2>4. Counts(client_waiting_queues, running, Scheduled, Tail(swapped),
               batch.preempted, batch.swapped_out, status')
    BY <1>3, <1>4, <2>1, <2>2, <2>3, CountsStep
  <2> QED
    BY <1>2, <1>5, <1>7, <2>4, PlacesNext
<1> QED
  BY <1>2, <1>5, <1>6, <1>8, <1>9, <1>10, <1>11, SameServed
(* The decode charge at the end of _schedule_default.                      *)
LEMMA DecodeChargedIs ==
    ASSUME NEW D, NEW sv \in [D -> Nat], NEW list \in Seq(Requests)
    PROVE  /\ DecodeCharged(sv, list) \in [D -> Nat]
           /\ \A c \in D : /\ Len(Kept(list, OwnedBy(c))) \in Nat
                           /\ DecodeCharged(sv, list)[c] = sv[c] + DecodeWeight * Len(Kept(list, OwnedBy(c)))
                           /\ sv[c] <= DecodeCharged(sv, list)[c]
<1>1. DecodeWeight \in Nat
  BY QueueAssumption
<1>2. ASSUME NEW c \in D
      PROVE  /\ Len(Kept(list, OwnedBy(c))) \in Nat
             /\ DecodeWeight * Len(Kept(list, OwnedBy(c))) \in Nat
             /\ sv[c] + DecodeWeight * Len(Kept(list, OwnedBy(c))) \in Nat
             /\ sv[c] <= sv[c] + DecodeWeight * Len(Kept(list, OwnedBy(c)))
  <2>1. Len(Kept(list, OwnedBy(c))) \in Nat
    BY KeptTimes
  <2>2. PICK n \in Nat : n = Len(Kept(list, OwnedBy(c)))
    BY <2>1
  <2>3. PICK k \in Nat : k = DecodeWeight * n
    <3>1. DecodeWeight * n \in Nat
      BY <1>1
    <3> QED
      BY <3>1
  <2>4. sv[c] \in Nat
    OBVIOUS
  <2> QED
    BY <2>2, <2>3, <2>4
<1>3. DecodeCharged(sv, list) = [c \in D |-> sv[c] + DecodeWeight * Len(Kept(list, OwnedBy(c)))]
  BY DEF DecodeCharged
<1> QED
  BY <1>2, <1>3

(* The end of _schedule_default.                                           *)
LEMMA CommitKeeps ==
    ASSUME SchedInv, Commit
    PROVE  SchedInv' /\ ServedGrows
<1> USE DEF SchedInv
<1>1. PICK q : q = client_waiting_queues
  OBVIOUS
<1>2. Queues(q) /\ DOMAIN q \subseteq Clients /\ served \in [DOMAIN q -> Nat]
  BY <1>1 DEF TypeOK, Queues
<1>3. /\ batch.preempted \in Seq(Requests) /\ batch.swapped_out \in Seq(Requests)
      /\ batch.prefills \in Seq(Requests) /\ batch.decodes \in Seq(Requests)
      /\ running \in Seq(Requests) /\ swapped \in Seq(Requests)
      /\ DOMAIN batch = {"prefills", "decodes", "preempted", "swapped_out"}
  BY ListType DEF TypeOK
<1>4. PICK p : p = ExtendedLeft(q, batch.preempted)
  OBVIOUS
<1>5. /\ phase = "commit" /\ phase' = "execute" /\ client_waiting_queues' = p
      /\ running' = (running \o batch.prefills) \o batch.decodes
      /\ swapped' = swapped \o batch.swapped_out
      /\ served' = IF batch.prefills = <<>> THEN DecodeCharged(served, batch.decodes) ELSE served
      /\ batch' = [batch EXCEPT !.preempted = <<>>, !.swapped_out = <<>>]
      /\ UNCHANGED <<credits, status, length, preempted>>
      /\ UNCHANGED <<block_table, free_gpu, free_cpu>>
  BY <1>1, <1>4 DEF Commit, blockVars
<1>6. Counts(q, running, Scheduled, swapped, batch.preempted, batch.swapped_out, status)
  BY <1>1, PlacesNow
<1>7. /\ DOMAIN p = DOMAIN q /\ Queues(p)
      /\ \A r \in Requests : InQueue(p, r) = InQueue(q, r) + Times(r, batch.preempted)
      /\ \A r \in Requests : \A c \in DOMAIN q \ {ClientOf[r]} : Times(r, p[c]) = Times(r, q[c])
  <2>1. ASSUME NEW r \in Requests, Times(r, batch.preempted) # 0 PROVE ClientOf[r] \in DOMAIN q
    <3>1. Times(r, batch.preempted) \in Nat /\ InQueue(q, r) \in Nat
      BY <1>2, <1>3, TimesType DEF InQueue, Queues
    <3>2. InQueue(q, r) + Times(r, batch.preempted) # 0
      BY <2>1, <3>1
    <3>3. InQueue(q, r) + Times(r, batch.preempted) = IF status[r] = "WAITING" THEN 1 ELSE 0
      BY <1>6 DEF Counts
    <3>4. status[r] = "WAITING"
      BY <3>2, <3>3
    <3> QED
      BY <1>1, <3>4 DEF KnownInv
  <2> QED
    <3>1. PICK l \in Seq(Requests) : l = batch.preempted
      BY <1>3
    <3>2. \A r \in Requests : Times(r, l) # 0 => ClientOf[r] \in DOMAIN q
      BY <2>1, <3>1
    <3>3. p = ExtendedLeft(q, l)
      BY <1>4, <3>1
    <3> QED
      BY <1>2, <3>1, <3>2, <3>3, ExtendedPlaces
<1>8. /\ batch'.prefills = batch.prefills /\ batch'.decodes = batch.decodes
      /\ batch'.preempted = <<>> /\ batch'.swapped_out = <<>>
      /\ <<>> \in Seq(Requests) /\ Len(<<>>) = 0
  <2>1. PICK e : e = <<>>
    OBVIOUS
  <2>2. batch' = [batch EXCEPT !.preempted = e, !.swapped_out = e]
    BY <1>5, <2>1
  <2>3. /\ batch'.prefills = batch.prefills /\ batch'.decodes = batch.decodes
        /\ batch'.preempted = e /\ batch'.swapped_out = e
    BY <1>3, <2>2
  <2>4. <<>> \in Seq(Requests) /\ Len(<<>>) = 0
    OBVIOUS
  <2> QED
    BY <2>1, <2>3, <2>4
<1>9. PICK t \in Seq(Requests) : t = running \o batch.prefills
  <2>1. running \o batch.prefills \in Seq(Requests)
    BY <1>3
  <2> QED
    BY <2>1
<1>10. /\ running' = t \o batch.decodes /\ running' \in Seq(Requests)
       /\ Len(running') = Len(running) + Len(batch.prefills) + Len(batch.decodes)
       /\ Len(Scheduled) = Len(batch.prefills) + Len(batch.decodes)
       /\ Scheduled = batch.prefills \o batch.decodes
  <2>1. Scheduled = batch.prefills \o batch.decodes
    BY <1>5 DEF Scheduled
  <2>2. running' = t \o batch.decodes
    BY <1>5, <1>9
  <2>3. Len(t) = Len(running) + Len(batch.prefills)
    BY <1>3, <1>9
  <2>4. Len(t \o batch.decodes) = Len(t) + Len(batch.decodes) /\ t \o batch.decodes \in Seq(Requests)
    BY <1>3
  <2>5. Len(batch.prefills \o batch.decodes) = Len(batch.prefills) + Len(batch.decodes)
    BY <1>3
  <2> QED
    BY <2>1, <2>2, <2>3, <2>4, <2>5
<1>11. \A r : /\ Times(r, running') = Times(r, running) + Times(r, Scheduled)
              /\ Times(r, running) \in Nat /\ Times(r, Scheduled) \in Nat
              /\ Times(r, running') = Times(r, running) + Times(r, batch.prefills) + Times(r, batch.decodes)
              /\ Times(r, batch.prefills) \in Nat /\ Times(r, batch.decodes) \in Nat
  <2> TAKE r
  <2>3. Times(r, t \o batch.decodes) = Times(r, t) + Times(r, batch.decodes)
    BY <1>3, TimesCat
  <2>4. Times(r, running \o batch.prefills) = Times(r, running) + Times(r, batch.prefills)
    BY <1>3, TimesCat
  <2>5. Times(r, batch.prefills \o batch.decodes) = Times(r, batch.prefills) + Times(r, batch.decodes)
    BY <1>3, TimesCat
  <2>1. /\ Times(r, running') = Times(r, t) + Times(r, batch.decodes)
        /\ Times(r, t) = Times(r, running) + Times(r, batch.prefills)
        /\ Times(r, Scheduled) = Times(r, batch.prefills) + Times(r, batch.decodes)
    BY <1>9, <1>10, <2>3, <2>4, <2>5
  <2>2. /\ Times(r, running) \in Nat /\ Times(r, batch.prefills) \in Nat
        /\ Times(r, batch.decodes) \in Nat
    BY <1>3, TimesType
  <2> QED
    BY <2>1, <2>2
<1>12. swapped' \in Seq(Requests)
       /\ \A r : Times(r, swapped') = Times(r, swapped) + Times(r, batch.swapped_out)
  <2>1. swapped' \in Seq(Requests)
    BY <1>3, <1>5
  <2> QED
    BY <1>3, <1>5, <2>1, TimesCat
<1>13. served' \in [DOMAIN q -> Nat] /\ \A c \in DOMAIN q : served[c] <= served'[c]
  <2>1. DecodeCharged(served, batch.decodes) \in [DOMAIN q -> Nat]
        /\ \A c \in DOMAIN q : served[c] <= DecodeCharged(served, batch.decodes)[c]
    BY <1>2, <1>3, DecodeChargedIs
  <2>2. \A c \in DOMAIN q : served[c] <= served[c]
    BY <1>2
  <2> QED
    BY <1>2, <1>5, <2>1, <2>2
<1>14. TypeOK'
  <2>1. batch' \in [prefills : Seq(Requests), decodes : Seq(Requests),
                    preempted : Seq(Requests), swapped_out : Seq(Requests)]
    BY <1>5, <1>8 DEF TypeOK
  <2>2. phase' \in Phases
    BY <1>5 DEF Phases
  <2> QED
    BY <1>2, <1>5, <1>7, <1>10, <1>12, <1>13, <2>1, <2>2 DEF TypeOK, Queues
<1>15. PhaseInv'
  <2>1. Range(batch.prefills) \cup Range(batch.decodes) \subseteq Range(running')
    <3> SUFFICES ASSUME NEW r, r \in Range(batch.prefills) \cup Range(batch.decodes)
                 PROVE  r \in Range(running')
      OBVIOUS
    <3>1. Times(r, batch.prefills) # 0 \/ Times(r, batch.decodes) # 0
      BY <1>3, TimesType
    <3>2. Times(r, running') # 0
      BY <1>11, <3>1
    <3> QED
      BY <1>10, <3>2, TimesType
  <2> QED
    BY <1>5, <1>8, <2>1 DEF PhaseInv
<1>16. SeatInv'
  <2>1. Scheduled' = <<>>
    BY <1>5 DEF Scheduled
  <2>2. Len(running) \in Nat /\ Len(batch.prefills) \in Nat /\ Len(batch.decodes) \in Nat
    BY <1>3
  <2>4. Len(running) + (Len(batch.prefills) + Len(batch.decodes)) <= MaxNumSeqs
    BY <1>10 DEF SeatInv
  <2>5. MaxNumSeqs \in Nat
    BY SchedulerAssumption
  <2>7. \A i, j, k, m \in Nat : i + (j + k) <= m => i + j + k + 0 <= m
    OBVIOUS
  <2>6. Len(running) + Len(batch.prefills) + Len(batch.decodes) + 0 <= MaxNumSeqs
    BY <2>2, <2>4, <2>5, <2>7
  <2>3. Len(running') + 0 <= MaxNumSeqs
    BY <1>10, <2>6
  <2> QED
    BY <1>8, <2>1, <2>3 DEF SeatInv
<1>17. KnownInv'
  BY <1>1, <1>5, <1>7 DEF KnownInv
<1>18. TableInv'
  BY <1>5, <1>8 DEF TableInv, NBlocks
<1>19. BlockInv'
  BY <1>5, BlocksNow, BlocksNext
<1>20. OnePlace'
  <2>1. Scheduled' = <<>>
    BY <1>5 DEF Scheduled
  <2>2. \A r : Times(r, <<>>) = 0
    BY TimesEmpty
  <2>3. ASSUME NEW r \in Requests
        PROVE  /\ InQueue(p, r) + Times(r, <<>>) = InQueue(q, r) + Times(r, batch.preempted)
               /\ Times(r, running') + Times(r, <<>>) = Times(r, running) + Times(r, Scheduled)
               /\ Times(r, swapped') + Times(r, <<>>) = Times(r, swapped) + Times(r, batch.swapped_out)
               /\ \A c \in DOMAIN p \ {ClientOf[r]} : Times(r, p[c]) = 0
    <3>1. /\ InQueue(q, r) \in Nat /\ Times(r, batch.preempted) \in Nat
          /\ Times(r, swapped) \in Nat /\ Times(r, batch.swapped_out) \in Nat
      BY <1>2, <1>3, TimesType DEF InQueue, Queues
    <3>2. \A c \in DOMAIN p \ {ClientOf[r]} : Times(r, p[c]) = 0
      BY <1>6, <1>7 DEF Counts
    <3>3. InQueue(p, r) + Times(r, <<>>) = InQueue(q, r) + Times(r, batch.preempted)
      BY <1>7, <2>2, <3>1
    <3>4. Times(r, running') + Times(r, <<>>) = Times(r, running) + Times(r, Scheduled)
      BY <1>11, <2>2
    <3>5. Times(r, swapped') + Times(r, <<>>) = Times(r, swapped) + Times(r, batch.swapped_out)
      BY <1>12, <2>2, <3>1
    <3> QED
      BY <3>2, <3>3, <3>4, <3>5
  <2>4. Counts(p, running', <<>>, swapped', <<>>, <<>>, status)
    BY <1>6, <2>3 DEF Counts
  <2> QED
    BY <1>5, <1>8, <1>14, <2>1, <2>4, PlacesNext
<1>21. ServedGrows
  BY <1>2, <1>13 DEF ServedGrows
<1> QED
  BY <1>14, <1>15, <1>16, <1>17, <1>18, <1>19, <1>20, <1>21

(* _process_model_outputs, whatever was charged before: each group of the  *)
(* batch is one token longer, and those that stop are gone.                *)
LEMMA OutputsKeep ==
    ASSUME SchedInv, phase = "execute", NEW B,
           B \subseteq Range(batch.prefills) \cup Range(batch.decodes), ProcessOutputs(B),
           served' \in [DOMAIN client_waiting_queues -> Nat],
           DOMAIN credits' \subseteq Clients, credits' \in [DOMAIN credits' -> Nat]
    PROVE  SchedInv'
<1> USE DEF SchedInv
<1>1. PICK stopped \in SUBSET B :
        /\ length' = [r \in Requests |-> IF r \in B THEN length[r] + 1 ELSE length[r]]
        /\ status' = [r \in Requests |-> IF r \in stopped THEN "FINISHED" ELSE status[r]]
        /\ running' = Kept(running, Requests \ stopped)
        /\ Freed(stopped)
        /\ phase' = "idle"
        /\ batch' = NoBatch
        /\ UNCHANGED <<client_waiting_queues, swapped, preempted>>
  BY DEF ProcessOutputs
<1>2. /\ running \in Seq(Requests) /\ swapped \in Seq(Requests)
      /\ block_table \in [Requests -> Nat] /\ length \in [Requests -> Nat]
      /\ free_gpu \in Nat /\ free_cpu \in Nat /\ status \in [Requests -> Statuses]
      /\ batch.prefills \in Seq(Requests) /\ batch.decodes \in Seq(Requests)
      /\ Queues(client_waiting_queues)
  BY ListType DEF TypeOK, Queues
<1>3. /\ B \subseteq Requests /\ stopped \subseteq Requests
      /\ \A r \in B : status[r] = "RUNNING" /\ block_table[r] = NBlocks(r)
  <2>1. \A r \in Range(batch.prefills) \cup Range(batch.decodes) : status[r] = "RUNNING"
    BY WhereIs
  <2>2. \A s \in Seq(Requests) : Range(s) \subseteq Requests
    BY DEF Range
  <2>3. B \subseteq Requests
    BY <1>2, <2>2
  <2> QED
    BY <2>1, <2>3 DEF TableInv
<1>4. /\ block_table' = [r \in Requests |-> IF r \in stopped THEN 0 ELSE block_table[r]]
      /\ free_gpu' = free_gpu + Held(block_table, stopped) /\ free_cpu' = free_cpu
  <2>1. PICK S : S = {r \in stopped : status[r] = "SWAPPED"}
    OBVIOUS
  <2>2. S = {} /\ stopped \ S = stopped
    BY <1>3, <2>1
  <2>3. /\ free_gpu' = free_gpu + Cardinality(BlocksOf(stopped \ S))
        /\ free_cpu' = free_cpu + Cardinality(BlocksOf(S))
        /\ block_table' = [r \in Requests |-> IF r \in stopped THEN 0 ELSE block_table[r]]
    BY <1>1, <2>1 DEF Freed
  <2>4. Held(block_table, {}) = 0
    BY HeldNone
  <2>5. Cardinality(BlocksOf(S)) = 0 /\ Cardinality(BlocksOf(stopped \ S)) = Held(block_table, stopped)
    BY <2>2, <2>4 DEF BlocksOf, Held, BlocksIn
  <2> QED
    BY <1>2, <2>3, <2>5
<1>5. Held(block_table, stopped) \in Nat
  BY <1>2, <1>3, HeldType
<1>6. PICK T : T = Requests \ stopped
  OBVIOUS
<1>7. /\ running' = Kept(running, T) /\ Kept(running, T) \in Seq(Requests)
      /\ Len(Kept(running, T)) \in Nat /\ Len(Kept(running, T)) <= Len(running)
  <2>1. /\ Kept(running, T) \in Seq(Requests)
        /\ Len(Kept(running, T)) \in Nat /\ Len(Kept(running, T)) <= Len(running)
    BY <1>2, KeptTimes
  <2> QED
    BY <1>1, <1>6, <2>1
<1>8. \A r \in Requests : Times(r, running') = IF r \in stopped THEN 0 ELSE Times(r, running)
  <2>1. \A r : Times(r, Kept(running, T)) = IF r \in T THEN Times(r, running) ELSE 0
    BY <1>2, KeptTimes
  <2> QED
    BY <1>6, <1>7, <2>1
<1>9. /\ batch'.prefills = <<>> /\ batch'.decodes = <<>> /\ batch'.preempted = <<>>
      /\ batch'.swapped_out = <<>> /\ batch.preempted = <<>> /\ batch.swapped_out = <<>>
      /\ <<>> \in Seq(Requests) /\ Len(<<>>) = 0 /\ Range(<<>>) = {}
  BY <1>1 DEF NoBatch, PhaseInv, Range
<1>10. TypeOK'
  <2>1. batch' \in [prefills : Seq(Requests), decodes : Seq(Requests),
                    preempted : Seq(Requests), swapped_out : Seq(Requests)]
    BY <1>1, <1>9 DEF NoBatch
  <2>2. length' \in [Requests -> Nat]
    BY <1>1, <1>2
  <2>3. status' \in [Requests -> Statuses]
    BY <1>1, <1>2 DEF Statuses
  <2>4. block_table' \in [Requests -> Nat] /\ free_gpu' \in Nat /\ free_cpu' \in Nat
    BY <1>2, <1>4, <1>5
  <2>5. phase' \in Phases
    BY <1>1 DEF Phases
  <2> QED
    BY <1>1, <1>7, <2>1, <2>2, <2>3, <2>4, <2>5 DEF TypeOK
<1>11. PhaseInv'
  BY <1>1, <1>9 DEF PhaseInv
<1>12. Scheduled = <<>> /\ Scheduled' = <<>>
  <2>1. <<>> \o <<>> = <<>>
    OBVIOUS
  <2> QED
    BY <1>1, <1>9, <2>1 DEF Scheduled
<1>13. SeatInv'
  <2>1. MaxNumSeqs \in Nat /\ Len(running) \in Nat
    BY <1>2, SchedulerAssumption
  <2> QED
    BY <1>7, <1>9, <1>12, <2>1 DEF SeatInv
<1>14. KnownInv'
  BY <1>1, <1>3 DEF KnownInv
<1>15. TableInv'
  <2> SUFFICES ASSUME NEW r \in Requests
        PROVE  /\ length'[r] >= PromptLen[r]
               /\ status'[r] \in {"RUNNING", "SWAPPED"} =>
                    block_table'[r] \in {BlocksFor(length'[r]), BlocksFor(length'[r] - 1)}
               /\ r \in Range(batch'.prefills) \cup Range(batch'.decodes) => block_table'[r] = NBlocks(r)'
               /\ status'[r] \in {"NEW", "WAITING"} => block_table'[r] = 0
               /\ status'[r] = "FINISHED" => block_table'[r] = 0 \/ PreemptionMode = "swap"
               /\ status'[r] = "SWAPPED" => PreemptionMode = "swap"
    BY DEF TableInv
  <2>1. r \notin Range(batch'.prefills) \cup Range(batch'.decodes)
    BY <1>9
  <2>2. length[r] \in Nat /\ PromptLen[r] \in Nat /\ length[r] >= PromptLen[r]
    BY <1>2, SchedulerAssumption DEF TableInv
  <2>3. CASE r \notin B
    <3>1. /\ length'[r] = length[r] /\ status'[r] = status[r] /\ block_table'[r] = block_table[r]
      BY <1>1, <1>4, <2>3
    <3> QED
      BY <2>1, <3>1 DEF TableInv
  <2>4. CASE r \in B
    <3>1. length'[r] = length[r] + 1 /\ length'[r] - 1 = length[r] /\ length'[r] >= PromptLen[r]
      BY <1>1, <2>2, <2>4
    <3>2. CASE r \in stopped
      <4>1. status'[r] = "FINISHED" /\ block_table'[r] = 0
        BY <1>1, <1>4, <3>2
      <4> QED
        BY <2>1, <3>1, <4>1
    <3>3. CASE r \notin stopped
      <4>1. status'[r] = "RUNNING" /\ block_table'[r] = NBlocks(r)
        BY <1>1, <1>3, <1>4, <2>4, <3>3
      <4>2. NBlocks(r) = BlocksFor(length[r])
        BY DEF NBlocks, BlocksFor
      <4> QED
        BY <2>1, <3>1, <4>1, <4>2
    <3> QED
      BY <3>2, <3>3
  <2> QED
    BY <2>3, <2>4
<1>16. BlockInv'
  <2>1. /\ free_gpu + Held(block_table, Having(status, {"RUNNING"})) = NumGpuBlocks
        /\ free_cpu + Held(block_table, Having(status, {"SWAPPED", "FINISHED"})) = NumCpuBlocks
    BY BlocksNow
  <2>2. PICK G : G = Having(status', {"RUNNING"})
    OBVIOUS
  <2>3. PICK D : D = Having(status, {"SWAPPED", "FINISHED"})
    OBVIOUS
  <2>4. /\ Having(status, {"RUNNING"}) = G \cup stopped /\ G \cap stopped = {} /\ G \subseteq Requests
        /\ Having(status', {"SWAPPED", "FINISHED"}) = D \cup stopped /\ D \cap stopped = {}
        /\ D \subseteq Requests
    BY <1>1, <1>3, <2>2, <2>3 DEF Having
  <2>5. Held(block_table, G \cup stopped) = Held(block_table, G) + Held(block_table, stopped)
    BY <1>2, <1>3, <2>4, HeldSplit
  <2>6. block_table' \in [Requests -> Nat]
    BY <1>10 DEF TypeOK
  <2>7. Held(block_table', D \cup stopped) = Held(block_table', D) + Held(block_table', stopped)
    BY <1>3, <2>4, <2>6, HeldSplit
  <2>8. Held(block_table', stopped) = 0
    <3>1. \A r \in stopped : block_table'[r] = 0
      BY <1>3, <1>4
    <3> QED
      BY <3>1, HeldNone
  <2>9. Held(block_table', D) = Held(block_table, D)
    <3>1. \A r \in D : block_table'[r] = block_table[r]
      BY <1>4, <2>4
    <3> QED
      BY <3>1, HeldSame
  <2>10. Held(block_table', G) = Held(block_table, G)
    <3>1. \A r \in G : block_table'[r] = block_table[r]
      BY <1>4, <2>4
    <3> QED
      BY <3>1, HeldSame
  <2>11. Held(block_table, G) \in Nat /\ Held(block_table, D) \in Nat
    BY <1>2, <2>4, HeldType
  <2>12. free_gpu' + Held(block_table', G) = NumGpuBlocks
    <3>1. free_gpu + (Held(block_table, G) + Held(block_table, stopped)) = NumGpuBlocks
      BY <2>1, <2>4, <2>5
    <3>2. (free_gpu + Held(block_table, stopped)) + Held(block_table, G) = NumGpuBlocks
      BY <1>2, <1>5, <2>11, <3>1
    <3> QED
      BY <1>4, <2>10, <3>2
  <2>13. free_cpu' + Held(block_table', D \cup stopped) = NumCpuBlocks
    <3>1. Held(block_table', D \cup stopped) = Held(block_table, D)
      BY <2>7, <2>8, <2>9, <2>11
    <3> QED
      BY <1>4, <2>1, <2>3, <3>1
  <2> QED
    BY <2>2, <2>4, <2>12, <2>13, BlocksNext
<1>17. OnePlace'
  <2>1. Counts(client_waiting_queues, running, <<>>, swapped, <<>>, <<>>, status)
    BY <1>9, <1>12, PlacesNow
  <2>2. \A r : Times(r, <<>>) = 0
    BY TimesEmpty
  <2>3. ASSUME NEW r \in Requests
        PROVE  /\ InQueue(client_waiting_queues, r) + Times(r, <<>>)
                    = IF status'[r] = "WAITING" THEN 1 ELSE 0
               /\ Times(r, running') + Times(r, <<>>) = IF status'[r] = "RUNNING" THEN 1 ELSE 0
               /\ Times(r, swapped) + Times(r, <<>>) = IF status'[r] = "SWAPPED" THEN 1 ELSE 0
               /\ \A c \in DOMAIN client_waiting_queues \ {ClientOf[r]} :
                     Times(r, client_waiting_queues[c]) = 0
    <3>1. /\ InQueue(client_waiting_queues, r) + Times(r, <<>>)
                    = IF status[r] = "WAITING" THEN 1 ELSE 0
          /\ Times(r, running) + Times(r, <<>>) = IF status[r] = "RUNNING" THEN 1 ELSE 0
          /\ Times(r, swapped) + Times(r, <<>>) = IF status[r] = "SWAPPED" THEN 1 ELSE 0
          /\ \A c \in DOMAIN client_waiting_queues \ {ClientOf[r]} :
                Times(r, client_waiting_queues[c]) = 0
      BY <2>1 DEF Counts
    <3>2. CASE r \in stopped
      <4>2. status[r] = "RUNNING" /\ status'[r] = "FINISHED"
        BY <1>1, <1>3, <3>2
      <4>3. Times(r, running') = 0 /\ Times(r, <<>>) = 0
        BY <1>8, <2>2, <3>2
      <4>1. status[r] = "RUNNING" /\ status'[r] = "FINISHED" /\ Times(r, running') + Times(r, <<>>) = 0
        BY <4>2, <4>3
      <4> QED
        BY <3>1, <4>1
    <3>3. CASE r \notin stopped
      <4>1. status'[r] = status[r] /\ Times(r, running') = Times(r, running)
        BY <1>1, <1>8, <3>3
      <4> QED
        BY <3>1, <4>1
    <3> QED
      BY <3>2, <3>3
  <2>4. Counts(client_waiting_queues, running', <<>>, swapped, <<>>, <<>>, status')
    BY <2>3 DEF Counts
  <2> QED
    BY <1>1, <1>9, <1>10, <1>12, <2>4, PlacesNext
<1> QED
  BY <1>10, <1>11, <1>13, <1>14, <1>15, <1>16, <1>17
(* A quotient of natural numbers is one.                                   *)
LEMMA QuotientNat ==
    ASSUME NEW n \in Nat, NEW B \in Nat \ {0}
    PROVE  n \div B \in Nat /\ B * (n \div B) <= n
<1>1. PICK x \in Int : x = n \div B
  OBVIOUS
<1>2. B * x <= n /\ n < B * x + B
  BY <1>1
<1>3. B * x + B = B * (x + 1)
  OBVIOUS
<1>4. B * 0 < B * (x + 1)
  BY <1>2, <1>3
<1>5. 0 <= x
  BY <1>4, CancelFactor
<1> QED
  BY <1>1, <1>2, <1>5

(* update_prefill_served: the credits granted to the old clients.          *)
LEMMA GrantedIs ==
    ASSUME NEW cr, cr \in [DOMAIN cr -> Nat], NEW tok \in Nat, NEW old, old \subseteq Clients, old # {}
    PROVE  /\ Cardinality(old) \in Nat \ {0}
           /\ Granted(cr, tok, old) \in [DOMAIN cr \cup old -> Nat]
<1>1. IsFiniteSet(old)
  BY QueueAssumption, FS_Subset
<1>2. Cardinality(old) \in Nat
  BY <1>1, FS_CardinalityType
<1>3. Cardinality(old) # 0
  BY <1>1, FS_EmptySet
<1>4. PICK k \in Nat \ {0} : k = Cardinality(old)
  BY <1>2, <1>3
<1>5. PICK kk \in Nat \ {0} : kk = k * (k + 1)
  <2>1. k * (k + 1) \in Nat /\ k * (k + 1) # 0
    OBVIOUS
  <2> QED
    BY <2>1
<1>6. PICK n \in Nat : n = Eta * PrefillWeight * tok
  <2>1. Eta \in Nat /\ PrefillWeight \in Nat
    BY QueueAssumption
  <2>2. PICK m \in Nat : m = Eta * PrefillWeight
    <3>1. Eta * PrefillWeight \in Nat
      BY <2>1
    <3> QED
      BY <3>1
  <2>3. m * tok \in Nat
    OBVIOUS
  <2> QED
    BY <2>2, <2>3
<1>7. CreditPerOld(tok, old) = n \div kk
  BY <1>4, <1>5, <1>6 DEF CreditPerOld
<1>8. CreditPerOld(tok, old) \in Nat
  BY <1>7, QuotientNat
<1>9. ASSUME NEW c \in DOMAIN cr \cup old
      PROVE  Lookup(cr, c, 0) + (IF c \in old THEN CreditPerOld(tok, old) ELSE 0) \in Nat
  <2>1. Lookup(cr, c, 0) \in Nat
    BY DEF Lookup
  <2> QED
    BY <1>8, <2>1
<1> QED
  BY <1>2, <1>3, <1>9 DEF Granted

(* update_prefill_served: the cost that credits do not pay is charged.     *)
LEMMA PrefillServedIs ==
    ASSUME NEW sv, sv \in [DOMAIN sv -> Nat], NEW cr, cr \in [DOMAIN cr -> Nat],
           NEW c \in DOMAIN sv, NEW cost \in Int
    PROVE  /\ Lookup(cr, c, 0) \in Nat
           /\ PrefillServed(sv, cr, c, cost) \in [DOMAIN sv -> Nat]
           /\ \A d \in DOMAIN sv \ {c} : PrefillServed(sv, cr, c, cost)[d] = sv[d]
           /\ sv[c] <= PrefillServed(sv, cr, c, cost)[c]
           /\ PrefillServed(sv, cr, c, cost)[c] = sv[c] + NonNegative(cost - Lookup(cr, c, 0))
           /\ NonNegative(cost - Lookup(cr, c, 0)) \in Nat
           /\ CreditsLeft(cr, c, cost) \in [DOMAIN cr \cup {c} -> Nat]
<1>1. Lookup(cr, c, 0) \in Nat
  BY DEF Lookup
<1>2. PICK k \in Nat : k = Lookup(cr, c, 0)
  BY <1>1
<1>3. NonNegative(cost - k) \in Nat /\ NonNegative(k - cost) \in Nat
  <2>1. cost - k \in Int /\ k - cost \in Int
    OBVIOUS
  <2> QED
    BY <2>1, NonNegativeIs
<1>4. PICK n \in Nat : n = NonNegative(cost - k)
  BY <1>3
<1>5. PICK m \in Nat : m = NonNegative(k - cost)
  BY <1>3
<1>6. sv[c] \in Nat /\ Lookup(sv, c, 0) = sv[c]
  BY DEF Lookup
<1>7. PrefillServed(sv, cr, c, cost) = [d \in DOMAIN sv \cup {c} |-> IF d = c THEN sv[c] + n ELSE sv[d]]
  BY <1>2, <1>4, <1>6 DEF PrefillServed, Assoc
<1>8. CreditsLeft(cr, c, cost) = [d \in DOMAIN cr \cup {c} |-> IF d = c THEN m ELSE cr[d]]
  BY <1>2, <1>5 DEF CreditsLeft, Assoc
<1>9. sv[c] + n \in Nat /\ sv[c] <= sv[c] + n
  BY <1>6
<1>10. /\ PrefillServed(sv, cr, c, cost) \in [DOMAIN sv -> Nat]
       /\ \A d \in DOMAIN sv \ {c} : PrefillServed(sv, cr, c, cost)[d] = sv[d]
       /\ PrefillServed(sv, cr, c, cost)[c] = sv[c] + n
  BY <1>7, <1>9
<1>11. CreditsLeft(cr, c, cost) \in [DOMAIN cr \cup {c} -> Nat]
  BY <1>8
<1> QED
  BY <1>2, <1>4, <1>9, <1>10, <1>11

(* The charge of ExecutePrefill for one choice of its inputs.              *)
Charged(r, c, found, tok, old) ==
    LET hit     == Min({found, length[r] - 1})
        granted == IF tok > 0 THEN Granted(credits, tok, old) ELSE credits
        adj_hit == IF tok > 0 THEN AdjustedHit(hit, tok, old) ELSE hit
        cost    == PrefillCost(adj_hit, length[r] - adj_hit)
    IN  /\ tok <= found
        /\ (tok > 0) <=> (old # {})
        /\ served' = IF IsBilled(r) THEN PrefillServed(served, granted, c, cost) ELSE served
        /\ credits' = IF IsBilled(r) THEN CreditsLeft(granted, c, cost) ELSE granted

(* What a prefill is charged: the scoreboard and the credits stay tables   *)
(* of numbers, only the client of the request is charged, and only the     *)
(* cost of a split of the prompt into hits and misses.                     *)
LEMMA PrefillCharge ==
    ASSUME SchedInv, ExecutePrefill, NEW x, x = Head(batch.prefills)
    PROVE  /\ x \in Requests /\ x \in Range(batch.prefills) /\ ClientOf[x] \in DOMAIN served
           /\ served' \in [DOMAIN served -> Nat]
           /\ \A d \in DOMAIN served \ {ClientOf[x]} : served'[d] = served[d]
           /\ served[ClientOf[x]] <= served'[ClientOf[x]]
           /\ \/ served'[ClientOf[x]] = served[ClientOf[x]]
              \/ /\ ~ preempted[x]
                 /\ \E adj \in 0 .. length[x], credit \in Nat :
                      served'[ClientOf[x]] = served[ClientOf[x]]
                        + NonNegative(PrefillCost(adj, length[x] - adj) - credit)
           /\ DOMAIN credits' \subseteq Clients /\ credits' \in [DOMAIN credits' -> Nat]
<1> USE DEF SchedInv
<1>1. PICK c : c = ClientOf[x]
  OBVIOUS
<1>2. /\ batch.prefills \in Seq(Requests) /\ batch.prefills # <<>>
      /\ x \in Requests /\ x \in Range(batch.prefills)
  <2>1. batch.prefills \in Seq(Requests) /\ batch.prefills # <<>>
    BY ListType DEF ExecutePrefill
  <2>2. x \in Requests /\ 1 \in DOMAIN batch.prefills /\ batch.prefills[1] = x
    BY <2>1
  <2> QED
    BY <2>1, <2>2 DEF Range
<1>3. status[x] = "RUNNING" /\ c \in DOMAIN client_waiting_queues /\ c \in Clients
  <2>1. status[x] = "RUNNING"
    BY <1>2, WhereIs
  <2> QED
    BY <1>1, <1>2, <2>1, QueueAssumption DEF KnownInv
<1>4. /\ served \in [DOMAIN served -> Nat] /\ DOMAIN served = DOMAIN client_waiting_queues
      /\ DOMAIN credits \subseteq Clients /\ credits \in [DOMAIN credits -> Nat]
      /\ length[x] \in Nat /\ length[x] >= PromptLen[x] /\ PromptLen[x] \in Nat \ {0}
      /\ DOMAIN client_waiting_queues \subseteq Clients
  BY <1>2, SchedulerAssumption DEF TypeOK, TableInv
<1>5. PICK found \in 0 .. length[x], tok \in SharedTokens \cup {0},
           old \in SUBSET (DOMAIN client_waiting_queues \ {c}) : Charged(x, c, found, tok, old)
  <2>1. \E found \in 0 .. length[Head(batch.prefills)], tok \in SharedTokens \cup {0},
           old \in SUBSET (DOMAIN client_waiting_queues \ {ClientOf[Head(batch.prefills)]}) :
          Charged(Head(batch.prefills), ClientOf[Head(batch.prefills)], found, tok, old)
    BY DEF ExecutePrefill, Charged
  <2>2. Head(batch.prefills) = x /\ ClientOf[x] = c
    BY <1>1
  <2> QED
    BY <2>1, <2>2
<1>17. tok <= found /\ ((tok > 0) <=> (old # {}))
  BY <1>5 DEF Charged
<1>6. tok \in Nat /\ old \subseteq Clients
  BY <1>4, SchedulerAssumption
<1>7. PICK hit \in 0 .. length[x] :
        hit = Min({found, length[x] - 1}) /\ hit \in {found, length[x] - 1}
  <2>1. length[x] - 1 \in Nat /\ found \in Nat
    BY <1>4
  <2>2. PICK S : S = {found, length[x] - 1}
    OBVIOUS
  <2>3. Min(S) \in S
    BY <2>1, <2>2, LeastNat
  <2>4. Min(S) \in 0 .. length[x]
    BY <1>4, <2>1, <2>2, <2>3
  <2> QED
    BY <2>2, <2>3, <2>4
<1>8. PICK granted : granted = IF tok > 0 THEN Granted(credits, tok, old) ELSE credits
  OBVIOUS
<1>9. DOMAIN granted \subseteq Clients /\ granted \in [DOMAIN granted -> Nat]
  <2>1. CASE tok > 0
    <3>1. Granted(credits, tok, old) \in [DOMAIN credits \cup old -> Nat]
      BY <1>4, <1>17, <1>6, <2>1, GrantedIs
    <3> QED
      BY <1>4, <1>6, <1>8, <2>1, <3>1
  <2>2. CASE ~ (tok > 0)
    BY <1>4, <1>8, <2>2
  <2> QED
    BY <2>1, <2>2
<1>10. PICK adj \in 0 .. length[x] : adj = IF tok > 0 THEN AdjustedHit(hit, tok, old) ELSE hit
  <2>1. CASE tok > 0
    <3>1. Cardinality(old) \in Nat \ {0}
      BY <1>4, <1>17, <1>6, <2>1, GrantedIs
    <3>2. PICK k \in Nat \ {0} : k = Cardinality(old) + 1 /\ k >= 2
      <4>1. Cardinality(old) + 1 \in Nat \ {0} /\ Cardinality(old) + 1 >= 2
        BY <3>1
      <4> QED
        BY <4>1
    <3>3. tok \div k \in Nat /\ k * (tok \div k) <= tok
      BY <1>6, QuotientNat
    <3>4. AdjustedHit(hit, tok, old) = hit - tok \div k
      BY <3>2 DEF AdjustedHit
    <3>5. PICK share \in Nat : share = tok \div k
      BY <3>3
    <3>6. 2 * share <= tok
      <4>1. k - 2 \in Nat
        BY <3>2
      <4>2. (k - 2) * share \in Nat
        BY <4>1
      <4>3. k * share = 2 * share + (k - 2) * share
        OBVIOUS
      <4>4. k * share <= tok
        BY <3>3, <3>5
      <4> QED
        BY <1>6, <4>2, <4>3, <4>4
    <3>7. hit - share \in 0 .. length[x]
      BY <1>4, <1>6, <1>7, <1>17, <3>6
    <3> QED
      BY <2>1, <3>4, <3>5, <3>7
  <2>2. CASE ~ (tok > 0)
    BY <2>2
  <2> QED
    BY <2>1, <2>2
<1>11. PICK cost : cost = PrefillCost(adj, length[x] - adj)
  OBVIOUS
<1>12. cost \in Int
  <2>1. HitWeight \in Int /\ PrefillWeight \in Int
    BY QueueAssumption
  <2>2. PICK h \in Int : h = adj
    BY <1>4
  <2>3. PICK m \in Int : m = length[x] - h
    BY <1>4
  <2>4. cost = HitWeight * h + PrefillWeight * m
    BY <1>11, <2>2, <2>3 DEF PrefillCost
  <2> QED
    BY <2>1, <2>4
<1>13. /\ served' = IF IsBilled(x) THEN PrefillServed(served, granted, c, cost) ELSE served
       /\ credits' = IF IsBilled(x) THEN CreditsLeft(granted, c, cost) ELSE granted
  BY <1>5, <1>7, <1>8, <1>10, <1>11 DEF Charged
<1>14. PICK credit \in Nat : credit = Lookup(granted, c, 0)
  <2>1. Lookup(granted, c, 0) \in Nat
    BY <1>9 DEF Lookup
  <2> QED
    BY <2>1
<1>15. CASE IsBilled(x)
  <2>6. c \in DOMAIN served /\ served \in [DOMAIN served -> Nat] /\ granted \in [DOMAIN granted -> Nat]
    BY <1>3, <1>4, <1>9
  <2>7. /\ Lookup(granted, c, 0) \in Nat
        /\ PrefillServed(served, granted, c, cost) \in [DOMAIN served -> Nat]
        /\ \A d \in DOMAIN served \ {c} : PrefillServed(served, granted, c, cost)[d] = served[d]
        /\ served[c] <= PrefillServed(served, granted, c, cost)[c]
        /\ PrefillServed(served, granted, c, cost)[c]
             = served[c] + NonNegative(cost - Lookup(granted, c, 0))
        /\ NonNegative(cost - Lookup(granted, c, 0)) \in Nat
        /\ CreditsLeft(granted, c, cost) \in [DOMAIN granted \cup {c} -> Nat]
    BY <1>12, <2>6, PrefillServedIs, Zenon
  <2>1. /\ PrefillServed(served, granted, c, cost) \in [DOMAIN served -> Nat]
        /\ \A d \in DOMAIN served \ {c} : PrefillServed(served, granted, c, cost)[d] = served[d]
        /\ served[c] <= PrefillServed(served, granted, c, cost)[c]
        /\ PrefillServed(served, granted, c, cost)[c] = served[c] + NonNegative(cost - credit)
        /\ CreditsLeft(granted, c, cost) \in [DOMAIN granted \cup {c} -> Nat]
    BY <1>14, <2>7
  <2>2. served' = PrefillServed(served, granted, c, cost) /\ credits' = CreditsLeft(granted, c, cost)
    BY <1>13, <1>15
  <2>3. ~ preempted[x]
    BY <1>15 DEF IsBilled
  <2>4. served'[c] = served[c]
          + NonNegative(PrefillCost(adj, length[x] - adj) - credit)
    BY <1>11, <2>1, <2>2
  <2>5. DOMAIN credits' \subseteq Clients /\ credits' \in [DOMAIN credits' -> Nat]
    BY <1>3, <1>9, <2>1, <2>2
  <2> QED
    BY <1>1, <1>2, <1>3, <1>4, <2>1, <2>2, <2>3, <2>4, <2>5
<1>16. CASE ~ IsBilled(x)
  <2>1. served' = served /\ credits' = granted
    BY <1>13, <1>16
  <2>2. served[c] <= served[c]
    BY <1>3, <1>4
  <2> QED
    BY <1>1, <1>2, <1>3, <1>4, <1>9, <2>1, <2>2
<1> QED
  BY <1>15, <1>16

(* LLMEngine.step runs the scheduled batch.                                *)
LEMMA ExecuteKeeps ==
    ASSUME SchedInv, ExecutePrefill \/ ExecuteDecode
    PROVE  SchedInv' /\ ServedGrows
<1> USE DEF SchedInv
<1>1. CASE ExecutePrefill
  <2>1. PICK x : x = Head(batch.prefills)
    OBVIOUS
  <2>2. /\ ClientOf[x] \in DOMAIN served
        /\ served' \in [DOMAIN served -> Nat]
        /\ \A d \in DOMAIN served \ {ClientOf[x]} : served'[d] = served[d]
        /\ served[ClientOf[x]] <= served'[ClientOf[x]]
        /\ DOMAIN credits' \subseteq Clients /\ credits' \in [DOMAIN credits' -> Nat]
    BY <1>1, <2>1, PrefillCharge
  <2>3. DOMAIN served = DOMAIN client_waiting_queues /\ \A d \in DOMAIN served : served[d] \in Nat
    BY DEF TypeOK
  <2>4. phase = "execute" /\ ProcessOutputs(Range(batch.prefills))
    BY <1>1 DEF ExecutePrefill
  <2>5. PICK B : B = Range(batch.prefills)
    OBVIOUS
  <2>6. SchedInv'
    BY <2>2, <2>3, <2>4, <2>5, OutputsKeep
  <2>7. ASSUME NEW d \in DOMAIN served PROVE d \in DOMAIN served' /\ served[d] <= served'[d]
    BY <2>2, <2>3
  <2> QED
    BY <2>6, <2>7 DEF ServedGrows
<1>2. CASE ExecuteDecode
  <2>1. phase = "execute" /\ ProcessOutputs(Range(batch.decodes)) /\ UNCHANGED <<served, credits>>
    BY <1>2 DEF ExecuteDecode
  <2>2. /\ served' \in [DOMAIN client_waiting_queues -> Nat]
        /\ DOMAIN credits' \subseteq Clients /\ credits' \in [DOMAIN credits' -> Nat]
    BY <2>1 DEF TypeOK
  <2>3. PICK B : B = Range(batch.decodes)
    OBVIOUS
  <2>4. SchedInv'
    BY <2>1, <2>2, <2>3, OutputsKeep
  <2> QED
    BY <2>1, <2>4, SameServed
<1> QED
  BY <1>1, <1>2

(* The inductive step, stuttering included.                                *)
LEMMA StepKeeps ==
    ASSUME SchedInv, [Next]_vars
    PROVE  SchedInv' /\ ServedGrows
<1>1. ASSUME NEW r \in Requests, AddSeqGroup(r) PROVE SchedInv' /\ ServedGrows
  BY <1>1, AddKeeps
<1>2. ASSUME NEW r \in Requests, AbortSeqGroup(r) PROVE SchedInv' /\ ServedGrows
  BY <1>2, AbortKeeps
<1>3. CASE EngineStep
  <2>1. CASE BeginSchedule \/ EndPrefills \/ FailSwapOut \/ EndRunning \/ EndSwapped
    BY <2>1, PhaseKeeps
  <2>2. CASE IgnorePrompt
    BY <2>2, IgnoreKeeps
  <2>3. CASE AdmitPrefill
    BY <2>3, AdmitKeeps
  <2>4. CASE ScheduleDecode
    BY <2>4, DecodeKeeps
  <2>5. CASE PreemptByRecompute
    BY <2>5, RecomputeKeeps
  <2>6. CASE PreemptBySwap
    BY <2>6, SwapOutKeeps
  <2>7. CASE SwapIn
    BY <2>7, SwapInKeeps
  <2>8. CASE FailSwapped
    BY <2>8, FailKeeps
  <2>9. CASE Commit
    BY <2>9, CommitKeeps
  <2>10. CASE ExecutePrefill \/ ExecuteDecode
    BY <2>10, ExecuteKeeps
  <2> QED
    BY <1>3, <2>1, <2>2, <2>3, <2>4, <2>5, <2>6, <2>7, <2>8, <2>9, <2>10 DEF EngineStep
<1>4. CASE UNCHANGED vars
  <2>1. /\ UNCHANGED <<client_waiting_queues, served, credits, running, swapped, status, length,
                       preempted, phase, batch>>
        /\ UNCHANGED <<block_table, free_gpu, free_cpu>>
    BY <1>4 DEF vars
  <2>2. TypeOK'
    BY <2>1 DEF SchedInv, TypeOK
  <2>3. Scheduled' = Scheduled
    BY <2>1 DEF Scheduled
  <2>4. PhaseInv' /\ SeatInv' /\ KnownInv'
    BY <2>1, <2>3 DEF SchedInv, PhaseInv, SeatInv, KnownInv
  <2>5. TableInv'
    BY <2>1 DEF SchedInv, TableInv, NBlocks
  <2>6. BlockInv'
    BY <2>1, BlocksNow, BlocksNext DEF SchedInv
  <2>7. OnePlace'
    <3>1. Counts(client_waiting_queues, running, Scheduled, swapped,
                 batch.preempted, batch.swapped_out, status)
      BY PlacesNow DEF SchedInv
    <3> QED
      BY <2>1, <2>2, <2>3, <3>1, PlacesNext
  <2>8. ServedGrows
    BY <2>1, SameServed DEF SchedInv
  <2> QED
    BY <2>2, <2>4, <2>5, <2>6, <2>7, <2>8 DEF SchedInv
<1>5. CASE Terminated
  BY <1>4, <1>5 DEF Terminated
<1> QED
  BY <1>1, <1>2, <1>3, <1>4, <1>5 DEF Next

(* The invariant holds when the engine starts.                             *)
LEMMA InitHolds ==
    ASSUME Init
    PROVE  SchedInv
<1>1. /\ client_waiting_queues = [c \in {} |-> <<>>] /\ DOMAIN client_waiting_queues = {}
      /\ served = [c \in {} |-> 0] /\ credits = [c \in {} |-> 0] /\ DOMAIN credits = {}
      /\ running = <<>> /\ swapped = <<>> /\ status = [r \in Requests |-> "NEW"]
      /\ length = PromptLen /\ preempted = [r \in Requests |-> FALSE]
      /\ block_table = [r \in Requests |-> 0]
      /\ free_gpu = NumGpuBlocks /\ free_cpu = NumCpuBlocks /\ phase = "idle" /\ batch = NoBatch
  BY DEF Init
<1>2. /\ batch.prefills = <<>> /\ batch.decodes = <<>> /\ batch.preempted = <<>>
      /\ batch.swapped_out = <<>> /\ <<>> \in Seq(Requests) /\ Len(<<>>) = 0 /\ Range(<<>>) = {}
  BY <1>1 DEF NoBatch, Range
<1>3. TypeOK
  <2>1. batch \in [prefills : Seq(Requests), decodes : Seq(Requests),
                   preempted : Seq(Requests), swapped_out : Seq(Requests)]
    BY <1>1, <1>2 DEF NoBatch
  <2>2. /\ served \in [DOMAIN client_waiting_queues -> Nat]
        /\ DOMAIN credits \subseteq Clients /\ credits \in [DOMAIN credits -> Nat]
    BY <1>1
  <2>3. status \in [Requests -> Statuses] /\ phase \in Phases
    BY <1>1 DEF Statuses, Phases
  <2>4. /\ length \in [Requests -> Nat] /\ free_gpu \in Nat /\ free_cpu \in Nat
        /\ block_table \in [Requests -> Nat] /\ preempted \in [Requests -> BOOLEAN]
    BY <1>1, SchedulerAssumption
  <2> QED
    BY <1>1, <1>2, <2>1, <2>2, <2>3, <2>4 DEF TypeOK
<1>4. PhaseInv
  BY <1>1, <1>2 DEF PhaseInv
<1>5. Scheduled = <<>>
  <2>1. <<>> \o <<>> = <<>>
    OBVIOUS
  <2> QED
    BY <1>1, <1>2, <2>1 DEF Scheduled
<1>6. SeatInv /\ KnownInv
  <2>1. MaxNumSeqs \in Nat
    BY SchedulerAssumption
  <2> QED
    BY <1>1, <1>2, <1>5, <2>1 DEF SeatInv, KnownInv
<1>7. TableInv
  <2>1. \A r \in Requests : PromptLen[r] \in Nat
    BY SchedulerAssumption
  <2> QED
    BY <1>1, <1>2, <2>1 DEF TableInv
<1>8. BlockInv
  <2>1. \A G : G \subseteq Requests => Held(block_table, G) = 0
    BY <1>1, HeldNone
  <2>2. \A S : Having(status, S) \subseteq Requests
    BY DEF Having
  <2>3. NumGpuBlocks \in Nat /\ NumCpuBlocks \in Nat
    BY SchedulerAssumption
  <2>4. Held(block_table, Having(status, {"RUNNING"})) = 0
        /\ Held(block_table, Having(status, {"SWAPPED", "FINISHED"})) = 0
    BY <2>1, <2>2
  <2> QED
    BY <1>1, <2>3, <2>4, BlocksNow
<1>9. OnePlace
  <2>1. \A r : Times(r, <<>>) = 0
    BY TimesEmpty
  <2>2. Counts(client_waiting_queues, running, Scheduled, swapped,
               batch.preempted, batch.swapped_out, status)
    BY <1>1, <1>2, <1>5, <2>1 DEF Counts, InQueue
  <2> QED
    BY <1>3, <2>2, PlacesNow
<1> QED
  BY <1>3, <1>4, <1>6, <1>7, <1>8, <1>9 DEF SchedInv
-----------------------------------------------------------------------------
(***************************************************************************)
(* The theorems.                                                           *)
(***************************************************************************)
(* What the invariant says of the budget and, with recomputation, of the   *)
(* blocks.                                                                 *)
LEMMA InvSays ==
    ASSUME SchedInv
    PROVE  /\ TypeOK /\ OnePlace /\ BudgetHolds /\ BlockInv
           /\ PreemptionMode = "recompute" => BlocksConserved
<1> USE DEF SchedInv
<1>1. BudgetHolds
  <2> SUFFICES ASSUME phase = "execute"
               PROVE  /\ Len(running) <= MaxNumSeqs
                      /\ \A r \in Range(batch.prefills \o batch.decodes) : block_table[r] = NBlocks(r)
    BY DEF BudgetHolds
  <2>1. Scheduled = <<>> /\ Len(<<>>) = 0
    BY DEF Scheduled
  <2>2. running \in Seq(Requests) /\ Len(running) \in Nat /\ MaxNumSeqs \in Nat
    BY SchedulerAssumption DEF TypeOK
  <2>3. Len(running) <= MaxNumSeqs
    BY <2>1, <2>2 DEF SeatInv
  <2>4. batch.prefills \in Seq(Requests) /\ batch.decodes \in Seq(Requests)
    BY ListType
  <2>5. ASSUME NEW r \in Range(batch.prefills \o batch.decodes) PROVE block_table[r] = NBlocks(r)
    <3>1. PICK s \in Seq(Requests) : s = batch.prefills \o batch.decodes
      <4>1. batch.prefills \o batch.decodes \in Seq(Requests)
        BY <2>4
      <4> QED
        BY <4>1
    <3>6. r \in Range(s)
      BY <3>1
    <3>7. r \in Requests
      BY <3>6 DEF Range
    <3>2. r \in Requests /\ Times(r, s) # 0
      BY <3>6, <3>7, TimesType
    <3>3. Times(r, s) = Times(r, batch.prefills) + Times(r, batch.decodes)
      BY <2>4, <3>1, TimesCat
    <3>4. Times(r, batch.prefills) # 0 \/ Times(r, batch.decodes) # 0
      <4>1. Times(r, batch.prefills) = 0 /\ Times(r, batch.decodes) = 0 => Times(r, s) = 0
        BY <3>3
      <4> QED
        BY <3>2, <4>1
    <3>5. r \in Range(batch.prefills) \cup Range(batch.decodes)
      BY <2>4, <3>4, TimesType
    <3> QED
      BY <3>2, <3>5 DEF TableInv
  <2> QED
    BY <2>3, <2>5
<1>2. ASSUME PreemptionMode = "recompute" PROVE BlocksConserved
  <2>1. \A S : Having(status, S) = {r \in Requests : status[r] \in S}
    BY DEF Having
  <2>2. \A r \in Having(status, {"SWAPPED", "FINISHED"}) : block_table[r] = 0
    BY <1>2, <2>1 DEF TableInv
  <2>3. \A r \in Having(status, {"SWAPPED"}) : block_table[r] = 0
    BY <1>2, <2>1 DEF TableInv
  <2>4. Held(block_table, Having(status, {"SWAPPED", "FINISHED"})) = 0
    BY <2>2, HeldNone
  <2>5. Held(block_table, Having(status, {"SWAPPED"})) = 0
    BY <2>3, HeldNone
  <2>6. /\ free_gpu + Held(block_table, Having(status, {"RUNNING"})) = NumGpuBlocks
        /\ free_cpu + Held(block_table, Having(status, {"SWAPPED"})) = NumCpuBlocks
    BY <2>4, <2>5, BlocksNow
  <2>7. \A st : Having(status, {st}) = {r \in Requests : status[r] = st}
    BY DEF Having
  <2>8. /\ free_gpu + Cardinality(BlocksOf({r \in Requests : status[r] = "RUNNING"})) = NumGpuBlocks
        /\ free_cpu + Cardinality(BlocksOf({r \in Requests : status[r] = "SWAPPED"})) = NumCpuBlocks
    BY <2>6, <2>7 DEF Held, BlocksIn, BlocksOf
  <2> QED
    BY <2>8 DEF BlocksConserved
<1> QED
  BY <1>1, <1>2

(* The inductive invariant: TypeOK, the place of every group, the seats,   *)
(* the block tables and the block counts keep each other up.  OnePlace     *)
(* alone is not inductive: that a preempted group is in no other list      *)
(* follows from the phase, and that the counts never go negative from the  *)
(* tables.                                                                 *)
THEOREM SchedulerInvariance == Spec => []SchedInv
<1>1. Init => SchedInv
  BY InitHolds
<1>2. SchedInv /\ [Next]_vars => SchedInv'
  BY StepKeeps
<1> QED
  BY <1>1, <1>2, PTL DEF Spec

(* Every client with a queue is on the scoreboard, and no count of blocks  *)
(* goes negative (_schedule_default, BlockSpaceManagerV1).                 *)
THEOREM SchedulerTypes == Spec => []TypeOK
<1>1. SchedInv => TypeOK
  BY InvSays
<1> QED
  BY <1>1, SchedulerInvariance, PTL

(* Adding, aborting, preempting and swapping neither lose nor duplicate a  *)
(* group: it is in exactly the queue that its status names.                *)
THEOREM GroupsHaveOnePlace == Spec => []OnePlace
<1>1. SchedInv => OnePlace
  BY InvSays
<1> QED
  BY <1>1, SchedulerInvariance, PTL

(* The assertion at the end of _schedule_default: no more than             *)
(* max_num_seqs groups run, and each has the blocks for its tokens.        *)
THEOREM BudgetIsKept == Spec => []BudgetHolds
<1>1. SchedInv => BudgetHolds
  BY InvSays
<1> QED
  BY <1>1, SchedulerInvariance, PTL

(* No block is lost or handed out twice: those that are not free belong to *)
(* the running groups on the GPU and, on the CPU, to the swapped ones and  *)
(* those that failed while swapped out, whose tables are never freed.      *)
THEOREM BlocksAreAccounted == Spec => []BlockInv
<1>1. SchedInv => BlockInv
  BY InvSays
<1> QED
  BY <1>1, SchedulerInvariance, PTL

(* With recomputation nothing is left behind at all.                       *)
THEOREM BlocksAreConserved ==
    ASSUME PreemptionMode = "recompute"
    PROVE  Spec => []BlocksConserved
<1>1. SchedInv => BlocksConserved
  BY InvSays
<1> QED
  BY <1>1, SchedulerInvariance, PTL

(* Neither a lift nor a charge nor anything else lowers a client on the    *)
(* scoreboard (CPIReqQueue.append, update_prefill_served, decode charge).  *)
THEOREM ScoreboardGrows == MCSpec => ServedMonotone
<1>1. MCInit => SchedInv
  BY InitHolds DEF MCInit
<1>2. SchedInv /\ [MCNext]_mcVars => SchedInv' /\ ServedGrows
  BY StepKeeps DEF MCNext, mcVars
<1>3. ServedGrows =>
        [\A c \in DOMAIN served : c \in DOMAIN served' /\ served[c] <= served'[c]]_mcVars
  BY DEF ServedGrows
<1> QED
  BY <1>1, <1>2, <1>3, PTL DEF MCSpec, ServedMonotone
=============================================================================
