------------------------- MODULE LRUEvictor_proofs -------------------------
(***************************************************************************)
(* What the operations of an OrderedDict do to the sequence of its keys,   *)
(* for the memory and the disk backend.                                    *)
(***************************************************************************)
EXTENDS LRUEvictor, Functions, FiniteSetTheorems, SequenceTheorems, TLAPS

(* A dictionary has each key once.                                         *)
Distinct(s) == \A i, j \in DOMAIN s : s[i] = s[j] => i = j

(* pop of a key that is there: one place less, and the others stay.        *)
LEMMA PoppedPresent ==
    ASSUME NEW S, NEW s \in Seq(S), Distinct(s), NEW k \in Range(s)
    PROVE  /\ Popped(s, k) \in Seq(S)
           /\ Len(Popped(s, k)) = Len(s) - 1
           /\ Distinct(Popped(s, k))
           /\ Range(Popped(s, k)) = Range(s) \ {k}
<1>1. PICK p \in DOMAIN s : p = CHOOSE i \in DOMAIN s : s[i] = k
  BY DEF Range
<1>2. s[p] = k
  BY <1>1 DEF Range
<1>3. p \in 1 .. Len(s) /\ Len(s) \in Nat /\ DOMAIN s = 1 .. Len(s) /\ \A i \in 1 .. Len(s) : s[i] \in S
  BY <1>1
<1> DEFINE q == [i \in 1 .. Len(s) - 1 |-> s[IF i < p THEN i ELSE i + 1]]
<1>4. Popped(s, k) = q
  BY <1>1, <1>2 DEF Popped
<1>5. q \in Seq(S) /\ Len(q) = Len(s) - 1 /\ DOMAIN q = 1 .. Len(s) - 1
  <2>1. \A i \in 1 .. Len(s) - 1 : q[i] \in S
    BY <1>3
  <2> QED
    BY <1>3, <2>1
<1>6. Distinct(q)
  <2>1. SUFFICES ASSUME NEW i \in 1 .. Len(s) - 1, NEW j \in 1 .. Len(s) - 1, q[i] = q[j]
                 PROVE  i = j
    BY <1>5 DEF Distinct
  <2> QED
    BY <1>3, <2>1 DEF Distinct
<1>7. Range(q) \subseteq Range(s) \ {k}
  <2>1. SUFFICES ASSUME NEW i \in 1 .. Len(s) - 1
                 PROVE  q[i] \in Range(s) /\ q[i] # k
    BY <1>5 DEF Range
  <2> QED
    BY <1>2, <1>3, <2>1 DEF Range, Distinct
<1>8. Range(s) \ {k} \subseteq Range(q)
  <2>1. SUFFICES ASSUME NEW j \in 1 .. Len(s), s[j] # k
                 PROVE  s[j] \in Range(q)
    BY <1>3 DEF Range
  <2>2. j # p
    BY <1>2, <2>1
  <2>3. CASE j < p
    <3>1. j \in 1 .. Len(s) - 1 /\ q[j] = s[j]
      BY <1>3, <2>3
    <3> QED
      BY <1>5, <3>1 DEF Range
  <2>4. CASE j > p
    <3>1. j - 1 \in 1 .. Len(s) - 1 /\ q[j - 1] = s[j]
      BY <1>3, <2>4
    <3> QED
      BY <1>5, <3>1 DEF Range
  <2> QED
    BY <1>3, <2>2, <2>3, <2>4
<1> QED
  BY <1>4, <1>5, <1>6, <1>7, <1>8

(* pop(key, None) of a key that is not there.                              *)
LEMMA PoppedAbsent ==
    ASSUME NEW S, NEW s \in Seq(S), NEW k, k \notin Range(s)
    PROVE  Popped(s, k) = s
BY DEF Popped, Range

(* A new key at the end.                                                   *)
LEMMA AppendedKey ==
    ASSUME NEW S, NEW s \in Seq(S), Distinct(s), NEW k \in S, k \notin Range(s)
    PROVE  /\ Append(s, k) \in Seq(S)
           /\ Len(Append(s, k)) = Len(s) + 1
           /\ Distinct(Append(s, k))
           /\ Range(Append(s, k)) = Range(s) \cup {k}
<1> DEFINE q == Append(s, k)
<1>1. /\ q \in Seq(S) /\ Len(q) = Len(s) + 1 /\ Len(s) \in Nat
      /\ DOMAIN s = 1 .. Len(s) /\ DOMAIN q = 1 .. Len(s) + 1
      /\ q[Len(s) + 1] = k /\ \A i \in 1 .. Len(s) : q[i] = s[i]
  OBVIOUS
<1> HIDE DEF q
<1>2. Distinct(q)
  BY <1>1 DEF Distinct, Range
<1>3. Range(q) \subseteq Range(s) \cup {k}
  BY <1>1 DEF Range
<1>4. Range(s) \cup {k} \subseteq Range(q)
  <2>1. k \in Range(q)
    BY <1>1 DEF Range
  <2>2. ASSUME NEW i \in 1 .. Len(s) PROVE s[i] \in Range(q)
    <3>1. i \in DOMAIN q /\ q[i] = s[i]
      BY <1>1
    <3> QED
      BY <3>1 DEF Range
  <2> QED
    BY <1>1, <2>1, <2>2 DEF Range
<1> QED
  BY <1>1, <1>2, <1>3, <1>4 DEF q

(* dict[key] = v.                                                          *)
LEMMA InsertedKey ==
    ASSUME NEW S, NEW s \in Seq(S), Distinct(s), NEW k \in S
    PROVE  /\ Inserted(s, k) \in Seq(S)
           /\ Distinct(Inserted(s, k))
           /\ Range(Inserted(s, k)) = Range(s) \cup {k}
           /\ Len(Inserted(s, k)) = IF k \in Range(s) THEN Len(s) ELSE Len(s) + 1
<1>1. CASE k \in Range(s)
  <2>1. Inserted(s, k) = s /\ Range(s) = Range(s) \cup {k}
    BY <1>1 DEF Inserted, Range
  <2> QED
    BY <1>1, <2>1
<1>2. CASE k \notin Range(s)
  <2>1. Inserted(s, k) = Append(s, k)
    BY <1>2 DEF Inserted, Range
  <2> QED
    BY <1>2, <2>1, AppendedKey
<1> QED
  BY <1>1, <1>2

(* move_to_end.                                                            *)
LEMMA MovedKey ==
    ASSUME NEW S, NEW s \in Seq(S), Distinct(s), NEW k \in Range(s)
    PROVE  /\ MovedToEnd(s, k) \in Seq(S)
           /\ Len(MovedToEnd(s, k)) = Len(s)
           /\ Distinct(MovedToEnd(s, k))
           /\ Range(MovedToEnd(s, k)) = Range(s)
<1> DEFINE q == Popped(s, k)
<1>1. /\ q \in Seq(S) /\ Len(q) = Len(s) - 1 /\ Len(s) \in Nat
      /\ Distinct(q) /\ Range(q) = Range(s) \ {k}
  BY PoppedPresent
<1> HIDE DEF q
<1>2. k \in S /\ k \notin Range(q)
  <2>1. k \in S
    BY DEF Range
  <2> QED
    BY <1>1, <2>1
<1>3. /\ Append(q, k) \in Seq(S) /\ Len(Append(q, k)) = Len(q) + 1
      /\ Distinct(Append(q, k)) /\ Range(Append(q, k)) = Range(q) \cup {k}
  BY <1>1, <1>2, AppendedKey
<1>4. MovedToEnd(s, k) = Append(q, k)
  BY DEF MovedToEnd, q
<1>5. (Range(s) \ {k}) \cup {k} = Range(s)
  OBVIOUS
<1>6. Len(q) + 1 = Len(s)
  BY <1>1
<1> QED
  BY <1>1, <1>3, <1>4, <1>5, <1>6

(* The dictionary has as many keys as its sequence has places.             *)
LEMMA LenIsCardinality ==
    ASSUME NEW S, NEW s \in Seq(S), Distinct(s)
    PROVE  IsFiniteSet(Range(s)) /\ Cardinality(Range(s)) = Len(s)
<1>1. Len(s) \in Nat /\ DOMAIN s = 1 .. Len(s) /\ s \in [1 .. Len(s) -> Range(s)]
  BY DEF Range
<1>2. s \in Surjection(1 .. Len(s), Range(s)) /\ s \in Injection(1 .. Len(s), Range(s))
  <2>1. \A y \in Range(s) : \E x \in 1 .. Len(s) : s[x] = y
    BY <1>1 DEF Range
  <2>2. \A x, y \in 1 .. Len(s) : s[x] = s[y] => x = y
    BY <1>1 DEF Distinct
  <2> QED
    BY <1>1, <2>1, <2>2 DEF Surjection, Injection, IsInjective
<1>3. IsFiniteSet(1 .. Len(s)) /\ Cardinality(1 .. Len(s)) = Len(s)
  <2>1. PICK n \in Nat : n = Len(s)
    BY <1>1
  <2>2. 1 \in Int /\ n \in Int
    OBVIOUS
  <2>3. /\ IsFiniteSet(1 .. n)
        /\ Cardinality(1 .. n) = IF 1 > n THEN 0 ELSE n - 1 + 1
    BY <2>2, FS_Interval
  <2>4. Cardinality(1 .. n) = n
    BY <2>3
  <2> QED
    BY <2>1, <2>3, <2>4
<1> QED
  BY <1>2, <1>3, FS_Surjection

(* Disjoint sets add up.                                                   *)
LEMMA DisjointUnion ==
    ASSUME NEW S, NEW T, IsFiniteSet(S), IsFiniteSet(T), S \cap T = {}
    PROVE  IsFiniteSet(S \cup T) /\ Cardinality(S \cup T) = Cardinality(S) + Cardinality(T)
<1>1. /\ IsFiniteSet(S \cup T)
      /\ Cardinality(S \cup T) = Cardinality(S) + Cardinality(T) - Cardinality(S \cap T)
  BY FS_Union
<1>2. Cardinality(S \cap T) = 0
  BY FS_EmptySet
<1>3. Cardinality(S) \in Nat /\ Cardinality(T) \in Nat
  BY FS_CardinalityType
<1> QED
  BY <1>1, <1>2, <1>3

(* Sizes of the evictor: with room for at least one chunk and no more      *)
(* counted than fit, at most one key has to go.                            *)
LEMMA PutSizes ==
    ASSUME NEW S, NEW s \in Seq(S), NEW current \in Nat, NEW capacity \in Nat \ {0},
           current <= capacity, ~RunsOut(s, current, capacity)
    PROVE  LET v == Victims(s, current, capacity)
           IN  /\ v \in Seq(S) /\ Len(v) <= 1
               /\ \A i \in DOMAIN v : v[i] \in Range(s)
               /\ SizeAfterPut(s, current, capacity) = current + 1 - Len(v)
               /\ SizeAfterPut(s, current, capacity) <= capacity
               /\ Len(v) <= Len(s)
<1> DEFINE v == Victims(s, current, capacity)
<1>1. Len(s) \in Nat /\ current + 1 - capacity <= 1 /\ current + 1 - capacity <= Len(s)
  BY DEF RunsOut, Excess
<1>2. CASE current = capacity
  <2>1. v = SubSeq(s, 1, 1) /\ Len(s) >= 1
    BY <1>1, <1>2 DEF Victims, Excess
  <2>2. v \in Seq(S) /\ Len(v) = 1 /\ v[1] = s[1] /\ s[1] \in Range(s)
    BY <2>1 DEF Range
  <2>3. \A i \in DOMAIN v : v[i] \in Range(s)
    BY <2>2
  <2> HIDE DEF v
  <2>4. SizeAfterPut(s, current, capacity) = current + 1 - Len(v)
    BY <2>2 DEF SizeAfterPut, v
  <2> QED
    BY <1>1, <1>2, <2>1, <2>2, <2>3, <2>4 DEF v
<1>3. CASE current < capacity
  <2>1. v = <<>>
    <3>1. Excess(current, capacity) \in Int /\ Excess(current, capacity) <= 0
      BY <1>3 DEF Excess
    <3> QED
      BY <3>1 DEF Victims
  <2>2. v \in Seq(S) /\ Len(v) = 0 /\ \A i \in DOMAIN v : v[i] \in Range(s)
    BY <2>1
  <2> HIDE DEF v
  <2>3. SizeAfterPut(s, current, capacity) = current + 1 - Len(v)
    BY <2>2 DEF SizeAfterPut, v
  <2> QED
    BY <1>1, <1>3, <2>2, <2>3 DEF v
<1> QED
  BY <1>2, <1>3

(***************************************************************************)
(* The sequence is sorted by the times of the last uses.                   *)
(***************************************************************************)
Aged(s, time) == \A i, j \in DOMAIN s : i < j => time[s[i]] < time[s[j]]

(* pop does not change who is older.                                       *)
LEMMA PoppedAged ==
    ASSUME NEW S, NEW s \in Seq(S), NEW time, Aged(s, time), NEW k \in Range(s)
    PROVE  Aged(Popped(s, k), time)
<1>1. PICK p \in DOMAIN s : p = CHOOSE i \in DOMAIN s : s[i] = k
  BY DEF Range
<1>2. s[p] = k
  BY <1>1 DEF Range
<1>3. p \in 1 .. Len(s) /\ Len(s) \in Nat /\ DOMAIN s = 1 .. Len(s)
  BY <1>1
<1> DEFINE q == [i \in 1 .. Len(s) - 1 |-> s[IF i < p THEN i ELSE i + 1]]
           f == [i \in 1 .. Len(s) - 1 |-> IF i < p THEN i ELSE i + 1]
<1>4. Popped(s, k) = q
  BY <1>1, <1>2 DEF Popped
<1>5. SUFFICES ASSUME NEW i \in 1 .. Len(s) - 1, NEW j \in 1 .. Len(s) - 1, i < j
               PROVE  time[q[i]] < time[q[j]]
  BY <1>4 DEF Aged
<1>6. f[i] \in DOMAIN s /\ f[j] \in DOMAIN s /\ f[i] < f[j]
  BY <1>3, <1>5
<1>7. q[i] = s[f[i]] /\ q[j] = s[f[j]]
  OBVIOUS
<1> HIDE DEF q, f
<1> QED
  BY <1>6, <1>7 DEF Aged

(* A key that is used now goes to the end.                                 *)
LEMMA AppendedAged ==
    ASSUME NEW S, NEW s \in Seq(S), NEW time, Aged(s, time), NEW k \in S, k \notin Range(s),
           NEW now, time[k] = now, \A x \in Range(s) : time[x] < now
    PROVE  Aged(Append(s, k), time)
<1> DEFINE q == Append(s, k)
<1>1. /\ Len(s) \in Nat /\ DOMAIN s = 1 .. Len(s) /\ DOMAIN q = 1 .. Len(s) + 1
      /\ q[Len(s) + 1] = k /\ \A i \in 1 .. Len(s) : q[i] = s[i]
  OBVIOUS
<1> HIDE DEF q
<1>2. SUFFICES ASSUME NEW i \in 1 .. Len(s) + 1, NEW j \in 1 .. Len(s) + 1, i < j
               PROVE  time[q[i]] < time[q[j]]
  BY <1>1 DEF Aged, q
<1>3. i \in 1 .. Len(s) /\ q[i] = s[i] /\ s[i] \in Range(s)
  BY <1>1, <1>2 DEF Range
<1>4. CASE j = Len(s) + 1
  BY <1>1, <1>3, <1>4
<1>5. CASE j \in 1 .. Len(s)
  BY <1>1, <1>2, <1>3, <1>5 DEF Aged
<1> QED
  BY <1>1, <1>2, <1>4, <1>5

(* A key that is not in the sequence may be used.                          *)
LEMMA OtherAged ==
    ASSUME NEW K, NEW s \in Seq(K), NEW time \in [K -> Nat], Aged(s, time), NEW k, k \notin Range(s), NEW now
    PROVE  Aged(s, [time EXCEPT ![k] = now])
<1>1. \A i \in DOMAIN s : s[i] \in K /\ s[i] # k
  BY DEF Range
<1> QED
  BY <1>1 DEF Aged
=============================================================================
