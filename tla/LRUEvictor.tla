----------------------------- MODULE LRUEvictor -----------------------------
(***************************************************************************)
(* What LRUEvictor (storage_backend/evictor/lru_evictor.py) computes, for  *)
(* the memory and the disk backend.  The keys of the OrderedDict that both *)
(* keep are a sequence, oldest first.  Sizes count chunks of one size.     *)
(***************************************************************************)
EXTENDS Integers, Sequences

(* update_on_put: how many chunks are too many when one is added.          *)
(* Faulty variant: the new chunk is not counted.                           *)
ExcessWithoutNew(current, capacity) == current - capacity
Excess(current, capacity) == current + 1 - capacity

(* update_on_put: the oldest keys go; next() on the exhausted dictionary   *)
(* raises StopIteration.                                                   *)
RunsOut(order, current, capacity) == Excess(current, capacity) > Len(order)
Victims(order, current, capacity) == SubSeq(order, 1, Excess(current, capacity))

(* update_on_put: the size after the victims were taken off, and the new   *)
(* chunk added unless the iteration ran out.                               *)
SizeAfterPut(order, current, capacity) ==
    IF RunsOut(order, current, capacity)
    THEN current - Len(order)
    ELSE current - Len(Victims(order, current, capacity)) + 1

(* dict.pop(key): what is behind the key moves up.  dict[key] = v keeps    *)
(* the place of an old key.                                                *)
Popped(order, k) ==
    IF \A i \in DOMAIN order : order[i] # k
    THEN order
    ELSE LET p == CHOOSE i \in DOMAIN order : order[i] = k
         IN  [i \in 1 .. Len(order) - 1 |-> order[IF i < p THEN i ELSE i + 1]]
Inserted(order, k) ==
    IF \E i \in DOMAIN order : order[i] = k THEN order ELSE Append(order, k)

(* update_on_get: move_to_end.  Faulty variant: the key stays where it is. *)
MovedNowhere(order, k) == order
MovedToEnd(order, k) == Append(Popped(order, k), k)
=============================================================================
