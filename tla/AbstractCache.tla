--------------------------- MODULE AbstractCache ---------------------------
(***************************************************************************)
(* What a storage backend promises to the cache engine: a map from keys to *)
(* data that may forget but never lies.  A chunk becomes visible only when *)
(* a put of its key is finished, with the data of that key; queued puts    *)
(* are begun in the order in which they were accepted, each once.  Chunks  *)
(* may be forgotten at any time.  A put may be given up.                   *)
(***************************************************************************)
EXTENDS Dicts, Sequences

CONSTANTS
    Keys,      \* the keys; the data of a chunk is named by its key
    Writers    \* the threads that carry out puts

VARIABLES
    held,      \* what get returns: key -> data
    queue,     \* the keys of the puts that were accepted and not yet begun
    writing    \* for each writer, the keys of the put it carries out (one or none)

cache == <<held, queue, writing>>

Init ==
    /\ held = [k \in {} |-> k]
    /\ queue = <<>>
    /\ writing = [w \in Writers |-> {}]

(* The cache keeps only the keys of K.                                     *)
Keep(K) == held' = [k \in K |-> held[k]]

Accept(k) ==
    /\ queue' = Append(queue, k)
    /\ UNCHANGED <<held, writing>>

BeginWith(w, k) ==
    /\ writing[w] = {}
    /\ writing' = [writing EXCEPT ![w] = {k}]
    /\ \E K \in SUBSET DOMAIN held : Keep(K)

BeginQueued(w) ==
    /\ queue # <<>>
    /\ BeginWith(w, Head(queue))
    /\ queue' = Tail(queue)

BeginBlocking(w, k) == BeginWith(w, k) /\ UNCHANGED queue

Finish(w) ==
    /\ \E k \in writing[w] : held' = Assoc(held, k, k)
    /\ writing' = [writing EXCEPT ![w] = {}]
    /\ UNCHANGED queue

GiveUp(w) ==
    /\ writing' = [writing EXCEPT ![w] = {}]
    /\ UNCHANGED <<held, queue>>

Forget ==
    /\ \E K \in SUBSET DOMAIN held : Keep(K)
    /\ UNCHANGED <<queue, writing>>

Next ==
    \/ \E k \in Keys : Accept(k)
    \/ \E w \in Writers : BeginQueued(w) \/ Finish(w) \/ GiveUp(w)
    \/ \E w \in Writers, k \in Keys : BeginBlocking(w, k)
    \/ Forget

Spec == Init /\ [][Next]_cache
=============================================================================
