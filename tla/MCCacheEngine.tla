--------------------------- MODULE MCCacheEngine ---------------------------
(***************************************************************************)
(* The instances of CacheEngine that TLC checks, with history variables    *)
(* for two of its properties.                                              *)
(***************************************************************************)
EXTENDS CacheEngine

CONSTANTS c1, c2

FullChunks == [k \in Keys |-> SizePerChunk]

Prefill(c, p) == [client |-> c, prompt |-> p, lambda |-> 1, aligned |-> TRUE]
Decode(c, p, aligned) == [client |-> c, prompt |-> p, lambda |-> 1, aligned |-> aligned]

(* A prompt alone, two clients with the same prompt in one batch, and one  *)
(* client twice in a batch, with two prompts that share a prefix.          *)
SharedPrompts ==
    {<<Prefill(c1, <<1, 2>>)>>,
     <<Prefill(c1, <<1, 2>>), Prefill(c2, <<1, 2>>)>>,
     <<Prefill(c2, <<1, 3>>), Prefill(c2, <<1, 2>>)>>}
Decodes ==
    {<<Decode(c1, <<1, 2>>, TRUE), Decode(c2, <<1, 3>>, TRUE)>>,
     <<Decode(c1, <<1, 2>>, FALSE), Decode(c2, <<1, 3>>, TRUE)>>}
PromptPrefixes == {<<>>, <<1>>, <<1, 2>>, <<1, 3>>}

VARIABLES
    attributed,   \* <<key, client>>: the client was charged as a newcomer to
                  \* the entry the key has now
    evicted       \* keys evicted or refused since the store began

mcVars == <<allVars, attributed, evicted>>

MCInit == EngineInit /\ attributed = {} /\ evicted = {}

(* A new entry starts with no newcomers.                                   *)
Registered == {k \in DOMAIN dict' : k \notin DOMAIN dict}
Newcomers == {<<GotKeys[i], Current.client>> : i \in {j \in DOMAIN step'.info : Joined(step'.info[j])}}
BeingPut == {job'[t].key : t \in {u \in Threads : job'[u].pc \in PutPcs}}
Refused == {job[t].key : t \in {u \in Threads : Putting(u, {"illegal"})}}
Lost == ((DOMAIN dict \ DOMAIN dict') \ BeingPut) \cup Refused
Attributes == step.pc = "attribute" /\ step'.pc = "update"

MCNext ==
    /\ EngineNext
    /\ attributed' = {a \in attributed : a[1] \notin Registered}
                      \cup (IF Attributes THEN Newcomers ELSE {})
    /\ evicted' = IF step.pc = "store" THEN {} ELSE evicted \cup Lost

MCSpec ==
    /\ MCInit /\ [][MCNext]_mcVars
    /\ WF_mcVars(EngineStep /\ MCNext)
    /\ WF_mcVars(Worker /\ UNCHANGED engineVars /\ MCNext)

(* A client pays the newcomer's part of a chunk once for as long as the    *)
(* chunk stays cached: the update that follows the attribution, in another *)
(* critical section, makes it a sharer.                                    *)
AttributedOnce == [][Attributes => Newcomers \cap attributed = {}]_mcVars

(* "Store the KV cache of the tokens into the cache engine": when store    *)
(* ends for a sequence, each chunk of its prompt is cached, or queued or   *)
(* being copied, or was evicted or refused meanwhile.  The chunks that     *)
(* lookup found are not stored again, and the worker runs in between.      *)
Pending(k) ==
    \/ \E i \in DOMAIN put_queue : put_queue[i].key = k
    \/ \E t \in Threads : Putting(t, PutPcs) /\ job[t].key = k
StoreLeavesNoHole ==
    [][(step.pc \in {"lookup", "contains", "put"} /\ step'.pc \in {"idle", "store"}) =>
          \A k \in Range(Prompt) :
              k \in DOMAIN dict' \/ Pending(k)' \/ k \in evicted']_mcVars
=============================================================================
