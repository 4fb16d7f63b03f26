-------------------------- MODULE MCHybridBackend --------------------------
(***************************************************************************)
(* HybridBackend with the history of what its callers know to be cached,   *)
(* and the constants that a configuration file cannot write.               *)
(***************************************************************************)
EXTENDS HybridBackend

CONSTANTS k1, k2, other

VARIABLE known     \* keys that a call of this instance stored, found or returned

MCMine == {k1, k2}
MCBatches == {<<k1, k2>>}

knownVars == <<hybridVars, known>>

Learn ==
    known' = IF At("idle") \/ call'.pc # "idle" THEN known
             ELSE known \cup DOMAIN call.got \cup (IF IsPut THEN Range(call.keys) ELSE {})

MCInit == HybridInit /\ known = {}
MCNext == HybridNext /\ Learn
MCSpec ==
    /\ MCInit /\ [][MCNext]_knownVars
    /\ WF_knownVars(Main /\ Learn) /\ \A c \in Conns : WF_knownVars(Server(c) /\ Learn)

(* A chunk that a caller stored or read once is found by all its later     *)
(* reads: when the local store evicts it, it comes back from the server,   *)
(* although no put is acknowledged.                                        *)
Returning == call.pc = "query" /\ call.todo = <<>>
NothingForgotten ==
    Returning /\ call.op # "prefetch" => known \cap Range(call.keys) \subseteq DOMAIN call.got
=============================================================================
