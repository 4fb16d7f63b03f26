--------------------------- MODULE MCLocalBackend ---------------------------
(***************************************************************************)
(* LocalBackend with the history of its uses.                              *)
(***************************************************************************)
EXTENDS LocalBackend

VARIABLES
    clock,     \* how many uses there were
    lastUse    \* for each key, when it was last stored or read, 0 for never

history == <<clock, lastUse>>
usedVars == <<localVars, history>>

UsedInit == LocalInit /\ clock = 0 /\ lastUse = [k \in Keys |-> 0]

Use(k) == clock' = clock + 1 /\ lastUse' = [lastUse EXCEPT ![k] = clock + 1]
StoresNew == job["worker"].pc = "publish" /\ job'["worker"].pc = "idle"

UsedNext ==
    \/ \E k \in Keys : Get(k) /\ IF k \in DOMAIN dict THEN Use(k) ELSE UNCHANGED history
    \/ LocalWorker /\ IF StoresNew THEN Use(job["worker"].key) ELSE UNCHANGED history
    \/ (Close \/ Terminated \/ \E k \in Keys : EnqueuePut(k)) /\ UNCHANGED history

UsedSpec == UsedInit /\ [][UsedNext]_usedVars /\ WF_usedVars(LocalWorker /\ UsedNext)

(* "Update cache recency when a cache is used": the victims of a put are   *)
(* the chunks that were stored or read least recently, counting the reads  *)
(* that happened while earlier puts were in progress.                      *)
EvictsLeastRecent ==
    [][\A t \in Threads :
          (job[t].pc = "idle" /\ job'[t].pc \in {"evict", "old"}) =>
              \A v \in Range(job'[t].evict), k \in DOMAIN dict \ Range(job'[t].evict) :
                  lastUse[v] < lastUse[k]]_usedVars
=============================================================================
