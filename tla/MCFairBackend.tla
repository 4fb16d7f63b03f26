--------------------------- MODULE MCFairBackend ---------------------------
(***************************************************************************)
(* The instances of FairBackend that TLC checks.                           *)
(***************************************************************************)
EXTENDS FairBackend, TLC

(* Every chunk fills its pool chunk, or is the short chunk at the end of a *)
(* prompt.                                                                 *)
FullChunks == [k \in Keys |-> SizePerChunk]
ShortChunks == [k \in Keys |-> 1]

(* What a retrieval hands to update_after_get and to later puts: nothing,  *)
(* one chunk, or a prefix of two.                                          *)
NothingRetrieved == {<<>>}
UpToOneRetrieved == {<<>>, <<1>>}
UpToTwoRetrieved == {<<>>, <<1>>, <<1, 2>>}

ClientSymmetry == Permutations(Clients)
=============================================================================
