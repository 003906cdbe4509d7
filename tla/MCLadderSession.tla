---------------------------- MODULE MCLadderSession ----------------------------
(* A small instance of LadderSession, for what its comments say of the count. *)
EXTENDS LadderSession

(* The count of the day grows once for a rating: the rows that are settled  *)
(* are said to keep a repeated answer from being counted again              *)
(* (settlementCountedRef).  A request that is answered after the user left  *)
(* counts, but its row is lost; when the word is done again, so is the count. *)
QuotaCountsOnce == stored.count <= Cardinality(answers)
=============================================================================
