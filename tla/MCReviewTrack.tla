---------------------------- MODULE MCReviewTrack ----------------------------
(* Small instances of ReviewTrack for TLC. *)
EXTENDS ReviewTrack, TLC

Symmetry == Permutations(Cards) \cup Permutations(Requests) \cup Permutations(Keys)
              \cup Permutations(Sessions)
=============================================================================
