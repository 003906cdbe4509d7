------------------------------ MODULE MCWordRows ------------------------------
(***************************************************************************)
(* The rows of a word: the L2 row, its drill steps and its log; the state  *)
(* column of the L1 row (module CardState); and what the two tracks do to  *)
(* each other (module CrossTrack).  The drill reads no state of the L1     *)
(* row, what forgetting does to an L2 row is a pause that may come at any  *)
(* time, and CrossTrack has rows of its own.  Interleaving the three would *)
(* only multiply their states, so a behaviour runs one of them, chosen at  *)
(* the start, and leaves the others as they are.                           *)
(***************************************************************************)
EXTENDS L2Drill

CONSTANTS Cards, Batches, Scheduled, MaxAnswers, Workers, MaxRatings, MaxEvents

(* The states of scheduling, and batch ids that are not one of the other   *)
(* causes of a suspension.                                                 *)
ASSUME CardStateAssumption ==
  /\ Scheduled \subseteq {"learning", "review", "relearning"}
  /\ Batches \cap {"none", "user", "sprint", "end"} = {}
  /\ MaxAnswers \in Nat
ASSUME CrossTrackAssumption == MaxRatings \in Nat /\ MaxEvents \in Nat

VARIABLES
  part,                                 \* the component that runs
  state, prior, flight, batch, sprint, cause,
  card, answers, flag, pause, failures, events, worker, promoting, settled

l1 == <<state, prior, flight, batch, sprint, cause>>
cross == <<card, answers, flag, pause, failures, events, worker, promoting, settled>>

L1 == INSTANCE CardState

Cross == INSTANCE CrossTrack WITH MaxAnswers <- MaxRatings

RowsInit ==
  /\ part \in {"drill", "state", "cross"}
  /\ Init /\ L1!Init /\ Cross!Init

RowsNext ==
  \/ part = "drill" /\ Next /\ UNCHANGED <<part, l1, cross>>
  \/ part = "state" /\ L1!Next /\ UNCHANGED <<part, vars, cross>>
  \/ part = "cross" /\ Cross!Next /\ UNCHANGED <<part, vars, l1>>

RowsSpec == RowsInit /\ [][RowsNext]_<<part, vars, l1, cross>>

-----------------------------------------------------------------------------
(* Properties of the components that are instances here *)

(* Whom forgetting or a sprint suspended can be given back, though their    *)
(* bulk statements overlap and overwrite what they have not read           *)
(* (CardState).                                                            *)
SuspensionsAreRecorded == L1!SuspensionsAreRecorded

(* The end of a sprint leaves the cards alone that have been worked on      *)
(* meanwhile, and gives the others what the plan kept (CardState).         *)
GivingBackKeepsWork == L1!GivingBackKeepsWork

(* Once the events are worked off, the pause and the flag are what the      *)
(* latest ratings of the other track ask for (CrossTrack).                 *)
TracksConverge == Cross!TracksConverge

(* The L2 row is paused for a collapse, or resumed after one, only while    *)
(* the ratings of L1 say so at that moment (CrossTrack).                   *)
PausesFollowCurrentRatings == Cross!PausesFollowCurrentRatings
=============================================================================
