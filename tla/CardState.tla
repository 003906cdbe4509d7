------------------------------ MODULE CardState ------------------------------
(***************************************************************************)
(* The state column of a card and everything that writes it: answers and   *)
(* their undo, the user's suspend, forgetting a wordbook and restoring a   *)
(* forgotten batch (ADR-0020), and a sprint plan that suspends its words   *)
(* and gives them back at its end (ADR-0041).                              *)
(*                                                                         *)
(* Single-row transactions hold the row's lock from their read to their    *)
(* write and are one step.  The bulk statements are two: under READ        *)
(* COMMITTED they find their rows, and read the state they keep for later, *)
(* in the statement's snapshot, without a lock, while the UPDATE waits for *)
(* rows that others have locked and then writes over their newest version. *)
(* Nothing serialises them: the statements of several batches, and of a    *)
(* plan, may be under way together, each with what it has read.  Creating  *)
(* a plan and ending it hold the plan's row, and exclude each other.       *)
(***************************************************************************)
EXTENDS Naturals, Sequences, SequencesExt

CONSTANTS
  Cards,      \* progress rows of one wordbook
  Batches,    \* runs of forgetting, by batch id
  Scheduled,  \* the states scheduling can give a card
  MaxAnswers  \* bound on the standing answers of a card

VARIABLES
  state,   \* user_word_progress.state; none and gone when there is no row
  prior,   \* per card: the states in the snapshots of its standing answers
  flight,  \* per bulk run: is its statement under way, and what it has read
  batch,   \* the states in the review_logs of each forgotten batch
  sprint,  \* the running plan with suspension: its suspend_snapshot
  cause    \* history: who wrote a card's suspension last

vars == <<state, prior, flight, batch, sprint, cause>>

Learning == Scheduled \cup {"new"}
States == Learning \cup {"none", "suspended", "gone"}

Exists(c) == state[c] \notin {"none", "gone"}

(* A record of states: for each card the state kept, or none. *)
Record == [Cards -> Learning \cup {"none"}]
Empty == [c \in Cards |-> "none"]
Kept(record) == {c \in Cards : record[c] # "none"}

(* Who runs a bulk statement: a batch, the making of a plan, or its end.   *)
Runs == Batches \cup {"sprint", "end"}

Closed == [open |-> FALSE, read |-> Empty]
NoSprint == [active |-> FALSE, snapshot |-> Empty]

-----------------------------------------------------------------------------

Init ==
  /\ state = [c \in Cards |-> "none"]
  /\ prior = [c \in Cards |-> <<>>]
  /\ flight = [who \in Runs |-> Closed]
  /\ batch = [b \in Batches |-> Empty]
  /\ sprint = NoSprint
  /\ cause = [c \in Cards |-> "none"]

Enqueue(c) ==
  /\ state[c] = "none"
  /\ state' = [state EXCEPT ![c] = "new"]
  /\ UNCHANGED <<prior, flight, batch, sprint, cause>>

(* submitAnswer: the scheduler decides the next state. *)
Answer(c) ==
  /\ state[c] \in Learning /\ Len(prior[c]) < MaxAnswers
  /\ \E next \in Scheduled : state' = [state EXCEPT ![c] = next]
  /\ prior' = [prior EXCEPT ![c] = Append(@, state[c])]
  /\ UNCHANGED <<flight, batch, sprint, cause>>

(* undo_review_log writes the snapshot's state back, suspended or not. *)
Undo(c) ==
  /\ Exists(c) /\ prior[c] # <<>>
  /\ state' = [state EXCEPT ![c] = Last(prior[c])]
  /\ prior' = [prior EXCEPT ![c] = Front(@)]
  /\ UNCHANGED <<flight, batch, sprint, cause>>

Suspend(c) ==
  /\ Exists(c)
  /\ state' = [state EXCEPT ![c] = "suspended"]
  /\ cause' = [cause EXCEPT ![c] = "user"]
  /\ UNCHANGED <<prior, flight, batch, sprint>>

RemoveCard(c) ==
  /\ Exists(c)
  /\ state' = [state EXCEPT ![c] = "gone"]
  /\ prior' = [prior EXCEPT ![c] = <<>>]
  /\ UNCHANGED <<flight, batch, sprint, cause>>

-----------------------------------------------------------------------------
(* Bulk suspension: read, then write what was read. *)

Forgettable(c) == state[c] \notin {"none", "gone", "suspended", "new"}
Sprintable(c) == state[c] \in Learning

Read(who, S) ==
  /\ ~flight[who].open
  /\ flight' = [flight EXCEPT ![who] =
                  [open |-> TRUE, read |-> [c \in Cards |-> IF c \in S THEN state[c] ELSE "none"]]]
  /\ UNCHANGED <<state, prior, batch, sprint, cause>>

Close(who) == flight' = [flight EXCEPT ![who] = Closed]

(* A row that was deleted meanwhile is not updated; one that was written   *)
(* meanwhile is: the conditions are in the part that reads.                *)
Hit(who) == {c \in Kept(flight[who].read) : Exists(c)}

SuspendHits(who) ==
  /\ flight[who].open
  /\ state' = [c \in Cards |-> IF c \in Hit(who) THEN "suspended" ELSE state[c]]
  /\ cause' = [c \in Cards |-> IF c \in Hit(who) THEN who ELSE cause[c]]
  /\ Close(who)

(* ForgettingService.apply keeps the confirmed anchors; every call has a   *)
(* batch id of its own.                                                    *)
ForgetRead(b) ==
  /\ batch[b] = Empty
  /\ \E anchors \in SUBSET Cards : Read(b, {c \in Cards \ anchors : Forgettable(c)})

(* One log row per candidate, even for a row that is gone.                 *)
(* The same statement inserts the log, so both are committed together.     *)
ForgetWrite(b) ==
  /\ SuspendHits(b)
  /\ batch' = [batch EXCEPT ![b] = flight[b].read]
  /\ UNCHANGED <<prior, sprint>>

(* The rows are found by the batch's log, whatever their state is by then. *)
Restore(b) ==
  /\ batch[b] # Empty
  /\ state' = [c \in Cards |-> IF c \in Kept(batch[b]) /\ Exists(c) THEN batch[b][c] ELSE state[c]]
  /\ UNCHANGED <<prior, flight, batch, sprint, cause>>

(* createPlan with suspendReview, on the words listed when it began.  The  *)
(* plan's row is inserted first, which waits for one that is still active. *)
SprintRead ==
  /\ ~sprint.active
  /\ \E words \in SUBSET Cards : Read("sprint", {c \in words : Sprintable(c)})

(* The snapshot is what UPDATE ... RETURNING returns; it is saved in the   *)
(* plan's row by the same transaction.                                     *)
Snapshot_NotSaved == Empty
Snapshot == [c \in Cards |-> IF c \in Hit("sprint") THEN flight["sprint"].read[c] ELSE "none"]

SprintWrite ==
  /\ SuspendHits("sprint")
  /\ sprint' = [active |-> TRUE, snapshot |-> Snapshot]
  /\ UNCHANGED <<prior, batch>>

(* restorePlanSuspension, when the last round ends or the plan is given    *)
(* up, with the plan's row locked.  Here the state is a condition on the   *)
(* row that is updated, so it is asked of the newest version again.        *)
EndRead ==
  /\ sprint.active /\ ~flight["end"].open
  /\ flight' = [flight EXCEPT !["end"] =
       [open |-> TRUE,
        read |-> [c \in Cards |-> IF state[c] = "suspended" THEN sprint.snapshot[c] ELSE "none"]]]
  /\ UNCHANGED <<state, prior, batch, sprint, cause>>

Restorable_AsRead(c) == c \in Kept(flight["end"].read) /\ Exists(c)
Restorable(c) == c \in Kept(flight["end"].read) /\ state[c] = "suspended"

EndWrite ==
  /\ flight["end"].open
  /\ state' = [c \in Cards |-> IF Restorable(c) THEN flight["end"].read[c] ELSE state[c]]
  /\ sprint' = NoSprint
  /\ Close("end")
  /\ UNCHANGED <<prior, batch, cause>>

(* The transaction of a bulk statement fails and is rolled back.           *)
BulkFails(who) ==
  /\ flight[who].open
  /\ Close(who)
  /\ UNCHANGED <<state, prior, batch, sprint, cause>>

Next ==
  \/ \E c \in Cards : Enqueue(c) \/ Answer(c) \/ Undo(c) \/ Suspend(c) \/ RemoveCard(c)
  \/ \E b \in Batches : ForgetRead(b) \/ ForgetWrite(b) \/ Restore(b)
  \/ SprintRead \/ SprintWrite \/ EndRead \/ EndWrite
  \/ \E who \in Runs : BulkFails(who)

Spec == Init /\ [][Next]_vars

-----------------------------------------------------------------------------

(* Type invariant. *)
TypeOK ==
  /\ state \in [Cards -> States]
  /\ prior \in [Cards -> Seq(Learning)]
  /\ flight \in [Runs -> [open : BOOLEAN, read : Record]]
  /\ batch \in [Batches -> Record]
  /\ sprint \in [active : BOOLEAN, snapshot : Record]
  /\ cause \in [Cards -> Batches \cup {"none", "user", "sprint"}]

(* A card that forgetting or a sprint suspended can be given back, in      *)
(* whatever order the statements that overlap have written: the batch or   *)
(* the running plan that suspended it last keeps a state for it, and once  *)
(* the plan has ended none of its cards is left suspended.  And all        *)
(* values have their types.                                                *)
SuspensionsAreRecorded ==
  /\ TypeOK
  /\ \A c \in Cards : state[c] = "suspended" =>
       /\ cause[c] \in Batches => c \in Kept(batch[cause[c]])
       /\ cause[c] = "sprint" => sprint.active /\ c \in Kept(sprint.snapshot)

(* The end of a sprint leaves work alone that has overtaken it: a card     *)
(* that was restored, undone and answered, or removed, when the rows are   *)
(* written - even after the end has read it as suspended - stays as it is, *)
(* and every other gets the state the plan has kept for it.                *)
GivingBackKeepsWork ==
  [][sprint.active /\ ~sprint'.active =>
       \A c \in Cards : state'[c] # state[c] =>
         /\ state[c] = "suspended"
         /\ state'[c] = sprint.snapshot[c]]_vars
=============================================================================
